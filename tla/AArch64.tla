-------------------------------- MODULE AArch64 --------------------------------
(***************************************************************************)
(* The code templates of src/src/assembler_aarch64.cc.  x19 holds the      *)
(* address of the current cell, x20 and x21 those of bf_read and bf_write. *)
(* Every instruction is four bytes long.                                   *)
(***************************************************************************)
EXTENDS Code

\* Those the code uses.
Registers == <<"x0", "x1", "x2", "x3", "x4", "x6", "x19", "x20", "x21", "x22",
               "x29", "x30", "sp">>
Arguments == <<"x0", "x1">>
Volatile  == {"x0", "x1", "x2", "x3", "x4", "x6"}

ADD(to, left, right) ==
  [do |-> "add", to |-> to, left |-> left, right |-> right, sign |-> 1, len |-> 4]
SUB(to, left, right) == [ADD(to, left, right) EXCEPT !.sign = -1]

\* ADD and SUB of an immediate, which is cut to 12 bits.
ADDI(to, from, value) == AddImm(to, from, value % ShortImm, 4)
SUBI(to, from, value) == AddImm(to, from, -(value % ShortImm), 4)

\* MADD and MSUB: acc + left * right, acc - left * right
MADD(to, left, right, acc, sign) ==
  [do |-> "madd", to |-> to, left |-> left, right |-> right, acc |-> acc, sign |-> sign, len |-> 4]

LDRB(to, base, off)   == [do |-> "load", to |-> to, base |-> base, off |-> off, len |-> 4]
STRB(from, base, off) == [do |-> "store", from |-> from, base |-> base, off |-> off, len |-> 4]
CMP(reg, value)       == [do |-> "cmp", reg |-> reg, value |-> value, len |-> 4]
MOVZ(to, value)       == Set(to, value, 4)
MOVK(to, value, hw)   == [do |-> "movk", to |-> to, value |-> value, hw |-> hw, len |-> 4]
BRK                   == [do |-> "brk", len |-> 4]

\* Branches count in instructions from their own start.
B(distance)         == Branch("always", 4 * distance - 4, 4)
BCond(when, distance) == Branch(when, 4 * Narrow(distance, BranchSize) - 4, 4)

\* A halfword of a word; negative values are those of their two's complement.
Half(value, hw) == ((value % Word) \div Halfword^hw) % Halfword

LoadImmediate64(to, value) ==
  LET Higher(hw) == IF Half(value, hw) > 0 THEN <<MOVK(to, Half(value, hw), hw)>> ELSE <<>>
  IN  <<MOVZ(to, Half(value, 0))>> \o Higher(1) \o Higher(2) \o Higher(3)

-----------------------------------------------------------------------------

EmitEntry ==
  <<Push(<<"x30", "x29">>, 4), Push(<<"x20", "x19">>, 4), Push(<<"x22", "x21">>, 4),
    Move("x29", "sp", 4), Move("x19", "x0", 4)>>
    \o LoadImmediate64("x21", WriteAddr) \o LoadImmediate64("x20", ReadAddr)

EmitExit ==
  <<Pop(<<"x21", "x22">>, 4), Pop(<<"x19", "x20">>, 4), Pop(<<"x29", "x30">>, 4), Ret(4)>>

EmitNop == [k \in 1..4 |-> Nop(4)]

Near(off) == off \in 0..(ShortImm - 1)

EmitIncrDecrCell(off, Adjust) ==
  IF Near(off)
  THEN <<LDRB("x2", "x19", off), Adjust, STRB("x2", "x19", off)>>
  ELSE LoadImmediate64("x1", off)
         \o <<ADD("x1", "x19", "x1"), LDRB("x2", "x1", 0), Adjust, STRB("x2", "x1", 0)>>

EmitIncrCell(amount, off) == EmitIncrDecrCell(off, ADDI("x2", "x2", amount))
EmitDecrCell(amount, off) == EmitIncrDecrCell(off, SUBI("x2", "x2", amount))

EmitImullCell(amount, off) ==
  <<LDRB("x2", "x19", 0)>> \o LoadImmediate64("x3", off)
    \o <<ADD("x6", "x19", "x3"), LDRB("x4", "x6", 0), MOVZ("x1", amount),
         MADD("x2", "x2", "x1", "x4", 1), STRB("x2", "x6", 0)>>

EmitDmullCell(amount, off) ==
  <<LDRB("x1", "x19", 0)>> \o LoadImmediate64("x4", off)
    \o <<ADD("x6", "x19", "x4"), LDRB("x2", "x6", 0), MOVZ("x0", amount),
         MADD("x1", "x1", "x0", "x2", -1), STRB("x1", "x6", 0)>>

\* LoadImmediate32 of a byte is one MOVZ.
EmitSetCell(value, off) ==
  <<MOVZ("x2", value)>>
    \o (IF Near(off) THEN <<STRB("x2", "x19", off)>>
        ELSE LoadImmediate64("x1", off) \o <<ADD("x1", "x19", "x1"), STRB("x2", "x1", 0)>>)

\* By a number of either sign; nothing for 0.
EmitIncrPtr(amount) ==
  IF amount = 0 THEN <<>>
  ELSE LET size == IF amount < 0 THEN -amount ELSE amount
       IN  IF Near(size)
           THEN <<IF amount > 0 THEN ADDI("x19", "x19", size) ELSE SUBI("x19", "x19", size)>>
           ELSE LoadImmediate64("x1", size)
                  \o <<IF amount > 0 THEN ADD("x19", "x19", "x1") ELSE SUB("x19", "x19", "x1")>>
EmitDecrPtr(amount) == EmitIncrPtr(-amount)

EmitRead(mode) == <<Move("x0", "x19", 4), MOVZ("x1", ModeNumber(mode)), Call("x20", 4)>>
EmitWrite      == <<Move("x0", "x19", 4), Call("x21", 4)>>

\* PrepareJump leaves room for the branch that PatchJump puts in.
EmitJump(code) == <<LDRB("x1", "x19", 0), CMP("x1", 0), BRK>>
Jump(code, distance) == BCond(IF code = "JZ" THEN "zero" ELSE "nonzero", distance \div 4 + 1)

\* @mutant: the search branches back behind its move.
EmitFindCellStuck(value, step) ==
  <<B(2), IF step > 0 THEN ADDI("x19", "x19", step) ELSE SUBI("x19", "x19", -step),
    LDRB("x1", "x19", 0), CMP("x1", value), BCond("nonzero", -2)>>

EmitFindCell(value, step) ==
  <<B(2), IF step > 0 THEN ADDI("x19", "x19", step) ELSE SUBI("x19", "x19", -step),
    LDRB("x1", "x19", 0), CMP("x1", value), BCond("nonzero", -3)>>

\* What Compile emits for an operation; a label is only remembered.
Translation(op, mode) ==
  LET amount == op.op1 % ByteSize
  IN  CASE op.code = "NOP"       -> EmitNop
        [] op.code = "INCR_CELL" -> EmitIncrCell(amount, op.op2)
        [] op.code = "DECR_CELL" -> EmitDecrCell(amount, op.op2)
        [] op.code = "IMUL_CELL" -> EmitImullCell(amount, op.op2)
        [] op.code = "DMUL_CELL" -> EmitDmullCell(amount, op.op2)
        [] op.code = "SET_CELL"  -> EmitSetCell(amount, op.op2)
        [] op.code = "INCR_PTR"  -> EmitIncrPtr(op.op1)
        [] op.code = "DECR_PTR"  -> EmitDecrPtr(op.op1)
        [] op.code = "READ"      -> EmitIncrPtr(op.op2) \o EmitRead(mode) \o EmitDecrPtr(op.op2)
        [] op.code = "WRITE"     -> EmitIncrPtr(op.op2) \o EmitWrite \o EmitDecrPtr(op.op2)
        [] op.code \in JumpCodes -> EmitJump(op.code)
        [] op.code = "FIND_CELL_HIGH" -> EmitFindCell(amount, op.op2)
        [] op.code = "FIND_CELL_LOW"  -> EmitFindCell(amount, -op.op2)
        [] op.code = "LABEL"     -> <<>>
================================================================================

-------------------------------- MODULE X86_64 --------------------------------
(***************************************************************************)
(* The code templates of src/src/assembler_x86_64.cc on Linux.  rdx holds  *)
(* the address of the current cell, rbp the stack frame.                   *)
(***************************************************************************)
EXTENDS Code

\* Entry pushes them in this order.
Saved == <<"rbp", "r15", "r14", "r13", "r12", "r11", "r10", "r9", "r8",
           "rdi", "rsi", "rsp", "rbx", "rdx", "rcx", "rax">>

Registers == Saved
Arguments == <<"rdi", "rsi">>
Volatile  == {"rax", "rcx", "rdx", "rsi", "rdi", "r8", "r9", "r10", "r11"}

\* r8 to r15 need a prefix.
RegLen(r) == IF r \in {"r8", "r9", "r10", "r11", "r12", "r13", "r14", "r15"} THEN 2 ELSE 1

\* @mutant: -128 to 128 are taken for 8 bits.
ShortClosed(n) == n <= ByteSize \div 2 /\ n >= -(ByteSize \div 2)

\* Whether a displacement or an amount is put into 8 bits, and what the
\* processor then reads.
Short(n)    == n < ByteSize \div 2 /\ n > -(ByteSize \div 2)
Encoded(n)  == IF Short(n) THEN Narrow(n, ByteSize) ELSE n
EncLen(n)   == IF Short(n) THEN 1 ELSE 4
DispLen(off) == IF off = 0 THEN 0 ELSE EncLen(off)

\* ADD, SUB and MOV byte[rdx+off], value.  A SUB adds the negative value.
AddByte(off, value) ==
  [do |-> "addbyte", base |-> "rdx", off |-> Encoded(off), value |-> value, len |-> 3 + DispLen(off)]
MoveByte(off, value) ==
  [do |-> "storeimm", base |-> "rdx", off |-> Encoded(off), value |-> value, len |-> 3 + DispLen(off)]

\* MOV low byte of to, byte[rdx]; ADD or SUB byte[rdx+off], al
LoadLow(to) == [do |-> "loadlow", to |-> to, base |-> "rdx", off |-> 0, len |-> 2]
AddLow(off, sign) ==
  [do |-> "addlow", base |-> "rdx", off |-> Encoded(off), from |-> "rax", sign |-> sign,
   len |-> 2 + EncLen(off)]

\* MUL rbx: rdx and rax take the product.
Mul == [do |-> "mul", by |-> "rbx", len |-> 3]

\* MOV [rbp], rdx and MOV rdx, [rbp]
SaveCell    == [do |-> "save", base |-> "rbp", from |-> "rdx", len |-> 4]
RestoreCell == [do |-> "restore", base |-> "rbp", to |-> "rdx", len |-> 4]

\* CMP byte[rdx], value
Compare(value) == [do |-> "cmpbyte", base |-> "rdx", off |-> 0, value |-> value, len |-> 3]

-----------------------------------------------------------------------------

\* Ten slots of eight bytes are left below the saved registers.
EmitEntry ==
  [k \in DOMAIN Saved |-> Push(<<Saved[k]>>, RegLen(Saved[k]))]
    \o <<Move("rdx", "rdi", 3), Move("rbp", "rsp", 3), AddImm("rsp", "rsp", -10, 4)>>

\* @mutant: two registers are restored in the order they were saved.
EmitExitSwapped ==
  <<AddImm("rsp", "rsp", 10, 4)>>
    \o [k \in DOMAIN Saved |->
          LET r == CASE k = 12 -> "r13" [] k = 13 -> "r12" [] OTHER -> Reverse(Saved)[k]
          IN  Pop(<<r>>, RegLen(r))]
    \o <<Ret(1)>>

EmitExit ==
  <<AddImm("rsp", "rsp", 10, 4)>>
    \o [k \in DOMAIN Saved |-> LET r == Reverse(Saved)[k] IN Pop(<<r>>, RegLen(r))]
    \o <<Ret(1)>>

EmitNop == [k \in 1..4 |-> Nop(1)]

EmitIncrCell(amount, off) == <<AddByte(off, amount)>>
EmitDecrCell(amount, off) == <<AddByte(off, -amount)>>

\* The product of the current cell and the amount, in al.
Product(amount) ==
  IF amount = 1 THEN <<LoadLow("rax")>>
  ELSE <<Move("r8", "rdx", 3), Set("rax", amount, 7), LoadLow("rbx"), Mul, Move("rdx", "r8", 3)>>

EmitImullCell(amount, off) == Product(amount) \o <<AddLow(off, 1)>>
EmitDmullCell(amount, off) == Product(amount) \o <<AddLow(off, -1)>>

EmitSetCell(value, off) == <<MoveByte(off, value)>>

EmitIncrPtr(amount) == <<AddImm("rdx", "rdx", Encoded(amount), 3 + EncLen(amount))>>
EmitDecrPtr(amount) == <<AddImm("rdx", "rdx", -Encoded(amount), 3 + EncLen(amount))>>

\* @mutant: rdx is left as bf_write leaves it.
EmitWriteUnrestored ==
  <<SaveCell, Set("rax", WriteAddr, 10), Move("rdi", "rdx", 3), Call("rax", 2)>>

EmitRead(mode) ==
  <<SaveCell, Set("rax", ReadAddr, 10), Move("rdi", "rdx", 3), Set("rsi", ModeNumber(mode), 5),
    Call("rax", 2), RestoreCell>>
EmitWrite ==
  <<SaveCell, Set("rax", WriteAddr, 10), Move("rdi", "rdx", 3), Call("rax", 2), RestoreCell>>

\* The distance of the jump, its last four bytes, is patched later.
Jump(code, distance) == Branch(IF code = "JZ" THEN "zero" ELSE "nonzero", distance, 6)
EmitJump(code) == <<Compare(0), Jump(code, 0)>>

EmitFindCell(value, step) ==
  <<Compare(value), Branch("zero", 9, 2), AddImm("rdx", "rdx", step, 7), Branch("always", -14, 2)>>

\* What Compile emits for an operation; a label is only remembered.
Translation(op, mode) ==
  LET amount == op.op1 % ByteSize
  IN  CASE op.code = "NOP"       -> EmitNop
        [] op.code = "INCR_CELL" -> EmitIncrCell(amount, op.op2)
        [] op.code = "DECR_CELL" -> EmitDecrCell(amount, op.op2)
        [] op.code = "IMUL_CELL" -> EmitImullCell(amount, op.op2)
        [] op.code = "DMUL_CELL" -> EmitDmullCell(amount, op.op2)
        [] op.code = "SET_CELL"  -> EmitSetCell(amount, op.op2)
        [] op.code = "INCR_PTR"  -> EmitIncrPtr(op.op1)
        [] op.code = "DECR_PTR"  -> EmitDecrPtr(op.op1)
        [] op.code = "READ"      -> EmitIncrPtr(op.op2) \o EmitRead(mode) \o EmitDecrPtr(op.op2)
        [] op.code = "WRITE"     -> EmitIncrPtr(op.op2) \o EmitWrite \o EmitDecrPtr(op.op2)
        [] op.code \in JumpCodes -> EmitJump(op.code)
        [] op.code = "FIND_CELL_HIGH" -> EmitFindCell(amount, op.op2)
        [] op.code = "FIND_CELL_LOW"  -> EmitFindCell(amount, -op.op2)
        [] op.code = "LABEL"     -> <<>>
===============================================================================

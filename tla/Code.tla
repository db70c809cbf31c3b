--------------------------------- MODULE Code ---------------------------------
(***************************************************************************)
(* Machine code as data: an instruction is a record that says what it does *)
(* and how long it is, a template a sequence of them, and code in memory a *)
(* function from the offset an instruction starts at.  The assemblers of   *)
(* src/src emit the bytes; here an encoding is what the processor reads    *)
(* from it, so that a field too narrow for its value changes the value.    *)
(***************************************************************************)
EXTENDS Instr

CONSTANTS Halfword,   \* the values of 16 bits
          ShortImm,   \* the values of a 12-bit immediate of AArch64
          BranchSize, \* the values of the distance of a conditional branch of AArch64
          ReadAddr, WriteAddr  \* the addresses of bf_read and bf_write

\* Registers hold 64 bits, and a cell fits into every immediate.
Word == Halfword * Halfword * Halfword * Halfword

ASSUME CodeAssumption ==
  /\ {Halfword, ShortImm, BranchSize} \subseteq Nat
  /\ Halfword >= 4 /\ BranchSize >= 8 /\ BranchSize % 2 = 0
  /\ ByteSize <= ShortImm /\ ShortImm <= Halfword
  /\ {ReadAddr, WriteAddr} \subseteq 1..(Word - 1) /\ ReadAddr # WriteAddr

\* x stored in a field of so many values and read back with its sign.
Narrow(x, values) == ((x + values \div 2) % values) - values \div 2

Index(seq, x) == CHOOSE n \in DOMAIN seq : seq[n] = x

\* The number of an EOF mode, as READ passes it to bf_read.
ModeNumber(mode) == Index(EOFModes, mode)

\* Where each instruction of a template ends if it is laid out from a place on.
Ends(at, instrs) ==
  LET end[k \in 0..Len(instrs)] == IF k = 0 THEN at ELSE end[k - 1] + instrs[k].len
  IN  end

CodeLength(instrs) == Ends(0, instrs)[Len(instrs)]

Placed(at, instrs) ==
  LET end == Ends(at, instrs)
  IN  [b \in {end[k - 1] : k \in DOMAIN instrs} |->
         instrs[CHOOSE k \in DOMAIN instrs : end[k - 1] = b]]

\* f, and g where f is not defined.
Over(f, g) == [x \in DOMAIN f \cup DOMAIN g |-> IF x \in DOMAIN f THEN f[x] ELSE g[x]]

-----------------------------------------------------------------------------
(* Instructions both architectures have *)

Nop(len) == [do |-> "nop", len |-> len]

\* Registers are pushed in the order given; the last is on top of the stack.
Push(rs, len) == [do |-> "push", regs |-> rs, len |-> len]
Pop(rs, len)  == [do |-> "pop", regs |-> rs, len |-> len]

\* to := from, to := value, to := from + value
Move(to, from, len)         == [do |-> "move", to |-> to, from |-> from, len |-> len]
Set(to, value, len)         == [do |-> "set", to |-> to, value |-> value, len |-> len]
AddImm(to, from, value, len) ==
  [do |-> "addimm", to |-> to, from |-> from, value |-> value, len |-> len]

\* Branches are relative to the end of the instruction.
Branch(when, distance, len) ==
  [do |-> "branch", when |-> when, distance |-> distance, len |-> len]
Call(fn, len) == [do |-> "call", fn |-> fn, len |-> len]
Ret(len)      == [do |-> "ret", len |-> len]
===============================================================================

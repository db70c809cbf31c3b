---------------------------- MODULE OptDoubleGuard ----------------------------
(***************************************************************************)
(* src/src/opt_double_guard.cc: a jump that is only reached with the cell  *)
(* the jump before it has just tested, and that cannot be taken, goes.     *)
(***************************************************************************)
EXTENDS Pass

\* @mutant: only jumps and moves end the scan, as if no cell were ever written.
EndsScanLate(op) == op.code \in PtrCodes \cup FindCodes \cup JumpCodes

\* The operations that use the current cell or move away from it.
EndsScan(op) ==
  \/ op.code \in CellCodes \cup MulCodes \cup IOCodes \cup {"SET_CELL"} /\ op.op2 = 0
  \/ op.code \in PtrCodes \cup FindCodes \cup JumpCodes

\* Where the scan that starts behind the jump at from ends, 0 for End().
ScanEnd(from) == SelectInSubSeq(stream, from + 1, Len(stream), EndsScan)

\* The jump at to repeats the test of the one at from.
Repeats(from, to) == to # 0 /\ stream[to].code = stream[from].code

DoubleGuard ==
  \/ \E from \in HereAt(JumpCodes) : \E to \in {ScanEnd(from)} :
       \/ /\ Repeats(from, to)
          /\ \E rest \in {Delete(stream, stream[to].id)} : StepOver(Delete(rest, stream[to].op1))
       \/ ~Repeats(from, to) /\ PassOver(from)
  \/ \E at \in Here \ HereAt(JumpCodes) : PassOver(at)
===============================================================================

----------------------------- MODULE OptDelayPtr -----------------------------
(***************************************************************************)
(* src/src/opt_delay_ptr.cc: pointer moves are held back and become the    *)
(* offsets of the operations they would have preceded.                     *)
(***************************************************************************)
EXTENDS Pass

VARIABLE offset  \* the moves held back

\* Operations without an offset: the pointer has to be right before them.
FlushCodes == MulCodes \cup FindCodes \cup JumpCodes \cup {"LABEL"}

OffsetCodes == CellCodes \cup IOCodes \cup {"SET_CELL"}

Abs(n) == IF n > 0 THEN n ELSE -n

\* The moves held back, made in front of the iterator.
Flushed == InsertBefore(stream, iter, IF offset > 0 THEN "INCR_PTR" ELSE "DECR_PTR", Abs(offset), 0)

FlushMoves ==
  HereAt(FlushCodes) # {} /\ offset # 0 /\ StepOver(Flushed) /\ offset' = 0

NothingToFlush ==
  \E at \in HereAt(FlushCodes \cup {"NOP"}) :
    /\ stream[at].code # "NOP" => offset = 0
    /\ PassOver(at) /\ UNCHANGED offset

TakeOffset ==
  \E at \in HereAt(OffsetCodes) :
    StepBeyond(at, 1, [stream EXCEPT ![at].op2 = offset]) /\ UNCHANGED offset

Held(move) == IF move.code = "INCR_PTR" THEN offset + move.op1 ELSE offset - move.op1

\* @mutant: the iterator is left on the deleted move.
HoldBackMoveThere ==
  \E at \in HereAt(PtrCodes) :
    /\ offset' = Held(stream[at])
    /\ stream' = Delete(stream, iter) /\ UNCHANGED iter

HoldBackMove ==
  \E at \in HereAt(PtrCodes) :
    /\ offset' = Held(stream[at])
    /\ StepBeyond(at, 1, Delete(stream, iter))

DelayPtr == FlushMoves \/ NothingToFlush \/ TakeOffset \/ HoldBackMove
==============================================================================

------------------------------- MODULE OptPeep -------------------------------
(***************************************************************************)
(* src/src/opt_peep.cc: three loops over the stream, one after the other.  *)
(***************************************************************************)
EXTENDS Pass

\* JZ LABEL code JNZ LABEL, the image of a loop around one operation.
LoopAround(at, codes) ==
  \E code \in codes : LookingAt(stream, at, <<"JZ", "LABEL", code, "JNZ", "LABEL">>)

\* The jumps and labels of the five operations belong together.
Closed(at) == /\ stream[at].op1 = stream[at + 4].id
              /\ stream[at + 3].op1 = stream[at + 1].id

\* A step that turns the jump at at into an operation and deletes the rest.
LoopBecomes(at, code, op1, op2) ==
  StepBeyond(at, 5, DeleteRange([stream EXCEPT ![at] = Operation(iter, code, op1, op2)],
                                at + 1, at + 4))

\* Adding an odd amount over and over brings every cell to zero.
ClearsCell(at) == Closed(at) /\ stream[at + 2].op1 % 2 = 1

ReplaceSingleInstructionLoops ==
  \E at \in Here :
    \/ LoopAround(at, CellCodes) /\ ClearsCell(at) /\ LoopBecomes(at, "SET_CELL", 0, stream[at].op2)
    \/ LoopAround(at, CellCodes) /\ ~ClearsCell(at) /\ StepBeyond(at, 5, stream)
    \/ ~LoopAround(at, CellCodes) /\ PassOver(at)

FindCode(op) == IF op.code = "INCR_PTR" THEN "FIND_CELL_HIGH" ELSE "FIND_CELL_LOW"

ReplaceFindCellLoops ==
  \E at \in Here :
    \/ /\ LoopAround(at, PtrCodes)
       /\ IF Closed(at)
          THEN LoopBecomes(at, FindCode(stream[at + 2]), 0, stream[at + 2].op1)
          ELSE StepBeyond(at, 5, stream)
    \/ ~LoopAround(at, PtrCodes) /\ PassOver(at)

Merged(set, adjust) ==
  IF adjust.code = "INCR_CELL" THEN (set.op1 + adjust.op1) % ByteSize
                               ELSE (set.op1 - adjust.op1 + ByteSize) % ByteSize

SetAndAdjust(at) == \E code \in CellCodes : LookingAt(stream, at, <<"SET_CELL", code>>)

\* The iterator stays: another operation to merge may follow.  With different
\* offsets the code would look at the two operations forever; no step.
MergeSetIncrDecr ==
  \E at \in Here :
    \/ /\ SetAndAdjust(at)
       /\ stream[at].op2 = stream[at + 1].op2
       /\ stream' = DeleteRange([stream EXCEPT ![at].op1 = Merged(stream[at], stream[at + 1])],
                                at + 1, at + 1)
       /\ UNCHANGED iter
    \/ ~SetAndAdjust(at) /\ PassOver(at)
==============================================================================

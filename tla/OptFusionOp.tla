----------------------------- MODULE OptFusionOp -----------------------------
(***************************************************************************)
(* src/src/opt_fusion_op.cc: runs of one operation become one operation.   *)
(***************************************************************************)
EXTENDS Pass

\* The positions of operations with the code of the one at from.
SameCode(from) == {i \in DOMAIN stream : stream[i].code = stream[from].code}
SameCell(from) == {i \in SameCode(from) : stream[i].op2 = stream[from].op2}

\* The last position of the run of such operations that starts at from.
RunEnd(from, same) == Max({to \in from..Len(stream) : from..to \subseteq same})

\* The sum of the amounts, which wraps like a cell.  It is counted, each
\* operation contributing its own units, for no sum needs recursion then.
Units(i) == {i} \X (1..stream[i].op1)
Amount(from, to) == Cardinality(UNION {Units(i) : i \in from..to}) % ByteSize

\* The run becomes its first operation, with the amount of them all.
Fused(from, to, amount) ==
  DeleteRange([stream EXCEPT ![from].op1 = amount], from + 1, to)

\* @mutant: a run that wraps to nothing is kept, with amount 0.
FuseCellsAlways(from) ==
  \E to \in {RunEnd(from, SameCell(from))} :
    StepBeyond(from, to - from + 1, Fused(from, to, Amount(from, to)))

\* @mutant: the iterator is left on the first operation of the run.
FuseCellsInPlace(from) ==
  \E to \in {RunEnd(from, SameCell(from))} :
    stream' = Fused(from, to, Amount(from, to)) /\ UNCHANGED iter

\* A run that wraps to nothing is deleted altogether.
FuseCells(from) ==
  \E to \in {RunEnd(from, SameCell(from))} :
    \E amount \in {Amount(from, to)} :
      StepBeyond(from, to - from + 1,
                 IF amount = 0 THEN DeleteRange(stream, from, to)
                               ELSE Fused(from, to, amount))

\* The amount of moves wraps just like that of cells, but the run is kept.
FusePtr(from) ==
  \E to \in {RunEnd(from, SameCode(from))} :
    StepBeyond(from, to - from + 1, Fused(from, to, Amount(from, to)))

FusionOp ==
  \/ \E at \in HereAt(CellCodes) : FuseCells(at)
  \/ \E at \in HereAt(PtrCodes) : FusePtr(at)
  \/ \E at \in Here \ HereAt(CellCodes \cup PtrCodes) : PassOver(at)
===============================================================================

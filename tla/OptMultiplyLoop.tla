--------------------------- MODULE OptMultiplyLoop ---------------------------
(***************************************************************************)
(* src/src/opt_multiply_loop.cc: an innermost loop that only counts its    *)
(* cell down by one and adds to others becomes multiplications.            *)
(***************************************************************************)
EXTENDS Pass

\* The positions between the label at start and the backward jump at end.
Body(start, end) == (start + 1)..(end - 1)

Innermost(start, end) == \A i \in Body(start, end) : ~IsJump(stream[i])

CountsDown(op) == op.code = "DECR_CELL" /\ op.op1 = 1 /\ op.op2 = 0

TouchesCounter(op) == op.op2 = 0

Multiplicative(start, end) ==
  /\ \A i \in Body(start, end) : stream[i].code \in CellCodes
  /\ \E only \in Body(start, end) :
       /\ {i \in Body(start, end) : TouchesCounter(stream[i])} = {only}
       /\ CountsDown(stream[only])

Multiplying(op) ==
  [op EXCEPT !.code = IF op.code = "INCR_CELL" THEN "IMUL_CELL" ELSE "DMUL_CELL"]

\* The loop without what counts it down, the rest of it made multiplications.
Multiplications(start, end) ==
  LET counter == CHOOSE i \in Body(start, end) : CountsDown(stream[i])
      body == [i \in DOMAIN stream |->
                 IF i \in Body(start, end) THEN Multiplying(stream[i]) ELSE stream[i]]
  IN  DeleteRange(body, counter, counter)

\* try_optimize_loop: the counter's decrement goes, SET_CELL 0 comes at the
\* end; the caller then deletes the label and the backward jump.
Multiply(start, end) ==
  \E s1 \in {Multiplications(start, end)} :
  \E s2 \in {InsertBefore(s1, stream[end].id, "SET_CELL", 0, 0)} :
  \E s3 \in {Delete(s2, stream[start].id)} :
    StepBeyond(end, 2, Delete(s3, stream[end].id))

MultiplyLoop ==
  \/ \E end \in HereAt({"JNZ"}) : \E start \in {Position(stream, stream[end].op1)} :
       \/ Innermost(start, end) /\ Multiplicative(start, end) /\ Multiply(start, end)
       \/ /\ Innermost(start, end) /\ ~Multiplicative(start, end)
          /\ StepBeyond(end, 2, stream)
       \/ ~Innermost(start, end) /\ PassOver(end)
  \/ \E at \in Here \ HereAt({"JNZ"}) : PassOver(at)
==============================================================================

----------------------------- MODULE OpSequence -----------------------------
(***************************************************************************)
(* What src/src/instr.h promises its clients: an operation stream is a     *)
(* finite sequence of distinct operations, and an iterator stands on one   *)
(* of them or at the end.  OperationStream, the doubly linked list, is     *)
(* shown to implement this specification.                                  *)
(***************************************************************************)
EXTENDS Integers, Sequences, SequencesExt

CONSTANTS Op,   \* the operations that can be allocated
          Null  \* End(): the position behind the last operation

VARIABLES order,  \* the operations of the stream, first to last
          iter    \* the operation the iterator stands on, or Null

vars == <<order, iter>>

Fresh == Op \ ToSet(order)

Position(op) == CHOOSE i \in DOMAIN order : order[i] = op

\* The neighbour d places away, Null when there is none.
Neighbour(op, d) ==
  LET i == Position(op) + d IN IF i \in DOMAIN order THEN order[i] ELSE Null

Init == order = <<>> /\ iter = Null

Insert(i, op) == order' = InsertAt(order, i, op) /\ UNCHANGED iter

AppendOp(op) == op \in Fresh /\ Insert(Len(order) + 1, op)
Prepend(op)  == op \in Fresh /\ Insert(1, op)
InsertBefore(op, at) ==
  /\ op \in Fresh
  /\ Insert(IF at = Null THEN Len(order) + 1 ELSE Position(at), op)

Delete(op) == order' = RemoveAt(order, Position(op))

DeleteOther(op) == op \in ToSet(order) \ {iter} /\ Delete(op) /\ UNCHANGED iter

\* stream.Delete(iter++): the iterator has moved on when its operation goes.
DeleteAndAdvance ==
  iter # Null /\ iter' = Neighbour(iter, 1) /\ Delete(iter)

Swap(left, right) ==
  /\ {left, right} \subseteq ToSet(order)
  /\ order' = [i \in DOMAIN order |-> CASE order[i] = left  -> right
                                        [] order[i] = right -> left
                                        [] OTHER            -> order[i]]
  /\ UNCHANGED iter

Begin   == iter' = (IF order = <<>> THEN Null ELSE order[1])
Advance == iter # Null /\ iter' = Neighbour(iter, 1)
Retreat == iter' = IF iter # Null THEN Neighbour(iter, -1)
                   ELSE IF order = <<>> THEN Null ELSE order[Len(order)]
JumpTo(op) == op \in ToSet(order) /\ iter' = op

Move == (Begin \/ Advance \/ Retreat \/ \E op \in Op : JumpTo(op)) /\ UNCHANGED order

Next == \/ \E op \in Op : \/ AppendOp(op) \/ Prepend(op) \/ DeleteOther(op)
                          \/ \E at \in Op \cup {Null} :
                               at \in ToSet(order) \cup {Null} /\ InsertBefore(op, at)
                          \/ \E right \in Op : Swap(op, right)
        \/ DeleteAndAdvance
        \/ Move

Spec == Init /\ [][Next]_vars
=============================================================================

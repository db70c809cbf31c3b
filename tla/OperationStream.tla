--------------------------- MODULE OperationStream ---------------------------
(***************************************************************************)
(* The doubly linked list of src/src/instr.h (class OperationStream and    *)
(* its Iterator) with Swap of src/src/instr.cc.  An operation is a node;   *)
(* its op code and operands are payload here (module Instr gives them      *)
(* meaning).  A node that is freed can be allocated again, as an address   *)
(* can.  The field m.length is left out: nothing in the program reads it.  *)
(* One iterator is modelled, used as the optimizer passes use theirs: the  *)
(* operation it stands on is only removed by stream.Delete(iter++).        *)
(***************************************************************************)
EXTENDS Integers, Sequences, FiniteSets

CONSTANTS Op,   \* the addresses operator new can return
          Null  \* nullptr

ASSUME NullAssumption == Null \notin Op

VARIABLES head, tail,  \* first and last node, Null when empty
          next, prev,  \* the links of every node
          live,        \* the allocated nodes
          iter         \* Iterator::m.current

list == <<head, tail, next, prev, live>>
vars == <<head, tail, next, prev, live, iter>>

OpOrNull == Op \cup {Null}

TypeOK ==
  /\ {head, tail, iter} \subseteq OpOrNull
  /\ next \in [Op -> OpOrNull]
  /\ prev \in [Op -> OpOrNull]
  /\ live \subseteq Op

Init ==
  /\ head = Null /\ tail = Null /\ iter = Null
  /\ next = [op \in Op |-> Null]
  /\ prev = [op \in Op |-> Null]
  /\ live = {}

-----------------------------------------------------------------------------
(* Insertion.  Operation::Allocate clears both links of the new node. *)

Allocate(op) == op \in Op \ live /\ live' = live \cup {op}

AddOnly(op) ==
  /\ head = Null
  /\ head' = op /\ tail' = op
  /\ next' = [next EXCEPT ![op] = Null]
  /\ prev' = [prev EXCEPT ![op] = Null]

AddLast(op) ==
  /\ head # Null
  /\ next' = [next EXCEPT ![op] = Null, ![tail] = op]
  /\ prev' = [prev EXCEPT ![op] = tail]
  /\ tail' = op
  /\ UNCHANGED head

AddFirst(op) ==
  /\ head # Null
  /\ next' = [next EXCEPT ![op] = head]
  /\ prev' = [prev EXCEPT ![op] = Null, ![head] = op]
  /\ head' = op
  /\ UNCHANGED tail

\* @mutant: the link back from the following node is forgotten.
AddBetweenOneWay(op, at) ==
  /\ next' = [next EXCEPT ![prev[at]] = op, ![op] = at]
  /\ prev' = [prev EXCEPT ![op] = prev[at]]
  /\ UNCHANGED <<head, tail>>

AddBetween(op, at) ==
  /\ next' = [next EXCEPT ![prev[at]] = op, ![op] = at]
  /\ prev' = [prev EXCEPT ![at] = op, ![op] = prev[at]]
  /\ UNCHANGED <<head, tail>>

AppendOp(op) == (AddOnly(op) \/ AddLast(op)) /\ Allocate(op) /\ UNCHANGED iter

Prepend(op) == (AddOnly(op) \/ AddFirst(op)) /\ Allocate(op) /\ UNCHANGED iter

InsertBefore(op, at) ==
  \/ at = Null /\ AppendOp(op)
  \/ at \in live /\ prev[at] = Null /\ Prepend(op)
  \/ /\ at \in live /\ prev[at] # Null
     /\ AddBetween(op, at) /\ Allocate(op) /\ UNCHANGED iter

-----------------------------------------------------------------------------
(* Removal *)

UnlinkOnly(op) ==
  /\ head = op /\ tail = op
  /\ head' = Null /\ tail' = Null
  /\ next' = [next EXCEPT ![op] = Null]
  /\ prev' = [prev EXCEPT ![op] = Null]

UnlinkFirst(op) ==
  /\ head = op /\ tail # op
  /\ head' = next[op]
  /\ prev' = [prev EXCEPT ![next[op]] = Null, ![op] = Null]
  /\ next' = [next EXCEPT ![op] = Null]
  /\ UNCHANGED tail

UnlinkLast(op) ==
  /\ head # op /\ tail = op
  /\ tail' = prev[op]
  /\ next' = [next EXCEPT ![prev[op]] = Null, ![op] = Null]
  /\ prev' = [prev EXCEPT ![op] = Null]
  /\ UNCHANGED head

UnlinkBetween(op) ==
  /\ head # op /\ tail # op
  /\ next' = [next EXCEPT ![prev[op]] = next[op], ![op] = Null]
  /\ prev' = [prev EXCEPT ![next[op]] = prev[op], ![op] = Null]
  /\ UNCHANGED <<head, tail>>

Unlink(op) == \/ UnlinkOnly(op) \/ UnlinkFirst(op)
              \/ UnlinkLast(op) \/ UnlinkBetween(op)

Delete(op) == op \in live /\ Unlink(op) /\ live' = live \ {op}

DeleteOther(op) == op # iter /\ Delete(op) /\ UNCHANGED iter

\* @mutant: the iterator is advanced after its operation was deleted.
DeleteThenAdvance == Delete(iter) /\ iter' = next'[iter]

\* @mutant: the iterator is left on the deleted operation.
DeleteOnly == Delete(iter) /\ UNCHANGED iter

\* stream.Delete(iter++)
DeleteAndAdvance == Delete(iter) /\ iter' = next[iter]

-----------------------------------------------------------------------------
(* Swap exchanges two nodes by exchanging their links; the neighbours'     *)
(* links follow.  The assignments are kept in the order of the code, which *)
(* is what makes it work for adjacent nodes.                               *)

\* n.m.next->m.prev = n, unless n is last; and its mirror image.
PointBack(nx, pv, n)  == IF nx[n] # Null THEN [pv EXCEPT ![nx[n]] = n] ELSE pv
PointForth(nx, pv, n) == IF pv[n] # Null THEN [nx EXCEPT ![pv[n]] = n] ELSE nx

Exchange(f, a, b) == [f EXCEPT ![a] = f[b], ![b] = f[a]]

SwappedEnd(end, left, right) ==
  IF end = left THEN right ELSE IF end = right THEN left ELSE end

\* @mutant: both link fields are exchanged before any neighbour is told.
SwapLinksAtOnce(left, right) ==
  LET next1 == Exchange(next, left, right)
      prev1 == Exchange(prev, left, right)
  IN  /\ prev' = PointBack(next1, PointBack(next1, prev1, left), right)
      /\ next' = PointForth(PointForth(next1, prev1, left), prev1, right)

SwapLinks(left, right) ==
  LET next1 == Exchange(next, left, right)
      prev1 == PointBack(next1, PointBack(next1, prev, left), right)
      prev2 == Exchange(prev1, left, right)
      next2 == PointForth(next1, prev2, left)
  IN  prev' = prev2 /\ next' = PointForth(next2, prev2, right)

Swap(left, right) ==
  /\ {left, right} \subseteq live
  /\ head' = SwappedEnd(head, left, right)
  /\ tail' = SwappedEnd(tail, left, right)
  /\ SwapLinks(left, right)
  /\ UNCHANGED <<live, iter>>

-----------------------------------------------------------------------------
(* Iteration *)

Begin   == iter' = head
Advance == iter # Null /\ iter' = next[iter]
Retreat == iter' = IF iter # Null THEN prev[iter] ELSE tail
JumpTo(op) == op \in live /\ iter' = op

Move == (Begin \/ Advance \/ Retreat \/ \E op \in Op : JumpTo(op)) /\ UNCHANGED list

Next ==
  \/ \E op \in Op : \/ AppendOp(op)
                    \/ Prepend(op)
                    \/ \E at \in OpOrNull : InsertBefore(op, at)
                    \/ DeleteOther(op)
                    \/ \E right \in Op : Swap(op, right)
  \/ DeleteAndAdvance
  \/ Move

Spec == Init /\ [][Next]_vars

-----------------------------------------------------------------------------
(* Properties *)

\* The list seen from any one node: it is linked both ways with its
\* neighbours, the ends are where head and tail say, and no link leads to a
\* freed node.
Linked ==
  /\ head = Null <=> tail = Null
  /\ {head, tail} \subseteq live \cup {Null}
  /\ \A n \in live :
       /\ next[n] \in live \cup {Null} /\ prev[n] \in live \cup {Null}
       /\ prev[n] = Null <=> head = n
       /\ next[n] = Null <=> tail = n
       /\ next[n] # Null => prev[next[n]] = n
       /\ prev[n] # Null => next[prev[n]] = n

\* README.md: "removing something from the list might make the iterator
\* invalid".  Used as the passes use it, it never stands on a freed node.
NoDanglingIterator == iter \in live \cup {Null}

\* The links spell out the sequence o: its nodes are the live ones, once
\* each, in the order in which next leads on and prev leads back.
Spells(o) ==
  /\ o \in Seq(Op)
  /\ live = {o[i] : i \in 1..Len(o)}
  /\ \A i, j \in 1..Len(o) : o[i] = o[j] => i = j
  /\ head = IF Len(o) = 0 THEN Null ELSE o[1]
  /\ tail = IF Len(o) = 0 THEN Null ELSE o[Len(o)]
  /\ \A i \in 1..Len(o) : /\ next[o[i]] = IF i = Len(o) THEN Null ELSE o[i + 1]
                          /\ prev[o[i]] = IF i = 1 THEN Null ELSE o[i - 1]

\* The nodes met walking from head along next, at most one per live node.
Traversal ==
  LET walk[n \in OpOrNull, fuel \in 0..Cardinality(live)] ==
        IF n = Null \/ fuel = 0 THEN <<>> ELSE <<n>> \o walk[next[n], fuel - 1]
  IN  walk[head, Cardinality(live)]

\* The linked list implements the sequence its clients believe in: every
\* operation on the links is that operation on the sequence of nodes.
Sequence == INSTANCE OpSequence WITH order <- Traversal
ImplementsSequence == Sequence!Spec
=============================================================================

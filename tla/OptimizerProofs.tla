--------------------------- MODULE OptimizerProofs ---------------------------
(***************************************************************************)
(* For streams of any length and cells of any size: every round of every   *)
(* pass leaves a stream whose jumps and labels are joined and whose loops  *)
(* nest, and an iterator that stands on one of its operations.             *)
(***************************************************************************)
EXTENDS Optimizer, StreamFacts

\* The inductive invariant.
Kept == Sound(stream) /\ iter \in Addresses(stream) \cup {nil}

Optimizing == Kept /\ offset \in Int /\ stage \in 0..9

-----------------------------------------------------------------------------
(* What the passes have in common *)

LEMMA StreamShape ==
  ASSUME Kept
  PROVE  /\ stream \in Seq(Operations) /\ Distinct(stream) /\ WellJoined(stream) /\ LoopsNest(stream)
         /\ Len(stream) \in Nat /\ DOMAIN stream = 1..Len(stream)
  BY DEF Kept, Sound

LEMMA HereStands ==
  ASSUME NEW at \in Here
  PROVE  at \in DOMAIN stream /\ stream[at].id = iter
  BY DEF Here

LEMMA HereAtStands ==
  ASSUME NEW codes, NEW at \in HereAt(codes)
  PROVE  at \in DOMAIN stream /\ stream[at].id = iter /\ stream[at].code \in codes
  BY DEF Here, HereAt

LEMMA NothingGone ==
  ASSUME Kept
  PROVE  Rewritten(stream, stream, {}) /\ JoinsClosed(stream, {})
<1>1. stream \in Seq(Operations) /\ Distinct(stream)
  BY StreamShape
<1>2. Rewritten(stream, stream, {})
  BY <1>1, ChangedInPlace
<1> QED
  BY <1>2 DEF JoinsClosed

LEMMA BeyondKeeps ==
  ASSUME Kept, NEW at, NEW n, NEW new, NEW gone, StepBeyond(at, n, new),
         Rewritten(stream, new, gone), JoinsClosed(stream, gone),
         at + n \in DOMAIN stream => stream[at + n].id \notin gone
  PROVE  Kept'
<1>1. Sound(new)
  BY RewrittenSound DEF Kept
<1>2. stream' = new /\ iter' = AddressAt(stream, at + n)
  BY DEF StepBeyond
<1>3. AddressAt(stream, at + n) \in Addresses(new) \cup {nil}
  BY DEF AddressAt, Addresses, Rewritten
<1> QED
  BY <1>1, <1>2, <1>3 DEF Kept

LEMMA PassOverKeeps ==
  ASSUME Kept, NEW at, NEW n, StepBeyond(at, n, stream)
  PROVE  Kept'
  BY NothingGone, BeyondKeeps

LEMMA OverKeeps ==
  ASSUME Kept, NEW new, NEW gone, StepOver(new), Rewritten(stream, new, gone),
         JoinsClosed(stream, gone)
  PROVE  Kept'
<1>1. Sound(new)
  BY RewrittenSound DEF Kept
<1>2. stream' = new /\ iter' = Plus(new, iter, 1)
  BY DEF StepOver
<1>3. Plus(new, iter, 1) \in Addresses(new) \cup {nil}
  BY DEF Plus, AddressAt, Addresses
<1> QED
  BY <1>1, <1>2, <1>3 DEF Kept

LEMMA JumpHasLabel ==
  ASSUME NEW s, Sound(s), NEW q \in DOMAIN s, IsJump(s[q])
  PROVE  /\ Position(s, s[q].op1) \in DOMAIN s /\ Joined(s, q, Position(s, s[q].op1))
         /\ s[Position(s, s[q].op1)].id = s[q].op1
<1>1. PICK l \in DOMAIN s : Joined(s, q, l)
  BY DEF Sound, WellJoined
<1>2. s[q].op1 = s[l].id
  BY <1>1 DEF Joined
<1>3. Position(s, s[l].id) = l
  BY PositionOfAddress DEF Sound
<1> QED
  BY <1>1, <1>2, <1>3

Ids(s, from, to) == {s[i].id : i \in from..to}

LEMMA IdsOfRange ==
  ASSUME NEW s \in Seq(Operations), Distinct(s),
         NEW from \in 1..(Len(s) + 1), NEW to \in (from - 1)..Len(s)
  PROVE  \A i \in 1..Len(s) : s[i].id \in Ids(s, from, to) <=> i \in from..to
<1>1. \A i \in from..to : i \in DOMAIN s
  OBVIOUS
<1> QED
  BY <1>1 DEF Ids, Distinct

-----------------------------------------------------------------------------
(* opt_comment_loop.cc *)

LEMMA LoopClosed ==
  ASSUME NEW s, Sound(s), NEW from \in DOMAIN s, NEW to \in DOMAIN s,
         Joined(s, from, to), from < to
  PROVE  JoinsClosed(s, Ids(s, from, to))
<1> SUFFICES ASSUME NEW x \in DOMAIN s, NEW y \in DOMAIN s, Joined(s, x, y)
             PROVE  s[x].id \in Ids(s, from, to) <=> s[y].id \in Ids(s, from, to)
  BY DEF JoinsClosed
<1>1. s \in Seq(Operations) /\ Distinct(s) /\ LoopsNest(s) /\ Len(s) \in Nat /\ DOMAIN s = 1..Len(s)
  BY DEF Sound
<1>2. s[x].id \in Ids(s, from, to) <=> x \in from..to
  BY <1>1, IdsOfRange
<1>3. s[y].id \in Ids(s, from, to) <=> y \in from..to
  BY <1>1, IdsOfRange
<1>4. (from = x <=> to = y) /\ from # y /\ to # x
  <2>1. Distinct(s)
    BY <1>1
  <2> QED
    BY <2>1, JoinedOnce
<1>5. Inside(from, to, x) <=> Inside(from, to, y)
  BY <1>1 DEF LoopsNest
<1> QED
  BY <1>1, <1>2, <1>3, <1>4, <1>5 DEF Inside

LEMMA CommentLoopKeeps ==
  ASSUME Kept, CommentLoop
  PROVE  Kept'
<1>1. PICK at \in Here :
        LET from == SkippingNops(at)
        IN  \/ from # 0 /\ stream[from].code = "JZ" /\ Drop(from, LoopEnd(from))
            \/ iter' = nil /\ UNCHANGED stream
  BY DEF CommentLoop
<1> DEFINE from == SkippingNops(at)
           to == LoopEnd(from)
<1>2. CASE iter' = nil /\ UNCHANGED stream
  BY <1>2 DEF Kept
<1>3. CASE from # 0 /\ stream[from].code = "JZ" /\ Drop(from, to)
  <2>1. from \in DOMAIN stream
    <3> DEFINE others == {i \in at..Len(stream) : stream[i].code # "NOP"}
    <3>1. at \in 1..Len(stream) /\ others \in SUBSET Nat /\ others \subseteq DOMAIN stream
      BY StreamShape, HereStands
    <3>2. others # {} /\ from = Min(others)
      BY <1>3 DEF SkippingNops, SelectInSubSeq
    <3> HIDE DEF others, from
    <3> QED
      BY <3>1, <3>2, SmallestNumber
  <2>2. Sound(stream) /\ IsJump(stream[from])
    BY <1>3 DEF Kept, IsJump, JumpCodes
  <2>3. to \in DOMAIN stream /\ Joined(stream, from, to)
    BY <2>1, <2>2, JumpHasLabel DEF LoopEnd
  <2>4. from < to
    BY <1>3, <2>3 DEF Joined
  <2> HIDE DEF from, to
  <2>5. JoinsClosed(stream, Ids(stream, from, to))
    BY <2>1, <2>2, <2>3, <2>4, LoopClosed
  <2>6. from \in 1..(Len(stream) + 1) /\ to \in (from - 1)..Len(stream) /\ to \in 1..Len(stream)
    BY <2>1, <2>3, <2>4, StreamShape
  <2>7. \A i \in 1..Len(stream) : stream[i].id \in Ids(stream, from, to) <=> i \in from..to
    BY <2>6, StreamShape, IdsOfRange
  <2>8. Rewritten(stream, DeleteRange(stream, from, to), Ids(stream, from, to))
    BY <2>6, <2>7, StreamShape, RangeDeleted
  <2>9. to + 1 \in DOMAIN stream => stream[to + 1].id \notin Ids(stream, from, to)
    BY <2>6, <2>7, StreamShape
  <2>10. StepBeyond(to, 1, DeleteRange(stream, from, to))
    BY <1>3 DEF Drop, StepBeyond
  <2> QED
    BY <2>5, <2>8, <2>9, <2>10, BeyondKeeps
<1> QED
  BY <1>1, <1>2, <1>3

-----------------------------------------------------------------------------
(* opt_fusion_op.cc *)

LEMMA AmountIsByte ==
  ASSUME Kept, NEW from \in DOMAIN stream, NEW to \in from..Len(stream)
  PROVE  Amount(from, to) \in 0..(ByteSize - 1)
<1> DEFINE all == {Units(i) : i \in from..to}
<1>1. \A u \in all : IsFiniteSet(u)
  <2> SUFFICES ASSUME NEW i \in from..to PROVE IsFiniteSet(Units(i))
    OBVIOUS
  <2> DEFINE n == stream[i].op1
             units == 1..n
  <2>1. IsFiniteSet({i})
    BY FS_Singleton
  <2>2. IsFiniteSet(units)
    <3>1. i \in 1..Len(stream)
      BY StreamShape
    <3>2. n \in Int
      BY <3>1, StreamShape, Elements
    <3> HIDE DEF n
    <3>3. 1 \in Int
      OBVIOUS
    <3> QED
      BY <3>2, <3>3, FS_Interval
  <2> HIDE DEF units, n
  <2>3. IsFiniteSet({i} \X units)
    BY <2>1, <2>2, FS_Product
  <2> QED
    BY <2>3 DEF Units, units, n
<1>2. IsFiniteSet(all)
  <2> DEFINE f == [i \in from..to |-> Units(i)]
  <2>1. f \in Surjection(from..to, all)
    BY DEF Surjection
  <2>2. IsFiniteSet(from..to)
    BY StreamShape, FS_Interval
  <2> HIDE DEF f, all
  <2> QED
    BY <2>1, <2>2, FS_Surjection
<1>3. Cardinality(UNION all) \in Nat
  <2> HIDE DEF all
  <2>1. IsFiniteSet(UNION all)
    BY <1>1, <1>2, FS_UNION
  <2> QED
    BY <2>1, FS_CardinalityType
<1>4. Amount(from, to) = Cardinality(UNION all) % ByteSize
  BY DEF Amount
<1> HIDE DEF all
<1> QED
  BY <1>3, <1>4, ByteSizeAssumption

LEMMA RunStands ==
  ASSUME Kept, NEW from \in DOMAIN stream, NEW same, from \in same
  PROVE  /\ RunEnd(from, same) \in from..Len(stream)
         /\ from..RunEnd(from, same) \subseteq same
<1> DEFINE ends == {to \in from..Len(stream) : from..to \subseteq same}
<1>1. from \in 1..Len(stream) /\ Len(stream) \in Nat
  BY StreamShape
<1>2. from \in ends
  BY <1>1
<1>3. ends \in SUBSET Nat /\ \A to \in ends : to <= Len(stream)
  BY <1>1
<1>4. RunEnd(from, same) = Max(ends)
  BY DEF RunEnd
<1>5. Max(ends) \in ends
  <2> HIDE DEF ends
  <2> QED
    BY <1>1, <1>2, <1>3, LargestNumber
<1> QED
  BY <1>4, <1>5

\* A run of cell operations or of moves holds no jump and no label.
LEMMA RunLinksNothing ==
  ASSUME Kept, NEW from \in DOMAIN stream, ~Links(stream[from]), NEW to \in from..Len(stream),
         from..to \subseteq SameCode(from), NEW first \in from..(from + 1)
  PROVE  /\ first \in 1..(Len(stream) + 1) /\ to \in (first - 1)..Len(stream)
         /\ \A i \in 1..Len(stream) : stream[i].id \in Ids(stream, first, to) <=> i \in first..to
         /\ JoinsClosed(stream, Ids(stream, first, to))
         /\ to + 1 \in DOMAIN stream => stream[to + 1].id \notin Ids(stream, first, to)
<1>1. first \in 1..(Len(stream) + 1) /\ to \in (first - 1)..Len(stream)
  BY StreamShape
<1>2. \A i \in 1..Len(stream) : stream[i].id \in Ids(stream, first, to) <=> i \in first..to
  BY <1>1, StreamShape, IdsOfRange
<1>3. \A i \in first..to : ~Links(stream[i])
  BY StreamShape DEF SameCode, Links
<1>4. JoinsClosed(stream, Ids(stream, first, to))
  BY <1>2, <1>3, StreamShape, OthersClosed
<1>5. to + 1 \in DOMAIN stream => stream[to + 1].id \notin Ids(stream, first, to)
  BY <1>2, StreamShape
<1> QED
  BY <1>1, <1>2, <1>4, <1>5

LEMMA FusedKeeps ==
  ASSUME Kept, NEW from \in DOMAIN stream, ~Links(stream[from]), NEW to \in from..Len(stream),
         from..to \subseteq SameCode(from), NEW amount \in Int,
         StepBeyond(from, to - from + 1, Fused(from, to, amount))
  PROVE  Kept'
<1> DEFINE changed == [stream EXCEPT ![from].op1 = amount]
           gone == Ids(stream, from + 1, to)
<1>0. from + 1 \in from..(from + 1) /\ from + (to - from + 1) = to + 1
  BY StreamShape
<1>1. /\ from + 1 \in 1..(Len(stream) + 1) /\ to \in ((from + 1) - 1)..Len(stream)
      /\ \A i \in 1..Len(stream) : stream[i].id \in gone <=> i \in (from + 1)..to
      /\ JoinsClosed(stream, gone)
      /\ to + 1 \in DOMAIN stream => stream[to + 1].id \notin gone
  BY <1>0, RunLinksNothing
<1>2. /\ changed \in Seq(Operations) /\ Distinct(changed) /\ Len(changed) = Len(stream)
      /\ \A q \in 1..Len(stream) : changed[q].id = stream[q].id
      /\ Rewritten(stream, changed, {})
  BY StreamShape, OperandChanged
<1>3. Fused(from, to, amount) = DeleteRange(changed, from + 1, to)
  BY DEF Fused
<1> HIDE DEF changed, gone
<1>4. Rewritten(changed, DeleteRange(changed, from + 1, to), gone)
  BY <1>1, <1>2, RangeDeleted
<1>5. Rewritten(stream, Fused(from, to, amount), {} \cup gone)
  BY <1>2, <1>3, <1>4, RewrittenTwice
<1>6. {} \cup gone = gone
  OBVIOUS
<1> QED
  BY <1>0, <1>1, <1>5, <1>6, BeyondKeeps

LEMMA FusionOpKeeps ==
  ASSUME Kept, FusionOp
  PROVE  Kept'
<1>1. ASSUME NEW at \in HereAt(CellCodes), FuseCells(at) PROVE Kept'
  <2> DEFINE to == RunEnd(at, SameCell(at))
             amount == Amount(at, to)
  <2>1. at \in DOMAIN stream /\ ~Links(stream[at]) /\ at \in SameCell(at) /\ SameCell(at) \subseteq SameCode(at)
    BY HereAtStands DEF CellCodes, Links, JumpCodes, SameCell, SameCode
  <2>2. to \in at..Len(stream) /\ at..to \subseteq SameCode(at)
    BY <2>1, RunStands
  <2>3. amount \in Int
    <3> HIDE DEF to
    <3> QED
      BY <2>1, <2>2, AmountIsByte
  <2>4. StepBeyond(at, to - at + 1, IF amount = 0 THEN DeleteRange(stream, at, to)
                                                  ELSE Fused(at, to, amount))
    BY <1>1 DEF FuseCells
  <2> HIDE DEF to, amount
  <2>5. CASE amount = 0
    <3> DEFINE gone == Ids(stream, at, to)
    <3>1. at \in at..(at + 1) /\ at + (to - at + 1) = to + 1
      BY <2>1, <2>2, StreamShape
    <3>2. /\ at \in 1..(Len(stream) + 1) /\ to \in (at - 1)..Len(stream)
          /\ \A i \in 1..Len(stream) : stream[i].id \in gone <=> i \in at..to
          /\ JoinsClosed(stream, gone)
          /\ to + 1 \in DOMAIN stream => stream[to + 1].id \notin gone
      BY <2>1, <2>2, <3>1, RunLinksNothing
    <3> HIDE DEF gone
    <3>3. Rewritten(stream, DeleteRange(stream, at, to), gone)
      BY <3>2, StreamShape, RangeDeleted
    <3> QED
      BY <2>4, <2>5, <3>1, <3>2, <3>3, BeyondKeeps
  <2>6. CASE amount # 0
    BY <2>1, <2>2, <2>3, <2>4, <2>6, FusedKeeps
  <2> QED
    BY <2>5, <2>6
<1>2. ASSUME NEW at \in HereAt(PtrCodes), FusePtr(at) PROVE Kept'
  <2> DEFINE to == RunEnd(at, SameCode(at))
             amount == Amount(at, to)
  <2>1. at \in DOMAIN stream /\ ~Links(stream[at]) /\ at \in SameCode(at)
    BY HereAtStands DEF PtrCodes, Links, JumpCodes, SameCode
  <2>2. to \in at..Len(stream) /\ at..to \subseteq SameCode(at)
    BY <2>1, RunStands
  <2>3. amount \in Int
    <3> HIDE DEF to
    <3> QED
      BY <2>1, <2>2, AmountIsByte
  <2>4. StepBeyond(at, to - at + 1, Fused(at, to, amount))
    BY <1>2 DEF FusePtr
  <2> HIDE DEF to, amount
  <2> QED
    BY <2>1, <2>2, <2>3, <2>4, FusedKeeps
<1>3. ASSUME NEW at \in Here, PassOver(at) PROVE Kept'
  BY <1>3, PassOverKeeps DEF PassOver
<1> QED
  BY <1>1, <1>2, <1>3 DEF FusionOp

-----------------------------------------------------------------------------
(* opt_peep.cc *)

LEMMA LoopStands ==
  ASSUME Kept, NEW at \in DOMAIN stream, NEW codes, codes \cap (JumpCodes \cup {"LABEL"}) = {},
         LoopAround(at, codes)
  PROVE  /\ at + 4 \in DOMAIN stream
         /\ stream[at].code = "JZ" /\ stream[at + 1].code = "LABEL"
         /\ stream[at + 2].code \in codes /\ ~Links(stream[at + 2])
         /\ stream[at + 3].code = "JNZ" /\ stream[at + 4].code = "LABEL"
<1>1. PICK code \in codes : LookingAt(stream, at, <<"JZ", "LABEL", code, "JNZ", "LABEL">>)
  BY DEF LoopAround
<1> DEFINE pattern == <<"JZ", "LABEL", code, "JNZ", "LABEL">>
<1>2. /\ DOMAIN pattern = 1..5 /\ pattern[1] = "JZ" /\ pattern[2] = "LABEL" /\ pattern[3] = code
      /\ pattern[4] = "JNZ" /\ pattern[5] = "LABEL"
  OBVIOUS
<1> HIDE DEF pattern
<1>3. \A k \in 1..5 : at + k - 1 \in DOMAIN stream /\ stream[at + k - 1].code = pattern[k]
  BY <1>1, <1>2 DEF LookingAt, pattern
<1>4. /\ at + 1 - 1 = at /\ at + 2 - 1 = at + 1 /\ at + 3 - 1 = at + 2 /\ at + 4 - 1 = at + 3
      /\ at + 5 - 1 = at + 4
  BY StreamShape
<1>5. 1 \in 1..5 /\ 2 \in 1..5 /\ 3 \in 1..5 /\ 4 \in 1..5 /\ 5 \in 1..5
  OBVIOUS
<1>6. /\ stream[at].code = pattern[1] /\ stream[at + 1].code = pattern[2]
      /\ stream[at + 2].code = pattern[3] /\ stream[at + 3].code = pattern[4]
      /\ stream[at + 4].code = pattern[5] /\ at + 4 \in DOMAIN stream
  BY <1>3, <1>4, <1>5
<1> QED
  BY <1>2, <1>6 DEF Links

\* The five operations of a closed loop are two jumps with their labels.
LEMMA FiveClosed ==
  ASSUME Kept, NEW at \in DOMAIN stream, at + 4 \in DOMAIN stream, Closed(at),
         stream[at].code = "JZ", stream[at + 1].code = "LABEL", ~Links(stream[at + 2]),
         stream[at + 3].code = "JNZ", stream[at + 4].code = "LABEL"
  PROVE  JoinsClosed(stream, Ids(stream, at, at + 4))
<1>1. at \in 1..Len(stream) /\ at + 4 \in 1..Len(stream) /\ Len(stream) \in Nat
  BY StreamShape
<1>2. \A i \in 1..Len(stream) : stream[i].id \in Ids(stream, at, at + 4) <=> i \in at..(at + 4)
  <2>1. stream \in Seq(Operations) /\ Distinct(stream)
    BY StreamShape
  <2> DEFINE to == at + 4
  <2>2. at \in 1..(Len(stream) + 1) /\ to \in (at - 1)..Len(stream)
    BY <1>1
  <2> HIDE DEF to
  <2>3. \A i \in 1..Len(stream) : stream[i].id \in Ids(stream, at, to) <=> i \in at..to
    BY <2>1, <2>2, IdsOfRange
  <2> QED
    BY <2>3 DEF to
<1>3. \A i \in Int : i \in at..(at + 4) <=>
                    i = at \/ i = at + 1 \/ i = at + 2 \/ i = at + 3 \/ i = at + 4
  <2>1. at \in Int
    BY <1>1
  <2> QED
    BY <2>1
<1>4. at + 1 \in DOMAIN stream /\ at + 3 \in DOMAIN stream
  BY <1>1, StreamShape
<1>5. Joined(stream, at, at + 4)
  <2>1. PICK l \in DOMAIN stream : Joined(stream, at, l)
    BY StreamShape DEF WellJoined, IsJump, JumpCodes
  <2>2. l = at + 4
    BY <2>1, StreamShape DEF Joined, Distinct, Closed
  <2> QED
    BY <2>1, <2>2
<1>6. Joined(stream, at + 3, at + 1)
  <2>1. PICK l \in DOMAIN stream : Joined(stream, at + 3, l)
    BY <1>4, StreamShape DEF WellJoined, IsJump, JumpCodes
  <2>2. l = at + 1
    BY <1>4, <2>1, StreamShape DEF Joined, Distinct, Closed
  <2> QED
    BY <2>1, <2>2
<1> SUFFICES ASSUME NEW x \in DOMAIN stream, NEW y \in DOMAIN stream, Joined(stream, x, y)
             PROVE  x \in at..(at + 4) <=> y \in at..(at + 4)
  BY <1>2, StreamShape DEF JoinsClosed
<1>7. (at = x <=> at + 4 = y) /\ at # y /\ at + 4 # x
  <2> DEFINE r == at + 4
  <2>1. r \in DOMAIN stream /\ Joined(stream, at, r)
    BY <1>5
  <2> HIDE DEF r
  <2>2. Distinct(stream)
    BY StreamShape
  <2>3. (at = x <=> r = y) /\ at # y /\ r # x
    BY <2>1, <2>2, JoinedOnce
  <2> QED
    BY <2>3 DEF r
<1>8. (at + 3 = x <=> at + 1 = y) /\ at + 3 # y /\ at + 1 # x
  <2> DEFINE q == at + 3
             r == at + 1
  <2>1. q \in DOMAIN stream /\ r \in DOMAIN stream /\ Joined(stream, q, r)
    BY <1>4, <1>6
  <2> HIDE DEF q, r
  <2>2. Distinct(stream)
    BY StreamShape
  <2>3. (q = x <=> r = y) /\ q # y /\ r # x
    BY <2>1, <2>2, JoinedOnce
  <2> QED
    BY <2>3 DEF q, r
<1>9. x # at + 2 /\ y # at + 2
  BY JoinedLinks
<1>10. x \in Int /\ y \in Int
  BY StreamShape
<1>11. /\ x \in at..(at + 4) <=> x = at \/ x = at + 1 \/ x = at + 3 \/ x = at + 4
       /\ y \in at..(at + 4) <=> y = at \/ y = at + 1 \/ y = at + 3 \/ y = at + 4
  BY <1>3, <1>9, <1>10
<1> QED
  BY <1>7, <1>8, <1>11

LEMMA LoopBecomesKeeps ==
  ASSUME Kept, NEW at \in Here, NEW codes, codes \cap (JumpCodes \cup {"LABEL"}) = {},
         LoopAround(at, codes), Closed(at),
         NEW code \in Codes \ (JumpCodes \cup {"LABEL"}), NEW op1 \in Int, NEW op2 \in Int,
         LoopBecomes(at, code, op1, op2)
  PROVE  Kept'
<1> DEFINE op == Operation(iter, code, op1, op2)
           changed == [stream EXCEPT ![at] = op]
           gone == Ids(stream, at, at + 4)
           rest == Ids(stream, at + 1, at + 4)
<1>1. at \in DOMAIN stream /\ stream[at].id = iter
  BY HereStands
<1>2. /\ at + 4 \in DOMAIN stream
      /\ stream[at].code = "JZ" /\ stream[at + 1].code = "LABEL" /\ ~Links(stream[at + 2])
      /\ stream[at + 3].code = "JNZ" /\ stream[at + 4].code = "LABEL"
  BY <1>1, LoopStands
<1>3. JoinsClosed(stream, gone)
  BY <1>1, <1>2, FiveClosed
<1>4. at \in 1..Len(stream) /\ at + 4 \in 1..Len(stream) /\ Len(stream) \in Nat
  BY <1>1, <1>2, StreamShape
<1>5. op \in Operations /\ op.id = stream[at].id /\ ~Links(op)
  <2>1. stream[at].id \in Nat \ {nil}
    BY <1>4, StreamShape, Elements
  <2> QED
    BY <1>1, <2>1 DEF Operations, Operation, Links
<1>6. StepBeyond(at, 5, DeleteRange(changed, at + 1, at + 4))
  BY DEF LoopBecomes
<1> HIDE DEF op
<1>7. /\ changed \in Seq(Operations) /\ Len(changed) = Len(stream)
      /\ \A q \in 1..Len(stream) : changed[q] = IF q = at THEN op ELSE stream[q]
      /\ Rewritten(stream, changed, {stream[at].id})
  <2> DEFINE there == {stream[at].id}
  <2>1. there \in SUBSET {stream[at].id} /\ (Links(stream[at]) => stream[at].id \in there)
    OBVIOUS
  <2> HIDE DEF there
  <2>2. stream \in Seq(Operations) /\ Distinct(stream)
    BY StreamShape
  <2>3. ChangedTo(stream, at, op, [stream EXCEPT ![at] = op], there)
    BY <1>1, <1>5, <2>1, <2>2, OneChanged
  <2>4. ChangedTo(stream, at, op, changed, {stream[at].id})
    BY <2>3 DEF there
  <2> QED
    BY <2>4 DEF ChangedTo
<1>8. Distinct(changed)
  BY <1>7 DEF Rewritten
<1>9. \A i \in 1..Len(stream) : stream[i].id \in gone <=> i \in at..(at + 4)
  BY <1>4, StreamShape, IdsOfRange
<1>10. at + 1 \in 1..(Len(stream) + 1) /\ at + 4 \in ((at + 1) - 1)..Len(stream)
  BY <1>4
<1>11. \A i \in 1..Len(stream) : stream[i].id \in rest <=> i \in (at + 1)..(at + 4)
  BY <1>10, StreamShape, IdsOfRange
<1> HIDE DEF changed
<1>12. \A i \in 1..Len(changed) : changed[i].id \in rest <=> i \in (at + 1)..(at + 4)
  <2>1. \A i \in 1..Len(stream) : changed[i].id = stream[i].id
    BY <1>5, <1>7
  <2> QED
    BY <1>7, <1>11, <2>1
<1> HIDE DEF rest
<1>13. Rewritten(changed, DeleteRange(changed, at + 1, at + 4), rest)
  BY <1>7, <1>8, <1>10, <1>12, RangeDeleted
<1>14. Rewritten(stream, DeleteRange(changed, at + 1, at + 4), {stream[at].id} \cup rest)
  BY <1>7, <1>13, RewrittenTwice
<1>15. {stream[at].id} \cup rest = gone
  <2>1. at..(at + 4) = {at} \cup ((at + 1)..(at + 4))
    BY <1>4
  <2> QED
    BY <2>1 DEF rest, Ids
<1>16. at + 5 \in DOMAIN stream => stream[at + 5].id \notin gone
  BY <1>4, <1>9, StreamShape
<1> HIDE DEF gone
<1> QED
  BY <1>3, <1>6, <1>14, <1>15, <1>16, BeyondKeeps

LEMMA SingleInstructionLoopsKeep ==
  ASSUME Kept, ReplaceSingleInstructionLoops
  PROVE  Kept'
<1>1. PICK at \in Here :
        \/ LoopAround(at, CellCodes) /\ ClearsCell(at) /\ LoopBecomes(at, "SET_CELL", 0, stream[at].op2)
        \/ LoopAround(at, CellCodes) /\ ~ClearsCell(at) /\ StepBeyond(at, 5, stream)
        \/ ~LoopAround(at, CellCodes) /\ PassOver(at)
  BY DEF ReplaceSingleInstructionLoops
<1>2. CASE LoopAround(at, CellCodes) /\ ClearsCell(at) /\ LoopBecomes(at, "SET_CELL", 0, stream[at].op2)
  <2>1. stream[at].op2 \in Int
    <3>1. stream[at] \in Operations
      BY HereStands, StreamShape
    <3> QED
      BY <3>1 DEF Operations
  <2>2. /\ "SET_CELL" \in Codes \ (JumpCodes \cup {"LABEL"})
        /\ CellCodes \cap (JumpCodes \cup {"LABEL"}) = {}
    BY DEF Codes, CellCodes, JumpCodes
  <2>3. Closed(at)
    BY <1>2 DEF ClearsCell
  <2> QED
    BY <1>2, <2>1, <2>2, <2>3, LoopBecomesKeeps
<1>3. CASE StepBeyond(at, 5, stream)
  BY <1>3, PassOverKeeps
<1>4. CASE PassOver(at)
  BY <1>4, PassOverKeeps DEF PassOver
<1> QED
  BY <1>1, <1>2, <1>3, <1>4

LEMMA FindCellLoopsKeep ==
  ASSUME Kept, ReplaceFindCellLoops
  PROVE  Kept'
<1>1. PICK at \in Here :
        \/ /\ LoopAround(at, PtrCodes)
           /\ IF Closed(at)
              THEN LoopBecomes(at, FindCode(stream[at + 2]), 0, stream[at + 2].op1)
              ELSE StepBeyond(at, 5, stream)
        \/ ~LoopAround(at, PtrCodes) /\ PassOver(at)
  BY DEF ReplaceFindCellLoops
<1>2. CASE /\ LoopAround(at, PtrCodes) /\ Closed(at)
           /\ LoopBecomes(at, FindCode(stream[at + 2]), 0, stream[at + 2].op1)
  <2> DEFINE code == FindCode(stream[at + 2])
             distance == stream[at + 2].op1
  <2>1. code \in Codes \ (JumpCodes \cup {"LABEL"})
    BY DEF FindCode, Codes, FindCodes, JumpCodes
  <2>2. PtrCodes \cap (JumpCodes \cup {"LABEL"}) = {}
    BY DEF PtrCodes, JumpCodes
  <2>3. distance \in Int
    <3>1. at \in DOMAIN stream /\ at + 4 \in DOMAIN stream
      BY <1>2, <2>2, HereStands, LoopStands
    <3>2. at + 2 \in 1..Len(stream)
      BY <3>1, StreamShape
    <3> QED
      BY <3>2, StreamShape, Elements
  <2>4. LoopBecomes(at, code, 0, distance)
    BY <1>2
  <2> HIDE DEF code, distance
  <2> QED
    BY <1>2, <2>1, <2>2, <2>3, <2>4, LoopBecomesKeeps
<1>3. CASE StepBeyond(at, 5, stream)
  BY <1>3, PassOverKeeps
<1>4. CASE PassOver(at)
  BY <1>4, PassOverKeeps DEF PassOver
<1> QED
  BY <1>1, <1>2, <1>3, <1>4

LEMMA MergeKeeps ==
  ASSUME Kept, MergeSetIncrDecr
  PROVE  Kept'
<1>1. PICK at \in Here :
        \/ /\ SetAndAdjust(at)
           /\ stream' = DeleteRange([stream EXCEPT ![at].op1 = Merged(stream[at], stream[at + 1])],
                                    at + 1, at + 1)
           /\ UNCHANGED iter
        \/ PassOver(at)
  BY DEF MergeSetIncrDecr
<1>2. at \in DOMAIN stream /\ stream[at].id = iter /\ at \in 1..Len(stream) /\ Len(stream) \in Nat
  BY HereStands, StreamShape
<1>3. CASE PassOver(at)
  BY <1>3, PassOverKeeps DEF PassOver
<1>4. CASE /\ SetAndAdjust(at)
           /\ stream' = DeleteRange([stream EXCEPT ![at].op1 = Merged(stream[at], stream[at + 1])],
                                    at + 1, at + 1)
           /\ UNCHANGED iter
  <2> DEFINE value == Merged(stream[at], stream[at + 1])
             changed == [stream EXCEPT ![at].op1 = value]
             gone == {stream[at + 1].id}
  <2>1. /\ at + 1 \in 1..Len(stream) /\ ~Links(stream[at]) /\ ~Links(stream[at + 1])
    <3>1. PICK code \in CellCodes : LookingAt(stream, at, <<"SET_CELL", code>>)
      BY <1>4 DEF SetAndAdjust
    <3> DEFINE pattern == <<"SET_CELL", code>>
    <3>2. DOMAIN pattern = 1..2 /\ pattern[1] = "SET_CELL" /\ pattern[2] = code
      OBVIOUS
    <3> HIDE DEF pattern
    <3>3. \A k \in 1..2 : at + k - 1 \in DOMAIN stream /\ stream[at + k - 1].code = pattern[k]
      BY <3>1, <3>2 DEF LookingAt, pattern
    <3>4. at + 1 - 1 = at /\ at + 2 - 1 = at + 1 /\ 1 \in 1..2 /\ 2 \in 1..2
      BY <1>2
    <3>5. stream[at].code = pattern[1] /\ stream[at + 1].code = pattern[2] /\ at + 1 \in DOMAIN stream
      BY <3>3, <3>4
    <3> QED
      BY <3>2, <3>5, StreamShape DEF Links, CellCodes, JumpCodes
  <2>2. value \in Int
    <3>1. stream[at].op1 \in Int /\ stream[at + 1].op1 \in Int
      BY <1>2, <2>1, StreamShape, Elements
    <3> QED
      BY <3>1, ByteSizeAssumption DEF Merged
  <2> HIDE DEF value
  <2>3. /\ changed \in Seq(Operations) /\ Distinct(changed) /\ Len(changed) = Len(stream)
        /\ \A q \in 1..Len(stream) : changed[q].id = stream[q].id
        /\ Rewritten(stream, changed, {})
    BY <1>2, <2>1, <2>2, StreamShape, OperandChanged
  <2>4. stream' = DeleteRange(changed, at + 1, at + 1) /\ iter' = iter
    BY <1>4 DEF value
  <2> HIDE DEF changed
  <2>5. \A i \in 1..Len(stream) : stream[i].id \in gone <=> i = at + 1
    BY <2>1, StreamShape DEF Distinct
  <2>6. Rewritten(changed, DeleteRange(changed, at + 1, at + 1), gone)
    <3>1. \A i \in 1..Len(changed) : changed[i].id \in gone <=> i \in (at + 1)..(at + 1)
      BY <1>2, <2>3, <2>5
    <3>2. at + 1 \in 1..(Len(changed) + 1) /\ at + 1 \in ((at + 1) - 1)..Len(changed)
      BY <1>2, <2>1, <2>3
    <3> HIDE DEF gone
    <3> QED
      BY <2>3, <3>1, <3>2, RangeDeleted
  <2>7. Rewritten(stream, stream', {} \cup gone)
    BY <2>3, <2>4, <2>6, RewrittenTwice
  <2>8. {} \cup gone = gone
    OBVIOUS
  <2>9. JoinsClosed(stream, gone)
    <3>1. \A i \in DOMAIN stream : Links(stream[i]) => stream[i].id \notin gone
      BY <2>1, <2>5, StreamShape
    <3> QED
      BY <3>1, OthersClosed
  <2>10. Sound(stream')
    BY <2>7, <2>8, <2>9, RewrittenSound DEF Kept
  <2>11. iter \in Addresses(stream')
    <3>1. stream[at].id \notin gone
      BY <1>2, <2>5
    <3> QED
      BY <1>2, <2>7, <3>1 DEF Rewritten, Addresses
  <2> QED
    BY <2>4, <2>10, <2>11 DEF Kept
<1> QED
  BY <1>1, <1>3, <1>4

-----------------------------------------------------------------------------
(* opt_delay_ptr.cc *)

LEMMA DelayPtrKeeps ==
  ASSUME Kept, offset \in Int, DelayPtr
  PROVE  Kept' /\ offset' \in Int
<1>1. CASE FlushMoves
  <2>1. PICK at \in HereAt(FlushCodes) : StepOver(Flushed) /\ offset' = 0
    BY <1>1 DEF FlushMoves
  <2>2. at \in DOMAIN stream /\ stream[at].id = iter
    BY HereAtStands
  <2> DEFINE code == IF offset > 0 THEN "INCR_PTR" ELSE "DECR_PTR"
             amount == Abs(offset)
             new == InsertBefore(stream, stream[at].id, code, amount, 0)
  <2>3. code \in Codes \ (JumpCodes \cup {"LABEL"})
    BY DEF Codes, PtrCodes, JumpCodes
  <2>4. amount \in Int /\ 0 \in Int
    BY DEF Abs
  <2>5. Flushed = new
    BY <2>2 DEF Flushed
  <2> HIDE DEF code, amount
  <2>6. Rewritten(stream, new, {})
    BY <2>2, <2>3, <2>4, StreamShape, OneInserted
  <2> HIDE DEF new
  <2>7. JoinsClosed(stream, {})
    BY NothingGone
  <2>8. StepOver(new)
    BY <2>1, <2>5
  <2> QED
    BY <2>1, <2>6, <2>7, <2>8, OverKeeps
<1>2. CASE NothingToFlush
  <2>1. PICK at \in HereAt(FlushCodes \cup {"NOP"}) : PassOver(at) /\ UNCHANGED offset
    BY <1>2 DEF NothingToFlush
  <2> QED
    BY <2>1, PassOverKeeps DEF PassOver
<1>3. CASE TakeOffset
  <2>1. PICK at \in HereAt(OffsetCodes) :
          StepBeyond(at, 1, [stream EXCEPT ![at].op2 = offset]) /\ UNCHANGED offset
    BY <1>3 DEF TakeOffset
  <2>2. at \in DOMAIN stream /\ ~Links(stream[at])
    BY HereAtStands DEF OffsetCodes, Links, CellCodes, IOCodes, JumpCodes
  <2> DEFINE new == [stream EXCEPT ![at].op2 = offset]
  <2>3. Rewritten(stream, new, {})
    BY <2>2, StreamShape, OperandChanged
  <2> HIDE DEF new
  <2>4. JoinsClosed(stream, {}) /\ StepBeyond(at, 1, new)
    BY <2>1, NothingGone DEF new
  <2> QED
    BY <2>1, <2>3, <2>4, BeyondKeeps
<1>4. CASE HoldBackMove
  <2>1. PICK at \in HereAt(PtrCodes) :
          offset' = Held(stream[at]) /\ StepBeyond(at, 1, Delete(stream, iter))
    BY <1>4 DEF HoldBackMove
  <2>2. at \in DOMAIN stream /\ stream[at].id = iter /\ ~Links(stream[at])
    BY HereAtStands DEF PtrCodes, Links, JumpCodes
  <2>3. stream[at].op1 \in Int
    BY <2>2, StreamShape, Elements
  <2>4. offset' \in Int
    BY <2>1, <2>3 DEF Held
  <2> DEFINE gone == {stream[at].id}
  <2>5. Rewritten(stream, Delete(stream, iter), gone)
    BY <2>2, StreamShape, OneDeleted
  <2>6. \A i \in DOMAIN stream : stream[i].id \in gone <=> i = at
    BY <2>2, StreamShape DEF Distinct
  <2>7. JoinsClosed(stream, gone)
    <3>1. \A i \in DOMAIN stream : Links(stream[i]) => stream[i].id \notin gone
      BY <2>2, <2>6
    <3> QED
      BY <3>1, OthersClosed
  <2>8. at + 1 \in DOMAIN stream => stream[at + 1].id \notin gone
    BY <2>2, <2>6, StreamShape
  <2> HIDE DEF gone
  <2> QED
    BY <2>1, <2>4, <2>5, <2>7, <2>8, BeyondKeeps
<1> QED
  BY <1>1, <1>2, <1>3, <1>4 DEF DelayPtr

-----------------------------------------------------------------------------
(* opt_multiply_loop.cc *)

LEMMA MultiplyKeeps ==
  ASSUME Kept, NEW end \in DOMAIN stream, NEW start \in DOMAIN stream,
         Joined(stream, end, start), start < end,
         Multiplicative(start, end), Multiply(start, end)
  PROVE  Kept'
<1> DEFINE counter == CHOOSE i \in Body(start, end) : CountsDown(stream[i])
           cid == stream[counter].id
           label == stream[start].id
           jump == stream[end].id
           body == [i \in DOMAIN stream |->
                      IF i \in Body(start, end) THEN Multiplying(stream[i]) ELSE stream[i]]
           s1 == DeleteRange(body, counter, counter)
           s2 == InsertBefore(s1, jump, "SET_CELL", 0, 0)
           s3 == Delete(s2, label)
           s4 == Delete(s3, jump)
<1>1. StepBeyond(end, 2, s4)
  BY DEF Multiply, Multiplications
<1>2. counter \in Body(start, end)
  BY DEF Multiplicative
<1>3. \A i \in Body(start, end) : stream[i].code \in CellCodes
  BY DEF Multiplicative
<1>4. /\ start \in 1..Len(stream) /\ end \in 1..Len(stream) /\ Len(stream) \in Nat
      /\ \A i \in Body(start, end) : i \in 1..Len(stream) /\ i # start /\ i # end /\ i # end + 2
  BY StreamShape DEF Body
<1>5. \A i \in Body(start, end) : /\ Multiplying(stream[i]) \in Operations
                                  /\ Multiplying(stream[i]).id = stream[i].id
                                  /\ ~Links(Multiplying(stream[i])) /\ ~Links(stream[i])
  <2> SUFFICES ASSUME NEW i \in Body(start, end)
               PROVE  /\ Multiplying(stream[i]) \in Operations
                      /\ Multiplying(stream[i]).id = stream[i].id
                      /\ ~Links(Multiplying(stream[i])) /\ ~Links(stream[i])
    OBVIOUS
  <2> DEFINE op == stream[i]
  <2>1. op \in Operations
    BY <1>4, StreamShape
  <2>2. op.code \in CellCodes
    BY <1>3
  <2> HIDE DEF op
  <2>3. /\ Multiplying(op) \in Operations /\ Multiplying(op).id = op.id
        /\ Multiplying(op).code \in MulCodes
    BY <2>1 DEF Multiplying, Operations, MulCodes, Codes
  <2>4. ~Links(Multiplying(op)) /\ ~Links(op)
    BY <2>2, <2>3 DEF Links, MulCodes, CellCodes, JumpCodes
  <2> QED
    BY <2>3, <2>4 DEF op
<1>6. /\ body \in Seq(Operations) /\ Len(body) = Len(stream)
      /\ \A i \in 1..Len(stream) :
           body[i] = IF i \in Body(start, end) THEN Multiplying(stream[i]) ELSE stream[i]
  <2>1. DOMAIN stream = 1..Len(stream) /\ \A i \in 1..Len(stream) : stream[i] \in Operations
    BY StreamShape
  <2>2. body \in [1..Len(stream) -> Operations]
    BY <1>5, <2>1
  <2>3. body \in Seq(Operations) /\ Len(body) = Len(stream)
    <3> HIDE DEF body
    <3> QED
      BY <1>4, <2>2, IsASeq
  <2> QED
    BY <2>1, <2>3
<1> HIDE DEF body, counter
<1>7. \A i \in 1..Len(stream) : body[i].id = stream[i].id
  BY <1>5, <1>6
<1>8. Rewritten(stream, body, {})
  <2>1. \A i \in 1..Len(stream) : body[i] = stream[i]
                                  \/ (~Links(body[i]) /\ (Links(stream[i]) => stream[i].id \in {}))
    BY <1>5, <1>6
  <2> QED
    BY <1>6, <1>7, <2>1, StreamShape, ChangedInPlace
<1>9. Distinct(body)
  BY <1>8 DEF Rewritten
<1>10. \A i \in 1..Len(stream) : stream[i].id = cid <=> i = counter
  BY <1>2, <1>4, StreamShape DEF Distinct
<1> HIDE DEF cid
<1>11. Rewritten(body, s1, {cid})
  <2>1. counter \in 1..(Len(body) + 1) /\ counter \in (counter - 1)..Len(body)
    BY <1>2, <1>4, <1>6
  <2>2. \A i \in 1..Len(body) : body[i].id \in {cid} <=> i \in counter..counter
    BY <1>2, <1>4, <1>6, <1>7, <1>10
  <2> QED
    BY <1>6, <1>9, <2>1, <2>2, RangeDeleted
<1> HIDE DEF s1
<1>12. Rewritten(stream, s1, {cid})
  <2>1. Rewritten(stream, s1, {} \cup {cid})
    BY <1>8, <1>11, RewrittenTwice
  <2>2. {} \cup {cid} = {cid}
    OBVIOUS
  <2> QED
    BY <2>1, <2>2
<1>13. label # cid /\ jump # cid /\ label # jump
  BY <1>2, <1>4, <1>10, StreamShape DEF Distinct
<1>14. label \in Addresses(stream) /\ jump \in Addresses(stream)
  BY DEF Addresses
<1> HIDE DEF label, jump
<1>15. Rewritten(s1, s2, {})
  <2>1. jump \in Addresses(s1)
    BY <1>12, <1>13, <1>14 DEF Rewritten
  <2>2. PICK p \in DOMAIN s1 : s1[p].id = jump
    BY <2>1 DEF Addresses
  <2>3. "SET_CELL" \in Codes \ (JumpCodes \cup {"LABEL"}) /\ 0 \in Int
    BY DEF Codes, JumpCodes
  <2>4. s1 \in Seq(Operations) /\ Distinct(s1)
    BY <1>12 DEF Rewritten
  <2>5. Rewritten(s1, InsertBefore(s1, s1[p].id, "SET_CELL", 0, 0), {})
    BY <2>3, <2>4, OneInserted
  <2> QED
    BY <2>2, <2>5
<1> HIDE DEF s2
<1>16. Rewritten(stream, s2, {cid})
  <2>1. Rewritten(stream, s2, {cid} \cup {})
    BY <1>12, <1>15, RewrittenTwice
  <2>2. {cid} \cup {} = {cid}
    OBVIOUS
  <2> QED
    BY <2>1, <2>2
<1>17. ASSUME NEW s, NEW g, NEW id \in Addresses(stream), id \notin g, Rewritten(stream, s, g)
       PROVE  Rewritten(stream, Delete(s, id), g \cup {id})
  <2>1. id \in Addresses(s) /\ s \in Seq(Operations) /\ Distinct(s)
    BY <1>17 DEF Rewritten
  <2>2. PICK p \in DOMAIN s : s[p].id = id
    BY <2>1 DEF Addresses
  <2>3. Rewritten(s, Delete(s, id), {id})
    <3>1. Rewritten(s, Delete(s, s[p].id), {s[p].id})
      BY <2>1, OneDeleted
    <3> QED
      BY <2>2, <3>1
  <2> QED
    BY <1>17, <2>3, RewrittenTwice
<1>18. Rewritten(stream, s3, {cid} \cup {label})
  BY <1>13, <1>14, <1>16, <1>17
<1> HIDE DEF s3
<1>19. Rewritten(stream, s4, ({cid} \cup {label}) \cup {jump})
  <2>1. jump \notin {cid} \cup {label}
    BY <1>13
  <2> QED
    BY <1>14, <1>17, <1>18, <2>1
<1> HIDE DEF s4
<1> DEFINE gone == ({cid} \cup {label}) \cup {jump}
<1>20. JoinsClosed(stream, gone)
  <2>1. JoinsClosed(stream, {jump, label})
    BY StreamShape, PairClosed DEF jump, label
  <2>2. \A i \in DOMAIN stream : Links(stream[i]) => stream[i].id # cid
    BY <1>2, <1>5, <1>10, StreamShape
  <2>3. ASSUME NEW x \in DOMAIN stream, NEW y \in DOMAIN stream, Joined(stream, x, y)
        PROVE  stream[x].id \in gone <=> stream[y].id \in gone
    <3>1. stream[x].id # cid /\ stream[y].id # cid
      BY <2>2, <2>3, JoinedLinks
    <3>2. stream[x].id \in {jump, label} <=> stream[y].id \in {jump, label}
      BY <2>1, <2>3 DEF JoinsClosed
    <3> QED
      BY <3>1, <3>2
  <2> QED
    BY <2>3 DEF JoinsClosed
<1>21. end + 2 \in DOMAIN stream => stream[end + 2].id \notin gone
  <2> SUFFICES ASSUME end + 2 \in DOMAIN stream PROVE stream[end + 2].id \notin gone
    OBVIOUS
  <2>1. stream[end + 2].id # cid
    BY <1>2, <1>4, <1>10, StreamShape
  <2>2. stream[end + 2].id # label /\ stream[end + 2].id # jump
    <3>1. end + 2 # start /\ end + 2 # end
      BY <1>4
    <3> QED
      BY <3>1, StreamShape DEF Distinct, label, jump
  <2> QED
    BY <2>1, <2>2
<1> QED
  BY <1>1, <1>19, <1>20, <1>21, BeyondKeeps

LEMMA MultiplyLoopKeeps ==
  ASSUME Kept, MultiplyLoop
  PROVE  Kept'
<1>1. ASSUME NEW end \in HereAt({"JNZ"}), NEW start, start = Position(stream, stream[end].op1),
             Multiplicative(start, end), Multiply(start, end)
      PROVE  Kept'
  <2>1. end \in DOMAIN stream /\ stream[end].code = "JNZ" /\ Sound(stream)
    BY HereAtStands DEF Kept
  <2>2. start \in DOMAIN stream /\ Joined(stream, end, start)
    BY <1>1, <2>1, JumpHasLabel DEF IsJump, JumpCodes
  <2>3. start < end
    BY <2>1, <2>2 DEF Joined
  <2> QED
    BY <1>1, <2>1, <2>2, <2>3, MultiplyKeeps
<1>2. ASSUME NEW at, PassOver(at) \/ StepBeyond(at, 2, stream) PROVE Kept'
  BY <1>2, PassOverKeeps DEF PassOver
<1> QED
  BY <1>1, <1>2 DEF MultiplyLoop

-----------------------------------------------------------------------------
(* opt_double_guard.cc *)

LEMMA DoubleGuardKeeps ==
  ASSUME Kept, DoubleGuard
  PROVE  Kept'
<1>1. ASSUME NEW from \in HereAt(JumpCodes), NEW to, to = ScanEnd(from), Repeats(from, to),
             NEW rest, rest = Delete(stream, stream[to].id),
             StepOver(Delete(rest, stream[to].op1))
      PROVE  Kept'
  <2>1. from \in DOMAIN stream /\ stream[from].code \in JumpCodes /\ Sound(stream)
    BY HereAtStands DEF Kept
  <2>2. to \in DOMAIN stream
    <3> DEFINE ends == {i \in (from + 1)..Len(stream) : EndsScan(stream[i])}
    <3>1. ends \in SUBSET Nat /\ ends \subseteq DOMAIN stream
      BY <2>1, StreamShape
    <3>2. ends # {} /\ to = Min(ends)
      BY <1>1 DEF ScanEnd, SelectInSubSeq, Repeats
    <3> HIDE DEF ends
    <3> QED
      BY <3>1, <3>2, SmallestNumber
  <2>3. IsJump(stream[to])
    BY <1>1, <2>1 DEF Repeats, IsJump
  <2>4. PICK l \in DOMAIN stream : Joined(stream, to, l) /\ stream[l].id = stream[to].op1
    BY <2>1, <2>2, <2>3, JumpHasLabel
  <2> DEFINE jump == stream[to].id
             label == stream[l].id
             new == Delete(rest, label)
  <2>5. JoinsClosed(stream, {jump, label})
    BY <2>2, <2>4, StreamShape, PairClosed
  <2>6. Rewritten(stream, rest, {jump})
    BY <1>1, <2>2, StreamShape, OneDeleted
  <2>7. label \in Addresses(rest)
    <3>1. label # jump
      BY <2>2, <2>4, StreamShape, JoinedLinks DEF Distinct
    <3> QED
      BY <2>6, <3>1 DEF Rewritten, Addresses
  <2>8. PICK p \in DOMAIN rest : rest[p].id = label
    BY <2>7 DEF Addresses
  <2>9. StepOver(new)
    BY <1>1, <2>4
  <2> HIDE DEF jump, label
  <2>10. Rewritten(rest, new, {label})
    <3>1. rest \in Seq(Operations) /\ Distinct(rest)
      BY <2>6 DEF Rewritten
    <3>2. Rewritten(rest, Delete(rest, rest[p].id), {rest[p].id})
      BY <3>1, OneDeleted
    <3> QED
      BY <2>8, <3>2
  <2> HIDE DEF new
  <2>11. Rewritten(stream, new, {jump} \cup {label})
    BY <2>6, <2>10, RewrittenTwice
  <2>12. {jump} \cup {label} = {jump, label}
    OBVIOUS
  <2> QED
    BY <2>5, <2>9, <2>11, <2>12, OverKeeps
<1>2. ASSUME NEW at, PassOver(at) PROVE Kept'
  BY <1>2, PassOverKeeps DEF PassOver
<1> QED
  BY <1>1, <1>2 DEF DoubleGuard

-----------------------------------------------------------------------------
(* optimize.cc *)

LEMMA NextStageKeeps ==
  ASSUME Optimizing, NextStage
  PROVE  Optimizing'
<1>1. stage \in 0..8 /\ Len(pipeline) = 8
  BY DEF Optimizing, NextStage, Finished, pipeline
<1>2. StageAfter(stage) \in 0..9
  <2> DEFINE later == {t \in (stage + 1)..Len(pipeline) : pipeline[t] <= level} \cup {Len(pipeline) + 1}
  <2>1. later # {} /\ later \in SUBSET Nat /\ later \subseteq 0..9
    BY <1>1
  <2>2. StageAfter(stage) = Min(later)
    BY DEF StageAfter
  <2> HIDE DEF later
  <2> QED
    BY <2>1, <2>2, SmallestNumber
<1>3. iter' \in Addresses(stream) \cup {nil} /\ stream' = stream /\ offset' = 0 /\ stage' \in 0..9
  BY <1>2 DEF NextStage, Begin, AddressAt, Addresses
<1> QED
  BY <1>3 DEF Optimizing, Kept

LEMMA RewritingKeeps ==
  ASSUME Kept, Rewriting
  PROVE  Kept'
  BY CommentLoopKeeps, FusionOpKeeps, SingleInstructionLoopsKeep, FindCellLoopsKeep, MergeKeeps,
     MultiplyLoopKeeps, DoubleGuardKeeps DEF Rewriting

\* Every step of the optimizer keeps the invariant: jumps and labels stay
\* joined, loops nested, and the iterator of the pass on an operation.
THEOREM OptimizerKeeps ==
  ASSUME Optimizing, Optimize
  PROVE  Optimizing'
<1>1. CASE NextStage
  BY <1>1, NextStageKeeps
<1>2. CASE Rewriting
  <2>1. Kept'
    BY <1>2, RewritingKeeps DEF Optimizing
  <2> QED
    BY <1>2, <2>1 DEF Optimizing, Rewriting
<1>3. CASE DelayingMoves
  <2>1. Kept' /\ offset' \in Int
    BY <1>3, DelayPtrKeeps DEF Optimizing, DelayingMoves
  <2> QED
    BY <1>3, <2>1 DEF Optimizing, DelayingMoves
<1> QED
  BY <1>1, <1>2, <1>3 DEF Optimize
=============================================================================

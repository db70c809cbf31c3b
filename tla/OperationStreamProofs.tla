------------------------ MODULE OperationStreamProofs ------------------------
(***************************************************************************)
(* For any set of addresses: the operation stream stays a well-formed      *)
(* doubly linked list, its iterator never dangles, and the list implements *)
(* the sequence of module OpSequence.                                      *)
(***************************************************************************)
EXTENDS OperationStream, SequenceTheorems, TLAPS

\* The sequence o with op put in front of its i-th element.
With(o, i, op) ==
  [k \in 1..(Len(o) + 1) |-> IF k < i THEN o[k] ELSE IF k = i THEN op ELSE o[k - 1]]

\* The sequence o without its i-th element.
Less(o, i) == [k \in 1..(Len(o) - 1) |-> IF k < i THEN o[k] ELSE o[k + 1]]

\* The sequence o with l and r exchanged.
Exchanged(o, l, r) ==
  [k \in 1..Len(o) |-> IF o[k] = l THEN r ELSE IF o[k] = r THEN l ELSE o[k]]

\* The i-th element of o, Null before its first and behind its last.
At(o, i) == IF i \in 1..Len(o) THEN o[i] ELSE Null

LEMMA WithSeq ==
  ASSUME NEW o \in Seq(Op), NEW i \in 1..(Len(o) + 1), NEW op \in Op
  PROVE  /\ With(o, i, op) \in Seq(Op)
         /\ Len(With(o, i, op)) = Len(o) + 1
         /\ \A k \in 1..(Len(o) + 1) : With(o, i, op)[k] =
              IF k < i THEN o[k] ELSE IF k = i THEN op ELSE o[k - 1]
BY DEF With

LEMMA LessSeq ==
  ASSUME NEW o \in Seq(Op), NEW i \in 1..Len(o)
  PROVE  /\ Less(o, i) \in Seq(Op)
         /\ Len(Less(o, i)) = Len(o) - 1
         /\ \A k \in 1..(Len(o) - 1) : Less(o, i)[k] = IF k < i THEN o[k] ELSE o[k + 1]
BY DEF Less


LEMMA SpellsTyped ==
  ASSUME NEW o, Spells(o)
  PROVE  /\ o \in Seq(Op) /\ Len(o) \in Nat
         /\ \A k \in 1..Len(o) : o[k] \in live /\ o[k] \in Op /\ o[k] # Null
         /\ head = Null <=> Len(o) = 0
         /\ tail = Null <=> Len(o) = 0
BY NullAssumption DEF Spells

\* What Spells says of the position i, as a rewriting rule.
LEMMA SpellsAt ==
  ASSUME NEW o, Spells(o)
  PROVE  /\ \A i, j \in 1..Len(o) : o[i] = o[j] => i = j
         /\ Len(o) # 0 => head = o[1] /\ tail = o[Len(o)]
         /\ \A i \in 1..Len(o) : /\ next[o[i]] = IF i = Len(o) THEN Null ELSE o[i + 1]
                                 /\ prev[o[i]] = IF i = 1 THEN Null ELSE o[i - 1]
BY DEF Spells

\* One node more: it suffices to look at the ends and at the links around it.
LEMMA AddSpells ==
  ASSUME NEW o, Spells(o), NEW i \in 1..(Len(o) + 1), NEW op \in Op, op \notin live,
         live' = live \cup {op},
         head' = IF i = 1 THEN op ELSE head,
         tail' = IF i = Len(o) + 1 THEN op ELSE tail,
         next'[op] = IF i = Len(o) + 1 THEN Null ELSE o[i],
         prev'[op] = IF i = 1 THEN Null ELSE o[i - 1],
         \A k \in 1..Len(o) : next'[o[k]] = IF k = i - 1 THEN op ELSE next[o[k]],
         \A k \in 1..Len(o) : prev'[o[k]] = IF k = i THEN op ELSE prev[o[k]]
  PROVE  Spells(With(o, i, op))'
<1> DEFINE p == With(o, i, op)
<1>1. /\ o \in Seq(Op) /\ Len(o) \in Nat
      /\ \A k \in 1..Len(o) : o[k] \in live /\ o[k] # op
  BY SpellsTyped
<1>2. /\ p \in Seq(Op) /\ Len(p) = Len(o) + 1
      /\ \A k \in 1..Len(p) : p[k] = IF k < i THEN o[k] ELSE IF k = i THEN op ELSE o[k - 1]
  BY <1>1, WithSeq
<1> HIDE DEF p
<1>3. live' = {p[k] : k \in 1..Len(p)}
  <2>1. ASSUME NEW k \in 1..Len(o) PROVE \E m \in 1..Len(p) : p[m] = o[k]
    <3>1. CASE k < i BY <1>2, <1>1, <3>1
    <3>2. CASE k >= i
      <4>1. k + 1 \in 1..Len(p) /\ p[k + 1] = o[k] BY <1>1, <1>2, <3>2
      <4> QED BY <4>1
    <3> QED BY <3>1, <3>2, <1>1
  <2>2. p[i] = op BY <1>2
  <2>3. ASSUME NEW m \in 1..Len(p) PROVE p[m] \in live \cup {op}
    BY <1>1, <1>2
  <2>4. live = {o[k] : k \in 1..Len(o)} BY DEF Spells
  <2>5. ASSUME NEW n \in live PROVE n \in {p[k] : k \in 1..Len(p)}
    <3>1. PICK k \in 1..Len(o) : n = o[k] BY <2>4
    <3> QED BY <3>1, <2>1
  <2>6. op \in {p[k] : k \in 1..Len(p)} BY <2>2, <1>1, <1>2
  <2> QED BY <2>3, <2>5, <2>6
<1>4. ASSUME NEW k \in 1..Len(p), NEW m \in 1..Len(p), p[k] = p[m]
      PROVE  k = m
  <2>1. \A a, b \in 1..Len(o) : o[a] = o[b] => a = b
    BY DEF Spells
  <2>a. p[i] = op BY <1>2
  <2>b. ASSUME NEW n \in 1..Len(p), n # i PROVE p[n] # op
    <3>1. CASE n < i
      <4>1. n \in 1..Len(o) BY <1>1, <1>2, <3>1
      <4>2. p[n] = o[n] BY <1>2, <3>1
      <4> QED BY <1>1, <4>1, <4>2
    <3>2. CASE n > i
      <4>1. n - 1 \in 1..Len(o) BY <1>1, <1>2, <3>2
      <4>2. p[n] = o[n - 1] BY <1>2, <3>2
      <4> QED BY <1>1, <4>1, <4>2
    <3> QED BY <1>1, <1>2, <2>b, <3>1, <3>2
  <2>2. CASE k = i \/ m = i
    BY <1>4, <2>a, <2>b, <2>2, Zenon
  <2>3. CASE k # i /\ m # i
    <3>1. PICK a \in 1..Len(o) : p[k] = o[a] /\ a = (IF k < i THEN k ELSE k - 1)
      BY <1>1, <1>2, <2>3
    <3>2. PICK b \in 1..Len(o) : p[m] = o[b] /\ b = (IF m < i THEN m ELSE m - 1)
      BY <1>1, <1>2, <2>3
    <3>3. a = b BY <3>1, <3>2, <2>1, <1>4
    <3> QED BY <3>1, <3>2, <3>3, <2>3, <1>2
  <2> QED BY <2>2, <2>3
<1>a. /\ head = IF Len(o) = 0 THEN Null ELSE o[1]
      /\ tail = IF Len(o) = 0 THEN Null ELSE o[Len(o)]
      /\ \A k \in 1..Len(o) : /\ next[o[k]] = IF k = Len(o) THEN Null ELSE o[k + 1]
                              /\ prev[o[k]] = IF k = 1 THEN Null ELSE o[k - 1]
  BY DEF Spells
<1>5. head' = IF Len(p) = 0 THEN Null ELSE p[1]
  BY <1>1, <1>2, <1>a
<1>6. tail' = IF Len(p) = 0 THEN Null ELSE p[Len(p)]
  <2>1. CASE i = Len(o) + 1 BY <1>1, <1>2, <1>a, <2>1
  <2>2. CASE i # Len(o) + 1
    <3>1. p[Len(p)] = o[Len(o)] /\ Len(o) # 0 BY <1>1, <1>2, <2>2
    <3> QED BY <1>1, <1>2, <1>a, <2>2, <3>1
  <2> QED BY <2>1, <2>2
<1>7. ASSUME NEW k \in 1..Len(p)
      PROVE /\ next'[p[k]] = IF k = Len(p) THEN Null ELSE p[k + 1]
            /\ prev'[p[k]] = IF k = 1 THEN Null ELSE p[k - 1]
  <2>1. CASE k < i
    <3>1. k \in 1..Len(o) /\ p[k] = o[k] /\ k # Len(p) BY <1>1, <1>2, <2>1
    <3>2. k + 1 \in 1..Len(p) /\ p[k + 1] = IF k = i - 1 THEN op ELSE o[k + 1]
      BY <1>1, <1>2, <2>1
    <3>3. k # 1 => p[k - 1] = o[k - 1] BY <1>1, <1>2, <2>1
    <3> QED BY <1>1, <1>2, <1>a, <2>1, <3>1, <3>2, <3>3
  <2>2. CASE k = i
    <3>1. p[k] = op BY <1>2, <2>2
    <3>2. k # Len(p) => p[k + 1] = o[k] BY <1>1, <1>2, <2>2
    <3>3. k # 1 => p[k - 1] = o[k - 1] BY <1>1, <1>2, <2>2
    <3> QED BY <1>1, <1>2, <2>2, <3>1, <3>2, <3>3
  <2>3. CASE k > i
    <3>a. Len(o) \in Nat /\ Len(p) = Len(o) + 1 BY <1>1, <1>2
    <3>0. k - 1 \in 1..Len(o) /\ ~(k < i) /\ k # i /\ k # 1 BY <3>a, <2>3
    <3>1. k - 1 \in 1..Len(o) /\ p[k] = o[k - 1] /\ k # 1 BY <1>2, <3>0
    <3>2. k # Len(p) => p[k + 1] = o[k]
      <4>1. k # Len(p) => k + 1 \in 1..Len(p) BY <3>a
      <4>2. ~(k + 1 < i) /\ k + 1 # i /\ k + 1 - 1 = k BY <2>3
      <4> QED BY <1>2, <4>1, <4>2
    <3>3. p[k - 1] = IF k - 1 = i THEN op ELSE o[k - 2]
      <4>1. k - 1 \in 1..Len(p) /\ ~(k - 1 < i) BY <1>2, <2>3
      <4>2. p[k - 1] = IF k - 1 < i THEN o[k - 1] ELSE IF k - 1 = i THEN op ELSE o[k - 1 - 1]
        BY <4>1, <1>2
      <4> QED BY <4>1, <4>2, <1>1
    <3>4. next'[o[k - 1]] = next[o[k - 1]] BY <3>1, <2>3
    <3>5. next[o[k - 1]] = IF k - 1 = Len(o) THEN Null ELSE o[k]
      BY <3>1, <1>a, <1>1
    <3>6. prev'[o[k - 1]] = IF k - 1 = i THEN op ELSE prev[o[k - 1]] BY <3>1
    <3>7. k - 1 # i => prev[o[k - 1]] = o[k - 2]
      BY <3>1, <1>a, <1>1, <2>3
    <3> QED BY <1>1, <1>2, <3>1, <3>2, <3>3, <3>4, <3>5, <3>6, <3>7
  <2> QED BY <2>1, <2>2, <2>3, <1>1, <1>2
<1>9. Spells(p)'
  BY <1>2, <1>3, <1>4, <1>5, <1>6, <1>7 DEF Spells
<1> QED BY <1>9 DEF p

\* One node less, likewise.
LEMMA DropSpells ==
  ASSUME NEW o, Spells(o), NEW i \in 1..Len(o),
         live' = live \ {o[i]},
         head' = IF i # 1 THEN head ELSE IF Len(o) = 1 THEN Null ELSE o[2],
         tail' = IF i # Len(o) THEN tail ELSE IF Len(o) = 1 THEN Null ELSE o[Len(o) - 1],
         \A k \in 1..Len(o) \ {i} :
           /\ next'[o[k]] = IF k = i - 1 THEN next[o[i]] ELSE next[o[k]]
           /\ prev'[o[k]] = IF k = i + 1 THEN prev[o[i]] ELSE prev[o[k]]
  PROVE  Spells(Less(o, i))'
<1> DEFINE p == Less(o, i)
<1>1. /\ o \in Seq(Op) /\ Len(o) \in Nat
      /\ \A k \in 1..Len(o) : o[k] \in live
      /\ \A k, m \in 1..Len(o) : o[k] = o[m] => k = m
  BY SpellsTyped DEF Spells
<1>2. /\ p \in Seq(Op) /\ Len(p) = Len(o) - 1
      /\ \A k \in 1..Len(p) : p[k] = IF k < i THEN o[k] ELSE o[k + 1]
  <2>1. p \in Seq(Op) /\ Len(p) = Len(o) - 1 BY <1>1, LessSeq
  <2>2. \A k \in 1..(Len(o) - 1) : p[k] = IF k < i THEN o[k] ELSE o[k + 1]
    BY <1>1, LessSeq
  <2> QED BY <2>1, <2>2
<1> HIDE DEF p
<1>a. /\ head = IF Len(o) = 0 THEN Null ELSE o[1]
      /\ tail = IF Len(o) = 0 THEN Null ELSE o[Len(o)]
      /\ \A k \in 1..Len(o) : /\ next[o[k]] = IF k = Len(o) THEN Null ELSE o[k + 1]
                              /\ prev[o[k]] = IF k = 1 THEN Null ELSE o[k - 1]
      /\ live = {o[k] : k \in 1..Len(o)}
  BY DEF Spells
<1>3. live' = {p[k] : k \in 1..Len(p)}
  <2>1. ASSUME NEW n \in live', n # o[i] PROVE n \in {p[k] : k \in 1..Len(p)}
    <3>1. PICK k \in 1..Len(o) : n = o[k] /\ k # i BY <1>a, <2>1
    <3>2. CASE k < i BY <1>1, <1>2, <3>1, <3>2
    <3>3. CASE k > i
      <4>1. k - 1 \in 1..Len(p) /\ ~(k - 1 < i) BY <1>1, <1>2, <3>3
      <4>2. p[k - 1] = o[k - 1 + 1] BY <4>1, <1>2
      <4> QED BY <4>1, <4>2, <3>1
    <3> QED BY <3>1, <3>2, <3>3
  <2>2. ASSUME NEW k \in 1..Len(p) PROVE p[k] \in live \ {o[i]}
    <3>1. PICK m \in 1..Len(o) : p[k] = o[m] /\ m # i BY <1>1, <1>2
    <3> QED BY <3>1, <1>1
  <2> QED BY <2>1, <2>2
<1>4. ASSUME NEW k \in 1..Len(p), NEW m \in 1..Len(p), p[k] = p[m]
      PROVE  k = m
  <2>1. PICK a \in 1..Len(o) : p[k] = o[a] /\ a = (IF k < i THEN k ELSE k + 1)
    BY <1>1, <1>2
  <2>2. PICK b \in 1..Len(o) : p[m] = o[b] /\ b = (IF m < i THEN m ELSE m + 1)
    BY <1>1, <1>2
  <2>3. a = b BY <2>1, <2>2, <1>1, <1>4
  <2> QED BY <2>1, <2>2, <2>3, <1>2
<1>5. head' = IF Len(p) = 0 THEN Null ELSE p[1]
  <2>0. Len(o) \in Nat \ {0} /\ Len(p) = Len(o) - 1 BY <1>1, <1>2
  <2>1. CASE Len(o) = 1 BY <2>0, <2>1
  <2>2. CASE Len(o) # 1
    <3>1. 1 \in 1..Len(p) /\ Len(p) # 0 BY <2>0, <2>2
    <3>2. p[1] = IF i # 1 THEN o[1] ELSE o[2] BY <3>1, <1>2
    <3> QED BY <2>2, <3>1, <3>2, <2>0, <1>a
  <2> QED BY <2>1, <2>2
<1>6. tail' = IF Len(p) = 0 THEN Null ELSE p[Len(p)]
  <2>0. Len(o) \in Nat /\ Len(p) = Len(o) - 1 BY <1>1, <1>2
  <2>1. CASE i = Len(o)
    <3>1. Len(p) # 0 => Len(p) \in 1..Len(p) /\ Len(p) < i BY <2>0, <2>1
    <3>2. Len(p) # 0 => p[Len(p)] = o[Len(p)] BY <3>1, <1>2
    <3> QED BY <2>0, <2>1, <3>2
  <2>2. CASE i # Len(o)
    <3>1. Len(p) # 0 /\ Len(p) \in 1..Len(p) /\ ~(Len(p) < i) BY <2>0, <2>2
    <3>2. p[Len(p)] = o[Len(p) + 1] BY <3>1, <1>2
    <3> QED BY <2>0, <2>2, <3>1, <3>2, <1>a
  <2> QED BY <2>1, <2>2
<1>7. ASSUME NEW k \in 1..Len(p)
      PROVE /\ next'[p[k]] = IF k = Len(p) THEN Null ELSE p[k + 1]
            /\ prev'[p[k]] = IF k = 1 THEN Null ELSE p[k - 1]
  <2>0. Len(o) \in Nat /\ Len(p) = Len(o) - 1 BY <1>1, <1>2
  <2>1. CASE k < i
    <3>0. k \in 1..Len(o) \ {i} BY <2>0, <2>1
    <3>1. k \in 1..Len(o) \ {i} /\ p[k] = o[k] BY <3>0, <1>2, <2>1
    <3>2. k # Len(p) => k + 1 \in 1..Len(p) BY <2>0
    <3>3. k # Len(p) => p[k + 1] = IF k = i - 1 THEN o[i + 1] ELSE o[k + 1]
      BY <3>2, <1>2, <2>1
    <3>4. k # 1 => p[k - 1] = o[k - 1] BY <2>0, <1>2, <2>1
    <3>5. next'[p[k]] = IF k = i - 1 THEN next[o[i]] ELSE next[o[k]] BY <3>1
    <3>6. prev'[p[k]] = prev[o[k]] BY <3>1, <2>1
    <3> QED BY <2>0, <2>1, <1>a, <3>1, <3>3, <3>4, <3>5, <3>6
  <2>2. CASE ~(k < i)
    <3>0. k + 1 \in 1..Len(o) \ {i} BY <2>0, <2>2
    <3>1. k + 1 \in 1..Len(o) \ {i} /\ p[k] = o[k + 1] BY <3>0, <1>2, <2>2
    <3>2. k # Len(p) => p[k + 1] = o[k + 1 + 1]
      <4>1. k # Len(p) => k + 1 \in 1..Len(p) /\ ~(k + 1 < i) BY <2>0, <2>2
      <4> QED BY <4>1, <1>2
    <3>3. k # 1 => p[k - 1] = IF k = i THEN o[k - 1] ELSE o[k]
      <4>1. k # 1 => k - 1 \in 1..Len(p) /\ (k - 1 < i <=> k = i) BY <2>0, <2>2
      <4>2. k # 1 => p[k - 1] = IF k - 1 < i THEN o[k - 1] ELSE o[k - 1 + 1]
        BY <4>1, <1>2
      <4> QED BY <4>1, <4>2
    <3>4. next'[p[k]] = next[o[k + 1]] BY <3>1, <2>2
    <3>5. prev'[p[k]] = IF k = i THEN prev[o[i]] ELSE prev[o[k + 1]] BY <3>1
    <3>6. next[o[k + 1]] = IF k + 1 = Len(o) THEN Null ELSE o[k + 1 + 1] BY <3>1, <1>a
    <3>7. prev[o[i]] = (IF i = 1 THEN Null ELSE o[i - 1]) BY <1>a
    <3>8. prev[o[k + 1]] = o[k] BY <3>1, <1>a
    <3> QED BY <2>0, <2>2, <3>2, <3>3, <3>4, <3>5, <3>6, <3>7, <3>8
  <2> QED BY <2>1, <2>2
<1>9. Spells(p)'
  BY <1>2, <1>3, <1>4, <1>5, <1>6, <1>7 DEF Spells
<1> QED BY <1>9 DEF p

LEMMA AddOnlyP ==
  ASSUME NEW o, Spells(o), TypeOK, NEW op \in Op, AddOnly(op), Allocate(op)
  PROVE  Len(o) = 0 /\ Spells(With(o, 1, op))'
<1>1. o \in Seq(Op) /\ Len(o) = 0 BY SpellsTyped DEF AddOnly
<1> QED BY <1>1, AddSpells DEF AddOnly, Allocate, TypeOK

LEMMA AddFirstP ==
  ASSUME NEW o, Spells(o), TypeOK, NEW op \in Op, AddFirst(op), Allocate(op)
  PROVE  Spells(With(o, 1, op))'
<1>1. /\ o \in Seq(Op) /\ Len(o) \in Nat \ {0}
      /\ \A k \in 1..Len(o) : o[k] \in live /\ o[k] \in Op
      /\ head = o[1] /\ next \in [Op -> OpOrNull] /\ prev \in [Op -> OpOrNull]
      /\ \A k \in 1..Len(o) : o[k] = o[1] => k = 1
  BY SpellsTyped DEF AddFirst, TypeOK, Spells
<1>2. op # head /\ op \notin live /\ live' = live \cup {op} BY <1>1 DEF Allocate
<1>3. \A k \in 1..Len(o) : /\ next'[o[k]] = next[o[k]]
                           /\ prev'[o[k]] = IF k = 1 THEN op ELSE prev[o[k]]
  BY <1>1, <1>2 DEF AddFirst
<1>4. next'[op] = o[1] /\ prev'[op] = Null BY <1>1, <1>2 DEF AddFirst
<1> QED BY <1>1, <1>2, <1>3, <1>4, AddSpells DEF AddFirst

LEMMA AddLastP ==
  ASSUME NEW o, Spells(o), TypeOK, NEW op \in Op, AddLast(op), Allocate(op)
  PROVE  Spells(With(o, Len(o) + 1, op))'
<1>1. /\ o \in Seq(Op) /\ Len(o) \in Nat \ {0}
      /\ \A k \in 1..Len(o) : o[k] \in live /\ o[k] \in Op
      /\ tail = o[Len(o)] /\ next \in [Op -> OpOrNull] /\ prev \in [Op -> OpOrNull]
      /\ \A k \in 1..Len(o) : o[k] = o[Len(o)] => k = Len(o)
  BY SpellsTyped DEF AddLast, TypeOK, Spells
<1>2. op # tail /\ op \notin live /\ live' = live \cup {op} BY <1>1 DEF Allocate
<1>3. \A k \in 1..Len(o) : /\ next'[o[k]] = IF k = Len(o) THEN op ELSE next[o[k]]
                           /\ prev'[o[k]] = prev[o[k]]
  BY <1>1, <1>2 DEF AddLast
<1>4. next'[op] = Null /\ prev'[op] = o[Len(o)] BY <1>1, <1>2 DEF AddLast
<1> QED BY <1>1, <1>2, <1>3, <1>4, AddSpells DEF AddLast

LEMMA AddBetweenP ==
  ASSUME NEW o, Spells(o), TypeOK, NEW op \in Op, NEW i \in 2..Len(o),
         AddBetween(op, o[i]), Allocate(op)
  PROVE  Spells(With(o, i, op))'
<1>1. /\ o \in Seq(Op) /\ Len(o) \in Nat /\ i \in 1..Len(o) /\ i - 1 \in 1..Len(o)
      /\ \A k \in 1..Len(o) : o[k] \in live /\ o[k] \in Op
      /\ prev[o[i]] = o[i - 1]
      /\ next \in [Op -> OpOrNull] /\ prev \in [Op -> OpOrNull]
      /\ \A k, m \in 1..Len(o) : o[k] = o[m] => k = m
  BY SpellsTyped, SpellsAt DEF TypeOK
<1>2. op \notin live /\ live' = live \cup {op} BY <1>1 DEF Allocate
<1>3. \A k \in 1..Len(o) : /\ next'[o[k]] = IF k = i - 1 THEN op ELSE next[o[k]]
                           /\ prev'[o[k]] = IF k = i THEN op ELSE prev[o[k]]
  BY <1>1, <1>2 DEF AddBetween
<1>4. next'[op] = o[i] /\ prev'[op] = o[i - 1] BY <1>1, <1>2 DEF AddBetween
<1> QED BY <1>1, <1>2, <1>3, <1>4, AddSpells DEF AddBetween

LEMMA UnlinkP ==
  ASSUME NEW o, Spells(o), TypeOK, NEW i \in 1..Len(o), Unlink(o[i]), live' = live \ {o[i]}
  PROVE  Spells(Less(o, i))'
<1>1. /\ o \in Seq(Op) /\ Len(o) \in Nat
      /\ \A k \in 1..Len(o) : o[k] \in live /\ o[k] \in Op
      /\ next \in [Op -> OpOrNull] /\ prev \in [Op -> OpOrNull]
      /\ \A k, m \in 1..Len(o) : o[k] = o[m] => k = m
      /\ head = o[1] /\ tail = o[Len(o)]
      /\ prev[o[i]] = IF i = 1 THEN Null ELSE o[i - 1]
      /\ next[o[i]] = IF i = Len(o) THEN Null ELSE o[i + 1]
  BY SpellsTyped, SpellsAt DEF TypeOK
<1>2. head = o[i] <=> i = 1 BY <1>1
<1>3. tail = o[i] <=> i = Len(o) BY <1>1
<1>4. CASE UnlinkOnly(o[i])
  <2>1. Len(o) = 1 /\ i = 1 BY <1>1, <1>2, <1>3, <1>4 DEF UnlinkOnly
  <2>2. 1..Len(o) \ {i} = {} BY <2>1
  <2> QED BY <2>1, <2>2, <1>1, <1>4, DropSpells DEF UnlinkOnly
<1>5. CASE UnlinkFirst(o[i])
  <2>1. i = 1 /\ i # Len(o) /\ next[o[1]] = o[2] BY <1>1, <1>2, <1>3, <1>5 DEF UnlinkFirst
  <2>2. \A k \in 1..Len(o) \ {i} : /\ next'[o[k]] = next[o[k]]
                                   /\ prev'[o[k]] = IF k = 2 THEN Null ELSE prev[o[k]]
    BY <2>1, <1>1, <1>5 DEF UnlinkFirst
  <2> QED BY <2>1, <2>2, <1>1, <1>5, DropSpells DEF UnlinkFirst
<1>6. CASE UnlinkLast(o[i])
  <2>1. i # 1 /\ i = Len(o) /\ prev[o[i]] = o[i - 1] BY <1>1, <1>2, <1>3, <1>6 DEF UnlinkLast
  <2>2. \A k \in 1..Len(o) \ {i} : /\ next'[o[k]] = IF k = i - 1 THEN Null ELSE next[o[k]]
                                   /\ prev'[o[k]] = prev[o[k]]
    BY <2>1, <1>1, <1>6 DEF UnlinkLast
  <2>3. /\ next[o[i]] = Null /\ \A k \in 1..Len(o) : k # i + 1
        /\ head' = head /\ tail' = o[Len(o) - 1] /\ Len(o) # 1
    BY <2>1, <1>1, <1>6 DEF UnlinkLast
  <2>4. \A k \in 1..Len(o) \ {i} :
          /\ next'[o[k]] = IF k = i - 1 THEN next[o[i]] ELSE next[o[k]]
          /\ prev'[o[k]] = IF k = i + 1 THEN prev[o[i]] ELSE prev[o[k]]
    BY <2>2, <2>3
  <2> QED BY <2>1, <2>3, <2>4, DropSpells
<1>7. CASE UnlinkBetween(o[i])
  <2>1. i # 1 /\ i # Len(o) /\ prev[o[i]] = o[i - 1] /\ next[o[i]] = o[i + 1]
    BY <1>1, <1>2, <1>3, <1>7 DEF UnlinkBetween
  <2>2. \A k \in 1..Len(o) \ {i} :
          /\ next'[o[k]] = IF k = i - 1 THEN next[o[i]] ELSE next[o[k]]
          /\ prev'[o[k]] = IF k = i + 1 THEN prev[o[i]] ELSE prev[o[k]]
    BY <2>1, <1>1, <1>7 DEF UnlinkBetween
  <2> QED BY <2>1, <2>2, <1>1, <1>7, DropSpells DEF UnlinkBetween
<1> QED BY <1>4, <1>5, <1>6, <1>7 DEF Unlink

\* The helpers of Swap, as functions of the node asked for.
LEMMA PointBackValue ==
  ASSUME NEW nx \in [Op -> OpOrNull], NEW pv \in [Op -> OpOrNull], NEW n \in Op
  PROVE  /\ PointBack(nx, pv, n) \in [Op -> OpOrNull]
         /\ \A m \in Op : PointBack(nx, pv, n)[m] = IF m = nx[n] THEN n ELSE pv[m]
BY NullAssumption DEF PointBack, OpOrNull

LEMMA PointForthValue ==
  ASSUME NEW nx \in [Op -> OpOrNull], NEW pv \in [Op -> OpOrNull], NEW n \in Op
  PROVE  /\ PointForth(nx, pv, n) \in [Op -> OpOrNull]
         /\ \A m \in Op : PointForth(nx, pv, n)[m] = IF m = pv[n] THEN n ELSE nx[m]
BY NullAssumption DEF PointForth, OpOrNull

LEMMA ExchangeValue ==
  ASSUME NEW f \in [Op -> OpOrNull], NEW l \in Op, NEW r \in Op
  PROVE  /\ Exchange(f, l, r) \in [Op -> OpOrNull]
         /\ \A m \in Op : Exchange(f, l, r)[m] =
              IF m = l THEN f[r] ELSE IF m = r THEN f[l] ELSE f[m]
BY DEF Exchange, OpOrNull

\* Exchanging two positions of a spelled list, adjacent or not, in either
\* order, spells the list p with the two exchanged.
LEMMA SwapSpells ==
  ASSUME NEW o, Spells(o), TypeOK, NEW i \in 1..Len(o), NEW j \in 1..Len(o),
         Swap(o[i], o[j]),
         NEW p \in Seq(Op), Len(p) = Len(o),
         \A k \in 1..Len(o) : p[k] = IF k = i THEN o[j] ELSE IF k = j THEN o[i] ELSE o[k]
  PROVE  Spells(p)'
<1>s. /\ o \in Seq(Op) /\ Len(o) \in Nat
      /\ \A k \in 1..Len(o) : o[k] \in Op /\ o[k] \in live
      /\ \A k, m \in 1..Len(o) : o[k] = o[m] => k = m
  BY SpellsTyped, SpellsAt
<1>o. /\ At(o, 0) = Null /\ At(o, Len(o) + 1) = Null
      /\ \A k \in 1..Len(o) : At(o, k) = o[k]
      /\ At(p, i) = At(o, j) /\ At(p, j) = At(o, i)
      /\ \A k \in 0..(Len(o) + 1) : k # i /\ k # j => At(p, k) = At(o, k)
  BY <1>s DEF At
<1>v. /\ At(p, 0) = Null /\ At(p, Len(o) + 1) = Null
      /\ \A k \in 1..Len(o) : At(p, k) = p[k]
  BY <1>s DEF At
<1> USE <1>o
<1>1. /\ next \in [Op -> OpOrNull] /\ prev \in [Op -> OpOrNull]
      /\ Len(o) \in Nat /\ o \in Seq(Op)
      /\ \A k \in 1..Len(o) : At(o, k) \in Op
  BY <1>s DEF TypeOK
<1>2. \A k \in 1..Len(o) : \A m \in 0..(Len(o) + 1) : At(o, k) = At(o, m) <=> k = m
  <2> TAKE k \in 1..Len(o)
  <2> TAKE m \in 0..(Len(o) + 1)
  <2>1. CASE m \in 1..Len(o)
    <3>1. o[k] = o[m] => k = m BY <2>1, SpellsAt
    <3>2. At(o, k) = o[k] /\ At(o, m) = o[m] BY <2>1
    <3> QED BY <3>1, <3>2
  <2>2. CASE m = 0 \/ m = Len(o) + 1
    <3>1. At(o, m) = Null BY <2>2
    <3>2. At(o, k) # Null BY <1>1, NullAssumption
    <3>3. k # m BY <2>2, <1>1
    <3> QED BY <3>1, <3>2, <3>3
  <2> QED BY <2>1, <2>2, <1>1
<1>3. ASSUME NEW k \in 1..Len(o)
      PROVE  next[At(o, k)] = At(o, k + 1) /\ prev[At(o, k)] = At(o, k - 1)
  <2>1. next[At(o, k)] = At(o, k + 1)
    <3>1. CASE k = Len(o) BY <3>1, SpellsAt, <1>1
    <3>2. CASE k # Len(o)
      <4>1. k + 1 \in 1..Len(o) BY <3>2, <1>1
      <4>2. next[o[k]] = o[k + 1] BY <3>2, SpellsAt
      <4>3. At(o, k) = o[k] /\ At(o, k + 1) = o[k + 1] BY <4>1
      <4> QED BY <4>2, <4>3
    <3> QED BY <3>1, <3>2
  <2>2. prev[At(o, k)] = At(o, k - 1)
    <3>1. CASE k = 1 BY <3>1, SpellsAt, <1>1
    <3>2. CASE k # 1
      <4>1. k - 1 \in 1..Len(o) BY <3>2, <1>1
      <4>2. prev[o[k]] = o[k - 1] BY <3>2, SpellsAt
      <4>3. At(o, k) = o[k] /\ At(o, k - 1) = o[k - 1] BY <4>1
      <4> QED BY <4>2, <4>3
    <3> QED BY <3>1, <3>2
  <2> QED BY <2>1, <2>2
<1> DEFINE l == At(o, i)
           r == At(o, j)
           next1 == Exchange(next, l, r)
           prev0 == PointBack(next1, prev, l)
           prev1 == PointBack(next1, prev0, r)
           prev2 == Exchange(prev1, l, r)
           next2 == PointForth(next1, prev2, l)
           next3 == PointForth(next2, prev2, r)
<1>l. l \in Op /\ r \in Op BY <1>1
<1>p. prev' = prev2 /\ next' = next3
  BY DEF Swap, SwapLinks
<1>n1. /\ next1 \in [Op -> OpOrNull]
       /\ \A m \in Op : next1[m] = IF m = l THEN next[r] ELSE IF m = r THEN next[l] ELSE next[m]
  BY <1>1, <1>l, ExchangeValue
<1> HIDE DEF next1
<1>p0. /\ prev0 \in [Op -> OpOrNull]
       /\ \A m \in Op : prev0[m] = IF m = next1[l] THEN l ELSE prev[m]
  BY <1>1, <1>l, <1>n1, PointBackValue
<1> HIDE DEF prev0
<1>p1. /\ prev1 \in [Op -> OpOrNull]
       /\ \A m \in Op : prev1[m] = IF m = next1[r] THEN r ELSE prev0[m]
  BY <1>l, <1>n1, <1>p0, PointBackValue
<1> HIDE DEF prev1
<1>p2. /\ prev2 \in [Op -> OpOrNull]
       /\ \A m \in Op : prev2[m] = IF m = l THEN prev1[r] ELSE IF m = r THEN prev1[l] ELSE prev1[m]
  BY <1>l, <1>p1, ExchangeValue
<1> HIDE DEF prev2
<1>n2. /\ next2 \in [Op -> OpOrNull]
       /\ \A m \in Op : next2[m] = IF m = prev2[l] THEN l ELSE next1[m]
  BY <1>l, <1>n1, <1>p2, PointForthValue
<1> HIDE DEF next2
<1>n3. \A m \in Op : next3[m] = IF m = prev2[r] THEN r ELSE next2[m]
  BY <1>l, <1>n2, <1>p2, PointForthValue
<1> HIDE DEF next3
<1>4. \A m \in Op :
        /\ prev'[m] = IF m = l THEN prev1[r] ELSE IF m = r THEN prev1[l] ELSE prev1[m]
        /\ next2[m] = IF m = prev'[l] THEN l ELSE next1[m]
        /\ next'[m] = IF m = prev'[r] THEN r ELSE next2[m]
  BY <1>p, <1>p2, <1>n2, <1>n3
<1>5. \A k \in 1..Len(o) :
        next1[At(o, k)] = IF k = i THEN At(o, j + 1) ELSE IF k = j THEN At(o, i + 1) ELSE At(o, k + 1)
  BY <1>1, <1>2, <1>3, <1>n1
<1>e. next1[l] = At(o, j + 1) /\ next1[r] = At(o, IF i = j THEN j + 1 ELSE i + 1)
  BY <1>5
<1>6. \A k \in 1..Len(o) : prev0[At(o, k)] = IF k = j + 1 THEN At(o, i) ELSE At(o, k - 1)
  <2> TAKE k \in 1..Len(o)
  <2>1. j + 1 \in 0..(Len(o) + 1) BY <1>1
  <2>2. At(o, k) = At(o, j + 1) <=> k = j + 1 BY <2>1, <1>2
  <2>3. At(o, k) \in Op BY <1>1
  <2> QED BY <2>2, <2>3, <1>3, <1>p0, <1>e
<1>7. \A k \in 1..Len(o) :
        prev1[At(o, k)] = IF k = (IF i = j THEN j + 1 ELSE i + 1) THEN At(o, j) ELSE
                      IF k = j + 1 THEN At(o, i) ELSE At(o, k - 1)
  <2> TAKE k \in 1..Len(o)
  <2> DEFINE x == IF i = j THEN j + 1 ELSE i + 1
  <2>1. x \in 0..(Len(o) + 1) BY <1>1
  <2>2. At(o, k) = At(o, x) <=> k = x BY <2>1, <1>2
  <2>3. At(o, k) \in Op /\ next1[r] = At(o, x) BY <1>1, <1>e
  <2> QED BY <2>2, <2>3, <1>6, <1>p1
<1>8. /\ prev'[At(o, i)] = prev1[At(o, j)] /\ prev'[At(o, j)] = prev1[At(o, i)]
      /\ \A k \in 1..Len(o) : k # i /\ k # j => prev'[At(o, k)] = prev1[At(o, k)]
  <2>1. \A k \in 1..Len(o) : /\ At(o, k) \in Op
                             /\ At(o, k) = l <=> k = i
                             /\ At(o, k) = r <=> k = j
    BY <1>1, <1>2
  <2> QED BY <2>1, <1>4
<1>9. ASSUME NEW k \in 1..Len(o), k # i, k # j
      PROVE  /\ At(p, k) = At(o, k)
             /\ At(p, k + 1) = IF k = i - 1 THEN At(o, j) ELSE IF k = j - 1 THEN At(o, i) ELSE At(o, k + 1)
             /\ At(p, k - 1) = IF k = i + 1 THEN At(o, j) ELSE IF k = j + 1 THEN At(o, i) ELSE At(o, k - 1)
  <2>1. {k, k + 1, k - 1} \subseteq 0..(Len(o) + 1) BY <1>1
  <2>2. \A m \in 0..(Len(o) + 1) :
          At(p, m) = IF m = i THEN At(o, j) ELSE IF m = j THEN At(o, i) ELSE At(o, m)
    OBVIOUS
  <2>3. At(p, k + 1) = IF k + 1 = i THEN At(o, j) ELSE IF k + 1 = j THEN At(o, i) ELSE At(o, k + 1)
    BY <2>1, <2>2
  <2>4. At(p, k - 1) = IF k - 1 = i THEN At(o, j) ELSE IF k - 1 = j THEN At(o, i) ELSE At(o, k - 1)
    BY <2>1, <2>2
  <2>5. /\ k + 1 = i <=> k = i - 1
        /\ k + 1 = j <=> k = j - 1
        /\ k - 1 = i <=> k = i + 1
        /\ k - 1 = j <=> k = j + 1
    OBVIOUS
  <2>6. At(p, k) = At(o, k) BY <2>1, <2>2, <1>9
  <2> QED BY <2>3, <2>4, <2>5, <2>6, Zenon
<1>a. ASSUME i = j
      PROVE  \A k \in 1..Len(o) : next'[At(p, k)] = At(p, k + 1) /\ prev'[At(p, k)] = At(p, k - 1)
  <2>1. \A k \in 1..Len(o) : prev'[At(o, k)] = At(o, k - 1)
    BY <1>1, <1>7, <1>8, <1>a
  <2>0. prev'[l] = At(o, i - 1) /\ prev'[r] = At(o, i - 1)
    BY <1>a, <2>1
  <2>2. \A k \in 1..Len(o) : next2[At(o, k)] = At(o, k + 1)
    BY <1>1, <1>2, <1>4, <1>5, <1>a, <2>0, <2>1
  <2>3. \A k \in 1..Len(o) : next'[At(o, k)] = At(o, k + 1)
    BY <1>1, <1>2, <1>4, <1>a, <2>0, <2>1, <2>2
  <2> QED
    <3> TAKE k \in 1..Len(o)
    <3>1. CASE k = i BY <1>1, <1>a, <2>1, <2>3, <3>1
    <3>2. CASE k = j BY <1>1, <1>a, <2>1, <2>3, <3>2
    <3>3. CASE k # i /\ k # j
      <4>1. /\ At(p, k) = At(o, k)
            /\ At(p, k + 1) = IF k = i - 1 THEN At(o, j) ELSE IF k = j - 1 THEN At(o, i) ELSE At(o, k + 1)
            /\ At(p, k - 1) = IF k = i + 1 THEN At(o, j) ELSE IF k = j + 1 THEN At(o, i) ELSE At(o, k - 1)
        BY <1>9, <3>3
      <4>2. next'[At(o, k)] = At(p, k + 1) BY <4>1, <1>a, <2>3, <3>3
      <4>3. prev'[At(o, k)] = At(p, k - 1) BY <4>1, <1>a, <2>1, <3>3
      <4> QED BY <4>1, <4>2, <4>3, Zenon
    <3> QED BY <3>1, <3>2, <3>3
<1>b. ASSUME j = i + 1
      PROVE  \A k \in 1..Len(o) : next'[At(p, k)] = At(p, k + 1) /\ prev'[At(p, k)] = At(p, k - 1)
  <2>1. \A k \in 1..Len(o) : prev'[At(o, k)] = IF k = i THEN At(o, j) ELSE IF k = j THEN At(o, i - 1) ELSE
                             IF k = j + 1 THEN At(o, i) ELSE At(o, k - 1)
    BY <1>1, <1>7, <1>8, <1>b
  <2>0. prev'[l] = At(o, j) /\ prev'[r] = At(o, i - 1)
    BY <1>b, <2>1
  <2>2. \A k \in 1..Len(o) : next2[At(o, k)] = IF k = j THEN At(o, i) ELSE IF k = i THEN At(o, j + 1) ELSE At(o, k + 1)
    BY <1>1, <1>2, <1>4, <1>5, <1>b, <2>0, <2>1
  <2>3. \A k \in 1..Len(o) : next'[At(o, k)] = IF k = i - 1 THEN At(o, j) ELSE
                             IF k = j THEN At(o, i) ELSE IF k = i THEN At(o, j + 1) ELSE At(o, k + 1)
    BY <1>1, <1>2, <1>4, <1>b, <2>0, <2>1, <2>2
  <2> QED
    <3> TAKE k \in 1..Len(o)
    <3>1. CASE k = i BY <1>1, <1>b, <2>1, <2>3, <3>1
    <3>2. CASE k = j BY <1>1, <1>b, <2>1, <2>3, <3>2
    <3>3. CASE k # i /\ k # j
      <4>1. /\ At(p, k) = At(o, k)
            /\ At(p, k + 1) = IF k = i - 1 THEN At(o, j) ELSE IF k = j - 1 THEN At(o, i) ELSE At(o, k + 1)
            /\ At(p, k - 1) = IF k = i + 1 THEN At(o, j) ELSE IF k = j + 1 THEN At(o, i) ELSE At(o, k - 1)
        BY <1>9, <3>3
      <4>2. next'[At(o, k)] = At(p, k + 1) BY <4>1, <1>b, <2>3, <3>3
      <4>3. prev'[At(o, k)] = At(p, k - 1) BY <4>1, <1>b, <2>1, <3>3
      <4> QED BY <4>1, <4>2, <4>3, Zenon
    <3> QED BY <3>1, <3>2, <3>3
<1>c. ASSUME i = j + 1
      PROVE  \A k \in 1..Len(o) : next'[At(p, k)] = At(p, k + 1) /\ prev'[At(p, k)] = At(p, k - 1)
  <2>1. \A k \in 1..Len(o) : prev'[At(o, k)] = IF k = i THEN At(o, j - 1) ELSE IF k = j THEN At(o, i) ELSE
                             IF k = i + 1 THEN At(o, j) ELSE At(o, k - 1)
    BY <1>1, <1>7, <1>8, <1>c
  <2>0. prev'[l] = At(o, j - 1) /\ prev'[r] = At(o, i)
    <3>1. prev'[l] = At(o, j - 1) BY <2>1
    <3>2. prev'[r] = At(o, i) BY <1>c, <2>1
    <3> QED BY <3>1, <3>2
  <2>2. \A k \in 1..Len(o) : next2[At(o, k)] = IF k = j - 1 THEN At(o, i) ELSE
                             IF k = i THEN At(o, i) ELSE IF k = j THEN At(o, i + 1) ELSE At(o, k + 1)
    BY <1>1, <1>2, <1>4, <1>5, <1>c, <2>0, <2>1
  <2>3. \A k \in 1..Len(o) : next'[At(o, k)] = IF k = i THEN At(o, j) ELSE IF k = j - 1 THEN At(o, i) ELSE
                             IF k = j THEN At(o, i + 1) ELSE At(o, k + 1)
    BY <1>1, <1>2, <1>4, <1>c, <2>0, <2>1, <2>2
  <2> QED
    <3> TAKE k \in 1..Len(o)
    <3>1. CASE k = i BY <1>1, <1>c, <2>1, <2>3, <3>1
    <3>2. CASE k = j BY <1>1, <1>c, <2>1, <2>3, <3>2
    <3>3. CASE k # i /\ k # j
      <4>1. /\ At(p, k) = At(o, k)
            /\ At(p, k + 1) = IF k = i - 1 THEN At(o, j) ELSE IF k = j - 1 THEN At(o, i) ELSE At(o, k + 1)
            /\ At(p, k - 1) = IF k = i + 1 THEN At(o, j) ELSE IF k = j + 1 THEN At(o, i) ELSE At(o, k - 1)
        BY <1>9, <3>3
      <4>2. next'[At(o, k)] = At(p, k + 1) BY <4>1, <1>c, <2>3, <3>3
      <4>3. prev'[At(o, k)] = At(p, k - 1) BY <4>1, <1>c, <2>1, <3>3
      <4> QED BY <4>1, <4>2, <4>3, Zenon
    <3> QED BY <3>1, <3>2, <3>3
<1>d. ASSUME i # j /\ j # i + 1 /\ i # j + 1
      PROVE  \A k \in 1..Len(o) : next'[At(p, k)] = At(p, k + 1) /\ prev'[At(p, k)] = At(p, k - 1)
  <2>1. \A k \in 1..Len(o) : prev'[At(o, k)] = IF k = i THEN At(o, j - 1) ELSE IF k = j THEN At(o, i - 1) ELSE
                             IF k = j + 1 THEN At(o, i) ELSE IF k = i + 1 THEN At(o, j) ELSE At(o, k - 1)
    BY <1>1, <1>7, <1>8, <1>d
  <2>0. prev'[l] = At(o, j - 1) /\ prev'[r] = At(o, i - 1)
    BY <1>d, <2>1
  <2>2. \A k \in 1..Len(o) : next2[At(o, k)] = IF k = j - 1 THEN At(o, i) ELSE
                             IF k = i THEN At(o, j + 1) ELSE IF k = j THEN At(o, i + 1) ELSE At(o, k + 1)
    BY <1>1, <1>2, <1>4, <1>5, <1>d, <2>0, <2>1
  <2>3. \A k \in 1..Len(o) : next'[At(o, k)] = IF k = i - 1 THEN At(o, j) ELSE IF k = j - 1 THEN At(o, i) ELSE
                             IF k = i THEN At(o, j + 1) ELSE IF k = j THEN At(o, i + 1) ELSE At(o, k + 1)
    BY <1>1, <1>2, <1>4, <1>d, <2>0, <2>1, <2>2
  <2> QED
    <3> TAKE k \in 1..Len(o)
    <3>1. CASE k = i
      <4>1. /\ At(p, i) = At(o, j)
            /\ At(p, i + 1) = At(o, i + 1) /\ At(p, i - 1) = At(o, i - 1)
        BY <1>1, <1>d
      <4>2. next'[At(o, j)] = At(o, i + 1) BY <1>d, <2>3
      <4>3. prev'[At(o, j)] = At(o, i - 1) BY <1>d, <2>1
      <4> QED BY <4>1, <4>2, <4>3, <3>1, Zenon
    <3>2. CASE k = j
      <4>1. /\ At(p, j) = At(o, i)
            /\ At(p, j + 1) = At(o, j + 1) /\ At(p, j - 1) = At(o, j - 1)
        BY <1>1, <1>d
      <4>2. next'[At(o, i)] = At(o, j + 1) BY <1>d, <2>3
      <4>3. prev'[At(o, i)] = At(o, j - 1) BY <1>d, <2>1
      <4> QED BY <4>1, <4>2, <4>3, <3>2, Zenon
    <3>3. CASE k # i /\ k # j
      <4>1. /\ At(p, k) = At(o, k)
            /\ At(p, k + 1) = IF k = i - 1 THEN At(o, j) ELSE IF k = j - 1 THEN At(o, i) ELSE At(o, k + 1)
            /\ At(p, k - 1) = IF k = i + 1 THEN At(o, j) ELSE IF k = j + 1 THEN At(o, i) ELSE At(o, k - 1)
        BY <1>9, <3>3
      <4>2. next'[At(o, k)] = At(p, k + 1) BY <4>1, <1>d, <2>3, <3>3
      <4>3. prev'[At(o, k)] = At(p, k - 1) BY <4>1, <1>d, <2>1, <3>3
      <4> QED BY <4>1, <4>2, <4>3, Zenon
    <3> QED BY <3>1, <3>2, <3>3
<1>z. \A k \in 1..Len(o) : next'[At(p, k)] = At(p, k + 1) /\ prev'[At(p, k)] = At(p, k - 1)
  BY <1>a, <1>b, <1>c, <1>d
<1>w. live' = {p[k] : k \in 1..Len(p)}
  <2>1. live' = live BY DEF Swap
  <2>2. live = {o[k] : k \in 1..Len(o)} BY DEF Spells
  <2>3. p[i] = o[j] /\ p[j] = o[i] OBVIOUS
  <2>4. \A k \in 1..Len(o) : \E m \in 1..Len(p) : p[m] = o[k]
    BY <2>3
  <2>5. \A m \in 1..Len(p) : \E k \in 1..Len(o) : p[m] = o[k]
    OBVIOUS
  <2>6. ASSUME NEW n \in live PROVE n \in {p[m] : m \in 1..Len(p)}
    <3>1. PICK k \in 1..Len(o) : n = o[k] BY <2>2
    <3>2. PICK m \in 1..Len(p) : p[m] = o[k] BY <2>4
    <3> QED BY <3>1, <3>2
  <2>7. ASSUME NEW m \in 1..Len(p) PROVE p[m] \in live
    <3>1. PICK k \in 1..Len(o) : p[m] = o[k] BY <2>5
    <3> QED BY <3>1, <1>s
  <2> QED BY <2>1, <2>6, <2>7
<1>i. \A k, m \in 1..Len(p) : p[k] = p[m] => k = m
  BY <1>s
<1>h. /\ head' = IF Len(p) = 0 THEN Null ELSE p[1]
      /\ tail' = IF Len(p) = 0 THEN Null ELSE p[Len(p)]
  BY <1>s, <1>s, SpellsAt DEF Swap, SwappedEnd
<1>L. \A k \in 1..Len(p) : /\ next'[p[k]] = IF k = Len(p) THEN Null ELSE p[k + 1]
                           /\ prev'[p[k]] = IF k = 1 THEN Null ELSE p[k - 1]
  <2> TAKE k \in 1..Len(p)
  <2>1. k \in 1..Len(o) /\ At(p, k) = p[k] BY <1>v
  <2>2. At(p, k + 1) = IF k = Len(p) THEN Null ELSE p[k + 1]
    <3>1. CASE k = Len(p) BY <3>1, <1>v
    <3>2. CASE k # Len(p)
      <4>1. k + 1 \in 1..Len(o) BY <3>2, <1>s
      <4> QED BY <4>1, <3>2, <1>v
    <3> QED BY <3>1, <3>2
  <2>3. At(p, k - 1) = IF k = 1 THEN Null ELSE p[k - 1]
    <3>1. CASE k = 1 BY <3>1, <1>v
    <3>2. CASE k # 1
      <4>1. k - 1 \in 1..Len(o) BY <3>2, <1>s
      <4> QED BY <4>1, <3>2, <1>v
    <3> QED BY <3>1, <3>2
  <2>4. next'[p[k]] = At(p, k + 1) /\ prev'[p[k]] = At(p, k - 1)
    BY <1>z, <2>1
  <2> QED BY <2>2, <2>3, <2>4
<1> QED BY <1>w, <1>i, <1>h, <1>L DEF Spells

-----------------------------------------------------------------------------
(* Each operation, in terms of the sequence it spells afterwards *)

LEMMA AppendSpells ==
  ASSUME NEW o, Spells(o), TypeOK, NEW op \in Op, AppendOp(op)
  PROVE  Spells(With(o, Len(o) + 1, op))'
<1>1. CASE AddOnly(op)
  <2>1. Len(o) + 1 = 1 BY <1>1, AddOnlyP DEF AppendOp
  <2> QED BY <2>1, <1>1, AddOnlyP DEF AppendOp
<1>2. CASE AddLast(op) BY <1>2, AddLastP DEF AppendOp
<1> QED BY <1>1, <1>2 DEF AppendOp

LEMMA PrependSpells ==
  ASSUME NEW o, Spells(o), TypeOK, NEW op \in Op, Prepend(op)
  PROVE  Spells(With(o, 1, op))'
BY AddOnlyP, AddFirstP DEF Prepend

LEMMA InsertBeforeSpells ==
  ASSUME NEW o, Spells(o), TypeOK, NEW op \in Op, NEW i \in 1..Len(o), InsertBefore(op, o[i])
  PROVE  Spells(With(o, i, op))'
<1>1. /\ o[i] # Null /\ Len(o) \in Nat
      /\ prev[o[i]] = Null => i = 1
  <2>1. /\ Len(o) \in Nat /\ \A k \in 1..Len(o) : o[k] # Null
    BY SpellsTyped
  <2>2. i # 1 => i - 1 \in 1..Len(o) /\ prev[o[i]] = o[i - 1] BY <2>1, SpellsAt
  <2> QED BY <2>1, <2>2
<1>2. prev[o[i]] # Null => i \in 2..Len(o)
  <2>1. i = 1 => prev[o[i]] = Null BY SpellsAt
  <2> QED BY <2>1, <1>1
<1>3. CASE prev[o[i]] = Null BY <1>1, <1>3, PrependSpells DEF InsertBefore
<1>4. CASE prev[o[i]] # Null BY <1>1, <1>2, <1>4, AddBetweenP DEF InsertBefore
<1> QED BY <1>3, <1>4

LEMMA DeleteSpells ==
  ASSUME NEW o, Spells(o), TypeOK, NEW i \in 1..Len(o), Delete(o[i])
  PROVE  Spells(Less(o, i))'
BY UnlinkP DEF Delete

LEMMA SwapExchanges ==
  ASSUME NEW o, Spells(o), TypeOK, NEW l \in live, NEW r \in live, Swap(l, r)
  PROVE  Spells(Exchanged(o, l, r))'
<1>1. PICK i \in 1..Len(o) : o[i] = l BY DEF Spells
<1>2. PICK j \in 1..Len(o) : o[j] = r BY DEF Spells
<1>3. /\ o \in Seq(Op) /\ l \in Op /\ r \in Op
      /\ \A k, m \in 1..Len(o) : o[k] = o[m] => k = m
  BY <1>1, <1>2, SpellsTyped, SpellsAt
<1>4. /\ Exchanged(o, l, r) \in Seq(Op) /\ Len(Exchanged(o, l, r)) = Len(o)
      /\ \A k \in 1..Len(o) : Exchanged(o, l, r)[k] =
           IF k = i THEN o[j] ELSE IF k = j THEN o[i] ELSE o[k]
  BY <1>1, <1>2, <1>3 DEF Exchanged
<1> QED BY <1>1, <1>2, <1>4, SwapSpells

\* Every live node has a position, and a spelled list is linked.
LEMMA LivePosition ==
  ASSUME NEW o, Spells(o), NEW n \in live
  PROVE  \E i \in 1..Len(o) : n = o[i]
BY DEF Spells

LEMMA SpellsLinked ==
  ASSUME NEW o, Spells(o), TypeOK
  PROVE  Linked
<1>1. /\ o \in Seq(Op) /\ Len(o) \in Nat
      /\ \A k \in 1..Len(o) : o[k] \in Op /\ o[k] \in live /\ o[k] # Null
      /\ head = Null <=> Len(o) = 0
      /\ tail = Null <=> Len(o) = 0
      /\ Len(o) # 0 => head = o[1] /\ tail = o[Len(o)]
  BY SpellsTyped, SpellsAt
<1>2. ASSUME NEW n \in live
      PROVE  /\ next[n] \in live \cup {Null} /\ prev[n] \in live \cup {Null}
             /\ prev[n] = Null <=> head = n
             /\ next[n] = Null <=> tail = n
             /\ next[n] # Null => prev[next[n]] = n
             /\ prev[n] # Null => next[prev[n]] = n
  <2>1. PICK i \in 1..Len(o) : n = o[i] BY LivePosition
  <2>2. CASE i = 1 /\ i = Len(o) BY <1>1, <2>1, <2>2, SpellsAt
  <2>3. CASE i = 1 /\ i # Len(o)
    <3>0. Len(o) \in Nat /\ i \in 1..Len(o) BY <1>1, <2>1
    <3>a. \A m \in Nat : \A k \in 1..m :
            k # m => k + 1 \in 1..m /\ k + 1 # 1 /\ k + 1 - 1 = k
      OBVIOUS
    <3>1. i + 1 \in 1..Len(o) /\ i + 1 # 1 /\ i + 1 - 1 = i
      BY <3>0, <3>a, <2>3, Zenon
    <3>2. next[n] = o[i + 1] /\ prev[o[i + 1]] = o[i]
      <4>1. prev[o[i + 1]] = o[i + 1 - 1] BY <3>1, SpellsAt
      <4>2. next[o[i]] = o[i + 1] BY <2>1, <2>3, SpellsAt
      <4>3. i + 1 - 1 = i /\ n = o[i] BY <2>1
      <4>4. prev[o[i + 1]] = o[i] BY <2>1, <4>1, <4>3
      <4> QED BY <4>2, <4>3, <4>4
    <3>3. tail # n /\ head = n /\ prev[n] = Null
      <4>1. Len(o) \in 1..Len(o) /\ Len(o) # 0 BY <3>0, <2>1
      <4>2. o[i] # o[Len(o)] BY <4>1, <2>1, <2>3, SpellsAt
      <4>3. head = o[1] /\ tail = o[Len(o)] BY <4>1, <1>1
      <4>4. prev[o[i]] = Null BY <2>1, <2>3, SpellsAt
      <4> QED BY <4>2, <4>3, <4>4, <2>1, <2>3
    <3> QED BY <1>1, <2>1, <3>1, <3>2, <3>3
  <2>4. CASE i # 1 /\ i = Len(o)
    <3>1. i - 1 \in 1..Len(o) /\ i - 1 # Len(o) /\ i - 1 + 1 = i BY <1>1, <2>4
    <3>2. prev[n] = o[i - 1] /\ next[o[i - 1]] = o[i] BY <2>1, <2>4, <3>1, SpellsAt
    <3>3. head # n /\ tail = n /\ next[n] = Null BY <1>1, <2>1, <2>4, SpellsAt
    <3> QED BY <1>1, <2>1, <3>1, <3>2, <3>3
  <2>5. CASE i # 1 /\ i # Len(o)
    <3>1. /\ i - 1 \in 1..Len(o) /\ i - 1 # Len(o) /\ i - 1 + 1 = i
          /\ i + 1 \in 1..Len(o) /\ i + 1 # 1 /\ i + 1 - 1 = i BY <1>1, <2>5
    <3>2. prev[n] = o[i - 1] /\ next[o[i - 1]] = o[i] BY <2>1, <2>5, <3>1, SpellsAt
    <3>3. next[n] = o[i + 1] /\ prev[o[i + 1]] = o[i] BY <2>1, <2>5, <3>1, SpellsAt
    <3>4. head # n /\ tail # n BY <1>1, <2>1, <2>5, SpellsAt
    <3> QED BY <1>1, <2>1, <3>1, <3>2, <3>3, <3>4
  <2> QED BY <2>2, <2>3, <2>4, <2>5
<1>3. {head, tail} \subseteq live \cup {Null} BY <1>1
<1> QED BY <1>1, <1>2, <1>3 DEF Linked

-----------------------------------------------------------------------------
(* The invariants *)

\* The links can be followed nowhere but along one sequence.
IInv == TypeOK /\ NoDanglingIterator /\ \E o \in Seq(Op) : Spells(o)

LEMMA IInvLinked == IInv => Linked
BY SpellsLinked DEF IInv

LEMMA Initially == Init => IInv
<1> SUFFICES ASSUME Init PROVE IInv OBVIOUS
<1>1. TypeOK /\ NoDanglingIterator BY DEF Init, TypeOK, NoDanglingIterator, OpOrNull
<1>2. <<>> \in Seq(Op) /\ Spells(<<>>) BY DEF Init, Spells
<1> QED BY <1>1, <1>2 DEF IInv

LEMMA TypeStep == TypeOK /\ [Next]_vars => TypeOK'
<1> SUFFICES ASSUME TypeOK, [Next]_vars PROVE TypeOK' OBVIOUS
<1> USE DEF TypeOK, OpOrNull
<1>1. ASSUME NEW op \in Op, AppendOp(op) PROVE TypeOK'
  BY <1>1 DEF AppendOp, AddOnly, AddLast, Allocate
<1>2. ASSUME NEW op \in Op, Prepend(op) PROVE TypeOK'
  BY <1>2 DEF Prepend, AddOnly, AddFirst, Allocate
<1>3. ASSUME NEW op \in Op, NEW at \in OpOrNull, InsertBefore(op, at) PROVE TypeOK'
  <2>1. CASE at = Null /\ AppendOp(op) BY <2>1, <1>1
  <2>2. CASE at \in live /\ prev[at] = Null /\ Prepend(op) BY <2>2, <1>2
  <2>3. CASE at \in live /\ AddBetween(op, at) /\ Allocate(op) /\ UNCHANGED iter
    BY <2>3 DEF AddBetween, Allocate
  <2> QED BY <1>3, <2>1, <2>2, <2>3 DEF InsertBefore
<1>4. ASSUME NEW op \in live, Unlink(op)
      PROVE  {head', tail'} \subseteq OpOrNull /\ next' \in [Op -> OpOrNull] /\ prev' \in [Op -> OpOrNull]
  BY <1>4 DEF Unlink, UnlinkOnly, UnlinkFirst, UnlinkLast, UnlinkBetween
<1>5. ASSUME NEW op \in Op, DeleteOther(op) PROVE TypeOK'
  BY <1>4, <1>5 DEF DeleteOther, Delete
<1>6. CASE DeleteAndAdvance
  BY <1>4, <1>6 DEF DeleteAndAdvance, Delete
<1>7. ASSUME NEW op \in Op, NEW right \in Op, Swap(op, right) PROVE TypeOK'
  <2> DEFINE next1 == Exchange(next, op, right)
             prev1 == PointBack(next1, PointBack(next1, prev, op), right)
             prev2 == Exchange(prev1, op, right)
             next2 == PointForth(next1, prev2, op)
  <2>1. next1 \in [Op -> OpOrNull] BY ExchangeValue
  <2>2. prev1 \in [Op -> OpOrNull] BY <2>1, PointBackValue
  <2>3. prev2 \in [Op -> OpOrNull] BY <2>2, ExchangeValue
  <2>4. next2 \in [Op -> OpOrNull] BY <2>1, <2>3, PointForthValue
  <2>5. PointForth(next2, prev2, right) \in [Op -> OpOrNull] BY <2>3, <2>4, PointForthValue
  <2>6. prev' = prev2 /\ next' = PointForth(next2, prev2, right)
    BY <1>7 DEF Swap, SwapLinks
  <2> QED BY <1>7, <2>3, <2>5, <2>6 DEF Swap, SwappedEnd
<1>8. CASE Move BY <1>8 DEF Move, Begin, Advance, Retreat, JumpTo, list
<1>9. CASE UNCHANGED vars BY <1>9 DEF vars
<1> QED BY <1>1, <1>2, <1>3, <1>5, <1>6, <1>7, <1>8, <1>9 DEF Next

\* The position iter moves to is one of the list, or its end.
LEMMA NeighboursLive ==
  ASSUME IInv, NEW n \in live
  PROVE  /\ n \in Op /\ n # Null
         /\ next[n] \in (live \ {n}) \cup {Null} /\ prev[n] \in (live \ {n}) \cup {Null}
<1>1. PICK o \in Seq(Op) : Spells(o) BY DEF IInv
<1>2. PICK i \in 1..Len(o) : n = o[i] BY <1>1, LivePosition
<1>3. /\ Len(o) \in Nat
      /\ \A k \in 1..Len(o) : o[k] \in Op /\ o[k] \in live /\ o[k] # Null
      /\ \A k, m \in 1..Len(o) : o[k] = o[m] => k = m
  BY <1>1, SpellsTyped, SpellsAt
<1>4. next[n] \in (live \ {n}) \cup {Null}
  <2>1. CASE i = Len(o) BY <1>1, <1>2, <2>1, SpellsAt
  <2>2. CASE i # Len(o)
    <3>1. i + 1 \in 1..Len(o) /\ i + 1 # i BY <1>2, <1>3, <2>2
    <3>2. next[n] = o[i + 1] BY <1>1, <1>2, <2>2, SpellsAt
    <3> QED BY <1>2, <1>3, <3>1, <3>2
  <2> QED BY <2>1, <2>2
<1>5. prev[n] \in (live \ {n}) \cup {Null}
  <2>1. CASE i = 1 BY <1>1, <1>2, <2>1, SpellsAt
  <2>2. CASE i # 1
    <3>1. i - 1 \in 1..Len(o) /\ i - 1 # i BY <1>2, <1>3, <2>2
    <3>2. prev[n] = o[i - 1] BY <1>1, <1>2, <2>2, SpellsAt
    <3> QED BY <1>2, <1>3, <3>1, <3>2
  <2> QED BY <2>1, <2>2
<1> QED BY <1>2, <1>3, <1>4, <1>5

LEMMA IteratorStep == IInv /\ [Next]_vars => NoDanglingIterator'
<1> SUFFICES ASSUME IInv, [Next]_vars PROVE NoDanglingIterator' OBVIOUS
<1>1. iter \in live \cup {Null} /\ head \in live \cup {Null} /\ tail \in live \cup {Null}
  BY IInvLinked DEF IInv, NoDanglingIterator, Linked
<1>2. ASSUME live \subseteq live', UNCHANGED iter PROVE NoDanglingIterator'
  BY <1>1, <1>2 DEF NoDanglingIterator
<1>3. ASSUME NEW op \in Op, AppendOp(op) PROVE NoDanglingIterator'
  BY <1>2, <1>3 DEF AppendOp, Allocate
<1>4. ASSUME NEW op \in Op, Prepend(op) PROVE NoDanglingIterator'
  BY <1>2, <1>4 DEF Prepend, Allocate
<1>5. ASSUME NEW op \in Op, NEW at \in OpOrNull, InsertBefore(op, at) PROVE NoDanglingIterator'
  BY <1>2, <1>3, <1>4, <1>5 DEF InsertBefore, Allocate
<1>6. ASSUME NEW op \in Op, DeleteOther(op) PROVE NoDanglingIterator'
  BY <1>1, <1>6 DEF DeleteOther, Delete, NoDanglingIterator
<1>7. CASE DeleteAndAdvance
  BY <1>7, NeighboursLive DEF DeleteAndAdvance, Delete, NoDanglingIterator
<1>8. ASSUME NEW op \in Op, NEW right \in Op, Swap(op, right) PROVE NoDanglingIterator'
  BY <1>2, <1>8 DEF Swap
<1>9. CASE Move
  BY <1>1, <1>9, NeighboursLive DEF Move, Begin, Advance, Retreat, JumpTo, list, NoDanglingIterator
<1>10. CASE UNCHANGED vars BY <1>2, <1>10 DEF vars
<1> QED BY <1>3, <1>4, <1>5, <1>6, <1>7, <1>8, <1>9, <1>10 DEF Next

LEMMA SpellsStep == IInv /\ [Next]_vars => (\E o \in Seq(Op) : Spells(o))'
<1> SUFFICES ASSUME IInv, [Next]_vars PROVE \E p \in Seq(Op) : Spells(p)' OBVIOUS
<1>1. TypeOK BY DEF IInv
<1>2. PICK o \in Seq(Op) : Spells(o) BY DEF IInv
<1>3. Len(o) \in Nat /\ (\A p : Spells(p)' => p \in Seq(Op))
  BY <1>2 DEF Spells
<1>4. ASSUME NEW op \in Op, AppendOp(op) PROVE \E p \in Seq(Op) : Spells(p)'
  BY <1>1, <1>2, <1>3, <1>4, AppendSpells
<1>5. ASSUME NEW op \in Op, Prepend(op) PROVE \E p \in Seq(Op) : Spells(p)'
  BY <1>1, <1>2, <1>3, <1>5, PrependSpells
<1>6. ASSUME NEW op \in Op, NEW at \in OpOrNull, InsertBefore(op, at)
      PROVE  \E p \in Seq(Op) : Spells(p)'
  <2>1. CASE at = Null /\ AppendOp(op) BY <2>1, <1>4
  <2>2. CASE at \in live
    <3>1. PICK i \in 1..Len(o) : at = o[i] BY <1>2, <2>2, LivePosition
    <3>2. Spells(With(o, i, op))' BY <1>1, <1>2, <1>6, <3>1, InsertBeforeSpells
    <3> QED BY <3>2, <1>3
  <2> QED BY <1>6, <2>1, <2>2 DEF InsertBefore
<1>7. ASSUME NEW op \in live, Delete(op) PROVE \E p \in Seq(Op) : Spells(p)'
  <2>1. PICK i \in 1..Len(o) : op = o[i] BY <1>2, LivePosition
  <2>2. Spells(Less(o, i))' BY <1>1, <1>2, <1>7, <2>1, DeleteSpells
  <2> QED BY <2>2, <1>3
<1>8. ASSUME NEW op \in Op, NEW right \in Op, Swap(op, right) PROVE \E p \in Seq(Op) : Spells(p)'
  BY <1>1, <1>2, <1>3, <1>8, SwapExchanges DEF Swap
<1>9. ASSUME UNCHANGED list PROVE \E p \in Seq(Op) : Spells(p)'
  BY <1>2, <1>9 DEF list, Spells
<1> QED
  BY <1>4, <1>5, <1>6, <1>7, <1>8, <1>9
  DEF Next, DeleteOther, DeleteAndAdvance, Delete, Move, vars, list

LEMMA Inductive == IInv /\ [Next]_vars => IInv'
BY TypeStep, IteratorStep, SpellsStep DEF IInv

\* OperationStream (instr.h): after any sequence of insertions, removals and
\* swaps the fields of every node and of the stream have their declared range.
THEOREM TypeCorrect == Spec => []TypeOK
<1>1. Init => IInv BY Initially
<1>2. IInv /\ [Next]_vars => IInv' BY Inductive
<1>3. IInv => TypeOK BY DEF IInv
<1> QED BY <1>1, <1>2, <1>3, PTL DEF Spec

\* Append, Prepend, InsertBefore, Unlink and Swap (instr.h, instr.cc) leave
\* the list linked both ways, with head and tail at its ends and no link to a
\* freed node.
THEOREM AlwaysLinked == Spec => []Linked
<1>1. Init => IInv BY Initially
<1>2. IInv /\ [Next]_vars => IInv' BY Inductive
<1>3. IInv => Linked BY IInvLinked
<1> QED BY <1>1, <1>2, <1>3, PTL DEF Spec

\* An iterator used as the passes use theirs, with Delete(iter++) for its own
\* operation, never stands on a freed node.
THEOREM IteratorSafe == Spec => []NoDanglingIterator
<1>1. Init => IInv BY Initially
<1>2. IInv /\ [Next]_vars => IInv' BY Inductive
<1>3. IInv => NoDanglingIterator BY DEF IInv
<1> QED BY <1>1, <1>2, <1>3, PTL DEF Spec

-----------------------------------------------------------------------------
(* The linked list implements the sequence of module OpSequence.  A        *)
(* history variable records the sequence the links are meant to spell; it  *)
(* only watches, and every step has a record.                              *)

VARIABLE order  \* the operations in the order in which they stand

hvars == <<vars, order>>

\* What one step of the list makes of the recorded sequence.
Recorded(o) ==
  \/ \E op \in Op : AppendOp(op) /\ o = With(order, Len(order) + 1, op)
  \/ \E op \in Op : Prepend(op) /\ o = With(order, 1, op)
  \/ \E op \in Op, i \in 1..Len(order) : InsertBefore(op, order[i]) /\ o = With(order, i, op)
  \/ \E i \in 1..Len(order) : DeleteOther(order[i]) /\ o = Less(order, i)
  \/ \E i \in 1..Len(order) :
       iter = order[i] /\ DeleteAndAdvance /\ o = Less(order, i)
  \/ \E l, r \in live : Swap(l, r) /\ o = Exchanged(order, l, r)
  \/ Move /\ o = order

HInit == Init /\ order = <<>>
HSpec == HInit /\ [][Recorded(order')]_hvars

HInv == IInv /\ Spells(order)

Abstract == INSTANCE OpSequence

LEMMA RecordedIsNext ==
  ASSUME HInv, NEW o, Recorded(o)
  PROVE  Next
<1>1. \A i \in 1..Len(order) : order[i] \in Op /\ order[i] \in OpOrNull
  BY SpellsTyped DEF HInv, OpOrNull
<1>2. live \subseteq Op BY DEF HInv, IInv, TypeOK
<1> QED BY <1>1, <1>2 DEF Recorded, Next

\* The history variable forbids nothing: every step of the list has a record.
LEMMA NextIsRecorded ==
  ASSUME HInv, Next
  PROVE  \E o : Recorded(o)
<1>1. \A n \in live : \E i \in 1..Len(order) : n = order[i]
  BY LivePosition DEF HInv
<1>2. ASSUME NEW op \in Op, AppendOp(op) PROVE \E o : Recorded(o)
  BY <1>2 DEF Recorded
<1>3. ASSUME NEW op \in Op, Prepend(op) PROVE \E o : Recorded(o)
  BY <1>3 DEF Recorded
<1>4. ASSUME NEW op \in Op, NEW at \in OpOrNull, InsertBefore(op, at) PROVE \E o : Recorded(o)
  <2>1. CASE at = Null /\ AppendOp(op) BY <2>1, <1>2
  <2>2. CASE at \in live
    <3>1. PICK i \in 1..Len(order) : at = order[i] BY <1>1, <2>2
    <3> QED BY <1>4, <3>1 DEF Recorded
  <2> QED BY <1>4, <2>1, <2>2 DEF InsertBefore
<1>5. ASSUME NEW op \in Op, DeleteOther(op) PROVE \E o : Recorded(o)
  <2>1. PICK i \in 1..Len(order) : op = order[i] BY <1>1, <1>5 DEF DeleteOther, Delete
  <2> QED BY <1>5, <2>1 DEF Recorded
<1>6. CASE DeleteAndAdvance
  <2>1. PICK i \in 1..Len(order) : iter = order[i] BY <1>1, <1>6 DEF DeleteAndAdvance, Delete
  <2> QED BY <1>6, <2>1 DEF Recorded
<1>7. ASSUME NEW op \in Op, NEW right \in Op, Swap(op, right) PROVE \E o : Recorded(o)
  <2>1. op \in live /\ right \in live BY <1>7 DEF Swap
  <2> QED BY <1>7, <2>1 DEF Recorded
<1>8. CASE Move BY <1>8 DEF Recorded
<1> QED BY <1>2, <1>3, <1>4, <1>5, <1>6, <1>7, <1>8 DEF Next

LEMMA HInductive == HInv /\ [Recorded(order')]_hvars => HInv'
<1> SUFFICES ASSUME HInv, [Recorded(order')]_hvars PROVE HInv' OBVIOUS
<1>1. TypeOK /\ Spells(order) BY DEF HInv, IInv
<1>2. IInv' BY Inductive, RecordedIsNext DEF HInv, hvars
<1>3. PICK o : o = order OBVIOUS
<1>4. PICK p : p = order' OBVIOUS
<1>5. Spells(o) BY <1>1, <1>3
<1>6. Spells(p)' => Spells(order)' BY <1>4 DEF Spells
<1>7. CASE Recorded(order')
  <2>1. ASSUME NEW op \in Op, AppendOp(op), p = With(o, Len(o) + 1, op) PROVE Spells(p)'
    BY <1>1, <1>5, <2>1, AppendSpells
  <2>2. ASSUME NEW op \in Op, Prepend(op), p = With(o, 1, op) PROVE Spells(p)'
    BY <1>1, <1>5, <2>2, PrependSpells
  <2>3. ASSUME NEW op \in Op, NEW i \in 1..Len(o), InsertBefore(op, o[i]), p = With(o, i, op)
        PROVE  Spells(p)'
    BY <1>1, <1>5, <2>3, InsertBeforeSpells
  <2>4. ASSUME NEW i \in 1..Len(o), Delete(o[i]), p = Less(o, i) PROVE Spells(p)'
    BY <1>1, <1>5, <2>4, DeleteSpells
  <2>5. ASSUME NEW l \in live, NEW r \in live, Swap(l, r), p = Exchanged(o, l, r)
        PROVE  Spells(p)'
    BY <1>1, <1>5, <2>5, SwapExchanges
  <2>6. ASSUME Move, p = o PROVE Spells(p)'
    BY <1>5, <2>6 DEF Move, list, Spells
  <2>7. Spells(p)'
    <3>1. CASE \E op \in Op : AppendOp(op) /\ p = With(o, Len(o) + 1, op) BY <3>1, <2>1
    <3>2. CASE \E op \in Op : Prepend(op) /\ p = With(o, 1, op) BY <3>2, <2>2
    <3>3. CASE \E op \in Op, i \in 1..Len(o) : InsertBefore(op, o[i]) /\ p = With(o, i, op)
      BY <3>3, <2>3
    <3>4. CASE \E i \in 1..Len(o) : Delete(o[i]) /\ p = Less(o, i) BY <3>4, <2>4
    <3>5. CASE \E l, r \in live : Swap(l, r) /\ p = Exchanged(o, l, r) BY <3>5, <2>5
    <3>6. CASE Move /\ p = o BY <3>6, <2>6
    <3>7. \A i \in 1..Len(o) : /\ DeleteOther(o[i]) => Delete(o[i])
                               /\ iter = o[i] /\ DeleteAndAdvance => Delete(o[i])
      BY DEF DeleteOther, DeleteAndAdvance
    <3> QED BY <1>3, <1>4, <1>7, <3>1, <3>2, <3>3, <3>4, <3>5, <3>6, <3>7 DEF Recorded
  <2> QED BY <1>2, <1>6, <2>7 DEF HInv
<1>8. CASE UNCHANGED hvars
  <2>1. p = o /\ UNCHANGED list BY <1>3, <1>4, <1>8 DEF hvars, vars, list
  <2>2. Spells(o)' BY <1>5, <2>1 DEF Spells, list
  <2>3. Spells(p)' BY <2>1, <2>2
  <2> QED BY <1>2, <1>6, <2>3 DEF HInv
<1> QED BY <1>7, <1>8

-----------------------------------------------------------------------------
(* The operators of OpSequence on a sequence without repetitions *)

LEMMA InsertAtIsWith ==
  ASSUME NEW o \in Seq(Op), NEW i \in 1..(Len(o) + 1), NEW op \in Op
  PROVE  Abstract!InsertAt(o, i, op) = With(o, i, op)
<1> DEFINE a == SubSeq(o, 1, i - 1)
           b == SubSeq(o, i, Len(o))
           c == <<op>>
<1>1. Len(o) \in Nat /\ \A k \in 1..Len(o) : o[k] \in Op OBVIOUS
<1>2. /\ a \in Seq(Op) /\ Len(a) = i - 1
      /\ \A k \in 1..(i - 1) : a[k] = o[k]
  <2>1. \A k \in 1..(i - 1) : o[k] \in Op BY <1>1
  <2>2. /\ a \in Seq(Op)
        /\ Len(a) = IF 1 <= i - 1 THEN i - 1 - 1 + 1 ELSE 0
        /\ \A k \in 1..(i - 1 - 1 + 1) : a[k] = o[1 + k - 1]
    BY <2>1, SubSeqProperties
  <2> QED BY <2>2, <1>1
<1>3. /\ b \in Seq(Op) /\ Len(b) = Len(o) + 1 - i
      /\ \A k \in 1..(Len(o) + 1 - i) : b[k] = o[i + k - 1]
  <2>1. \A k \in i..Len(o) : o[k] \in Op BY <1>1
  <2>2. /\ b \in Seq(Op)
        /\ Len(b) = IF i <= Len(o) THEN Len(o) - i + 1 ELSE 0
        /\ \A k \in 1..(Len(o) - i + 1) : b[k] = o[i + k - 1]
    BY <2>1, <1>1, SubSeqProperties
  <2> QED BY <2>2, <1>1
<1>4. c \in Seq(Op) /\ Len(c) = 1 /\ c[1] = op OBVIOUS
<1> HIDE DEF a, b, c
<1>5. /\ a \o c \in Seq(Op) /\ Len(a \o c) = i
      /\ \A k \in 1..i : (a \o c)[k] = IF k <= i - 1 THEN a[k] ELSE c[k - (i - 1)]
  <2>1. /\ a \o c \in Seq(Op) /\ Len(a \o c) = Len(a) + Len(c)
        /\ \A k \in 1..(Len(a) + Len(c)) :
             (a \o c)[k] = IF k <= Len(a) THEN a[k] ELSE c[k - Len(a)]
    BY <1>2, <1>4, ConcatProperties
  <2>2. Len(a) + Len(c) = i /\ Len(a) = i - 1 BY <1>2, <1>4
  <2> QED BY <2>1, <2>2
<1>6. /\ (a \o c) \o b \in Seq(Op) /\ Len((a \o c) \o b) = Len(o) + 1
      /\ \A k \in 1..(Len(o) + 1) :
           ((a \o c) \o b)[k] = IF k <= i THEN (a \o c)[k] ELSE b[k - i]
  <2>1. /\ (a \o c) \o b \in Seq(Op) /\ Len((a \o c) \o b) = Len(a \o c) + Len(b)
        /\ \A k \in 1..(Len(a \o c) + Len(b)) :
             ((a \o c) \o b)[k] = IF k <= Len(a \o c) THEN (a \o c)[k] ELSE b[k - Len(a \o c)]
    <3>1. a \o c \in Seq(Op) /\ b \in Seq(Op) BY <1>3, <1>5
    <3> QED BY <3>1, ConcatProperties
  <2>2. Len(a \o c) = i /\ Len(a \o c) + Len(b) = Len(o) + 1 BY <1>1, <1>3, <1>5
  <2> QED BY <2>1, <2>2
<1>7. ASSUME NEW k \in 1..(Len(o) + 1)
      PROVE  ((a \o c) \o b)[k] = With(o, i, op)[k]
  <2>1. With(o, i, op)[k] = IF k < i THEN o[k] ELSE IF k = i THEN op ELSE o[k - 1]
    BY DEF With
  <2>2. CASE k < i
    <3>0. k <= i /\ k \in 1..i /\ k \in 1..(i - 1) BY <2>2
    <3>1. (a \o c)[k] = a[k] BY <1>5, <3>0
    <3>2. ((a \o c) \o b)[k] = (a \o c)[k] BY <1>6, <3>0, Zenon
    <3>3. a[k] = o[k] BY <1>2, <3>0, Zenon
    <3>4. With(o, i, op)[k] = o[k] BY <2>1, <2>2
    <3> QED BY <3>1, <3>2, <3>3, <3>4, Zenon
  <2>3. CASE k = i
    <3>0. k <= i /\ k \in 1..i /\ ~(k <= i - 1) /\ k - (i - 1) = 1 BY <2>3
    <3>4. (a \o c)[k] = c[k - (i - 1)] BY <1>5, <3>0, Zenon
    <3>1. (a \o c)[k] = c[1] BY <3>0, <3>4, Zenon
    <3>2. ((a \o c) \o b)[k] = (a \o c)[k] BY <1>6, <3>0, Zenon
    <3>3. With(o, i, op)[k] = op BY <2>1, <2>3
    <3> QED BY <1>4, <3>1, <3>2, <3>3, Zenon
  <2>4. CASE k > i
    <3>1. k - i \in 1..(Len(o) + 1 - i) /\ i + (k - i) - 1 = k - 1 BY <1>1, <2>4
    <3>2. b[k - i] = o[k - 1] BY <1>3, <3>1
    <3>0. ~(k <= i) BY <2>4
    <3>3. ((a \o c) \o b)[k] = b[k - i] BY <1>6, <3>0, Zenon
    <3>4. With(o, i, op)[k] = o[k - 1] BY <2>1, <2>4
    <3> QED BY <3>2, <3>3, <3>4, Zenon
  <2>5. k < i \/ k = i \/ k > i BY <1>1
  <2> QED BY <2>2, <2>3, <2>4, <2>5
<1>8. (a \o c) \o b = With(o, i, op)
  <2>1. With(o, i, op) \in Seq(Op) /\ Len(With(o, i, op)) = Len(o) + 1 BY WithSeq
  <2> QED BY <1>6, <1>7, <2>1, SeqEqual
<1> QED BY <1>8 DEF Abstract!InsertAt, a, b, c

LEMMA RemoveAtIsLess ==
  ASSUME NEW o \in Seq(Op), NEW i \in 1..Len(o)
  PROVE  Abstract!RemoveAt(o, i) = Less(o, i)
<1> DEFINE a == SubSeq(o, 1, i - 1)
           b == SubSeq(o, i + 1, Len(o))
<1>1. Len(o) \in Nat /\ \A k \in 1..Len(o) : o[k] \in Op OBVIOUS
<1>2. /\ a \in Seq(Op) /\ Len(a) = i - 1
      /\ \A k \in 1..(i - 1) : a[k] = o[k]
  <2>1. \A k \in 1..(i - 1) : o[k] \in Op BY <1>1
  <2>2. /\ a \in Seq(Op)
        /\ Len(a) = IF 1 <= i - 1 THEN i - 1 - 1 + 1 ELSE 0
        /\ \A k \in 1..(i - 1 - 1 + 1) : a[k] = o[1 + k - 1]
    BY <2>1, SubSeqProperties
  <2> QED BY <2>2, <1>1
<1>3. /\ b \in Seq(Op) /\ Len(b) = Len(o) - i
      /\ \A k \in 1..(Len(o) - i) : b[k] = o[i + 1 + k - 1]
  <2>1. \A k \in (i + 1)..Len(o) : o[k] \in Op BY <1>1
  <2>2. /\ b \in Seq(Op)
        /\ Len(b) = IF i + 1 <= Len(o) THEN Len(o) - (i + 1) + 1 ELSE 0
        /\ \A k \in 1..(Len(o) - (i + 1) + 1) : b[k] = o[i + 1 + k - 1]
    BY <2>1, <1>1, SubSeqProperties
  <2> QED BY <2>2, <1>1
<1> HIDE DEF a, b
<1>4. /\ a \o b \in Seq(Op) /\ Len(a \o b) = Len(o) - 1
      /\ \A k \in 1..(Len(o) - 1) :
           (a \o b)[k] = IF k <= i - 1 THEN a[k] ELSE b[k - (i - 1)]
  <2>1. /\ a \o b \in Seq(Op) /\ Len(a \o b) = Len(a) + Len(b)
        /\ \A k \in 1..(Len(a) + Len(b)) :
             (a \o b)[k] = IF k <= Len(a) THEN a[k] ELSE b[k - Len(a)]
    BY <1>2, <1>3, ConcatProperties
  <2>2. Len(a) = i - 1 /\ Len(a) + Len(b) = Len(o) - 1 BY <1>1, <1>2, <1>3
  <2> QED BY <2>1, <2>2
<1>5. ASSUME NEW k \in 1..(Len(o) - 1)
      PROVE  (a \o b)[k] = Less(o, i)[k]
  <2>1. Less(o, i)[k] = IF k < i THEN o[k] ELSE o[k + 1] BY LessSeq
  <2>2. CASE k < i BY <1>2, <1>4, <2>1, <2>2
  <2>3. CASE ~(k < i)
    <3>1. k - (i - 1) \in 1..(Len(o) - i) /\ i + 1 + (k - (i - 1)) - 1 = k + 1 BY <1>1, <2>3
    <3>2. b[k - (i - 1)] = o[k + 1] BY <1>3, <3>1
    <3> QED BY <1>4, <2>1, <2>3, <3>2
  <2> QED BY <2>2, <2>3
<1>6. a \o b = Less(o, i)
  <2>1. Less(o, i) \in Seq(Op) /\ Len(Less(o, i)) = Len(o) - 1 BY LessSeq
  <2> QED BY <1>4, <1>5, <2>1, SeqEqual
<1> QED BY <1>6 DEF Abstract!RemoveAt, a, b

LEMMA Positions ==
  ASSUME HInv
  PROVE  /\ order \in Seq(Op) /\ Len(order) \in Nat /\ DOMAIN order = 1..Len(order)
         /\ Abstract!ToSet(order) = live
         /\ \A i \in 1..Len(order) : order[i] \in live /\ order[i] # Null
         /\ \A i \in 1..Len(order) : Abstract!Position(order[i]) = i
<1>1. /\ order \in Seq(Op) /\ Len(order) \in Nat /\ DOMAIN order = 1..Len(order)
      /\ \A i \in 1..Len(order) : order[i] \in live /\ order[i] # Null
  BY SpellsTyped DEF HInv
<1>2. Abstract!ToSet(order) = live BY <1>1 DEF HInv, Spells, Abstract!ToSet
<1>3. ASSUME NEW i \in 1..Len(order) PROVE Abstract!Position(order[i]) = i
  BY <1>1 DEF HInv, Spells, Abstract!Position
<1> QED BY <1>1, <1>2, <1>3

\* The neighbour in the sequence is the one the links lead to.
LEMMA Neighbours ==
  ASSUME HInv, NEW n \in live
  PROVE  next[n] = Abstract!Neighbour(n, 1) /\ prev[n] = Abstract!Neighbour(n, -1)
<1>1. PICK i \in 1..Len(order) : n = order[i] BY LivePosition DEF HInv
<1>2. /\ Abstract!Position(n) = i /\ Len(order) \in Nat /\ DOMAIN order = 1..Len(order)
  BY <1>1, Positions
<1>3. /\ next[n] = IF i = Len(order) THEN Null ELSE order[i + 1]
      /\ prev[n] = IF i = 1 THEN Null ELSE order[i - 1]
  BY <1>1 DEF HInv, Spells
<1>4. i \in 1..Len(order) BY <1>1
<1>5. /\ i + 1 \in 1..Len(order) <=> i # Len(order)
      /\ i + (-1) \in 1..Len(order) <=> i # 1
      /\ i + (-1) = i - 1
  <2> DEFINE m == Len(order)
  <2>1. m \in Nat /\ i \in 1..m BY <1>2, <1>4
  <2> HIDE DEF m
  <2>2. /\ i + 1 \in 1..m <=> i # m
        /\ i + (-1) \in 1..m <=> i # 1
        /\ i + (-1) = i - 1
    BY <2>1
  <2> QED BY <2>2 DEF m
<1>6. next[n] = Abstract!Neighbour(n, 1)
  BY <1>2, <1>3, <1>5 DEF Abstract!Neighbour
<1>7. prev[n] = Abstract!Neighbour(n, -1)
  BY <1>2, <1>3, <1>5 DEF Abstract!Neighbour
<1> QED BY <1>6, <1>7

LEMMA StepSimulation ==
  ASSUME HInv, Recorded(order')
  PROVE  Abstract!Next
<1> USE Positions
<1>1. ASSUME NEW op \in Op, AppendOp(op), order' = With(order, Len(order) + 1, op)
      PROVE  Abstract!AppendOp(op)
  BY <1>1, InsertAtIsWith DEF AppendOp, Allocate, Abstract!AppendOp, Abstract!Fresh, Abstract!Insert
<1>2. ASSUME NEW op \in Op, Prepend(op), order' = With(order, 1, op)
      PROVE  Abstract!Prepend(op)
  BY <1>2, InsertAtIsWith DEF Prepend, Allocate, Abstract!Prepend, Abstract!Fresh, Abstract!Insert
<1>3. ASSUME NEW op \in Op, NEW i \in 1..Len(order), InsertBefore(op, order[i]),
             order' = With(order, i, op)
      PROVE  Abstract!InsertBefore(op, order[i]) /\ order[i] \in Op /\ order[i] \in live
  <2>1. op \notin live /\ UNCHANGED iter
    BY <1>3 DEF InsertBefore, AppendOp, Prepend, Allocate
  <2>2. order[i] # Null /\ order[i] \in live /\ Abstract!Position(order[i]) = i /\ i \in 1..(Len(order) + 1)
    OBVIOUS
  <2>3. Abstract!InsertAt(order, i, op) = With(order, i, op) BY <2>2, InsertAtIsWith
  <2> QED BY <1>3, <2>1, <2>2, <2>3
          DEF Abstract!InsertBefore, Abstract!Fresh, Abstract!Insert
<1>4. ASSUME NEW i \in 1..Len(order), order' = Less(order, i) PROVE Abstract!Delete(order[i])
  BY <1>4, RemoveAtIsLess DEF Abstract!Delete
<1>5. ASSUME NEW i \in 1..Len(order), DeleteOther(order[i]), order' = Less(order, i)
      PROVE  Abstract!DeleteOther(order[i])
  BY <1>4, <1>5 DEF DeleteOther, Abstract!DeleteOther
<1>6. ASSUME NEW i \in 1..Len(order), iter = order[i], DeleteAndAdvance, order' = Less(order, i)
      PROVE  Abstract!DeleteAndAdvance
  BY <1>4, <1>6, Neighbours DEF DeleteAndAdvance, Abstract!DeleteAndAdvance
<1>7. ASSUME NEW l \in live, NEW r \in live, Swap(l, r), order' = Exchanged(order, l, r)
      PROVE  Abstract!Swap(l, r)
  <2>1. [i \in DOMAIN order |-> CASE order[i] = l -> r [] order[i] = r -> l [] OTHER -> order[i]]
        = Exchanged(order, l, r)
    BY DEF Exchanged
  <2> QED BY <1>7, <2>1 DEF Swap, Abstract!Swap
<1>8. ASSUME Move, UNCHANGED order PROVE Abstract!Move
  <2>1. iter # Null => iter \in live BY DEF HInv, IInv, NoDanglingIterator
  <2>2. iter # Null => /\ next[iter] = Abstract!Neighbour(iter, 1)
                       /\ prev[iter] = Abstract!Neighbour(iter, -1)
    BY <2>1, Neighbours
  <2>3. order = <<>> <=> Len(order) = 0 OBVIOUS
  <2>4. /\ head = IF order = <<>> THEN Null ELSE order[1]
        /\ tail = IF order = <<>> THEN Null ELSE order[Len(order)]
    BY <2>3 DEF HInv, Spells
  <2>5. CASE Begin BY <1>8, <2>4, <2>5 DEF Begin, Abstract!Begin, Abstract!Move
  <2>6. CASE Advance BY <1>8, <2>2, <2>6 DEF Advance, Abstract!Advance, Abstract!Move
  <2>7. CASE Retreat BY <1>8, <2>2, <2>4, <2>7 DEF Retreat, Abstract!Retreat, Abstract!Move
  <2>8. ASSUME NEW op \in Op, JumpTo(op) PROVE Abstract!Move
    BY <1>8, <2>8 DEF JumpTo, Abstract!JumpTo, Abstract!Move
  <2> QED BY <1>8, <2>5, <2>6, <2>7, <2>8 DEF Move
<1>9. live \subseteq Op BY DEF HInv, IInv, TypeOK
<1>10. ASSUME NEW op \in Op, AppendOp(op), order' = With(order, Len(order) + 1, op)
       PROVE  Abstract!Next
  BY <1>1, <1>10 DEF Abstract!Next
<1>11. ASSUME NEW op \in Op, Prepend(op), order' = With(order, 1, op) PROVE Abstract!Next
  BY <1>2, <1>11 DEF Abstract!Next
<1>12. ASSUME NEW op \in Op, NEW i \in 1..Len(order), InsertBefore(op, order[i]),
              order' = With(order, i, op)
       PROVE  Abstract!Next
  <2>1. /\ Abstract!InsertBefore(op, order[i])
        /\ order[i] \in Op \cup {Null}
        /\ order[i] \in Abstract!ToSet(order) \cup {Null}
    BY <1>3, <1>12
  <2> QED BY <2>1 DEF Abstract!Next
<1>13. ASSUME NEW i \in 1..Len(order), DeleteOther(order[i]), order' = Less(order, i)
       PROVE  Abstract!Next
  <2>1. Abstract!DeleteOther(order[i]) /\ order[i] \in Op BY <1>5, <1>9, <1>13
  <2> QED BY <2>1 DEF Abstract!Next
<1>14. ASSUME NEW i \in 1..Len(order), iter = order[i], DeleteAndAdvance,
              order' = Less(order, i)
       PROVE  Abstract!Next
  BY <1>6, <1>14 DEF Abstract!Next
<1>15. ASSUME NEW l \in live, NEW r \in live, Swap(l, r), order' = Exchanged(order, l, r)
       PROVE  Abstract!Next
  <2>1. Abstract!Swap(l, r) /\ l \in Op /\ r \in Op BY <1>7, <1>9, <1>15
  <2> QED BY <2>1 DEF Abstract!Next
<1>16. ASSUME Move, UNCHANGED order PROVE Abstract!Next
  BY <1>8, <1>16 DEF Abstract!Next
<1> QED BY <1>10, <1>11, <1>12, <1>13, <1>14, <1>15, <1>16 DEF Recorded

\* The doubly linked list of instr.h implements the sequence its clients
\* work with: every run of the list, watched by the history variable, is a
\* run of OpSequence.
THEOREM ListImplementsSequence == HSpec => Abstract!Spec
<1>1. HInit => HInv
  <2> SUFFICES ASSUME HInit PROVE HInv OBVIOUS
  <2>1. Spells(order) BY DEF HInit, Init, Spells
  <2> QED BY <2>1, Initially DEF HInit, HInv
<1>2. HInit => Abstract!Init
  BY DEF HInit, Init, Abstract!Init
<1>3. HInv /\ [Recorded(order')]_hvars => HInv' BY HInductive
<1>4. HInv /\ [Recorded(order')]_hvars => [Abstract!Next]_(Abstract!vars)
  BY StepSimulation DEF hvars, vars, Abstract!vars
<1> QED BY <1>1, <1>2, <1>3, <1>4, PTL DEF HSpec, Abstract!Spec
=============================================================================

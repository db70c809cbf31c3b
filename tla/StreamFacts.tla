----------------------------- MODULE StreamFacts -----------------------------
(***************************************************************************)
(* Facts about numbers and about operation streams that the proofs about   *)
(* the parser, the passes and the whole program cite.                      *)
(***************************************************************************)
EXTENDS Instr, FiniteSetTheorems, SequenceTheorems, TLAPS

-----------------------------------------------------------------------------
(* Numbers *)

\* Every set of numbers has a smallest one: the numbers are well ordered,
\* because the intervals from 0 to them are.
LEMMA SmallestNumber ==
  ASSUME NEW S \in SUBSET Nat, S # {}
  PROVE  Min(S) \in S /\ \A x \in S : Min(S) <= x
<1> DEFINE intervals == {0..x : x \in S}
<1>1. intervals # {} /\ intervals \subseteq FiniteSubsetsOf(Nat)
  <2>1. \A x \in Nat : IsFiniteSet(0..x) /\ 0..x \in SUBSET Nat
    BY FS_Interval
  <2> QED
    BY <2>1 DEF FiniteSubsetsOf
<1>2. PICK low \in intervals : \A i \in intervals : ~(<<i, low>> \in StrictSubsetOrdering(Nat))
  <2> HIDE DEF intervals
  <2> QED
    BY <1>1, FS_StrictSubsetOrderingWellFounded, WFMin
<1>3. PICK x \in S : low = 0..x
  OBVIOUS
<1>4. \A y \in S : x <= y
  <2> SUFFICES ASSUME NEW y \in S, y < x PROVE FALSE
    OBVIOUS
  <2>1. x \in Nat /\ y \in Nat
    OBVIOUS
  <2>2. 0..y \subseteq 0..x /\ x \in 0..x /\ x \notin 0..y
    BY <2>1
  <2>3. <<0..y, 0..x>> \in StrictSubsetOrdering(Nat)
    BY <2>1, <2>2 DEF StrictSubsetOrdering
  <2> QED
    BY <1>2, <1>3, <2>3
<1> QED
  BY <1>4 DEF Min

\* A set that has 0, and with a number the next one up to n, has them all.
LEMMA OneByOne ==
  ASSUME NEW n \in Nat, NEW S, 0 \in S, \A i \in 0..(n - 1) : i \in S => i + 1 \in S
  PROVE  \A i \in 0..n : i \in S
<1> DEFINE rest == (0..n) \ S
           low == Min(rest)
<1> SUFFICES ASSUME rest # {} PROVE FALSE
  OBVIOUS
<1>1. rest \in SUBSET Nat
  OBVIOUS
<1>2. low \in rest /\ \A x \in rest : low <= x
  <2> HIDE DEF rest
  <2> QED
    BY <1>1, SmallestNumber
<1> HIDE DEF low
<1>3. low # 0 /\ low \in 0..n /\ low \notin S
  BY <1>2
<1>4. low - 1 \in 0..(n - 1) /\ low - 1 < low /\ (low - 1) + 1 = low
  BY <1>3
<1>5. low - 1 \in S
  BY <1>2, <1>4
<1> QED
  BY <1>3, <1>4, <1>5

\* A set of numbers that are not beyond a bound has a largest one.
LEMMA LargestNumber ==
  ASSUME NEW S \in SUBSET Nat, S # {}, NEW bound \in Nat, \A x \in S : x <= bound
  PROVE  Max(S) \in S /\ \A x \in S : x <= Max(S)
<1> DEFINE rest == {bound - x : x \in S}
<1>1. rest # {} /\ rest \in SUBSET Nat
  <2>1. \A x \in S : x \in Nat /\ x <= bound /\ bound - x \in Nat
    OBVIOUS
  <2> QED
    BY <2>1
<1>2. Min(rest) \in rest /\ \A y \in rest : Min(rest) <= y
  <2> HIDE DEF rest
  <2> QED
    BY <1>1, SmallestNumber
<1>3. PICK m \in S : bound - m = Min(rest)
  BY <1>2
<1>4. \A x \in S : bound - m <= bound - x
  BY <1>2, <1>3
<1>5. \A x \in S : m >= x
  <2> SUFFICES ASSUME NEW x \in S PROVE m >= x
    OBVIOUS
  <2>1. m \in Nat /\ x \in Nat /\ bound - m <= bound - x
    BY <1>4
  <2> QED
    BY <2>1
<1>6. Max(S) \in S /\ \A x \in S : Max(S) >= x
  BY <1>5 DEF Max
<1>7. \A x \in S : x \in Nat
  OBVIOUS
<1> QED
  BY <1>6, <1>7

-----------------------------------------------------------------------------
(* Streams *)

Operations == [id : Nat \ {nil}, code : Codes, op1 : Int, op2 : Int]

\* Operations at different positions have different addresses.
Distinct(s) == \A q, r \in DOMAIN s : s[q].id = s[r].id => q = r

-----------------------------------------------------------------------------
(* Operations and their addresses *)

LEMMA Elements ==
  ASSUME NEW s \in Seq(Operations), NEW q \in 1..Len(s)
  PROVE  /\ s[q] \in Operations /\ s[q].id \in Nat \ {nil} /\ s[q].id \in Int
         /\ s[q].code \in Codes /\ s[q].op1 \in Int
<1>1. s[q] \in Operations
  OBVIOUS
<1> QED
  BY <1>1 DEF Operations

LEMMA AddressesCounted ==
  ASSUME NEW s \in Seq(Operations), Distinct(s)
  PROVE  IsFiniteSet(Addresses(s)) /\ Cardinality(Addresses(s)) = Len(s)
<1> DEFINE address == [q \in 1..Len(s) |-> s[q].id]
<1>1. Len(s) \in Nat /\ DOMAIN s = 1..Len(s)
  OBVIOUS
<1>2. address \in Bijection(1..Len(s), Addresses(s))
  <2>1. address \in [1..Len(s) -> Addresses(s)]
    BY <1>1 DEF Addresses
  <2>2. \A q, r \in 1..Len(s) : address[q] = address[r] => q = r
    BY <1>1 DEF Distinct
  <2>3. \A a \in Addresses(s) : \E q \in 1..Len(s) : address[q] = a
    BY <1>1 DEF Addresses
  <2> QED
    BY <2>1, <2>2, <2>3 DEF Bijection, Injection, IsInjective, Surjection
<1>3. ExistsBijection(1..Len(s), Addresses(s))
  BY <1>2 DEF ExistsBijection
<1> QED
  BY <1>1, <1>3, FS_CountingElements, FS_NatBijection

\* operator new does not return the address of an operation of the stream.
LEMMA FreshIsNew ==
  ASSUME NEW s \in Seq(Operations), Distinct(s)
  PROVE  Fresh(s) \in Nat \ {nil} /\ Fresh(s) \notin Addresses(s)
<1> DEFINE free == (1..(Len(s) + 1)) \ Addresses(s)
<1>1. Len(s) \in Nat
  OBVIOUS
<1>2. free # {}
  <2>1. SUFFICES ASSUME 1..(Len(s) + 1) \in SUBSET Addresses(s) PROVE FALSE
    OBVIOUS
  <2>2. Cardinality(1..(Len(s) + 1)) <= Len(s)
    BY <2>1, AddressesCounted, FS_Subset
  <2>3. Cardinality(1..(Len(s) + 1)) = Len(s) + 1
    BY <1>1, FS_Interval
  <2> QED
    BY <1>1, <2>2, <2>3
<1>3. free \in SUBSET Nat
  BY <1>1
<1>4. Fresh(s) \in free
  BY <1>2, <1>3, SmallestNumber DEF Fresh
<1> QED
  BY <1>1, <1>4 DEF nil

LEMMA PositionOfAddress ==
  ASSUME NEW s \in Seq(Operations), Distinct(s), NEW q \in DOMAIN s
  PROVE  Position(s, s[q].id) = q
  BY DEF Position, Distinct

LEMMA StreamTyped ==
  ASSUME NEW s \in Seq(Operations), Distinct(s)
  PROVE  IsStream(s)
<1>1. \A q \in DOMAIN s : s[q] \in Operations
  OBVIOUS
<1>2. \A q \in DOMAIN s : /\ s[q].id \in Nat \ {nil} /\ s[q].code \in Codes
                          /\ s[q].op1 \in Int /\ s[q].op2 \in Int
  BY <1>1 DEF Operations
<1>3. Cardinality(Addresses(s)) = Len(s)
  BY AddressesCounted
<1> QED
  BY <1>2, <1>3 DEF IsStream

-----------------------------------------------------------------------------
(* Streams whose loops nest, and what may be done to them *)

Links(op) == op.code \in JumpCodes \cup {"LABEL"}

Inside(q, r, x) == (q < x /\ x < r) \/ (r < x /\ x < q)

\* What is joined lies inside another pair, or outside of it, but not both.
LoopsNest(s) ==
  \A q, r, x, y \in DOMAIN s : Joined(s, q, r) /\ Joined(s, x, y) =>
    (Inside(q, r, x) <=> Inside(q, r, y))

Sound(s) == s \in Seq(Operations) /\ Distinct(s) /\ WellJoined(s) /\ LoopsNest(s)

\* t is s without the operations at the addresses gone, as far as jumps and
\* labels are concerned: they are the same, in the same order.
Rewritten(s, t, gone) ==
  /\ t \in Seq(Operations) /\ Distinct(t)
  /\ Addresses(s) \ gone \subseteq Addresses(t)
  /\ \A q \in DOMAIN s : Links(s[q]) /\ s[q].id \notin gone => \E u \in DOMAIN t : t[u] = s[q]
  /\ \A u \in DOMAIN t : Links(t[u]) => \E q \in DOMAIN s : t[u] = s[q] /\ s[q].id \notin gone
  /\ \A q, r \in DOMAIN s, u, v \in DOMAIN t :
       Links(t[u]) /\ Links(t[v]) /\ t[u] = s[q] /\ t[v] = s[r] /\ u < v => q < r

\* A jump goes with its label.
JoinsClosed(s, gone) ==
  \A q, r \in DOMAIN s : Joined(s, q, r) => (s[q].id \in gone <=> s[r].id \in gone)

LEMMA JoinedLinks ==
  ASSUME NEW s, NEW q, NEW r, Joined(s, q, r)
  PROVE  Links(s[q]) /\ Links(s[r]) /\ s[q].code # s[r].code
  BY DEF Joined, Links, IsJump, JumpCodes

\* A jump has one label and a label one jump.
LEMMA JoinedOnce ==
  ASSUME NEW s, Distinct(s), NEW q \in DOMAIN s, NEW r \in DOMAIN s,
         NEW x \in DOMAIN s, NEW y \in DOMAIN s, Joined(s, q, r), Joined(s, x, y)
  PROVE  /\ q = x <=> r = y
         /\ q # y /\ r # x
<1>1. q # y /\ r # x
  BY DEF Joined, IsJump, JumpCodes
<1>2. q = x => r = y
  BY DEF Joined, Distinct
<1>3. r = y => q = x
  BY DEF Joined, Distinct
<1> QED
  BY <1>1, <1>2, <1>3

\* What is joined in a rewritten stream was joined before.
LEMMA JoinedBefore ==
  ASSUME NEW s \in Seq(Operations), Distinct(s), NEW t, NEW gone, Rewritten(s, t, gone),
         WellJoined(s), NEW u \in DOMAIN t, NEW v \in DOMAIN t, Joined(t, u, v)
  PROVE  \E q, r \in DOMAIN s : t[u] = s[q] /\ t[v] = s[r] /\ Joined(s, q, r)
<1>1. Links(t[u]) /\ Links(t[v])
  BY JoinedLinks
<1>2. PICK q \in DOMAIN s : t[u] = s[q]
  BY <1>1 DEF Rewritten
<1>3. PICK r \in DOMAIN s : t[v] = s[r]
  BY <1>1 DEF Rewritten
<1>4. IsJump(s[q]) /\ s[q].op1 = s[r].id
  BY <1>2, <1>3 DEF Joined
<1>5. PICK l \in DOMAIN s : Joined(s, q, l)
  BY <1>4 DEF WellJoined
<1>6. l = r
  BY <1>4, <1>5 DEF Joined, Distinct
<1> QED
  BY <1>2, <1>3, <1>5, <1>6

\* And it stands in the same order.
LEMMA OrderKept ==
  ASSUME NEW s \in Seq(Operations), Distinct(s), NEW t, NEW gone, Rewritten(s, t, gone),
         NEW q \in DOMAIN s, NEW r \in DOMAIN s, NEW u \in DOMAIN t, NEW v \in DOMAIN t,
         t[u] = s[q], t[v] = s[r], Links(t[u]), Links(t[v])
  PROVE  u < v <=> q < r
<1>1. t \in Seq(Operations) /\ Distinct(t)
  BY DEF Rewritten
<1>2. u \in Int /\ v \in Int /\ q \in Int /\ r \in Int
  BY <1>1
<1>3. u = v <=> q = r
  BY <1>1 DEF Distinct
<1>4. u < v => q < r
  BY DEF Rewritten
<1>5. v < u => r < q
  BY DEF Rewritten
<1> QED
  BY <1>2, <1>3, <1>4, <1>5

LEMMA RewrittenSound ==
  ASSUME NEW s, Sound(s), NEW t, NEW gone, Rewritten(s, t, gone), JoinsClosed(s, gone)
  PROVE  Sound(t)
<1>1. s \in Seq(Operations) /\ Distinct(s) /\ WellJoined(s) /\ LoopsNest(s)
  BY DEF Sound
<1>2. t \in Seq(Operations) /\ Distinct(t)
  BY DEF Rewritten
<1>3. ASSUME NEW q \in DOMAIN s, NEW r \in DOMAIN s, NEW u \in DOMAIN t, NEW v \in DOMAIN t,
             Joined(s, q, r), t[u] = s[q], t[v] = s[r]
      PROVE  Joined(t, u, v)
  <2>1. Links(t[u]) /\ Links(t[v])
    BY <1>3, JoinedLinks
  <2>2. (u < v <=> q < r) /\ (v < u <=> r < q)
    BY <1>1, <1>3, <2>1, OrderKept
  <2> QED
    BY <1>3, <2>2 DEF Joined
<1>4. ASSUME NEW u \in DOMAIN t, IsJump(t[u]) PROVE \E v \in DOMAIN t : Joined(t, u, v)
  <2>1. Links(t[u])
    BY <1>4 DEF Links, IsJump
  <2>2. PICK q \in DOMAIN s : t[u] = s[q] /\ s[q].id \notin gone
    BY <2>1 DEF Rewritten
  <2>3. PICK r \in DOMAIN s : Joined(s, q, r)
    BY <1>1, <1>4, <2>2 DEF WellJoined
  <2>4. Links(s[r]) /\ s[r].id \notin gone
    BY <2>2, <2>3, JoinedLinks DEF JoinsClosed
  <2>5. PICK v \in DOMAIN t : t[v] = s[r]
    BY <2>4 DEF Rewritten
  <2> QED
    BY <1>3, <2>2, <2>3, <2>5
<1>5. ASSUME NEW v \in DOMAIN t, t[v].code = "LABEL" PROVE \E u \in DOMAIN t : Joined(t, u, v)
  <2>1. Links(t[v])
    BY <1>5 DEF Links
  <2>2. PICK r \in DOMAIN s : t[v] = s[r] /\ s[r].id \notin gone
    BY <2>1 DEF Rewritten
  <2>3. PICK q \in DOMAIN s : Joined(s, q, r)
    BY <1>1, <1>5, <2>2 DEF WellJoined
  <2>4. Links(s[q]) /\ s[q].id \notin gone
    BY <2>2, <2>3, JoinedLinks DEF JoinsClosed
  <2>5. PICK u \in DOMAIN t : t[u] = s[q]
    BY <2>4 DEF Rewritten
  <2> QED
    BY <1>3, <2>2, <2>3, <2>5
<1>6. LoopsNest(t)
  <2> SUFFICES ASSUME NEW u \in DOMAIN t, NEW v \in DOMAIN t, NEW a \in DOMAIN t, NEW b \in DOMAIN t,
                      Joined(t, u, v), Joined(t, a, b)
               PROVE  Inside(u, v, a) <=> Inside(u, v, b)
    BY DEF LoopsNest
  <2>1. PICK q \in DOMAIN s, r \in DOMAIN s : t[u] = s[q] /\ t[v] = s[r] /\ Joined(s, q, r)
    BY <1>1, JoinedBefore
  <2>2. PICK x \in DOMAIN s, y \in DOMAIN s : t[a] = s[x] /\ t[b] = s[y] /\ Joined(s, x, y)
    BY <1>1, JoinedBefore
  <2>3. Links(t[u]) /\ Links(t[v]) /\ Links(t[a]) /\ Links(t[b])
    BY JoinedLinks
  <2>4. /\ u < a <=> q < x
        /\ a < v <=> x < r
        /\ v < a <=> r < x
        /\ a < u <=> x < q
    BY <1>1, <2>1, <2>2, <2>3, OrderKept
  <2>5. /\ u < b <=> q < y
        /\ b < v <=> y < r
        /\ v < b <=> r < y
        /\ b < u <=> y < q
    BY <1>1, <2>1, <2>2, <2>3, OrderKept
  <2>6. Inside(q, r, x) <=> Inside(q, r, y)
    BY <1>1, <2>1, <2>2 DEF LoopsNest
  <2> QED
    BY <2>4, <2>5, <2>6 DEF Inside
<1> QED
  BY <1>2, <1>4, <1>5, <1>6 DEF Sound, WellJoined

LEMMA RewrittenTwice ==
  ASSUME NEW s, NEW t, NEW w, NEW g, NEW h, Rewritten(s, t, g), Rewritten(t, w, h)
  PROVE  Rewritten(s, w, g \cup h)
<1>1. w \in Seq(Operations) /\ Distinct(w)
  BY DEF Rewritten
<1>2. Addresses(s) \ (g \cup h) \subseteq Addresses(w)
  BY DEF Rewritten
<1>3. ASSUME NEW q \in DOMAIN s, Links(s[q]), s[q].id \notin g \cup h
      PROVE  \E u \in DOMAIN w : w[u] = s[q]
  <2>1. PICK x \in DOMAIN t : t[x] = s[q]
    BY <1>3 DEF Rewritten
  <2> QED
    BY <1>3, <2>1 DEF Rewritten
<1>4. ASSUME NEW u \in DOMAIN w, Links(w[u])
      PROVE  \E q \in DOMAIN s : w[u] = s[q] /\ s[q].id \notin g \cup h
  <2>1. PICK x \in DOMAIN t : w[u] = t[x] /\ t[x].id \notin h
    BY <1>4 DEF Rewritten
  <2>2. PICK q \in DOMAIN s : t[x] = s[q] /\ s[q].id \notin g
    BY <1>4, <2>1 DEF Rewritten
  <2> QED
    BY <2>1, <2>2
<1>5. ASSUME NEW q \in DOMAIN s, NEW r \in DOMAIN s, NEW u \in DOMAIN w, NEW v \in DOMAIN w,
             Links(w[u]), Links(w[v]), w[u] = s[q], w[v] = s[r], u < v
      PROVE  q < r
  <2>1. PICK x \in DOMAIN t : w[u] = t[x]
    BY <1>5 DEF Rewritten
  <2>2. PICK y \in DOMAIN t : w[v] = t[y]
    BY <1>5 DEF Rewritten
  <2>3. x < y
    BY <1>5, <2>1, <2>2 DEF Rewritten
  <2>4. Links(t[x]) /\ Links(t[y]) /\ t[x] = s[q] /\ t[y] = s[r]
    BY <1>5, <2>1, <2>2
  <2> QED
    BY <2>3, <2>4 DEF Rewritten
<1> QED
  BY <1>1, <1>2, <1>3, <1>4, <1>5 DEF Rewritten

\* Operations that are neither jumps nor labels are changed in place; at some
\* addresses jumps and labels may be, too.
LEMMA ChangedInPlace ==
  ASSUME NEW s \in Seq(Operations), Distinct(s), NEW t \in Seq(Operations), NEW gone,
         Len(t) = Len(s),
         \A q \in 1..Len(s) : t[q].id = s[q].id,
         \A q \in 1..Len(s) : t[q] = s[q] \/ (~Links(t[q]) /\ (Links(s[q]) => s[q].id \in gone)),
         \A q \in 1..Len(s) : t[q].id \in gone => ~Links(t[q])
  PROVE  Rewritten(s, t, gone)
<1>1. DOMAIN s = 1..Len(s) /\ DOMAIN t = 1..Len(s)
  OBVIOUS
<1>2. Distinct(t)
  BY <1>1 DEF Distinct
<1>3. Addresses(t) = Addresses(s)
  BY <1>1 DEF Addresses
<1>4. ASSUME NEW q \in DOMAIN s, Links(s[q]), s[q].id \notin gone PROVE t[q] = s[q]
  BY <1>1, <1>4
<1>5. ASSUME NEW u \in DOMAIN t, Links(t[u]) PROVE t[u] = s[u] /\ s[u].id \notin gone
  BY <1>1, <1>5
<1>6. ASSUME NEW q \in DOMAIN s, NEW u \in DOMAIN t, t[u] = s[q] PROVE u = q
  BY <1>1, <1>6 DEF Distinct
<1> QED
  BY <1>1, <1>2, <1>3, <1>4, <1>5, <1>6 DEF Rewritten

\* t is s with op at one position, a rewriting without what is gone.
ChangedTo(s, at, op, t, gone) ==
  /\ t \in Seq(Operations) /\ Len(t) = Len(s)
  /\ \A q \in 1..Len(s) : t[q] = IF q = at THEN op ELSE s[q]
  /\ Rewritten(s, t, gone)

\* One operation becomes another, which is neither a jump nor a label.
LEMMA OneChanged ==
  ASSUME NEW s \in Seq(Operations), Distinct(s), NEW at \in DOMAIN s,
         NEW op \in Operations, op.id = s[at].id, ~Links(op),
         NEW gone \in SUBSET {s[at].id}, Links(s[at]) => s[at].id \in gone
  PROVE  ChangedTo(s, at, op, [s EXCEPT ![at] = op], gone)
<1> DEFINE t == [s EXCEPT ![at] = op]
<1>1. DOMAIN s = 1..Len(s) /\ Len(s) \in Nat /\ s \in [1..Len(s) -> Operations]
  OBVIOUS
<1>2. /\ t \in Seq(Operations) /\ Len(t) = Len(s)
      /\ \A q \in 1..Len(s) : t[q] = IF q = at THEN op ELSE s[q]
  BY <1>1
<1> HIDE DEF t
<1>3. \A q \in 1..Len(s) : t[q].id = s[q].id
  BY <1>2
<1>4. \A q \in 1..Len(s) : t[q] = s[q] \/ (~Links(t[q]) /\ (Links(s[q]) => s[q].id \in gone))
  BY <1>2
<1>5. \A q \in 1..Len(s) : t[q].id \in gone => ~Links(t[q])
  <2> SUFFICES ASSUME NEW q \in 1..Len(s), t[q].id \in gone PROVE ~Links(t[q])
    OBVIOUS
  <2>1. s[q].id = s[at].id
    BY <1>3
  <2>2. q = at
    BY <1>1, <2>1 DEF Distinct
  <2> QED
    BY <1>2, <2>2
<1>6. Rewritten(s, t, gone)
  BY <1>2, <1>3, <1>4, <1>5, ChangedInPlace
<1>7. ChangedTo(s, at, op, t, gone)
  BY <1>2, <1>6 DEF ChangedTo
<1> QED
  BY <1>7 DEF t

\* The same, of a single operand.
LEMMA OperandChanged ==
  ASSUME NEW s \in Seq(Operations), Distinct(s), NEW at \in DOMAIN s, NEW value \in Int,
         ~Links(s[at]), NEW t,
         \/ t = [s EXCEPT ![at].op1 = value]
         \/ t = [s EXCEPT ![at].op2 = value]
  PROVE  /\ t \in Seq(Operations) /\ Distinct(t) /\ Len(t) = Len(s)
         /\ \A q \in 1..Len(s) : t[q].id = s[q].id
         /\ Rewritten(s, t, {})
<1>1. s[at] \in Operations
  OBVIOUS
<1>2. PICK op \in Operations : op.id = s[at].id /\ op.code = s[at].code /\ t = [s EXCEPT ![at] = op]
  <2>1. CASE t = [s EXCEPT ![at].op1 = value]
    <3> DEFINE op == [s[at] EXCEPT !.op1 = value]
    <3>1. op \in Operations /\ op.id = s[at].id /\ op.code = s[at].code
      BY <1>1 DEF Operations
    <3>2. t = [s EXCEPT ![at] = op]
      BY <2>1
    <3> QED
      BY <3>1, <3>2
  <2>2. CASE t = [s EXCEPT ![at].op2 = value]
    <3> DEFINE op == [s[at] EXCEPT !.op2 = value]
    <3>1. op \in Operations /\ op.id = s[at].id /\ op.code = s[at].code
      BY <1>1 DEF Operations
    <3>2. t = [s EXCEPT ![at] = op]
      BY <2>2
    <3> QED
      BY <3>1, <3>2
  <2> QED
    BY <2>1, <2>2
<1>3. ~Links(op)
  BY <1>2 DEF Links
<1>4. /\ t \in Seq(Operations) /\ Len(t) = Len(s) /\ Rewritten(s, t, {})
      /\ \A q \in 1..Len(s) : t[q] = IF q = at THEN op ELSE s[q]
  <2>1. {} \in SUBSET {s[at].id} /\ (Links(s[at]) => s[at].id \in {})
    OBVIOUS
  <2>2. ChangedTo(s, at, op, [s EXCEPT ![at] = op], {})
    BY <1>2, <1>3, <2>1, OneChanged
  <2>3. ChangedTo(s, at, op, t, {})
    BY <1>2, <2>2
  <2> QED
    BY <2>3 DEF ChangedTo
<1>5. \A q \in 1..Len(s) : t[q].id = s[q].id
  BY <1>2, <1>4
<1> QED
  BY <1>4, <1>5 DEF Rewritten

LEMMA TwoParts ==
  ASSUME NEW a \in Seq(Operations), NEW b \in Seq(Operations)
  PROVE  /\ a \o b \in Seq(Operations) /\ Len(a \o b) = Len(a) + Len(b)
         /\ \A u \in 1..Len(a) : (a \o b)[u] = a[u]
         /\ \A u \in 1..Len(b) : (a \o b)[Len(a) + u] = b[u]
<1>1. Len(a) \in Nat /\ Len(b) \in Nat
  OBVIOUS
<1>2. /\ a \o b \in Seq(Operations) /\ Len(a \o b) = Len(a) + Len(b)
      /\ \A i \in 1..(Len(a) + Len(b)) :
           (a \o b)[i] = IF i <= Len(a) THEN a[i] ELSE b[i - Len(a)]
  BY ConcatProperties
<1>3. ASSUME NEW u \in 1..Len(a) PROVE (a \o b)[u] = a[u]
  BY <1>1, <1>2
<1>4. ASSUME NEW u \in 1..Len(b) PROVE (a \o b)[Len(a) + u] = b[u]
  <2>1. Len(a) + u \in 1..(Len(a) + Len(b)) /\ ~(Len(a) + u <= Len(a)) /\ Len(a) + u - Len(a) = u
    BY <1>1
  <2> QED
    BY <1>2, <2>1
<1> QED
  BY <1>2, <1>3, <1>4

\* The sequences before and behind a gap.
LEMMA RangeGone ==
  ASSUME NEW s \in Seq(Operations), NEW from \in 1..(Len(s) + 1), NEW to \in (from - 1)..Len(s)
  PROVE  /\ DeleteRange(s, from, to) \in Seq(Operations)
         /\ Len(DeleteRange(s, from, to)) = Len(s) - (to - from + 1)
         /\ \A u \in 1..(from - 1) : DeleteRange(s, from, to)[u] = s[u]
         /\ \A u \in from..(Len(s) - (to - from + 1)) :
              DeleteRange(s, from, to)[u] = s[u + (to - from + 1)]
<1> DEFINE a == SubSeq(s, 1, from - 1)
           b == SubSeq(s, to + 1, Len(s))
<1>1. Len(s) \in Nat /\ from \in Nat /\ to \in Nat /\ from - 1 <= to /\ to <= Len(s)
  OBVIOUS
<1>2. a \in Seq(Operations) /\ Len(a) = from - 1 /\ \A u \in 1..(from - 1) : a[u] = s[u]
  BY <1>1
<1>3. /\ b \in Seq(Operations) /\ Len(b) = Len(s) - to
      /\ \A u \in 1..(Len(s) - to) : b[u] = s[to + u]
  BY <1>1
<1>4. DeleteRange(s, from, to) = a \o b
  BY DEF DeleteRange
<1> HIDE DEF a, b
<1>5. /\ a \o b \in Seq(Operations) /\ Len(a \o b) = Len(a) + Len(b)
      /\ \A u \in 1..Len(a) : (a \o b)[u] = a[u]
      /\ \A u \in 1..Len(b) : (a \o b)[Len(a) + u] = b[u]
  BY <1>2, <1>3, TwoParts
<1>8. ASSUME NEW u \in from..(Len(s) - (to - from + 1))
      PROVE  (a \o b)[u] = s[u + (to - from + 1)]
  <2>1. /\ u - (from - 1) \in 1..Len(b) /\ Len(a) + (u - (from - 1)) = u
        /\ to + (u - (from - 1)) = u + (to - from + 1)
    BY <1>1, <1>2, <1>3
  <2>2. (a \o b)[u] = b[u - (from - 1)]
    BY <1>5, <2>1
  <2> QED
    BY <1>3, <2>1, <2>2
<1>9. /\ Len(a \o b) = Len(s) - (to - from + 1)
      /\ \A u \in 1..(from - 1) : (a \o b)[u] = s[u]
  BY <1>1, <1>2, <1>3, <1>5
<1> QED
  BY <1>4, <1>5, <1>8, <1>9

LEMMA RangeDeleted ==
  ASSUME NEW s \in Seq(Operations), Distinct(s),
         NEW from \in 1..(Len(s) + 1), NEW to \in (from - 1)..Len(s),
         NEW gone, \A i \in 1..Len(s) : s[i].id \in gone <=> i \in from..to
  PROVE  Rewritten(s, DeleteRange(s, from, to), gone)
<1> DEFINE t == DeleteRange(s, from, to)
           n == to - from + 1
           old(u) == IF u < from THEN u ELSE u + n
           new(q) == IF q < from THEN q ELSE q - n
<1>1. Len(s) \in Nat /\ from \in Nat /\ to \in Nat /\ from - 1 <= to /\ to <= Len(s) /\ n \in Nat
  OBVIOUS
<1>2. /\ t \in Seq(Operations) /\ Len(t) = Len(s) - n
      /\ \A u \in 1..(from - 1) : t[u] = s[u]
      /\ \A u \in from..(Len(s) - n) : t[u] = s[u + n]
  BY RangeGone
<1> HIDE DEF t
<1>3. DOMAIN s = 1..Len(s) /\ DOMAIN t = 1..(Len(s) - n)
  BY <1>2
<1>4. \A u \in DOMAIN t : /\ old(u) \in DOMAIN s /\ t[u] = s[old(u)]
                          /\ old(u) \notin from..to
  <2> SUFFICES ASSUME NEW u \in DOMAIN t
               PROVE  old(u) \in DOMAIN s /\ t[u] = s[old(u)] /\ old(u) \notin from..to
    OBVIOUS
  <2>1. CASE u < from
    BY <1>1, <1>2, <1>3, <2>1
  <2>2. CASE ~(u < from)
    <3>1. u \in from..(Len(s) - n) /\ u + n \in 1..Len(s) /\ u + n > to
      BY <1>1, <1>3, <2>2
    <3> QED
      BY <1>1, <1>2, <1>3, <2>2, <3>1
  <2> QED
    BY <2>1, <2>2
<1>5. \A q \in DOMAIN s : q \notin from..to => new(q) \in DOMAIN t /\ t[new(q)] = s[q]
  <2> SUFFICES ASSUME NEW q \in DOMAIN s, q \notin from..to
               PROVE  new(q) \in DOMAIN t /\ t[new(q)] = s[q]
    OBVIOUS
  <2>1. CASE q < from
    BY <1>1, <1>2, <1>3, <2>1
  <2>2. CASE ~(q < from)
    <3>1. q - n \in from..(Len(s) - n) /\ (q - n) + n = q /\ new(q) = q - n
      BY <1>1, <1>3, <2>2
    <3>2. new(q) \in DOMAIN t
      BY <1>1, <1>3, <3>1
    <3>3. t[q - n] = s[(q - n) + n]
      BY <1>2, <3>1
    <3> QED
      BY <3>1, <3>2, <3>3
  <2> QED
    BY <2>1, <2>2
<1>6. \A u, v \in DOMAIN t : u < v <=> old(u) < old(v)
  BY <1>1, <1>3
<1>7. \A u, v \in DOMAIN t : old(u) = old(v) => u = v
  BY <1>1, <1>3
<1> HIDE DEF old, new, n
<1>8. Distinct(t)
  BY <1>4, <1>7 DEF Distinct
<1>9. Addresses(s) \ gone \subseteq Addresses(t)
  <2> SUFFICES ASSUME NEW q \in DOMAIN s, s[q].id \notin gone PROVE s[q].id \in Addresses(t)
    BY DEF Addresses
  <2>1. q \notin from..to
    BY <1>3
  <2> QED
    BY <1>5, <2>1 DEF Addresses
<1>10. \A q \in DOMAIN s : s[q].id \notin gone => \E u \in DOMAIN t : t[u] = s[q]
  BY <1>3, <1>5
<1>11. \A u \in DOMAIN t : \E q \in DOMAIN s : t[u] = s[q] /\ s[q].id \notin gone
  BY <1>3, <1>4
<1>12. ASSUME NEW q \in DOMAIN s, NEW r \in DOMAIN s, NEW u \in DOMAIN t, NEW v \in DOMAIN t,
              t[u] = s[q], t[v] = s[r], u < v
       PROVE  q < r
  <2>1. s[old(u)].id = s[q].id /\ s[old(v)].id = s[r].id
    BY <1>4, <1>12
  <2>2. old(u) = q /\ old(v) = r
    BY <1>4, <2>1 DEF Distinct
  <2> QED
    BY <1>6, <1>12, <2>2
<1>13. Rewritten(s, t, gone)
  BY <1>2, <1>8, <1>9, <1>10, <1>11, <1>12 DEF Rewritten
<1> QED
  BY <1>13 DEF t

LEMMA OneDeleted ==
  ASSUME NEW s \in Seq(Operations), Distinct(s), NEW q \in DOMAIN s
  PROVE  Rewritten(s, Delete(s, s[q].id), {s[q].id})
<1>1. Delete(s, s[q].id) = DeleteRange(s, q, q)
  BY PositionOfAddress DEF Delete, RemoveAt, DeleteRange
<1>2. q \in 1..(Len(s) + 1) /\ q \in (q - 1)..Len(s)
  OBVIOUS
<1>3. \A i \in 1..Len(s) : s[i].id \in {s[q].id} <=> i \in q..q
  BY DEF Distinct
<1>4. Rewritten(s, DeleteRange(s, q, q), {s[q].id})
  BY <1>2, <1>3, RangeDeleted
<1> QED
  BY <1>1, <1>4

\* An operation that is neither a jump nor a label is put in front of another.
LEMMA OneInserted ==
  ASSUME NEW s \in Seq(Operations), Distinct(s), NEW at \in DOMAIN s,
         NEW code \in Codes \ (JumpCodes \cup {"LABEL"}), NEW op1 \in Int, NEW op2 \in Int
  PROVE  Rewritten(s, InsertBefore(s, s[at].id, code, op1, op2), {})
<1> DEFINE op == Operation(Fresh(s), code, op1, op2)
           a == SubSeq(s, 1, at - 1)
           b == SubSeq(s, at, Len(s))
           t == a \o <<op>> \o b
           new(q) == IF q < at THEN q ELSE q + 1
<1>1. /\ op \in Operations /\ op.id = Fresh(s) /\ op.code = code
      /\ \A q \in DOMAIN s : s[q].id # op.id
  <2>1. Fresh(s) \in Nat \ {nil} /\ Fresh(s) \notin Addresses(s)
    BY FreshIsNew
  <2> QED
    BY <2>1 DEF Operations, Operation, Addresses
<1>2. InsertBefore(s, s[at].id, code, op1, op2) = t
  BY PositionOfAddress DEF InsertBefore, InsertAt
<1>3. ~Links(op)
  BY <1>1 DEF Links
<1> HIDE DEF op
<1>4. Len(s) \in Nat /\ at \in Nat /\ 1 <= at /\ at <= Len(s) /\ DOMAIN s = 1..Len(s)
  OBVIOUS
<1>5. a \in Seq(Operations) /\ Len(a) = at - 1 /\ \A u \in 1..(at - 1) : a[u] = s[u]
  BY <1>4
<1>6. /\ b \in Seq(Operations) /\ Len(b) = Len(s) - at + 1
      /\ \A u \in 1..(Len(s) - at + 1) : b[u] = s[at - 1 + u]
  BY <1>4
<1> HIDE DEF a, b
<1> DEFINE c == Append(a, op)
<1>7. /\ c \in Seq(Operations) /\ Len(c) = at
      /\ \A u \in 1..(at - 1) : c[u] = s[u]
      /\ c[at] = op
  BY <1>1, <1>4, <1>5
<1>8. /\ t \in Seq(Operations) /\ Len(t) = Len(s) + 1
      /\ \A u \in 1..at : t[u] = c[u]
      /\ \A u \in 1..(Len(s) - at + 1) : t[at + u] = b[u]
  <2>1. t = c \o b
    BY <1>1, <1>5, AppendIsConcat
  <2> HIDE DEF c, t
  <2>2. /\ c \o b \in Seq(Operations) /\ Len(c \o b) = Len(c) + Len(b)
        /\ \A u \in 1..Len(c) : (c \o b)[u] = c[u]
        /\ \A u \in 1..Len(b) : (c \o b)[Len(c) + u] = b[u]
    BY <1>6, <1>7, TwoParts
  <2>5. t \in Seq(Operations) /\ Len(t) = Len(s) + 1
    <3>1. Len(t) = at + (Len(s) - at + 1)
      BY <1>6, <1>7, <2>1, <2>2
    <3>2. at + (Len(s) - at + 1) = Len(s) + 1
      BY <1>4
    <3> QED
      BY <2>1, <2>2, <3>1, <3>2
  <2>6. \A u \in 1..at : t[u] = c[u]
    BY <1>7, <2>1, <2>2
  <2>7. \A u \in 1..(Len(s) - at + 1) : t[at + u] = b[u]
    BY <1>6, <1>7, <2>1, <2>2
  <2> QED
    BY <2>5, <2>6, <2>7
<1> HIDE DEF c
<1> HIDE DEF t
<1>9. DOMAIN t = 1..(Len(s) + 1)
  BY <1>8
<1>10. \A q \in DOMAIN s : new(q) \in DOMAIN t /\ t[new(q)] = s[q]
  <2> SUFFICES ASSUME NEW q \in DOMAIN s PROVE new(q) \in DOMAIN t /\ t[new(q)] = s[q]
    OBVIOUS
  <2>1. CASE q < at
    BY <1>4, <1>7, <1>8, <1>9, <2>1
  <2>2. CASE ~(q < at)
    <3>1. q - at + 1 \in 1..(Len(s) - at + 1) /\ at + (q - at + 1) = q + 1 /\ at - 1 + (q - at + 1) = q
      BY <1>4, <2>2
    <3>2. t[q + 1] = s[q]
      BY <1>6, <1>8, <3>1
    <3> QED
      BY <1>4, <1>9, <2>2, <3>2
  <2> QED
    BY <2>1, <2>2
<1>11. t[at] = op
  BY <1>4, <1>7, <1>8
<1>12. \A u \in DOMAIN t : u = at \/ \E q \in DOMAIN s : u = new(q)
  <2> SUFFICES ASSUME NEW u \in DOMAIN t, u # at PROVE \E q \in DOMAIN s : u = new(q)
    OBVIOUS
  <2>1. CASE u < at
    BY <1>4, <1>9, <2>1
  <2>2. CASE ~(u < at)
    <3>1. u - 1 \in DOMAIN s /\ ~(u - 1 < at) /\ (u - 1) + 1 = u
      BY <1>4, <1>9, <2>2
    <3> QED
      BY <3>1
  <2> QED
    BY <2>1, <2>2
<1>13. \A q, r \in DOMAIN s : new(q) < new(r) <=> q < r
  BY <1>4
<1> HIDE DEF new
<1>14. Distinct(t)
  <2> SUFFICES ASSUME NEW u \in DOMAIN t, NEW v \in DOMAIN t, t[u].id = t[v].id PROVE u = v
    BY DEF Distinct
  <2>1. CASE u = at /\ v = at
    BY <2>1
  <2>2. CASE u = at /\ v # at
    BY <1>1, <1>10, <1>11, <1>12, <2>2
  <2>3. CASE u # at /\ v = at
    BY <1>1, <1>10, <1>11, <1>12, <2>3
  <2>4. CASE u # at /\ v # at
    <3>1. PICK q \in DOMAIN s : u = new(q)
      BY <1>12, <2>4
    <3>2. PICK r \in DOMAIN s : v = new(r)
      BY <1>12, <2>4
    <3>3. s[q].id = s[r].id
      BY <1>10, <3>1, <3>2
    <3> QED
      BY <3>1, <3>2, <3>3 DEF Distinct
  <2> QED
    BY <2>1, <2>2, <2>3, <2>4
<1>15. Addresses(s) \subseteq Addresses(t)
  BY <1>10 DEF Addresses
<1>16. \A u \in DOMAIN t : Links(t[u]) => \E q \in DOMAIN s : u = new(q) /\ t[u] = s[q]
  BY <1>3, <1>10, <1>11, <1>12
<1>17. ASSUME NEW q \in DOMAIN s, NEW r \in DOMAIN s, NEW u \in DOMAIN t, NEW v \in DOMAIN t,
              Links(t[u]), Links(t[v]), t[u] = s[q], t[v] = s[r], u < v
       PROVE  q < r
  <2>1. PICK x \in DOMAIN s : u = new(x) /\ t[u] = s[x]
    BY <1>16, <1>17
  <2>2. PICK y \in DOMAIN s : v = new(y) /\ t[v] = s[y]
    BY <1>16, <1>17
  <2>3. x = q /\ y = r
    BY <1>17, <2>1, <2>2 DEF Distinct
  <2> QED
    BY <1>13, <1>17, <2>1, <2>2, <2>3
<1>18. Rewritten(s, t, {})
  BY <1>8, <1>10, <1>14, <1>15, <1>16, <1>17 DEF Rewritten
<1> QED
  BY <1>2, <1>18

\* A jump and its label are deleted together.
LEMMA PairClosed ==
  ASSUME NEW s, Distinct(s), NEW q \in DOMAIN s, NEW r \in DOMAIN s, Joined(s, q, r)
  PROVE  JoinsClosed(s, {s[q].id, s[r].id})
<1> SUFFICES ASSUME NEW x \in DOMAIN s, NEW y \in DOMAIN s, Joined(s, x, y)
             PROVE  s[x].id \in {s[q].id, s[r].id} <=> s[y].id \in {s[q].id, s[r].id}
  BY DEF JoinsClosed
<1>1. (q = x <=> r = y) /\ q # y /\ r # x
  BY JoinedOnce
<1>2. s[x].id \in {s[q].id, s[r].id} <=> x = q
  BY <1>1 DEF Distinct
<1>3. s[y].id \in {s[q].id, s[r].id} <=> y = r
  BY <1>1 DEF Distinct
<1> QED
  BY <1>1, <1>2, <1>3

\* Deleting neither leaves everything joined.
LEMMA OthersClosed ==
  ASSUME NEW s, NEW gone, \A q \in DOMAIN s : Links(s[q]) => s[q].id \notin gone
  PROVE  JoinsClosed(s, gone)
  BY JoinedLinks DEF JoinsClosed
=============================================================================

----------------------------- MODULE ParserProofs -----------------------------
(***************************************************************************)
(* Theorems about Parser, for programs of any length.                      *)
(***************************************************************************)
EXTENDS Parser, StreamFacts

-----------------------------------------------------------------------------
(* The inductive invariant: p is the program, n characters of it were read, *)
(* s is the stream and t the stack.                                        *)

Shape ==
  /\ program \in Seq(STRING) /\ at \in 1..(Len(program) + 1)
  /\ stream \in Seq(Operations) /\ Distinct(stream)
  /\ stack \in Seq(Addresses(stream)) /\ Len(stack) % 2 = 0
  /\ status \in {"parsing", "ok", "UnmatchedJump", "undefined"}
  /\ status \in {"ok", "UnmatchedJump"} => Read = Len(program)
  /\ status = "ok" => stack = <<>>
  /\ status = "UnmatchedJump" => stack # <<>>

\* What a command becomes.
CodeFor(c) == IF c = "[" THEN "JZ" ELSE IF c = "]" THEN "JNZ" ELSE Translated[c].code

\* The operations of the characters read stand where Place says, and there
\* are no others.
InPlace(p, n, s) ==
  /\ Len(s) = Place(p, n + 1) - 1
  /\ \A i \in 1..n : p[i] \in CommandChars =>
       /\ Place(p, i) \in DOMAIN s /\ s[Place(p, i)].code = CodeFor(p[i])
       /\ p[i] \in Brackets =>
            Place(p, i) + 1 \in DOMAIN s /\ s[Place(p, i) + 1].code = "LABEL"
  /\ \A q \in DOMAIN s : \E i \in 1..n :
       \/ p[i] \in CommandChars /\ q = Place(p, i)
       \/ p[i] \in Brackets /\ q = Place(p, i) + 1

\* Every bracket is matched, or it opens a loop that is not closed yet; there
\* is one of these on every level.
Nested(p, n) ==
  /\ \A i \in 0..n : Depth(p, i) >= 0
  /\ \A i \in 1..n : p[i] = "[" => OpenFrom(p, i, n) \/ \E j \in 1..n : Match(p, i, j)
  /\ \A j \in 1..n : p[j] = "]" => \E i \in 1..n : Match(p, i, j)
  /\ \A k \in 1..Depth(p, n) : \E i \in 1..n : OpenFrom(p, i, n) /\ Depth(p, i) = k

\* Matching brackets are joined both ways.
MatchesJoined(p, n, s) ==
  \A i, j \in 1..n : Match(p, i, j) =>
    Joined(s, Place(p, i), Place(p, j) + 1) /\ Joined(s, Place(p, j), Place(p, i) + 1)

\* The stack holds jump and label of the open loops, innermost last.
StackIsOpen(p, n, s, t) ==
  /\ Len(t) = 2 * Depth(p, n)
  /\ \A i \in 1..n : OpenFrom(p, i, n) =>
       /\ t[2 * Depth(p, i) - 1] = s[Place(p, i)].id
       /\ t[2 * Depth(p, i)] = s[Place(p, i) + 1].id

Unlabelled(s) == {q \in DOMAIN s : s[q].code # "LABEL"}

CommandsCounted(p, n, s) == Cardinality(Unlabelled(s)) = HowMany(p, CommandChars, n)

\* A command that is no bracket becomes an operation on the current cell, by one.
ByOne(op) ==
  op.code \notin JumpCodes \cup {"LABEL"} =>
    op.op2 = 0 /\ (op.code \in CellCodes \cup PtrCodes => op.op1 = 1)

Simple(s) == \A q \in DOMAIN s : ByOne(s[q])

Parsed ==
  status # "undefined" =>
    /\ Simple(stream)
    /\ InPlace(program, Read, stream)
    /\ Nested(program, Read)
    /\ MatchesJoined(program, Read, stream)
    /\ StackIsOpen(program, Read, stream, stack)
    /\ CommandsCounted(program, Read, stream)

Progress == Shape /\ Parsed

-----------------------------------------------------------------------------
(* Counting characters *)

LEMMA CountNext ==
  ASSUME NEW p, NEW chars, NEW i \in Nat
  PROVE  /\ HowMany(p, chars, i) \in Nat
         /\ HowMany(p, chars, 0) = 0
         /\ HowMany(p, chars, i + 1) = HowMany(p, chars, i) + (IF p[i + 1] \in chars THEN 1 ELSE 0)
<1> DEFINE these(m) == {k \in 1..m : p[k] \in chars}
<1>1. IsFiniteSet(these(i)) /\ Cardinality(these(i)) \in Nat
  <2>1. IsFiniteSet(1..i)
    BY FS_Interval
  <2>2. these(i) \in SUBSET (1..i)
    OBVIOUS
  <2>3. IsFiniteSet(these(i))
    BY <2>1, <2>2, FS_Subset
  <2> QED
    BY <2>3, FS_CardinalityType
<1>2. these(0) = {}
  OBVIOUS
<1>3. i + 1 \notin these(i)
  OBVIOUS
<1>4. these(i + 1) = IF p[i + 1] \in chars THEN these(i) \cup {i + 1} ELSE these(i)
  OBVIOUS
<1>5. Cardinality(these(i + 1)) = Cardinality(these(i)) + (IF p[i + 1] \in chars THEN 1 ELSE 0)
  <2> HIDE DEF these
  <2>1. Cardinality(these(i) \cup {i + 1}) = Cardinality(these(i)) + 1
    BY <1>1, <1>3, FS_AddElement
  <2> QED
    BY <1>1, <1>4, <2>1
<1> QED
  BY <1>1, <1>2, <1>5, FS_EmptySet DEF HowMany

Steps(p, chars) ==
  \A i \in Nat :
    /\ HowMany(p, chars, i) \in Nat
    /\ HowMany(p, chars, i + 1) = HowMany(p, chars, i) + (IF p[i + 1] \in chars THEN 1 ELSE 0)

LEMMA CountSteps ==
  ASSUME NEW p, NEW chars
  PROVE  Steps(p, chars)
  BY CountNext DEF Steps

LEMMA CountGrows ==
  ASSUME NEW p, NEW chars, NEW i \in Nat, NEW j \in Nat, i <= j
  PROVE  HowMany(p, chars, i) <= HowMany(p, chars, j)
<1> DEFINE these(m) == {k \in 1..m : p[k] \in chars}
<1>1. IsFiniteSet(these(j))
  <2>1. IsFiniteSet(1..j)
    BY FS_Interval
  <2>2. these(j) \in SUBSET (1..j)
    OBVIOUS
  <2> QED
    BY <2>1, <2>2, FS_Subset
<1>2. these(i) \in SUBSET these(j)
  OBVIOUS
<1>3. Cardinality(these(i)) <= Cardinality(these(j))
  <2> HIDE DEF these
  <2> QED
    BY <1>1, <1>2, FS_Subset
<1> QED
  BY <1>3 DEF HowMany

LEMMA DepthNext ==
  ASSUME NEW p, NEW i \in Nat
  PROVE  /\ Depth(p, i) \in Int
         /\ Depth(p, 0) = 0
         /\ p[i + 1] = "[" => Depth(p, i + 1) = Depth(p, i) + 1
         /\ p[i + 1] = "]" => Depth(p, i + 1) = Depth(p, i) - 1
         /\ p[i + 1] \notin Brackets => Depth(p, i + 1) = Depth(p, i)
<1>1. /\ HowMany(p, {"["}, i) \in Nat /\ HowMany(p, {"["}, 0) = 0
      /\ HowMany(p, {"["}, i + 1) = HowMany(p, {"["}, i) + (IF p[i + 1] \in {"["} THEN 1 ELSE 0)
  BY CountNext
<1>2. /\ HowMany(p, {"]"}, i) \in Nat /\ HowMany(p, {"]"}, 0) = 0
      /\ HowMany(p, {"]"}, i + 1) = HowMany(p, {"]"}, i) + (IF p[i + 1] \in {"]"} THEN 1 ELSE 0)
  BY CountNext
<1> QED
  BY <1>1, <1>2 DEF Depth, Brackets

LEMMA BracketsAreCommands ==
  Brackets \subseteq CommandChars
  BY DEF CommandChars

LEMMA PlaceNext ==
  ASSUME NEW p, NEW i \in Nat \ {0}
  PROVE  /\ Place(p, i) \in Nat \ {0}
         /\ Place(p, 1) = 1
         /\ p[i] \in Brackets => Place(p, i + 1) = Place(p, i) + 2
         /\ p[i] \in CommandChars \ Brackets => Place(p, i + 1) = Place(p, i) + 1
         /\ p[i] \notin CommandChars => Place(p, i + 1) = Place(p, i)
<1>0. i - 1 \in Nat /\ (i - 1) + 1 = i /\ (i + 1) - 1 = i /\ 1 - 1 = 0
  OBVIOUS
<1>1. /\ HowMany(p, Brackets, i - 1) \in Nat /\ HowMany(p, Brackets, 0) = 0
      /\ HowMany(p, Brackets, i) = HowMany(p, Brackets, i - 1) + (IF p[i] \in Brackets THEN 1 ELSE 0)
  BY <1>0, CountNext
<1>2. /\ HowMany(p, CommandChars, i - 1) \in Nat /\ HowMany(p, CommandChars, 0) = 0
      /\ HowMany(p, CommandChars, i)
           = HowMany(p, CommandChars, i - 1) + (IF p[i] \in CommandChars THEN 1 ELSE 0)
  BY <1>0, CountNext
<1>3. Brackets \subseteq CommandChars
  BY BracketsAreCommands
<1> QED
  BY <1>0, <1>1, <1>2, <1>3 DEF Place

LEMMA PlaceGrows ==
  ASSUME NEW p, NEW i \in Nat \ {0}, NEW j \in Nat \ {0}, i <= j
  PROVE  Place(p, i) <= Place(p, j)
<1>1. /\ HowMany(p, Brackets, i - 1) \in Nat /\ HowMany(p, Brackets, j - 1) \in Nat
      /\ HowMany(p, CommandChars, i - 1) \in Nat /\ HowMany(p, CommandChars, j - 1) \in Nat
  BY CountNext
<1>2. /\ HowMany(p, Brackets, i - 1) <= HowMany(p, Brackets, j - 1)
      /\ HowMany(p, CommandChars, i - 1) <= HowMany(p, CommandChars, j - 1)
  BY CountGrows
<1> QED
  BY <1>1, <1>2 DEF Place

-----------------------------------------------------------------------------
(* Brackets *)

LEMMA OpenNext ==
  ASSUME NEW p, NEW n \in Nat
  PROVE  /\ \A i \in 1..n : OpenFrom(p, i, n + 1) <=>
                              OpenFrom(p, i, n) /\ Depth(p, n + 1) >= Depth(p, i)
         /\ OpenFrom(p, n + 1, n + 1) <=> p[n + 1] = "["
         /\ \A i \in 1..n : OpenFrom(p, i, n) => Depth(p, n) >= Depth(p, i)
<1>1. \A k \in Nat : Depth(p, k) \in Int
  BY DepthNext
<1>2. \A i \in 1..n : i..(n + 1) = (i..n) \cup {n + 1}
  OBVIOUS
<1>3. (n + 1)..(n + 1) = {n + 1}
  OBVIOUS
<1> QED
  BY <1>1, <1>2, <1>3 DEF OpenFrom

\* There is one open loop on a level.
LEMMA OpenOnce ==
  ASSUME NEW p, NEW n \in Nat, NEW i \in 1..n, NEW j \in 1..n,
         OpenFrom(p, i, n), OpenFrom(p, j, n), Depth(p, i) = Depth(p, j)
  PROVE  i = j
<1>1. ASSUME NEW a \in 1..n, NEW b \in 1..n, OpenFrom(p, a, n), OpenFrom(p, b, n), a < b
      PROVE  Depth(p, a) # Depth(p, b)
  <2>1. b - 1 \in a..n /\ b - 1 \in Nat /\ (b - 1) + 1 = b
    BY <1>1
  <2>2. p[b] = "[" /\ Depth(p, b - 1) >= Depth(p, a)
    BY <1>1, <2>1 DEF OpenFrom
  <2>3. Depth(p, b - 1) \in Int /\ Depth(p, a) \in Int /\ Depth(p, b) = Depth(p, b - 1) + 1
    BY <2>1, <2>2, DepthNext
  <2> QED
    BY <2>2, <2>3
<1> QED
  BY <1>1

\* A loop that matches is not open any more.
LEMMA MatchedIsClosed ==
  ASSUME NEW p, NEW n \in Nat, NEW i \in 1..n, NEW j \in 1..n, Match(p, i, j)
  PROVE  ~OpenFrom(p, i, n)
<1>1. Depth(p, i) \in Int /\ Depth(p, j) \in Int
  BY DepthNext
<1> QED
  BY <1>1 DEF Match, OpenFrom

LEMMA NestedStart ==
  ASSUME NEW p
  PROVE  Nested(p, 0)
<1>1. Depth(p, 0) = 0
  BY DepthNext
<1> QED
  BY <1>1 DEF Nested

LEMMA NestedComment ==
  ASSUME NEW p, NEW n \in Nat, Nested(p, n), p[n + 1] \notin Brackets
  PROVE  Nested(p, n + 1)
<1>1. Depth(p, n + 1) = Depth(p, n) /\ Depth(p, n) \in Int
  BY DepthNext
<1>2. \A i \in 1..n : OpenFrom(p, i, n) => OpenFrom(p, i, n + 1)
  BY <1>1, OpenNext
<1>3. p[n + 1] # "[" /\ p[n + 1] # "]"
  BY DEF Brackets
<1>4. 1..(n + 1) = (1..n) \cup {n + 1} /\ 0..(n + 1) = (0..n) \cup {n + 1} /\ n \in 0..n
  OBVIOUS
<1> QED
  BY <1>1, <1>2, <1>3, <1>4 DEF Nested

LEMMA NestedOpen ==
  ASSUME NEW p, NEW n \in Nat, Nested(p, n), p[n + 1] = "["
  PROVE  /\ Nested(p, n + 1)
         /\ \A i \in 1..n : OpenFrom(p, i, n + 1) => OpenFrom(p, i, n)
<1>1. Depth(p, n + 1) = Depth(p, n) + 1 /\ Depth(p, n) \in Int
  BY DepthNext
<1>2. \A i \in Nat : Depth(p, i) \in Int
  BY DepthNext
<1>3. /\ \A i \in 1..n : OpenFrom(p, i, n) <=> OpenFrom(p, i, n + 1)
      /\ OpenFrom(p, n + 1, n + 1)
  <2>1. \A i \in 1..n : OpenFrom(p, i, n) => Depth(p, n + 1) >= Depth(p, i)
    <3>1. \A i \in 1..n : Depth(p, i) \in Int
      BY <1>2
    <3>2. \A i \in 1..n : OpenFrom(p, i, n) => Depth(p, n) >= Depth(p, i)
      BY OpenNext
    <3> QED
      BY <1>1, <3>1, <3>2
  <2> QED
    BY <2>1, OpenNext
<1>4. 1..(n + 1) = (1..n) \cup {n + 1} /\ 0..(n + 1) = (0..n) \cup {n + 1} /\ n \in 0..n
  OBVIOUS
<1>5. \A k \in 1..Depth(p, n + 1) : k \in 1..Depth(p, n) \/ k = Depth(p, n + 1)
  BY <1>1
<1>6. \A i \in 0..(n + 1) : Depth(p, i) >= 0
  BY <1>1, <1>4 DEF Nested
<1>7. \A i \in 1..(n + 1) : p[i] = "[" =>
        OpenFrom(p, i, n + 1) \/ \E j \in 1..(n + 1) : Match(p, i, j)
  BY <1>3, <1>4 DEF Nested
<1>8. \A j \in 1..(n + 1) : p[j] = "]" => \E i \in 1..(n + 1) : Match(p, i, j)
  BY <1>4 DEF Nested
<1>9. \A k \in 1..Depth(p, n + 1) :
        \E i \in 1..(n + 1) : OpenFrom(p, i, n + 1) /\ Depth(p, i) = k
  BY <1>3, <1>4, <1>5 DEF Nested
<1> QED
  BY <1>3, <1>6, <1>7, <1>8, <1>9 DEF Nested

\* A bracket that closes a loop closes the innermost one that is open.
LEMMA NestedClose ==
  ASSUME NEW p, NEW n \in Nat, Nested(p, n), p[n + 1] = "]", Depth(p, n) >= 1
  PROVE  /\ Nested(p, n + 1)
         /\ \E top \in 1..n :
              /\ OpenFrom(p, top, n) /\ Depth(p, top) = Depth(p, n)
              /\ \A i \in 1..(n + 1) : Match(p, i, n + 1) <=> i = top
              /\ \A i \in 1..n : OpenFrom(p, i, n + 1) <=> OpenFrom(p, i, n) /\ i # top
<1>1. Depth(p, n + 1) = Depth(p, n) - 1 /\ Depth(p, n) \in Int
  BY DepthNext
<1>2. \A i \in Nat : Depth(p, i) \in Int
  BY DepthNext
<1>3. PICK top \in 1..n : OpenFrom(p, top, n) /\ Depth(p, top) = Depth(p, n)
  BY <1>1 DEF Nested
<1>4. \A i \in 1..n : OpenFrom(p, i, n + 1) <=> OpenFrom(p, i, n) /\ i # top
  <2> SUFFICES ASSUME NEW i \in 1..n, OpenFrom(p, i, n)
               PROVE  Depth(p, n + 1) >= Depth(p, i) <=> i # top
    BY OpenNext
  <2>1. Depth(p, n) >= Depth(p, i) /\ Depth(p, i) \in Int
    BY <1>2, OpenNext
  <2>2. i # top => Depth(p, i) # Depth(p, n)
    BY <1>3, OpenOnce
  <2> QED
    BY <1>1, <1>3, <2>1, <2>2
<1>5. \A i \in 1..(n + 1) : Match(p, i, n + 1) <=> i = top
  <2>1. Match(p, top, n + 1)
    BY <1>1, <1>3 DEF Match
  <2>2. ASSUME NEW i \in 1..(n + 1), Match(p, i, n + 1) PROVE i = top
    <3>1. i \in 1..n /\ OpenFrom(p, i, n) /\ Depth(p, n + 1) = Depth(p, i) - 1
      BY <2>2 DEF Match
    <3>2. Depth(p, i) = Depth(p, top)
      BY <1>1, <1>2, <1>3, <3>1
    <3> QED
      BY <1>3, <3>1, <3>2, OpenOnce
  <2> QED
    BY <2>1, <2>2
<1>6. 1..(n + 1) = (1..n) \cup {n + 1} /\ 0..(n + 1) = (0..n) \cup {n + 1} /\ n + 1 \in 1..(n + 1)
  OBVIOUS
<1>7. \A i \in 0..(n + 1) : Depth(p, i) >= 0
  BY <1>1, <1>6 DEF Nested
<1>8. \A i \in 1..(n + 1) : p[i] = "[" =>
        OpenFrom(p, i, n + 1) \/ \E j \in 1..(n + 1) : Match(p, i, j)
  BY <1>4, <1>5, <1>6 DEF Nested
<1>9. \A j \in 1..(n + 1) : p[j] = "]" => \E i \in 1..(n + 1) : Match(p, i, j)
  BY <1>5, <1>6 DEF Nested
<1>10. \A k \in 1..Depth(p, n + 1) :
         \E i \in 1..(n + 1) : OpenFrom(p, i, n + 1) /\ Depth(p, i) = k
  <2> SUFFICES ASSUME NEW k \in 1..Depth(p, n + 1)
               PROVE  \E i \in 1..(n + 1) : OpenFrom(p, i, n + 1) /\ Depth(p, i) = k
    OBVIOUS
  <2>1. k \in 1..Depth(p, n) /\ k # Depth(p, n)
    BY <1>1
  <2>2. PICK i \in 1..n : OpenFrom(p, i, n) /\ Depth(p, i) = k
    BY <2>1 DEF Nested
  <2> QED
    BY <1>3, <1>4, <1>6, <2>1, <2>2
<1> QED
  BY <1>3, <1>4, <1>5, <1>7, <1>8, <1>9, <1>10 DEF Nested

\* An open loop has a level between one and the depth.
LEMMA OpenLevel ==
  ASSUME NEW p, NEW n \in Nat, Nested(p, n), NEW i \in 1..n, OpenFrom(p, i, n)
  PROVE  Depth(p, i) \in 1..Depth(p, n)
<1>1. i - 1 \in 0..n /\ i - 1 \in Nat /\ (i - 1) + 1 = i
  OBVIOUS
<1>2. p[i] = "[" /\ Depth(p, n) >= Depth(p, i)
  BY OpenNext DEF OpenFrom
<1>3. Depth(p, i - 1) \in Int /\ Depth(p, i) = Depth(p, i - 1) + 1
  BY <1>1, <1>2, DepthNext
<1>4. Depth(p, i - 1) >= 0 /\ Depth(p, n) \in Int
  BY <1>1, DepthNext DEF Nested
<1> QED
  BY <1>2, <1>3, <1>4

-----------------------------------------------------------------------------
(* Streams *)

LEMMA AppendOpShape ==
  ASSUME NEW s \in Seq(Operations), Distinct(s),
         NEW code \in Codes, NEW op1 \in Int, NEW op2 \in Int, NEW s2,
         s2 = AppendOp(s, code, op1, op2)
  PROVE  /\ s2 \in Seq(Operations) /\ Distinct(s2)
         /\ Len(s2) = Len(s) + 1
         /\ \A q \in 1..Len(s) : s2[q] = s[q]
         /\ s2[Len(s) + 1] = Operation(Fresh(s), code, op1, op2)
         /\ Last(s2) = s2[Len(s) + 1]
<1> DEFINE op == Operation(Fresh(s), code, op1, op2)
<1>1. op \in Operations
  BY FreshIsNew DEF Operation, Operations
<1>2. /\ s2 \in Seq(Operations) /\ Len(s2) = Len(s) + 1
      /\ \A q \in 1..Len(s) : s2[q] = s[q]
      /\ s2[Len(s) + 1] = op
  <2> HIDE DEF op
  <2>1. s2 = Append(s, op)
    BY DEF AppendOp, op
  <2> QED
    BY <1>1, <2>1
<1>3. \A q \in 1..Len(s) : s2[q].id # op.id
  BY <1>2, FreshIsNew DEF Addresses, Operation
<1>4. DOMAIN s2 = 1..(Len(s) + 1) /\ DOMAIN s = 1..Len(s) /\ Len(s) \in Nat
  BY <1>2
<1>5. Distinct(s2)
  <2> SUFFICES ASSUME NEW q \in DOMAIN s2, NEW r \in DOMAIN s2, s2[q].id = s2[r].id
               PROVE  q = r
    BY DEF Distinct
  <2>1. CASE q \in 1..Len(s) /\ r \in 1..Len(s)
    BY <1>2, <1>4, <2>1 DEF Distinct
  <2>2. CASE q = Len(s) + 1 \/ r = Len(s) + 1
    BY <1>2, <1>3, <1>4, <2>2
  <2> QED
    BY <1>4, <2>1, <2>2
<1> QED
  BY <1>2, <1>4, <1>5 DEF Last

\* s2 is s with another first operand at q.
Telling(s, q, v, s2) ==
  /\ s2 \in Seq(Operations) /\ Distinct(s2) /\ Len(s2) = Len(s)
  /\ \A r \in 1..Len(s) : r # q => s2[r] = s[r]
  /\ s2[q].id = s[q].id /\ s2[q].code = s[q].code /\ s2[q].op1 = v /\ s2[q].op2 = s[q].op2

LEMMA SetOperandShape ==
  ASSUME NEW s \in Seq(Operations), Distinct(s), NEW q \in 1..Len(s), NEW v \in Int
  PROVE  Telling(s, q, v, SetOperand1(s, s[q].id, v))
<1> DEFINE s2 == SetOperand1(s, s[q].id, v)
<1>1. DOMAIN s = 1..Len(s) /\ Len(s) \in Nat /\ s \in [1..Len(s) -> Operations]
  OBVIOUS
<1>2. s2 = [s EXCEPT ![q] = [s[q] EXCEPT !.op1 = v]]
  BY <1>1, PositionOfAddress DEF SetOperand1
<1> HIDE DEF s2
<1> DEFINE op == [s[q] EXCEPT !.op1 = v]
<1>3. /\ op \in Operations /\ op.id = s[q].id /\ op.code = s[q].code
      /\ op.op1 = v /\ op.op2 = s[q].op2
  BY <1>1 DEF Operations
<1>4. /\ s2 \in Seq(Operations) /\ Len(s2) = Len(s)
      /\ \A r \in 1..Len(s) : s2[r] = IF r = q THEN op ELSE s[r]
  <2>1. s2 = [s EXCEPT ![q] = op]
    BY <1>2
  <2> HIDE DEF op
  <2> QED
    BY <1>1, <1>3, <2>1
<1> HIDE DEF op
<1>5. \A r \in 1..Len(s) : s2[r].id = s[r].id
  BY <1>3, <1>4
<1>6. Distinct(s2)
  BY <1>1, <1>4, <1>5 DEF Distinct
<1>7. Telling(s, q, v, s2)
  BY <1>3, <1>4, <1>6 DEF Telling
<1> QED
  BY <1>7 DEF s2

\* An operation is appended, and the one at a told about it.
PointedTo(s, a, code, op1) ==
  SetOperand1(AppendOp(s, code, op1, 0), s[a].id, Last(AppendOp(s, code, op1, 0)).id)

\* s2 is s with one more operation, which the one at a points at.
Pointing(s, a, code, op1, s2) ==
  /\ s2 \in Seq(Operations) /\ Distinct(s2) /\ Len(s2) = Len(s) + 1
  /\ \A q \in 1..Len(s) : q # a => s2[q] = s[q]
  /\ s2[a].id = s[a].id /\ s2[a].code = s[a].code /\ s2[a].op2 = s[a].op2
  /\ s2[a].op1 = s2[Len(s) + 1].id
  /\ s2[Len(s) + 1].code = code /\ s2[Len(s) + 1].op1 = op1

LEMMA PointedToShape ==
  ASSUME NEW s \in Seq(Operations), Distinct(s), NEW a \in 1..Len(s),
         NEW code \in Codes, NEW op1 \in Int
  PROVE  Pointing(s, a, code, op1, PointedTo(s, a, code, op1))
<1> DEFINE last == Len(s) + 1
           s1 == AppendOp(s, code, op1, 0)
           s2 == SetOperand1(s1, s1[a].id, s1[last].id)
<1>1. /\ Len(s) \in Nat /\ a \in 1..last /\ last \in 1..last /\ last # a
      /\ \A q \in 1..Len(s) : q \in 1..last
  OBVIOUS
<1>2. /\ s1 \in Seq(Operations) /\ Distinct(s1) /\ Len(s1) = last
      /\ \A q \in 1..Len(s) : s1[q] = s[q]
      /\ s1[last] = Operation(Fresh(s), code, op1, 0) /\ Last(s1) = s1[last]
  BY AppendOpShape
<1>3. PointedTo(s, a, code, op1) = s2
  BY <1>2 DEF PointedTo
<1> HIDE DEF s1
<1>4. s1[last].id \in Int /\ s1[last].code = code /\ s1[last].op1 = op1
  <2>1. s1[last] \in Operations
    BY <1>1, <1>2
  <2> QED
    BY <1>2, <2>1 DEF Operations, Operation
<1>5. a \in 1..Len(s1)
  BY <1>1, <1>2
<1> HIDE DEF last
<1>6. /\ s2 \in Seq(Operations) /\ Distinct(s2) /\ Len(s2) = Len(s1)
      /\ \A r \in 1..Len(s1) : r # a => s2[r] = s1[r]
      /\ s2[a].id = s1[a].id /\ s2[a].code = s1[a].code /\ s2[a].op2 = s1[a].op2
      /\ s2[a].op1 = s1[last].id
  <2>1. Telling(s1, a, s1[last].id, s2)
    BY <1>2, <1>4, <1>5, SetOperandShape
  <2> HIDE DEF s2
  <2> QED
    BY <2>1 DEF Telling
<1> HIDE DEF s2
<1>7. s2[last] = s1[last] /\ s1[a] = s[a]
  BY <1>1, <1>2, <1>6
<1>8. \A q \in 1..Len(s) : q # a => s2[q] = s[q]
  BY <1>1, <1>2, <1>6
<1>9. Pointing(s, a, code, op1, s2)
  BY <1>2, <1>4, <1>6, <1>7, <1>8 DEF Pointing, last
<1> QED
  BY <1>3, <1>9

\* s4 is s with the JNZ and the label of a closed loop, joined with the
\* operations at a and b.
Closing(s, a, b, s4) ==
  /\ s4 \in Seq(Operations) /\ Distinct(s4) /\ Len(s4) = Len(s) + 2
  /\ \A q \in 1..Len(s) : s4[q].id = s[q].id /\ s4[q].code = s[q].code /\ s4[q].op2 = s[q].op2
  /\ \A q \in 1..Len(s) : q # a /\ q # b => s4[q].op1 = s[q].op1
  /\ s4[b].op1 = s4[Len(s) + 1].id /\ s4[a].op1 = s4[Len(s) + 2].id
  /\ s4[Len(s) + 1].code = "JNZ" /\ s4[Len(s) + 1].op1 = s[b].id
  /\ s4[Len(s) + 2].code = "LABEL" /\ s4[Len(s) + 2].op1 = s[a].id

LEMMA CloseShape ==
  ASSUME NEW s \in Seq(Operations), Distinct(s),
         NEW a \in 1..Len(s), NEW b \in 1..Len(s), a # b
  PROVE  Closing(s, a, b, PointedTo(PointedTo(s, b, "JNZ", s[b].id), a, "LABEL", s[a].id))
<1> DEFINE s2 == PointedTo(s, b, "JNZ", s[b].id)
           s4 == PointedTo(s2, a, "LABEL", s[a].id)
<1>1. "JNZ" \in Codes /\ "LABEL" \in Codes
  BY DEF Codes, JumpCodes
<1>2. Len(s) \in Nat /\ s[a].id \in Int /\ s[b].id \in Int
  BY Elements
<1>3. Pointing(s, b, "JNZ", s[b].id, s2)
  BY <1>1, <1>2, PointedToShape
<1> HIDE DEF s2
<1>4. /\ s2 \in Seq(Operations) /\ Distinct(s2) /\ Len(s2) = Len(s) + 1
      /\ \A q \in 1..Len(s) : q # b => s2[q] = s[q]
      /\ s2[b].id = s[b].id /\ s2[b].code = s[b].code /\ s2[b].op2 = s[b].op2
      /\ s2[b].op1 = s2[Len(s) + 1].id
      /\ s2[Len(s) + 1].code = "JNZ" /\ s2[Len(s) + 1].op1 = s[b].id
  BY <1>3 DEF Pointing
<1>5. a \in 1..Len(s2) /\ s2[a] = s[a]
  BY <1>2, <1>4
<1>6. Pointing(s2, a, "LABEL", s[a].id, s4)
  BY <1>1, <1>2, <1>4, <1>5, PointedToShape
<1> HIDE DEF s4
<1>7. /\ s4 \in Seq(Operations) /\ Distinct(s4) /\ Len(s4) = Len(s2) + 1
      /\ \A q \in 1..Len(s2) : q # a => s4[q] = s2[q]
      /\ s4[a].id = s2[a].id /\ s4[a].code = s2[a].code /\ s4[a].op2 = s2[a].op2
      /\ s4[a].op1 = s4[Len(s2) + 1].id
      /\ s4[Len(s2) + 1].code = "LABEL" /\ s4[Len(s2) + 1].op1 = s[a].id
  BY <1>6 DEF Pointing
<1>8. /\ Len(s2) + 1 = Len(s) + 2 /\ Len(s) + 1 # a /\ Len(s) + 1 \in 1..Len(s2)
      /\ \A q \in 1..Len(s) : q \in 1..Len(s2)
  BY <1>2, <1>4
<1>9. s4[b] = s2[b] /\ s4[Len(s) + 1] = s2[Len(s) + 1]
  BY <1>7, <1>8
<1>10. \A q \in 1..Len(s) : q # a /\ q # b => s4[q] = s[q]
  BY <1>4, <1>7, <1>8
<1>11. Closing(s, a, b, s4)
  BY <1>4, <1>5, <1>7, <1>8, <1>9, <1>10 DEF Closing
<1> QED
  BY <1>11 DEF s2, s4

-----------------------------------------------------------------------------
(* The next character of the program *)

LEMMA InPlaceNext ==
  ASSUME NEW p, NEW n \in Nat, NEW s \in Seq(Operations), NEW s2 \in Seq(Operations),
         InPlace(p, n, s),
         Len(s2) = Place(p, n + 2) - 1,
         \A q \in 1..Len(s) : s2[q].code = s[q].code,
         p[n + 1] \in CommandChars => s2[Len(s) + 1].code = CodeFor(p[n + 1]),
         p[n + 1] \in Brackets => s2[Len(s) + 2].code = "LABEL"
  PROVE  InPlace(p, n + 1, s2)
<1>1. /\ Place(p, n + 1) \in Nat \ {0} /\ (n + 1) + 1 = n + 2
      /\ p[n + 1] \in Brackets => Place(p, n + 2) = Place(p, n + 1) + 2
      /\ p[n + 1] \in CommandChars \ Brackets => Place(p, n + 2) = Place(p, n + 1) + 1
      /\ p[n + 1] \notin CommandChars => Place(p, n + 2) = Place(p, n + 1)
  <2>1. n + 1 \in Nat \ {0} /\ (n + 1) + 1 = n + 2
    OBVIOUS
  <2>2. /\ Place(p, n + 1) \in Nat \ {0}
        /\ p[n + 1] \in Brackets => Place(p, (n + 1) + 1) = Place(p, n + 1) + 2
        /\ p[n + 1] \in CommandChars \ Brackets => Place(p, (n + 1) + 1) = Place(p, n + 1) + 1
        /\ p[n + 1] \notin CommandChars => Place(p, (n + 1) + 1) = Place(p, n + 1)
    BY <2>1, PlaceNext, Zenon
  <2> QED
    BY <2>1, <2>2
<1>2. Len(s) = Place(p, n + 1) - 1 /\ DOMAIN s = 1..Len(s) /\ DOMAIN s2 = 1..Len(s2)
  BY DEF InPlace
<1>3. 1..(n + 1) = (1..n) \cup {n + 1} /\ (p[n + 1] \in Brackets => p[n + 1] \in CommandChars)
  BY BracketsAreCommands
<1>4. 1..Len(s) \subseteq 1..Len(s2)
  BY <1>1, <1>2
<1>5. Len(s2) = Place(p, (n + 1) + 1) - 1
  BY <1>1
<1>6. \A i \in 1..(n + 1) : p[i] \in CommandChars =>
        /\ Place(p, i) \in DOMAIN s2 /\ s2[Place(p, i)].code = CodeFor(p[i])
        /\ p[i] \in Brackets =>
             Place(p, i) + 1 \in DOMAIN s2 /\ s2[Place(p, i) + 1].code = "LABEL"
  <2> SUFFICES ASSUME NEW i \in 1..(n + 1), p[i] \in CommandChars
               PROVE  /\ Place(p, i) \in DOMAIN s2 /\ s2[Place(p, i)].code = CodeFor(p[i])
                      /\ p[i] \in Brackets =>
                           Place(p, i) + 1 \in DOMAIN s2 /\ s2[Place(p, i) + 1].code = "LABEL"
    OBVIOUS
  <2>1. CASE i \in 1..n
    BY <1>2, <1>4, <2>1 DEF InPlace
  <2>2. CASE i = n + 1
    BY <1>1, <1>2, <2>2
  <2> QED
    BY <1>3, <2>1, <2>2
<1>7. \A q \in DOMAIN s2 : \E i \in 1..(n + 1) :
        \/ p[i] \in CommandChars /\ q = Place(p, i)
        \/ p[i] \in Brackets /\ q = Place(p, i) + 1
  <2> SUFFICES ASSUME NEW q \in DOMAIN s2
               PROVE  \E i \in 1..(n + 1) : \/ p[i] \in CommandChars /\ q = Place(p, i)
                                            \/ p[i] \in Brackets /\ q = Place(p, i) + 1
    OBVIOUS
  <2>1. CASE q \in DOMAIN s
    BY <1>3, <2>1 DEF InPlace
  <2>2. CASE q \notin DOMAIN s
    <3>1. \/ p[n + 1] \in CommandChars /\ q = Place(p, n + 1)
          \/ p[n + 1] \in Brackets /\ q = Place(p, n + 1) + 1
      BY <1>1, <1>2, <1>3, <2>2
    <3> QED
      BY <1>3, <3>1
  <2> QED
    BY <2>1, <2>2
<1> QED
  BY <1>5, <1>6, <1>7 DEF InPlace

\* The jump and the label of a bracket have places of their own.
LEMMA PlacesApart ==
  ASSUME NEW p, NEW i \in Nat \ {0}, NEW j \in Nat \ {0}, i # j,
         p[i] \in Brackets, p[j] \in Brackets
  PROVE  {Place(p, i), Place(p, i) + 1} \cap {Place(p, j), Place(p, j) + 1} = {}
<1>1. ASSUME NEW a \in Nat \ {0}, NEW b \in Nat \ {0}, a < b, p[a] \in Brackets
      PROVE  Place(p, a) + 2 <= Place(p, b)
  <2>1. Place(p, a + 1) = Place(p, a) + 2
    BY <1>1, PlaceNext
  <2>2. Place(p, a + 1) <= Place(p, b)
    BY <1>1, PlaceGrows
  <2> QED
    BY <2>1, <2>2
<1>2. Place(p, i) \in Nat /\ Place(p, j) \in Nat
  BY PlaceNext
<1>3. Place(p, i) + 2 <= Place(p, j) \/ Place(p, j) + 2 <= Place(p, i)
  BY <1>1
<1> QED
  BY <1>2, <1>3

LEMMA PlacesInside ==
  ASSUME NEW p, NEW n \in Nat, NEW s \in Seq(Operations), InPlace(p, n, s),
         NEW i \in 1..n, p[i] \in Brackets
  PROVE  Place(p, i) \in 1..Len(s) /\ Place(p, i) + 1 \in 1..Len(s)
<1>1. p[i] \in CommandChars /\ DOMAIN s = 1..Len(s)
  BY BracketsAreCommands
<1> QED
  BY <1>1 DEF InPlace

\* What is appended to a stream does not disturb what was joined.
LEMMA JoinedStays ==
  ASSUME NEW s, NEW s2, NEW q, NEW r, Joined(s, q, r),
         s2[q].id = s[q].id, s2[q].code = s[q].code, s2[q].op1 = s[q].op1,
         s2[r].id = s[r].id, s2[r].code = s[r].code, s2[r].op1 = s[r].op1
  PROVE  Joined(s2, q, r)
  BY DEF Joined, IsJump

LEMMA MatchesStay ==
  ASSUME NEW p, NEW n \in Nat, NEW s \in Seq(Operations), NEW s2,
         InPlace(p, n, s), MatchesJoined(p, n, s),
         \A q \in 1..Len(s) : s2[q] = s[q],
         p[n + 1] # "]"
  PROVE  MatchesJoined(p, n + 1, s2)
<1> SUFFICES ASSUME NEW i \in 1..(n + 1), NEW j \in 1..(n + 1), Match(p, i, j)
             PROVE  /\ Joined(s2, Place(p, i), Place(p, j) + 1)
                    /\ Joined(s2, Place(p, j), Place(p, i) + 1)
  BY DEF MatchesJoined
<1>1. i < j /\ p[j] = "]" /\ p[i] = "["
  BY DEF Match, OpenFrom
<1>2. i \in 1..n /\ j \in 1..n
  BY <1>1
<1>3. /\ Place(p, i) \in 1..Len(s) /\ Place(p, i) + 1 \in 1..Len(s)
      /\ Place(p, j) \in 1..Len(s) /\ Place(p, j) + 1 \in 1..Len(s)
  BY <1>1, <1>2, PlacesInside DEF Brackets
<1>4. Joined(s, Place(p, i), Place(p, j) + 1) /\ Joined(s, Place(p, j), Place(p, i) + 1)
  BY <1>2 DEF MatchesJoined
<1> QED
  BY <1>3, <1>4, JoinedStays

LEMMA MatchesClosed ==
  ASSUME NEW p, NEW n \in Nat, NEW s \in Seq(Operations), NEW s4,
         InPlace(p, n, s), MatchesJoined(p, n, s), p[n + 1] = "]",
         NEW top \in 1..n, OpenFrom(p, top, n),
         \A i \in 1..(n + 1) : Match(p, i, n + 1) <=> i = top,
         Closing(s, Place(p, top), Place(p, top) + 1, s4)
  PROVE  MatchesJoined(p, n + 1, s4)
<1> DEFINE a == Place(p, top)
           b == Place(p, top) + 1
<1>1. /\ \A q \in 1..Len(s) : s4[q].id = s[q].id /\ s4[q].code = s[q].code
      /\ \A q \in 1..Len(s) : q # a /\ q # b => s4[q].op1 = s[q].op1
      /\ s4[b].op1 = s4[Len(s) + 1].id /\ s4[a].op1 = s4[Len(s) + 2].id
      /\ s4[Len(s) + 1].code = "JNZ" /\ s4[Len(s) + 1].op1 = s[b].id
      /\ s4[Len(s) + 2].code = "LABEL" /\ s4[Len(s) + 2].op1 = s[a].id
  BY DEF Closing
<1>2. p[top] = "[" /\ p[top] \in Brackets
  BY DEF OpenFrom, Brackets
<1>3. a \in 1..Len(s) /\ b \in 1..Len(s)
  BY <1>2, PlacesInside
<1>4. s[a].code = "JZ" /\ s[b].code = "LABEL"
  BY <1>2, BracketsAreCommands DEF InPlace, CodeFor
<1>5. Len(s) \in Nat /\ Place(p, n + 1) = Len(s) + 1 /\ (Len(s) + 1) + 1 = Len(s) + 2
  <2>1. Place(p, n + 1) \in Nat /\ Len(s) = Place(p, n + 1) - 1
    BY PlaceNext DEF InPlace
  <2> QED
    BY <2>1
<1> SUFFICES ASSUME NEW i \in 1..(n + 1), NEW j \in 1..(n + 1), Match(p, i, j)
             PROVE  /\ Joined(s4, Place(p, i), Place(p, j) + 1)
                    /\ Joined(s4, Place(p, j), Place(p, i) + 1)
  BY DEF MatchesJoined
<1>6. i < j /\ p[j] = "]" /\ p[i] = "["
  BY DEF Match, OpenFrom
<1>7. i \in 1..n /\ (j \in 1..n \/ j = n + 1)
  BY <1>6
<1>8. CASE j = n + 1
  <2>1. i = top
    BY <1>7, <1>8
  <2>2. Joined(s4, a, Len(s) + 2)
    <3>1. s4[a].id = s[a].id /\ s4[a].code = "JZ" /\ a < Len(s) + 2
      BY <1>1, <1>3, <1>4, <1>5
    <3> QED
      BY <1>1, <3>1 DEF Joined, IsJump, JumpCodes
  <2>3. Joined(s4, Len(s) + 1, b)
    <3>1. s4[b].id = s[b].id /\ s4[b].code = "LABEL" /\ b < Len(s) + 1
      BY <1>1, <1>3, <1>4, <1>5
    <3> QED
      BY <1>1, <3>1 DEF Joined, IsJump, JumpCodes
  <2> QED
    BY <1>5, <1>8, <2>1, <2>2, <2>3
<1>9. CASE j \in 1..n
  <2>1. i # top /\ j # top
    BY <1>2, <1>6, <1>7, <1>9, MatchedIsClosed
  <2>2. i \in Nat \ {0} /\ j \in Nat \ {0} /\ top \in Nat \ {0}
        /\ p[i] \in Brackets /\ p[j] \in Brackets
    BY <1>6 DEF Brackets
  <2>3. /\ Place(p, i) \in 1..Len(s) /\ Place(p, i) + 1 \in 1..Len(s)
        /\ Place(p, j) \in 1..Len(s) /\ Place(p, j) + 1 \in 1..Len(s)
    BY <1>7, <1>9, <2>2, PlacesInside
  <2>4. {Place(p, i), Place(p, i) + 1} \cap {a, b} = {}
    BY <1>2, <2>1, <2>2, PlacesApart
  <2>5. {Place(p, j), Place(p, j) + 1} \cap {a, b} = {}
    BY <1>2, <2>1, <2>2, PlacesApart
  <2>6. ASSUME NEW q \in 1..Len(s), q \notin {a, b}
        PROVE  s4[q].id = s[q].id /\ s4[q].code = s[q].code /\ s4[q].op1 = s[q].op1
    BY <1>1, <2>6
  <2>7. \A q \in {Place(p, i), Place(p, i) + 1, Place(p, j), Place(p, j) + 1} :
          s4[q].id = s[q].id /\ s4[q].code = s[q].code /\ s4[q].op1 = s[q].op1
    BY <2>3, <2>4, <2>5, <2>6
  <2>8. Joined(s, Place(p, i), Place(p, j) + 1) /\ Joined(s, Place(p, j), Place(p, i) + 1)
    BY <1>7, <1>9 DEF MatchesJoined
  <2> QED
    BY <2>7, <2>8, JoinedStays
<1> QED
  BY <1>7, <1>8, <1>9

LEMMA CountedNext ==
  ASSUME NEW p, NEW n \in Nat, NEW s \in Seq(Operations), NEW s2 \in Seq(Operations),
         CommandsCounted(p, n, s),
         p[n + 1] \in CommandChars,
         Len(s2) >= Len(s) + 1,
         \A q \in 1..Len(s) : s2[q].code = s[q].code,
         s2[Len(s) + 1].code # "LABEL",
         \A q \in (Len(s) + 2)..Len(s2) : s2[q].code = "LABEL"
  PROVE  CommandsCounted(p, n + 1, s2)
<1>1. DOMAIN s = 1..Len(s) /\ DOMAIN s2 = 1..Len(s2) /\ Len(s) \in Nat /\ Len(s2) \in Nat
  OBVIOUS
<1>2. Unlabelled(s2) = Unlabelled(s) \cup {Len(s) + 1}
  BY <1>1 DEF Unlabelled
<1>3. IsFiniteSet(Unlabelled(s)) /\ Len(s) + 1 \notin Unlabelled(s)
  <2>1. Unlabelled(s) \in SUBSET (1..Len(s))
    BY <1>1 DEF Unlabelled
  <2>2. IsFiniteSet(1..Len(s))
    BY <1>1, FS_Interval
  <2> QED
    BY <1>1, <2>1, <2>2, FS_Subset
<1>4. Cardinality(Unlabelled(s2)) = Cardinality(Unlabelled(s)) + 1
  BY <1>2, <1>3, FS_AddElement
<1>5. HowMany(p, CommandChars, n + 1) = HowMany(p, CommandChars, n) + 1
  BY CountNext
<1> QED
  BY <1>4, <1>5 DEF CommandsCounted

LEMMA SimpleNext ==
  ASSUME NEW s \in Seq(Operations), NEW s2 \in Seq(Operations), Simple(s),
         \A q \in 1..Len(s) : s2[q].code = s[q].code /\ s2[q].op2 = s[q].op2,
         \A q \in 1..Len(s) : s2[q].op1 = s[q].op1 \/ s[q].code \in JumpCodes \cup {"LABEL"},
         \A q \in (Len(s) + 1)..Len(s2) : ByOne(s2[q])
  PROVE  Simple(s2)
<1>1. DOMAIN s = 1..Len(s) /\ DOMAIN s2 = 1..Len(s2) /\ Len(s) \in Nat /\ Len(s2) \in Nat
  OBVIOUS
<1>2. \A q \in 1..Len(s) : ByOne(s2[q])
  BY <1>1 DEF Simple, ByOne
<1>3. \A q \in 1..Len(s2) : q \in 1..Len(s) \/ q \in (Len(s) + 1)..Len(s2)
  BY <1>1
<1> QED
  BY <1>1, <1>2, <1>3 DEF Simple

LEMMA StackStays ==
  ASSUME NEW p, NEW n \in Nat, NEW s \in Seq(Operations), NEW s2, NEW t,
         InPlace(p, n, s), StackIsOpen(p, n, s, t),
         \A q \in 1..Len(s) : s2[q] = s[q],
         p[n + 1] \notin Brackets
  PROVE  StackIsOpen(p, n + 1, s2, t)
<1>1. Depth(p, n + 1) = Depth(p, n)
  BY DepthNext
<1>2. ASSUME NEW i \in 1..(n + 1), OpenFrom(p, i, n + 1)
      PROVE  /\ t[2 * Depth(p, i) - 1] = s2[Place(p, i)].id
             /\ t[2 * Depth(p, i)] = s2[Place(p, i) + 1].id
  <2>1. p[i] \in Brackets
    BY <1>2 DEF OpenFrom, Brackets
  <2>2. i \in 1..n
    BY <2>1
  <2>3. OpenFrom(p, i, n)
    BY <1>2, <2>2, OpenNext
  <2>4. Place(p, i) \in 1..Len(s) /\ Place(p, i) + 1 \in 1..Len(s)
    BY <2>1, <2>2, PlacesInside
  <2> QED
    BY <2>2, <2>3, <2>4 DEF StackIsOpen
<1> QED
  BY <1>1, <1>2 DEF StackIsOpen

LEMMA StackGrowsWith ==
  ASSUME NEW s \in Seq(Operations), NEW s2 \in Seq(Operations), Len(s) <= Len(s2),
         \A q \in 1..Len(s) : s2[q].id = s[q].id,
         NEW t \in Seq(Addresses(s))
  PROVE  t \in Seq(Addresses(s2))
<1>1. Addresses(s) \subseteq Addresses(s2)
  <2>1. DOMAIN s = 1..Len(s) /\ DOMAIN s2 = 1..Len(s2) /\ Len(s) \in Nat /\ Len(s2) \in Nat
    OBVIOUS
  <2> QED
    BY <2>1 DEF Addresses
<1> QED
  BY <1>1, SeqMonotonic

Pushed(t, x, y, t2) == t2 = t \o <<x, y>>

LEMMA StackPushed ==
  ASSUME NEW p, NEW n \in Nat, NEW s \in Seq(Operations), NEW s2 \in Seq(Operations),
         NEW t \in Seq(Addresses(s)), NEW t2,
         InPlace(p, n, s), Nested(p, n), StackIsOpen(p, n, s, t),
         p[n + 1] = "[", Len(s2) = Len(s) + 2,
         \A q \in 1..Len(s) : s2[q] = s[q],
         Pushed(t, s2[Len(s) + 1].id, s2[Len(s) + 2].id, t2)
  PROVE  /\ t2 \in Seq(Addresses(s2)) /\ Len(t2) = Len(t) + 2
         /\ StackIsOpen(p, n + 1, s2, t2)
<1>1. Len(s) \in Nat /\ Len(s) + 1 \in DOMAIN s2 /\ Len(s) + 2 \in DOMAIN s2
  OBVIOUS
<1>2. t \in Seq(Addresses(s2))
  <2>1. Len(s) <= Len(s2) /\ \A q \in 1..Len(s) : s2[q].id = s[q].id
    BY <1>1
  <2> QED
    BY <2>1, StackGrowsWith
<1> DEFINE x == s2[Len(s) + 1].id
           y == s2[Len(s) + 2].id
<1>3. x \in Addresses(s2) /\ y \in Addresses(s2)
  BY <1>1 DEF Addresses
<1> HIDE DEF x, y
<1>4. /\ t2 \in Seq(Addresses(s2)) /\ Len(t2) = Len(t) + 2 /\ Len(t) \in Nat
      /\ \A k \in 1..Len(t) : t2[k] = t[k]
      /\ t2[Len(t) + 1] = x /\ t2[Len(t) + 2] = y
  <2>1. t2 = t \o <<x, y>>
    BY DEF Pushed, x, y
  <2> QED
    BY <1>2, <1>3, <2>1
<1>5. Depth(p, n + 1) = Depth(p, n) + 1 /\ Depth(p, n) \in Int /\ Len(t) = 2 * Depth(p, n)
  BY DepthNext DEF StackIsOpen
<1>6. Len(s) + 1 = Place(p, n + 1) /\ Len(s) + 2 = Place(p, n + 1) + 1
  <2>1. Place(p, n + 1) \in Nat /\ Len(s) = Place(p, n + 1) - 1
    BY PlaceNext DEF InPlace
  <2> QED
    BY <2>1
<1>7. ASSUME NEW i \in 1..(n + 1), OpenFrom(p, i, n + 1)
      PROVE  /\ t2[2 * Depth(p, i) - 1] = s2[Place(p, i)].id
             /\ t2[2 * Depth(p, i)] = s2[Place(p, i) + 1].id
  <2>1. CASE i = n + 1
    <3>1. 2 * Depth(p, i) - 1 = Len(t) + 1 /\ 2 * Depth(p, i) = Len(t) + 2
      <4>1. Depth(p, i) = Depth(p, n) + 1
        BY <1>5, <2>1
      <4> QED
        BY <1>5, <4>1
    <3> QED
      BY <1>4, <1>6, <2>1, <3>1 DEF x, y
  <2>2. CASE i \in 1..n
    <3>1. OpenFrom(p, i, n) /\ p[i] \in Brackets
      BY <1>7, <2>2, OpenNext DEF OpenFrom, Brackets
    <3>2. Depth(p, i) \in 1..Depth(p, n)
      BY <2>2, <3>1, OpenLevel
    <3>3. 2 * Depth(p, i) \in 1..Len(t) /\ 2 * Depth(p, i) - 1 \in 1..Len(t)
      BY <1>5, <3>2
    <3>4. Place(p, i) \in 1..Len(s) /\ Place(p, i) + 1 \in 1..Len(s)
      BY <2>2, <3>1, PlacesInside
    <3>5. /\ t[2 * Depth(p, i) - 1] = s[Place(p, i)].id
          /\ t[2 * Depth(p, i)] = s[Place(p, i) + 1].id
      BY <2>2, <3>1 DEF StackIsOpen
    <3> QED
      BY <1>4, <3>3, <3>4, <3>5
  <2>3. i = n + 1 \/ i \in 1..n
    OBVIOUS
  <2> QED
    BY <2>1, <2>2, <2>3
<1>8. Len(t2) = 2 * Depth(p, n + 1)
  BY <1>4, <1>5
<1> QED
  BY <1>4, <1>7, <1>8 DEF StackIsOpen

Popped(t, t2) == t2 = SubSeq(t, 1, Len(t) - 2)

LEMMA StackPopped ==
  ASSUME NEW p, NEW n \in Nat, NEW s \in Seq(Operations), NEW s2 \in Seq(Operations),
         NEW t \in Seq(Addresses(s)), NEW t2,
         InPlace(p, n, s), Nested(p, n), StackIsOpen(p, n, s, t),
         p[n + 1] = "]", Depth(p, n) >= 1, Len(s) <= Len(s2),
         \A q \in 1..Len(s) : s2[q].id = s[q].id,
         Popped(t, t2)
  PROVE  /\ t2 \in Seq(Addresses(s2)) /\ Len(t2) = Len(t) - 2
         /\ StackIsOpen(p, n + 1, s2, t2)
<1>1. Depth(p, n + 1) = Depth(p, n) - 1 /\ Depth(p, n) \in Int /\ Len(t) = 2 * Depth(p, n)
  BY DepthNext DEF StackIsOpen
<1>2. t \in Seq(Addresses(s2)) /\ Len(t) \in Nat
  BY StackGrowsWith
<1>3. /\ t2 \in Seq(Addresses(s2)) /\ Len(t2) = Len(t) - 2
      /\ \A k \in 1..(Len(t) - 2) : t2[k] = t[k]
  <2>1. 1 \in Int /\ Len(t) - 2 \in Int /\ Len(t) - 2 >= 0
    BY <1>1, <1>2
  <2>2. \A k \in 1..(Len(t) - 2) : t[k] \in Addresses(s2)
    BY <1>2
  <2>3. /\ t2 \in Seq(Addresses(s2))
        /\ Len(t2) = IF 1 <= Len(t) - 2 THEN (Len(t) - 2) - 1 + 1 ELSE 0
        /\ \A k \in 1..((Len(t) - 2) - 1 + 1) : t2[k] = t[1 + k - 1]
    BY <2>1, <2>2, SubSeqProperties DEF Popped
  <2>4. (Len(t) - 2) - 1 + 1 = Len(t) - 2 /\ \A k \in 1..(Len(t) - 2) : 1 + k - 1 = k
    BY <2>1
  <2>5. Len(t2) = Len(t) - 2
    <3> DEFINE k == Len(t) - 2
    <3>1. k \in Int /\ k >= 0 /\ Len(t2) = IF 1 <= k THEN k - 1 + 1 ELSE 0
      BY <2>1, <2>3
    <3> HIDE DEF k
    <3>2. Len(t2) = k
      BY <3>1
    <3> QED
      BY <3>2 DEF k
  <2>6. \A k \in 1..(Len(t) - 2) : t2[k] = t[k]
    BY <2>3, <2>4
  <2> QED
    BY <2>3, <2>5, <2>6
<1>4. Nested(p, n + 1)
  BY NestedClose
<1>5. ASSUME NEW i \in 1..(n + 1), OpenFrom(p, i, n + 1)
      PROVE  /\ t2[2 * Depth(p, i) - 1] = s2[Place(p, i)].id
             /\ t2[2 * Depth(p, i)] = s2[Place(p, i) + 1].id
  <2>1. i \in 1..n
    BY <1>5 DEF OpenFrom
  <2>2. OpenFrom(p, i, n) /\ p[i] \in Brackets
    BY <1>5, <2>1, OpenNext DEF OpenFrom, Brackets
  <2>3. Depth(p, i) \in 1..Depth(p, n + 1)
    BY <1>4, <1>5, OpenLevel
  <2>4. 2 * Depth(p, i) \in 1..(Len(t) - 2) /\ 2 * Depth(p, i) - 1 \in 1..(Len(t) - 2)
    BY <1>1, <2>3
  <2>5. Place(p, i) \in 1..Len(s) /\ Place(p, i) + 1 \in 1..Len(s)
    BY <2>1, <2>2, PlacesInside
  <2>6. /\ t[2 * Depth(p, i) - 1] = s[Place(p, i)].id
        /\ t[2 * Depth(p, i)] = s[Place(p, i) + 1].id
    BY <2>1, <2>2 DEF StackIsOpen
  <2> QED
    BY <1>3, <2>4, <2>5, <2>6
<1>6. Len(t2) = 2 * Depth(p, n + 1)
  BY <1>1, <1>3
<1> QED
  BY <1>3, <1>5, <1>6 DEF StackIsOpen

-----------------------------------------------------------------------------
(* The steps of the parser *)

LEMMA NextRead ==
  ASSUME Shape, at <= Len(program), at' = at + 1, program' = program
  PROVE  /\ Read \in Nat /\ Read + 1 = at /\ Read' = Read + 1
         /\ at' \in 1..(Len(program') + 1) /\ program' \in Seq(STRING)
  BY DEF Shape, Read

LEMMA TranslatedOperations ==
  ASSUME NEW c \in DOMAIN Translated
  PROVE  /\ Translated[c].code \in Codes /\ Translated[c].op1 \in Int
         /\ Translated[c].code \notin JumpCodes \cup {"LABEL"} /\ Translated[c].code = CodeFor(c)
         /\ Translated[c].code \in CellCodes \cup PtrCodes => Translated[c].op1 = 1
<1>1. c \in {"+", "-", ">", "<", ",", "."}
  BY DEF Translated
<1>2. c # "[" /\ c # "]"
  BY <1>1
<1>3. \/ Translated[c] = [code |-> "INCR_CELL", op1 |-> 1]
      \/ Translated[c] = [code |-> "DECR_CELL", op1 |-> 1]
      \/ Translated[c] = [code |-> "INCR_PTR",  op1 |-> 1]
      \/ Translated[c] = [code |-> "DECR_PTR",  op1 |-> 1]
      \/ Translated[c] = [code |-> "READ",      op1 |-> 0]
      \/ Translated[c] = [code |-> "WRITE",     op1 |-> 0]
  BY <1>1 DEF Translated
<1>4. /\ Translated[c].code \in CellCodes \cup PtrCodes \cup IOCodes
      /\ Translated[c].op1 \in Int /\ Translated[c].code \notin {"JZ", "JNZ", "LABEL"}
      /\ Translated[c].code \in CellCodes \cup PtrCodes => Translated[c].op1 = 1
  BY <1>3 DEF CellCodes, PtrCodes, IOCodes
<1> QED
  BY <1>2, <1>4 DEF CodeFor, Codes, JumpCodes

LEMMA CommandKeeps ==
  ASSUME Progress, Command
  PROVE  Progress'
<1> DEFINE n == Read
           c == program[at]
           op == Translated[c]
<1>1. /\ Shape /\ status = "parsing" /\ at <= Len(program)
      /\ at' = at + 1 /\ program' = program /\ stack' = stack /\ status' = status
      /\ c \in DOMAIN Translated
      /\ stream' = AppendOp(stream, op.code, op.op1, 0)
  BY DEF Progress, Command, Reading
<1>2. n \in Nat /\ n + 1 = at /\ Read' = n + 1 /\ at' \in 1..(Len(program') + 1)
  BY <1>1, NextRead
<1>3. c \in CommandChars \ Brackets
  BY <1>1 DEF Translated, CommandChars, Brackets
<1>4. /\ op.code \in Codes /\ op.op1 \in Int /\ op.code # "LABEL" /\ op.code = CodeFor(c)
      /\ op.code \in CellCodes \cup PtrCodes => op.op1 = 1
  BY <1>1, TranslatedOperations
<1>5. stream \in Seq(Operations) /\ Distinct(stream) /\ Len(stream) \in Nat
  BY <1>1 DEF Shape
<1>6. /\ stream' \in Seq(Operations) /\ Distinct(stream') /\ Len(stream') = Len(stream) + 1
      /\ \A q \in 1..Len(stream) : stream'[q] = stream[q]
      /\ stream'[Len(stream) + 1].code = op.code
      /\ stream'[Len(stream) + 1].op1 = op.op1 /\ stream'[Len(stream) + 1].op2 = 0
  <2> DEFINE s2 == stream'
  <2> HIDE DEF op, s2
  <2>1. s2 = AppendOp(stream, op.code, op.op1, 0)
    BY <1>1 DEF s2
  <2>2. /\ s2 \in Seq(Operations) /\ Distinct(s2) /\ Len(s2) = Len(stream) + 1
        /\ \A q \in 1..Len(stream) : s2[q] = stream[q]
        /\ s2[Len(stream) + 1] = Operation(Fresh(stream), op.code, op.op1, 0)
    BY <1>4, <1>5, <2>1, AppendOpShape
  <2> QED
    BY <2>2 DEF Operation, s2
<1>7. Shape'
  <2>1. stack \in Seq(Addresses(stream))
    BY <1>1 DEF Shape
  <2>2. Len(stream) <= Len(stream') /\ \A q \in 1..Len(stream) : stream'[q].id = stream[q].id
    BY <1>5, <1>6
  <2>3. stack \in Seq(Addresses(stream'))
    BY <1>5, <1>6, <2>1, <2>2, StackGrowsWith
  <2> QED
    BY <1>1, <1>2, <1>6, <2>3 DEF Shape
<1>8. /\ InPlace(program, n, stream) /\ Nested(program, n) /\ MatchesJoined(program, n, stream)
      /\ StackIsOpen(program, n, stream, stack) /\ CommandsCounted(program, n, stream)
      /\ Simple(stream)
  BY <1>1 DEF Progress, Parsed
<1> HIDE DEF op
<1>9. /\ program[n + 1] = c /\ program[n + 1] \in CommandChars
      /\ program[n + 1] \notin Brackets /\ program[n + 1] # "]"
  BY <1>2, <1>3 DEF Brackets
<1> HIDE DEF c, n
<1>10. InPlace(program, n + 1, stream')
  <2>1. Place(program, n + 2) = Place(program, n + 1) + 1 /\ Len(stream) = Place(program, n + 1) - 1
        /\ Place(program, n + 1) \in Nat
    BY <1>2, <1>8, <1>9, PlaceNext DEF InPlace
  <2>2. Len(stream') = Place(program, n + 2) - 1
    BY <1>6, <2>1
  <2>3. stream'[Len(stream) + 1].code = CodeFor(program[n + 1])
    BY <1>4, <1>6, <1>9
  <2>4. \A q \in 1..Len(stream) : stream'[q].code = stream[q].code
    BY <1>6
  <2> QED
    BY <1>2, <1>5, <1>6, <1>8, <1>9, <2>2, <2>3, <2>4, InPlaceNext
<1>11. Nested(program, n + 1)
  BY <1>2, <1>8, <1>9, NestedComment
<1>12. MatchesJoined(program, n + 1, stream')
  BY <1>2, <1>5, <1>6, <1>8, <1>9, MatchesStay
<1>13. StackIsOpen(program, n + 1, stream', stack)
  BY <1>2, <1>5, <1>6, <1>8, <1>9, StackStays
<1>14. CommandsCounted(program, n + 1, stream')
  <2>1. /\ Len(stream') >= Len(stream) + 1
        /\ \A q \in (Len(stream) + 2)..Len(stream') : stream'[q].code = "LABEL"
    BY <1>5, <1>6
  <2>2. /\ \A q \in 1..Len(stream) : stream'[q].code = stream[q].code
        /\ stream'[Len(stream) + 1].code # "LABEL"
    BY <1>4, <1>6
  <2>3. n \in Nat /\ stream \in Seq(Operations) /\ stream' \in Seq(Operations)
        /\ CommandsCounted(program, n, stream) /\ program[n + 1] \in CommandChars
    BY <1>2, <1>5, <1>6, <1>8, <1>9
  <2> QED
    BY <2>1, <2>2, <2>3, CountedNext
<1>15. Simple(stream')
  <2>1. ByOne(stream'[Len(stream) + 1])
    BY <1>4, <1>6 DEF ByOne
  <2>2. (Len(stream) + 1)..Len(stream') = {Len(stream) + 1}
    BY <1>5, <1>6
  <2> QED
    BY <1>5, <1>6, <1>8, <2>1, <2>2, SimpleNext
<1> QED
  BY <1>1, <1>2, <1>7, <1>10, <1>11, <1>12, <1>13, <1>14, <1>15 DEF Progress, Parsed

LEMMA CommentKeeps ==
  ASSUME Progress, Comment
  PROVE  Progress'
<1> DEFINE n == Read
<1>1. /\ Shape /\ status = "parsing" /\ at <= Len(program) /\ program[at] \notin CommandChars
      /\ at' = at + 1 /\ program' = program /\ stream' = stream /\ stack' = stack
      /\ status' = status
  BY DEF Progress, Comment
<1>2. n \in Nat /\ n + 1 = at /\ Read' = n + 1 /\ at' \in 1..(Len(program') + 1)
  BY <1>1, NextRead
<1>3. Shape'
  BY <1>1, <1>2 DEF Shape, Addresses, Distinct
<1>4. /\ InPlace(program, n, stream) /\ Nested(program, n) /\ MatchesJoined(program, n, stream)
      /\ StackIsOpen(program, n, stream, stack) /\ CommandsCounted(program, n, stream)
      /\ Simple(stream)
  BY <1>1 DEF Progress, Parsed
<1>5. stream \in Seq(Operations)
  BY <1>1 DEF Shape
<1>6. program[n + 1] \notin CommandChars /\ program[n + 1] \notin Brackets
  BY <1>1, <1>2, BracketsAreCommands
<1>7. program[n + 1] # "]"
  BY <1>6 DEF Brackets
<1> HIDE DEF n
<1>8. InPlace(program, n + 1, stream)
  <2>1. Place(program, n + 2) = Place(program, n + 1) /\ Len(stream) = Place(program, n + 1) - 1
    BY <1>2, <1>4, <1>6, PlaceNext DEF InPlace
  <2> QED
    BY <1>2, <1>4, <1>5, <1>6, <2>1, InPlaceNext
<1>9. Nested(program, n + 1)
  BY <1>2, <1>4, <1>6, NestedComment
<1>10. MatchesJoined(program, n + 1, stream)
  BY <1>2, <1>4, <1>5, <1>7, MatchesStay
<1>11. StackIsOpen(program, n + 1, stream, stack)
  BY <1>2, <1>4, <1>5, <1>6, StackStays
<1>12. CommandsCounted(program, n + 1, stream)
  <2>1. n \in Nat
    BY <1>2
  <2>2. /\ HowMany(program, CommandChars, n) \in Nat
        /\ HowMany(program, CommandChars, n + 1)
             = HowMany(program, CommandChars, n) + (IF program[n + 1] \in CommandChars THEN 1 ELSE 0)
    BY <2>1, CountNext
  <2>3. HowMany(program, CommandChars, n + 1) = HowMany(program, CommandChars, n)
    BY <1>6, <2>2
  <2> QED
    BY <1>4, <2>3 DEF CommandsCounted
<1> QED
  BY <1>1, <1>2, <1>3, <1>8, <1>9, <1>10, <1>11, <1>12 DEF Progress, Parsed

\* s2 is s with the JZ and the label of an opened loop; s1 is s with the JZ.
Opened(s, s1, s2) ==
  /\ s2 \in Seq(Operations) /\ Distinct(s2) /\ Len(s2) = Len(s) + 2
  /\ \A q \in 1..Len(s) : s2[q] = s[q]
  /\ s2[Len(s) + 1].code = "JZ" /\ s2[Len(s) + 2].code = "LABEL"
  /\ Last(s1).id = s2[Len(s) + 1].id /\ Last(s2).id = s2[Len(s) + 2].id

LEMMA OpenShape ==
  ASSUME NEW s \in Seq(Operations), Distinct(s), NEW s1, NEW s2,
         s1 = AppendOp(s, "JZ", 0, 0), s2 = AppendOp(s1, "LABEL", 0, 0)
  PROVE  Opened(s, s1, s2)
<1>1. "JZ" \in Codes /\ "LABEL" \in Codes
  BY DEF Codes, JumpCodes
<1>2. /\ s1 \in Seq(Operations) /\ Distinct(s1) /\ Len(s1) = Len(s) + 1
      /\ \A q \in 1..Len(s) : s1[q] = s[q]
      /\ s1[Len(s) + 1] = Operation(Fresh(s), "JZ", 0, 0) /\ Last(s1) = s1[Len(s) + 1]
  BY <1>1, AppendOpShape
<1>3. /\ s2 \in Seq(Operations) /\ Distinct(s2) /\ Len(s2) = Len(s1) + 1
      /\ \A q \in 1..Len(s1) : s2[q] = s1[q]
      /\ s2[Len(s1) + 1] = Operation(Fresh(s1), "LABEL", 0, 0) /\ Last(s2) = s2[Len(s1) + 1]
  BY <1>1, <1>2, AppendOpShape
<1>4. Len(s) \in Nat /\ (Len(s) + 1) + 1 = Len(s) + 2
  OBVIOUS
<1>5. s1[Len(s) + 1].code = "JZ" /\ s2[Len(s) + 2].code = "LABEL"
  BY <1>2, <1>3, <1>4 DEF Operation
<1>6. \A q \in 1..Len(s) : s2[q] = s[q]
  <2>1. \A q \in 1..Len(s) : q \in 1..Len(s1)
    BY <1>2, <1>4
  <2> QED
    BY <1>2, <1>3, <2>1
<1>7. /\ Last(s1).id = s2[Len(s) + 1].id /\ Last(s2).id = s2[Len(s) + 2].id
      /\ Len(s2) = Len(s) + 2
  <2>1. Len(s) + 1 \in 1..Len(s1)
    BY <1>2, <1>4
  <2>2. s2[Len(s) + 1] = s1[Len(s) + 1] /\ Len(s1) + 1 = Len(s) + 2
    BY <1>2, <1>3, <1>4, <2>1
  <2> QED
    BY <1>2, <1>3, <2>2
<1>8. s2[Len(s) + 1].code = "JZ"
  BY <1>2, <1>3, <1>4, <1>5
<1> QED
  BY <1>3, <1>5, <1>6, <1>7, <1>8 DEF Opened

LEMMA OpenLoopKeeps ==
  ASSUME Progress, OpenLoop
  PROVE  Progress'
<1> DEFINE n == Read
<1>1. PICK s1 \in {AppendOp(stream, "JZ", 0, 0)} :
      \E s2 \in {AppendOp(s1, "LABEL", 0, 0)} :
         stream' = s2 /\ stack' = stack \o <<Last(s1).id, Last(s2).id>>
  BY DEF OpenLoop
<1>2. /\ Shape /\ status = "parsing" /\ at <= Len(program) /\ program[at] = "["
      /\ at' = at + 1 /\ program' = program /\ status' = status
  BY DEF Progress, OpenLoop, Reading
<1>3. n \in Nat /\ n + 1 = at /\ Read' = n + 1 /\ at' \in 1..(Len(program') + 1)
  BY <1>2, NextRead
<1>4. /\ stream \in Seq(Operations) /\ Distinct(stream) /\ Len(stream) \in Nat
      /\ stack \in Seq(Addresses(stream)) /\ Len(stack) % 2 = 0 /\ Len(stack) \in Nat
  BY <1>2 DEF Shape
<1> HIDE DEF n
<1>5. /\ stream' \in Seq(Operations) /\ Distinct(stream') /\ Len(stream') = Len(stream) + 2
      /\ \A q \in 1..Len(stream) : stream'[q] = stream[q]
      /\ stream'[Len(stream) + 1].code = "JZ" /\ stream'[Len(stream) + 2].code = "LABEL"
      /\ stack' = stack \o <<stream'[Len(stream) + 1].id, stream'[Len(stream) + 2].id>>
  <2> DEFINE s2 == stream'
  <2> HIDE DEF s2
  <2>1. /\ s1 = AppendOp(stream, "JZ", 0, 0) /\ s2 = AppendOp(s1, "LABEL", 0, 0)
        /\ stack' = stack \o <<Last(s1).id, Last(s2).id>>
    BY <1>1 DEF s2
  <2>2. /\ s2 \in Seq(Operations) /\ Distinct(s2) /\ Len(s2) = Len(stream) + 2
        /\ \A q \in 1..Len(stream) : s2[q] = stream[q]
        /\ s2[Len(stream) + 1].code = "JZ" /\ s2[Len(stream) + 2].code = "LABEL"
        /\ Last(s1).id = s2[Len(stream) + 1].id /\ Last(s2).id = s2[Len(stream) + 2].id
    <3>1. Opened(stream, s1, s2)
      BY <1>4, <2>1, OpenShape
    <3> QED
      BY <3>1 DEF Opened
  <2> QED
    BY <2>1, <2>2 DEF s2
<1>6. /\ InPlace(program, n, stream) /\ Nested(program, n) /\ MatchesJoined(program, n, stream)
      /\ StackIsOpen(program, n, stream, stack) /\ CommandsCounted(program, n, stream)
      /\ Simple(stream)
  BY <1>2 DEF Progress, Parsed, n
<1>7. /\ program[n + 1] = "[" /\ program[n + 1] \in Brackets /\ program[n + 1] \in CommandChars
      /\ program[n + 1] # "]" /\ CodeFor(program[n + 1]) = "JZ"
  <2>1. program[n + 1] = "["
    BY <1>2, <1>3
  <2> QED
    BY <2>1, BracketsAreCommands DEF Brackets, CodeFor
<1>8. /\ stack' \in Seq(Addresses(stream')) /\ Len(stack') = Len(stack) + 2
      /\ StackIsOpen(program, n + 1, stream', stack')
  <2> DEFINE s2 == stream'
             t2 == stack'
  <2>1. /\ s2 \in Seq(Operations) /\ Len(s2) = Len(stream) + 2
        /\ \A q \in 1..Len(stream) : s2[q] = stream[q]
        /\ Pushed(stack, s2[Len(stream) + 1].id, s2[Len(stream) + 2].id, t2)
    BY <1>5 DEF Pushed
  <2>2. n \in Nat
    BY <1>3
  <2> HIDE DEF s2, t2
  <2>3. /\ t2 \in Seq(Addresses(s2)) /\ Len(t2) = Len(stack) + 2
        /\ StackIsOpen(program, n + 1, s2, t2)
    BY <1>4, <1>6, <1>7, <2>1, <2>2, StackPushed
  <2> QED
    BY <2>3 DEF s2, t2
<1>9. Shape'
  BY <1>2, <1>3, <1>4, <1>5, <1>8 DEF Shape
<1>10. InPlace(program, n + 1, stream')
  <2>1. Place(program, n + 2) = Place(program, n + 1) + 2 /\ Len(stream) = Place(program, n + 1) - 1
        /\ Place(program, n + 1) \in Nat
    BY <1>3, <1>6, <1>7, PlaceNext DEF InPlace
  <2>2. Len(stream') = Place(program, n + 2) - 1
    BY <1>5, <2>1
  <2>3. \A q \in 1..Len(stream) : stream'[q].code = stream[q].code
    BY <1>5
  <2> QED
    BY <1>3, <1>4, <1>5, <1>6, <1>7, <2>2, <2>3, InPlaceNext
<1>11. Nested(program, n + 1)
  BY <1>3, <1>6, <1>7, NestedOpen
<1>12. MatchesJoined(program, n + 1, stream')
  BY <1>3, <1>4, <1>5, <1>6, <1>7, MatchesStay
<1>13. CommandsCounted(program, n + 1, stream')
  <2>1. /\ Len(stream') >= Len(stream) + 1 /\ stream'[Len(stream) + 1].code # "LABEL"
        /\ \A q \in 1..Len(stream) : stream'[q].code = stream[q].code
        /\ \A q \in (Len(stream) + 2)..Len(stream') : stream'[q].code = "LABEL"
    BY <1>4, <1>5
  <2> QED
    BY <1>3, <1>4, <1>5, <1>6, <1>7, <2>1, CountedNext
<1>14. Simple(stream')
  <2>1. ByOne(stream'[Len(stream) + 1]) /\ ByOne(stream'[Len(stream) + 2])
    BY <1>5 DEF ByOne, JumpCodes
  <2>2. (Len(stream) + 1)..Len(stream') = {Len(stream) + 1, Len(stream) + 2}
    BY <1>4, <1>5
  <2> QED
    BY <1>4, <1>5, <1>6, <2>1, <2>2, SimpleNext
<1> QED
  BY <1>2, <1>3, <1>8, <1>9, <1>10, <1>11, <1>12, <1>13, <1>14 DEF Progress, Parsed

LEMMA CloseLoopKeeps ==
  ASSUME Progress, CloseLoop
  PROVE  Progress'
<1> DEFINE n == Read
           D == Depth(program, n)
<1>1. /\ Shape /\ status = "parsing" /\ at <= Len(program) /\ program[at] = "]"
      /\ at' = at + 1 /\ program' = program /\ status' = status /\ Len(stack) >= 2
      /\ stack' = SubSeq(stack, 1, Len(stack) - 2)
  BY DEF Progress, CloseLoop, Reading
<1>2. n \in Nat /\ n + 1 = at /\ Read' = n + 1 /\ at' \in 1..(Len(program') + 1)
  BY <1>1, NextRead
<1>3. /\ stream \in Seq(Operations) /\ Distinct(stream) /\ Len(stream) \in Nat
      /\ stack \in Seq(Addresses(stream)) /\ Len(stack) % 2 = 0 /\ Len(stack) \in Nat
  BY <1>1 DEF Shape
<1>4. /\ InPlace(program, n, stream) /\ Nested(program, n) /\ MatchesJoined(program, n, stream)
      /\ StackIsOpen(program, n, stream, stack) /\ CommandsCounted(program, n, stream)
      /\ Simple(stream)
  BY <1>1 DEF Progress, Parsed
<1> HIDE DEF n
<1>5. /\ program[n + 1] = "]" /\ program[n + 1] \in Brackets /\ program[n + 1] \in CommandChars
      /\ CodeFor(program[n + 1]) = "JNZ"
  <2>1. program[n + 1] = "]"
    BY <1>1, <1>2
  <2> QED
    BY <2>1, BracketsAreCommands DEF Brackets, CodeFor
<1>6. n \in Nat /\ D \in Int /\ Len(stack) = 2 * D
  BY <1>2, <1>4, DepthNext DEF StackIsOpen
<1>7. D >= 1
  BY <1>1, <1>6
<1>8. PICK top \in 1..n :
        /\ OpenFrom(program, top, n) /\ Depth(program, top) = D
        /\ \A i \in 1..(n + 1) : Match(program, i, n + 1) <=> i = top
  BY <1>4, <1>5, <1>6, <1>7, NestedClose
<1> DEFINE a == Place(program, top)
           b == Place(program, top) + 1
<1>9. /\ a \in 1..Len(stream) /\ b \in 1..Len(stream) /\ a # b
  <2>1. program[top] \in Brackets
    BY <1>8 DEF OpenFrom, Brackets
  <2>2. a \in 1..Len(stream) /\ b \in 1..Len(stream)
    BY <1>3, <1>4, <1>6, <2>1, PlacesInside
  <2> QED
    BY <2>2
<1> HIDE DEF D
<1>10. Last(stack) = stream[b].id /\ stack[Len(stack) - 1] = stream[a].id
  <2>1. stack[2 * D - 1] = stream[a].id /\ stack[2 * D] = stream[b].id
    BY <1>4, <1>8 DEF StackIsOpen
  <2> QED
    BY <1>6, <2>1 DEF Last
<1> HIDE DEF a, b
<1>11. Closing(stream, a, b, stream')
  <2>1. PICK s1 \in {AppendOp(stream, "JNZ", stream[b].id, 0)} :
        \E s2 \in {SetOperand1(s1, stream[b].id, Last(s1).id)} :
        \E s3 \in {AppendOp(s2, "LABEL", stream[a].id, 0)} :
           stream' = SetOperand1(s3, stream[a].id, Last(s3).id)
    BY <1>10 DEF CloseLoop
  <2> DEFINE s2 == PointedTo(stream, b, "JNZ", stream[b].id)
  <2>2. SetOperand1(s1, stream[b].id, Last(s1).id) = s2
    BY <2>1 DEF PointedTo
  <2> HIDE DEF s2
  <2>3. \E s3 \in {AppendOp(s2, "LABEL", stream[a].id, 0)} :
           stream' = SetOperand1(s3, stream[a].id, Last(s3).id)
    BY <2>1, <2>2
  <2>4. s2[a].id = stream[a].id
    <3>1. "JNZ" \in Codes /\ stream[b].id \in Int
      BY <1>3, <1>9, Elements DEF Codes, JumpCodes
    <3>2. Pointing(stream, b, "JNZ", stream[b].id, s2)
      BY <1>3, <1>9, <3>1, PointedToShape DEF s2
    <3> QED
      BY <1>9, <3>2 DEF Pointing
  <2>5. stream' = PointedTo(s2, a, "LABEL", stream[a].id)
    BY <2>3, <2>4 DEF PointedTo
  <2>6. Closing(stream, a, b, PointedTo(PointedTo(stream, b, "JNZ", stream[b].id), a, "LABEL", stream[a].id))
    BY <1>3, <1>9, CloseShape
  <2> QED
    BY <2>5, <2>6 DEF s2
<1>12. /\ stream' \in Seq(Operations) /\ Distinct(stream') /\ Len(stream') = Len(stream) + 2
       /\ \A q \in 1..Len(stream) : stream'[q].id = stream[q].id /\ stream'[q].code = stream[q].code
       /\ stream'[Len(stream) + 1].code = "JNZ" /\ stream'[Len(stream) + 2].code = "LABEL"
  BY <1>11 DEF Closing
<1>13. /\ stack' \in Seq(Addresses(stream')) /\ Len(stack') = Len(stack) - 2
       /\ StackIsOpen(program, n + 1, stream', stack')
  <2> DEFINE s2 == stream'
             t2 == stack'
  <2>1. /\ s2 \in Seq(Operations) /\ Len(stream) <= Len(s2)
        /\ \A q \in 1..Len(stream) : s2[q].id = stream[q].id
        /\ Popped(stack, t2)
    BY <1>1, <1>3, <1>12 DEF Popped
  <2>2. Depth(program, n) >= 1
    BY <1>7 DEF D
  <2> HIDE DEF s2, t2
  <2>3. /\ t2 \in Seq(Addresses(s2)) /\ Len(t2) = Len(stack) - 2
        /\ StackIsOpen(program, n + 1, s2, t2)
    BY <1>3, <1>4, <1>5, <1>6, <2>1, <2>2, StackPopped
  <2> QED
    BY <2>3 DEF s2, t2
<1>14. Shape'
  <2>1. Len(stack') % 2 = 0
    BY <1>3, <1>13
  <2> QED
    BY <1>1, <1>2, <1>12, <1>13, <2>1 DEF Shape
<1>15. InPlace(program, n + 1, stream')
  <2>1. Place(program, n + 2) = Place(program, n + 1) + 2 /\ Len(stream) = Place(program, n + 1) - 1
        /\ Place(program, n + 1) \in Nat
    BY <1>4, <1>5, <1>6, PlaceNext DEF InPlace
  <2>2. Len(stream') = Place(program, n + 2) - 1
    BY <1>12, <2>1
  <2> QED
    BY <1>3, <1>4, <1>5, <1>6, <1>12, <2>2, InPlaceNext
<1>16. Nested(program, n + 1)
  BY <1>4, <1>5, <1>6, <1>7, NestedClose DEF D
<1>17. MatchesJoined(program, n + 1, stream')
  BY <1>3, <1>4, <1>5, <1>6, <1>8, <1>11, MatchesClosed DEF a, b
<1>18. CommandsCounted(program, n + 1, stream')
  <2>1. /\ Len(stream') >= Len(stream) + 1 /\ stream'[Len(stream) + 1].code # "LABEL"
        /\ \A q \in 1..Len(stream) : stream'[q].code = stream[q].code
        /\ \A q \in (Len(stream) + 2)..Len(stream') : stream'[q].code = "LABEL"
    BY <1>3, <1>12
  <2> QED
    BY <1>3, <1>4, <1>5, <1>6, <1>12, <2>1, CountedNext
<1>19. Simple(stream')
  <2>1. stream[a].code = "JZ" /\ stream[b].code = "LABEL"
    <3>1. program[top] = "[" /\ program[top] \in Brackets /\ program[top] \in CommandChars
      BY <1>8, BracketsAreCommands DEF OpenFrom, Brackets
    <3>2. stream[Place(program, top)].code = CodeFor(program[top])
          /\ stream[Place(program, top) + 1].code = "LABEL"
      BY <1>4, <1>8, <3>1 DEF InPlace
    <3> QED
      BY <3>1, <3>2 DEF CodeFor, a, b
  <2>2. /\ \A q \in 1..Len(stream) : stream'[q].code = stream[q].code /\ stream'[q].op2 = stream[q].op2
        /\ \A q \in 1..Len(stream) : q # a /\ q # b => stream'[q].op1 = stream[q].op1
    BY <1>11 DEF Closing
  <2>3. \A q \in 1..Len(stream) :
           stream'[q].op1 = stream[q].op1 \/ stream[q].code \in JumpCodes \cup {"LABEL"}
    BY <2>1, <2>2 DEF JumpCodes
  <2>4. ByOne(stream'[Len(stream) + 1]) /\ ByOne(stream'[Len(stream) + 2])
    BY <1>12 DEF ByOne, JumpCodes
  <2>5. (Len(stream) + 1)..Len(stream') = {Len(stream) + 1, Len(stream) + 2}
    <3>1. Len(stream') = Len(stream) + 2 /\ Len(stream) \in Nat
      BY <1>3, <1>12
    <3> QED
      BY <3>1
  <2> QED
    BY <1>3, <1>4, <1>12, <2>2, <2>3, <2>4, <2>5, SimpleNext
<1> QED
  BY <1>1, <1>2, <1>13, <1>14, <1>15, <1>16, <1>17, <1>18, <1>19 DEF Progress, Parsed

LEMMA FirstProgress ==
  ASSUME Init
  PROVE  Progress
<1>1. /\ program \in Seq(STRING) /\ at = 1 /\ stream = <<>> /\ stack = <<>>
      /\ status = "parsing" /\ Read = 0
  BY ProgramsAssumption DEF Init, Idle, Read
<1>2. Shape
  BY <1>1 DEF Shape, Distinct
<1>3. InPlace(program, 0, <<>>)
  <2>1. Place(program, 0 + 1) = 1
    BY PlaceNext
  <2> QED
    BY <2>1 DEF InPlace
<1>4. Nested(program, 0)
  BY NestedStart
<1>5. MatchesJoined(program, 0, <<>>)
  BY DEF MatchesJoined
<1>6. StackIsOpen(program, 0, <<>>, <<>>)
  <2>1. Depth(program, 0) = 0
    BY DepthNext
  <2> QED
    BY <2>1 DEF StackIsOpen
<1>7. CommandsCounted(program, 0, <<>>)
  <2>1. HowMany(program, CommandChars, 0) = 0
    BY CountNext
  <2>2. Unlabelled(<<>>) = {}
    BY DEF Unlabelled
  <2> QED
    BY <2>1, <2>2, FS_EmptySet DEF CommandsCounted
<1> QED
  BY <1>1, <1>2, <1>3, <1>4, <1>5, <1>6, <1>7 DEF Progress, Parsed, Simple

LEMMA NextKeeps ==
  ASSUME Progress, [Next]_vars
  PROVE  Progress'
<1>1. CASE Command
  BY <1>1, CommandKeeps
<1>2. CASE OpenLoop
  BY <1>2, OpenLoopKeeps
<1>3. CASE CloseLoop
  BY <1>3, CloseLoopKeeps
<1>4. CASE CloseUnopened
  <2>1. /\ Shape /\ status = "parsing" /\ at <= Len(program) /\ at' = at + 1 /\ program' = program
        /\ status' = "undefined" /\ stream' = stream /\ stack' = stack
    BY <1>4 DEF Progress, CloseUnopened, Reading
  <2>2. at' \in 1..(Len(program') + 1)
    BY <2>1, NextRead
  <2>3. Shape'
    BY <2>1, <2>2 DEF Shape, Addresses, Distinct
  <2> QED
    BY <2>1, <2>3 DEF Progress, Parsed
<1>5. CASE Comment
  BY <1>5, CommentKeeps
<1>6. CASE Finish
  <2>1. /\ Shape /\ Parsed /\ status = "parsing" /\ at > Len(program)
        /\ status' = IF stack = <<>> THEN "ok" ELSE "UnmatchedJump"
        /\ program' = program /\ at' = at /\ stream' = stream /\ stack' = stack
    BY <1>6 DEF Progress, Finish
  <2>2. Read' = Read /\ Read = Len(program)
    BY <2>1 DEF Read, Shape
  <2>3. Shape'
    BY <2>1, <2>2 DEF Shape, Addresses, Distinct
  <2>4. Parsed'
    BY <2>1, <2>2 DEF Parsed
  <2> QED
    BY <2>3, <2>4 DEF Progress
<1>7. CASE UNCHANGED vars
  BY <1>7 DEF vars, Progress, Shape, Addresses, Distinct, Parsed, Read
<1> QED
  BY <1>1, <1>2, <1>3, <1>4, <1>5, <1>6, <1>7 DEF Next

\* The parse has got as far as Progress says, after every step.
THEOREM ParserProgress == Spec => []Progress
<1>1. Init => Progress
  BY FirstProgress
<1>2. Progress /\ [Next]_vars => Progress'
  BY NextKeeps
<1> QED
  BY <1>1, <1>2, PTL DEF Spec

\* A finished parse of balanced brackets leaves none unmatched.
LEMMA AllMatched ==
  ASSUME NEW p, NEW n \in Nat, Nested(p, n), Depth(p, n) = 0, NEW i \in 1..n, p[i] = "["
  PROVE  \E j \in 1..n : Match(p, i, j)
<1>1. ~OpenFrom(p, i, n)
  BY OpenLevel
<1> QED
  BY <1>1 DEF Nested

LEMMA FinishedWellJoined ==
  ASSUME NEW p, NEW n \in Nat, NEW s \in Seq(Operations),
         InPlace(p, n, s), Nested(p, n), MatchesJoined(p, n, s), Depth(p, n) = 0
  PROVE  WellJoined(s)
<1> SUFFICES ASSUME NEW q \in DOMAIN s
             PROVE  /\ IsJump(s[q]) => \E l \in DOMAIN s : Joined(s, q, l)
                    /\ s[q].code = "LABEL" => \E j \in DOMAIN s : Joined(s, j, q)
  BY DEF WellJoined
<1>0. DOMAIN s = 1..Len(s)
  OBVIOUS
<1>1. PICK i \in 1..n : \/ p[i] \in CommandChars /\ q = Place(p, i)
                        \/ p[i] \in Brackets /\ q = Place(p, i) + 1
  BY DEF InPlace
<1>2. ASSUME p[i] \in Brackets
      PROVE  \E k \in 1..n : /\ Place(p, k) \in DOMAIN s /\ Place(p, k) + 1 \in DOMAIN s
                             /\ Joined(s, Place(p, i), Place(p, k) + 1)
                             /\ Joined(s, Place(p, k), Place(p, i) + 1)
  <2>1. PICK k \in 1..n : Match(p, i, k) \/ Match(p, k, i)
    <3>1. CASE p[i] = "["
      BY <3>1, AllMatched
    <3>2. CASE p[i] = "]"
      BY <3>2 DEF Nested
    <3> QED
      BY <1>2, <3>1, <3>2 DEF Brackets
  <2>2. p[k] \in Brackets
    BY <2>1 DEF Match, OpenFrom, Brackets
  <2>3. Place(p, k) \in DOMAIN s /\ Place(p, k) + 1 \in DOMAIN s
    BY <1>0, <2>2, PlacesInside
  <2>4. Joined(s, Place(p, i), Place(p, k) + 1) /\ Joined(s, Place(p, k), Place(p, i) + 1)
    BY <2>1 DEF MatchesJoined
  <2> QED
    BY <2>3, <2>4
<1>3. CASE p[i] \in CommandChars /\ q = Place(p, i)
  <2>1. s[q].code = CodeFor(p[i])
    BY <1>3 DEF InPlace
  <2>2. CASE p[i] \in Brackets
    <3>1. s[q].code # "LABEL"
      BY <2>1, <2>2 DEF Brackets, CodeFor
    <3> QED
      BY <1>2, <1>3, <2>2, <3>1
  <2>3. CASE p[i] \notin Brackets
    <3>1. p[i] \in DOMAIN Translated
      BY <1>3, <2>3 DEF CommandChars, Brackets, Translated
    <3>2. s[q].code \notin JumpCodes \cup {"LABEL"}
      BY <2>1, <3>1, TranslatedOperations
    <3> QED
      BY <3>2 DEF IsJump
  <2> QED
    BY <2>2, <2>3
<1>4. CASE p[i] \in Brackets /\ q = Place(p, i) + 1
  <2>1. s[q].code = "LABEL"
    BY <1>4, BracketsAreCommands DEF InPlace
  <2>2. ~IsJump(s[q])
    BY <2>1 DEF IsJump, JumpCodes
  <2> QED
    BY <1>2, <1>4, <2>2
<1> QED
  BY <1>1, <1>3, <1>4

\* Loops of a text are nested or apart.
LEMMA MatchesNest ==
  ASSUME NEW p, NEW n \in Nat, NEW i \in 1..n, NEW j \in 1..n, NEW k \in 1..n, NEW l \in 1..n,
         Match(p, i, j), Match(p, k, l)
  PROVE  \/ i = k /\ j = l
         \/ i < k /\ l < j
         \/ k < i /\ j < l
         \/ j < k
         \/ l < i
<1>1. ASSUME NEW a \in 1..n, NEW b \in 1..n, NEW c \in 1..n, NEW d \in 1..n,
             Match(p, a, b), Match(p, c, d), a < c, c < b
      PROVE  d < b
  <2>1. c - 1 \in a..(b - 1) /\ c - 1 \in Nat /\ (c - 1) + 1 = c
    BY <1>1
  <2>2. /\ Depth(p, b) = Depth(p, a) - 1 /\ Depth(p, c - 1) >= Depth(p, a)
        /\ p[c] = "[" /\ Depth(p, d) = Depth(p, c) - 1
    BY <1>1, <2>1 DEF Match, OpenFrom
  <2>3. /\ Depth(p, a) \in Int /\ Depth(p, b) \in Int /\ Depth(p, c) \in Int /\ Depth(p, d) \in Int
        /\ Depth(p, c - 1) \in Int /\ Depth(p, c) = Depth(p, c - 1) + 1
    BY <2>1, <2>2, DepthNext
  <2>4. d > b => Depth(p, b) >= Depth(p, c)
    <3>1. d > b => b \in c..(d - 1)
      BY <1>1
    <3> QED
      BY <1>1, <3>1 DEF Match, OpenFrom
  <2>5. d # b /\ ~(d > b)
    BY <2>2, <2>3, <2>4
  <2> QED
    BY <2>5
<1>2. p[i] = "[" /\ p[j] = "]" /\ p[k] = "[" /\ p[l] = "]" /\ i < j /\ k < l
  BY DEF Match, OpenFrom
<1>3. j # k /\ l # i
  BY <1>2
<1>4. i = k => j = l
  <2>1. ASSUME NEW b \in 1..n, NEW d \in 1..n, Match(p, i, b), Match(p, i, d), b < d PROVE FALSE
    <3>1. b \in i..(d - 1)
      BY <2>1 DEF Match
    <3>2. Depth(p, b) >= Depth(p, i) /\ Depth(p, b) = Depth(p, i) - 1
      BY <2>1, <3>1 DEF Match, OpenFrom
    <3>3. Depth(p, i) \in Int /\ Depth(p, b) \in Int
      BY DepthNext
    <3> QED
      BY <3>2, <3>3
  <2>2. i = k => ~(j < l) /\ ~(l < j)
    BY <2>1
  <2> QED
    BY <2>2
<1>5. i < k /\ k < j => l < j
  BY <1>1
<1>6. k < i /\ i < l => j < l
  BY <1>1
<1> QED
  BY <1>3, <1>4, <1>5, <1>6

\* What is joined in the stream of a finished parse is a pair of brackets.
JoinsBrackets(p, i, j, q, r) ==
  /\ Match(p, i, j)
  /\ \/ q = Place(p, i) /\ r = Place(p, j) + 1
     \/ q = Place(p, j) /\ r = Place(p, i) + 1

LEMMA JoinedBrackets ==
  ASSUME NEW p, NEW n \in Nat, NEW s \in Seq(Operations), Distinct(s),
         InPlace(p, n, s), Nested(p, n), MatchesJoined(p, n, s), Depth(p, n) = 0,
         NEW q \in DOMAIN s, NEW r \in DOMAIN s, Joined(s, q, r)
  PROVE  \E i, j \in 1..n : JoinsBrackets(p, i, j, q, r)
<1>0. DOMAIN s = 1..Len(s)
  OBVIOUS
<1>1. s[q].code \in JumpCodes /\ s[q].code # "LABEL"
  BY DEF Joined, IsJump, JumpCodes
<1>2. PICK k \in 1..n : p[k] \in CommandChars /\ q = Place(p, k)
  BY <1>1, BracketsAreCommands DEF InPlace
<1>3. p[k] \in Brackets
  <2> SUFFICES ASSUME p[k] \notin Brackets PROVE FALSE
    OBVIOUS
  <2>1. p[k] \in DOMAIN Translated
    BY <1>2 DEF CommandChars, Brackets, Translated
  <2>2. s[q].code = CodeFor(p[k])
    BY <1>2 DEF InPlace
  <2> QED
    BY <1>1, <2>1, <2>2, TranslatedOperations
<1>4. PICK m \in 1..n : Match(p, k, m) \/ Match(p, m, k)
  <2>1. CASE p[k] = "["
    BY <2>1, AllMatched
  <2>2. CASE p[k] = "]"
    BY <2>2 DEF Nested
  <2> QED
    BY <1>3, <2>1, <2>2 DEF Brackets
<1>5. p[m] \in Brackets
  BY <1>4 DEF Match, OpenFrom, Brackets
<1>6. Place(p, m) + 1 \in DOMAIN s
  BY <1>0, <1>5, PlacesInside
<1>7. Joined(s, q, Place(p, m) + 1)
  BY <1>2, <1>4 DEF MatchesJoined
<1>8. r = Place(p, m) + 1
  BY <1>6, <1>7, JoinedOnce
<1> QED
  BY <1>2, <1>4, <1>8 DEF JoinsBrackets

\* Two pairs of brackets with their operations at a and a + 1, b and b + 1, and
\* at c and c + 1, d and d + 1.
PairsApart(a, b, c, d) ==
  /\ a \in Nat /\ b \in Nat /\ c \in Nat /\ d \in Nat /\ a + 1 < b /\ c + 1 < d
  /\ \/ a = c /\ b = d
     \/ a + 1 < c /\ d + 1 < b
     \/ c + 1 < a /\ b + 1 < d
     \/ b + 1 < c
     \/ d + 1 < a

\* A jump of such a pair and its label.
Across(a, b, q, r) == (q = a /\ r = b + 1) \/ (q = b /\ r = a + 1)

LEMMA PairsNest ==
  ASSUME NEW a, NEW b, NEW c, NEW d, PairsApart(a, b, c, d),
         NEW q, NEW r, Across(a, b, q, r), NEW x, NEW y, Across(c, d, x, y)
  PROVE  Inside(q, r, x) <=> Inside(q, r, y)
<1> USE DEF PairsApart, Across
<1>1. CASE a = c /\ b = d
  BY <1>1 DEF Inside
<1>2. CASE a + 1 < c /\ d + 1 < b
  BY <1>2 DEF Inside
<1>3. CASE c + 1 < a /\ b + 1 < d
  BY <1>3 DEF Inside
<1>4. CASE b + 1 < c \/ d + 1 < a
  BY <1>4 DEF Inside
<1> QED
  BY <1>1, <1>2, <1>3, <1>4

LEMMA FinishedNests ==
  ASSUME NEW p, NEW n \in Nat, NEW s \in Seq(Operations), Distinct(s),
         InPlace(p, n, s), Nested(p, n), MatchesJoined(p, n, s), Depth(p, n) = 0
  PROVE  LoopsNest(s)
<1> SUFFICES ASSUME NEW q \in DOMAIN s, NEW r \in DOMAIN s, NEW x \in DOMAIN s, NEW y \in DOMAIN s,
                    Joined(s, q, r), Joined(s, x, y)
             PROVE  Inside(q, r, x) <=> Inside(q, r, y)
  BY DEF LoopsNest
<1>1. PICK i \in 1..n, j \in 1..n : JoinsBrackets(p, i, j, q, r)
  BY JoinedBrackets
<1>2. PICK k \in 1..n, l \in 1..n : JoinsBrackets(p, k, l, x, y)
  BY JoinedBrackets
<1>3. /\ p[i] \in Brackets /\ p[j] \in Brackets /\ p[k] \in Brackets /\ p[l] \in Brackets
      /\ i < j /\ k < l
  BY <1>1, <1>2 DEF JoinsBrackets, Match, OpenFrom, Brackets
<1> DEFINE P(m) == Place(p, m)
<1>4. \A a, b \in 1..n : p[a] \in Brackets /\ p[b] \in Brackets /\ a < b => P(a) + 1 < P(b)
  <2> SUFFICES ASSUME NEW a \in 1..n, NEW b \in 1..n, p[a] \in Brackets, a < b
               PROVE  P(a) + 1 < P(b)
    OBVIOUS
  <2>1. P(a + 1) = P(a) + 2 /\ P(a) \in Nat
    BY PlaceNext
  <2>2. P(a + 1) <= P(b)
    <3>1. a + 1 \in Nat \ {0} /\ b \in Nat \ {0} /\ a + 1 <= b
      OBVIOUS
    <3> QED
      BY <3>1, PlaceGrows
  <2>3. P(b) \in Nat
    BY PlaceNext
  <2> QED
    BY <2>1, <2>2, <2>3
<1>5. P(i) \in Nat /\ P(j) \in Nat /\ P(k) \in Nat /\ P(l) \in Nat
  BY PlaceNext
<1>6. /\ (q = P(i) /\ r = P(j) + 1) \/ (q = P(j) /\ r = P(i) + 1)
      /\ (x = P(k) /\ y = P(l) + 1) \/ (x = P(l) /\ y = P(k) + 1)
  BY <1>1, <1>2 DEF JoinsBrackets
<1>7. \/ i = k /\ j = l
      \/ i < k /\ l < j
      \/ k < i /\ j < l
      \/ j < k
      \/ l < i
  BY <1>1, <1>2, MatchesNest DEF JoinsBrackets
<1>8. P(i) + 1 < P(j) /\ P(k) + 1 < P(l)
  BY <1>3, <1>4
<1>9. /\ i < k => P(i) + 1 < P(k)
      /\ l < j => P(l) + 1 < P(j)
      /\ k < i => P(k) + 1 < P(i)
      /\ j < l => P(j) + 1 < P(l)
      /\ j < k => P(j) + 1 < P(k)
      /\ l < i => P(l) + 1 < P(i)
  BY <1>3, <1>4
<1>10. PairsApart(P(i), P(j), P(k), P(l))
  BY <1>5, <1>7, <1>8, <1>9 DEF PairsApart
<1>11. Across(P(i), P(j), q, r) /\ Across(P(k), P(l), x, y)
  BY <1>6 DEF Across
<1> HIDE DEF P
<1> QED
  BY <1>10, <1>11, PairsNest

\* What the parser hands on can be optimized: every jump has its label, and
\* the loops nest.
LEMMA FinishedSound ==
  ASSUME Progress, Finish, status' = "ok"
  PROVE  Sound(stream')
<1>1. /\ Shape /\ stack = <<>> /\ at > Len(program) /\ status = "parsing" /\ stream' = stream
  BY DEF Progress, Finish
<1>2. /\ InPlace(program, Read, stream) /\ Nested(program, Read)
      /\ MatchesJoined(program, Read, stream) /\ StackIsOpen(program, Read, stream, stack)
  BY <1>1 DEF Progress, Parsed
<1>3. Read \in Nat /\ stream \in Seq(Operations) /\ Distinct(stream)
  BY <1>1 DEF Shape, Read
<1>4. Depth(program, Read) = 0
  <2>1. Len(stack) = 2 * Depth(program, Read) /\ Depth(program, Read) \in Int
    BY <1>2, <1>3, DepthNext DEF StackIsOpen
  <2> QED
    BY <1>1, <2>1
<1>5. WellJoined(stream)
  BY <1>2, <1>3, <1>4, FinishedWellJoined
<1>6. LoopsNest(stream)
  BY <1>2, <1>3, <1>4, FinishedNests
<1> QED
  BY <1>1, <1>3, <1>5, <1>6 DEF Sound

-----------------------------------------------------------------------------
(* The commands of a text *)

LEMMA CountMore ==
  ASSUME NEW p, NEW chars, NEW i \in Nat \ {0}, NEW j \in Nat \ {0}, p[j] \in chars, i < j
  PROVE  HowMany(p, chars, i) < HowMany(p, chars, j)
<1>1. j - 1 \in Nat /\ (j - 1) + 1 = j /\ i <= j - 1
  OBVIOUS
<1>2. HowMany(p, chars, j) = HowMany(p, chars, j - 1) + 1 /\ HowMany(p, chars, j - 1) \in Nat
      /\ HowMany(p, chars, i) \in Nat
  BY <1>1, CountNext
<1>3. HowMany(p, chars, i) <= HowMany(p, chars, j - 1)
  BY <1>1, CountGrows
<1> QED
  BY <1>2, <1>3

LEMMA CommandOnce ==
  ASSUME NEW p, NEW chars, NEW i \in Nat \ {0}, NEW j \in Nat \ {0}, p[i] \in chars, p[j] \in chars,
         HowMany(p, chars, i) = HowMany(p, chars, j)
  PROVE  i = j
<1>1. HowMany(p, chars, i) \in Nat /\ HowMany(p, chars, j) \in Nat
  BY CountNext
<1>2. ~(i < j) /\ ~(j < i)
  BY <1>1, CountMore
<1> QED
  BY <1>2

\* Whatever number of commands, there is the character that is the last of them.
LEMMA CommandReached ==
  ASSUME NEW p, NEW n \in Nat, NEW k \in 1..HowMany(p, CommandChars, n)
  PROVE  \E i \in 1..n : p[i] \in CommandChars /\ HowMany(p, CommandChars, i) = k
<1> DEFINE count(i) == HowMany(p, CommandChars, i)
           enough == {i \in 0..n : count(i) >= k}
           low == Min(enough)
<1>0. \A i \in 0..n : count(i) \in Nat
  BY CountNext
<1>1. n \in enough /\ enough \in SUBSET Nat
  BY <1>0
<1>2. low \in enough /\ \A i \in enough : low <= i
  <2> HIDE DEF enough
  <2> QED
    BY <1>1, SmallestNumber
<1> HIDE DEF low
<1>3. low \in 0..n /\ count(low) >= k
  BY <1>2
<1>4. count(0) = 0
  BY CountNext
<1>5. low # 0 /\ k \in Nat \ {0}
  <2>1. k \in Nat \ {0}
    BY <1>0
  <2> HIDE DEF count
  <2> QED
    BY <1>3, <1>4, <2>1
<1>6. low \in 1..n /\ low - 1 \in 0..n /\ low - 1 \in Nat /\ (low - 1) + 1 = low /\ low - 1 < low
  BY <1>3, <1>5
<1>7. count(low - 1) \in Nat /\ count(low) = count(low - 1) + (IF p[low] \in CommandChars THEN 1 ELSE 0)
  BY <1>6, CountNext
<1>8. ~(count(low - 1) >= k)
  BY <1>2, <1>6
<1> HIDE DEF count, enough
<1>9. p[low] \in CommandChars /\ count(low) = k
  BY <1>3, <1>5, <1>7, <1>8
<1> QED
  BY <1>6, <1>9 DEF count

\* The commands stand in the order of the text.
Listed(p, n, c) ==
  /\ c \in Seq(STRING) /\ Len(c) = HowMany(p, CommandChars, n)
  /\ \A i \in 1..n : p[i] \in CommandChars => c[HowMany(p, CommandChars, i)] = p[i]

LEMMA CommandsListed ==
  ASSUME NEW p \in Seq(STRING)
  PROVE  Listed(p, Len(p), CommandsOf(p))
<1> DEFINE n == Len(p)
           count(i) == HowMany(p, CommandChars, i)
           nth(k) == CHOOSE i \in DOMAIN p : p[i] \in CommandChars /\ count(i) = k
           c == [k \in 1..count(n) |-> p[nth(k)]]
<1>1. n \in Nat /\ DOMAIN p = 1..n /\ \A i \in 1..n : i \in Nat \ {0} /\ p[i] \in STRING
  OBVIOUS
<1>2. CommandsOf(p) = c
  BY DEF CommandsOf
<1>3. \A i \in 0..n : count(i) \in Nat
  BY CountNext
<1>4. count(n) \in Nat
  BY <1>1, <1>3
<1>5. \A k \in 1..count(n) : nth(k) \in 1..n /\ p[nth(k)] \in CommandChars /\ count(nth(k)) = k
  BY <1>1, CommandReached
<1>6. ASSUME NEW i \in 1..n, p[i] \in CommandChars
      PROVE  count(i) \in 1..count(n) /\ nth(count(i)) = i
  <2>1. i - 1 \in Nat /\ (i - 1) + 1 = i /\ i \in Nat \ {0} /\ i <= n
    BY <1>1
  <2>2. count(i - 1) \in Nat /\ count(i) = count(i - 1) + 1
    BY <1>6, <2>1, CountNext
  <2>3. count(i) <= count(n)
    BY <1>1, <2>1, CountGrows
  <2>4. count(i) \in 1..count(n)
    BY <1>4, <2>2, <2>3
  <2>5. nth(count(i)) \in 1..n /\ p[nth(count(i))] \in CommandChars /\ count(nth(count(i))) = count(i)
    BY <1>5, <2>4
  <2>6. nth(count(i)) = i
    BY <1>1, <1>6, <2>1, <2>5, CommandOnce
  <2> QED
    BY <2>4, <2>6
<1> HIDE DEF nth
<1>7. c \in Seq(STRING) /\ Len(c) = count(n)
  <2> HIDE DEF count
  <2>1. \A k \in 1..count(n) : p[nth(k)] \in STRING
    BY <1>1, <1>5
  <2> QED
    BY <1>4, <2>1
<1>8. \A i \in 1..n : p[i] \in CommandChars => c[count(i)] = p[i]
  BY <1>6
<1> QED
  BY <1>2, <1>7, <1>8 DEF Listed

\* Counting in the text or in its commands is the same.
LEMMA CountsKept ==
  ASSUME NEW p \in Seq(STRING), NEW c, Listed(p, Len(p), c), NEW chars \in SUBSET CommandChars
  PROVE  \A i \in 0..Len(p) : HowMany(c, chars, HowMany(p, CommandChars, i)) = HowMany(p, chars, i)
<1> DEFINE count(i) == HowMany(p, CommandChars, i)
           S == {i \in 0..Len(p) : HowMany(c, chars, count(i)) = HowMany(p, chars, i)}
<1>1. Len(p) \in Nat
  OBVIOUS
<1>2. 0 \in S
  <2>1. count(0) = 0 /\ HowMany(p, chars, 0) = 0 /\ HowMany(c, chars, 0) = 0
    BY CountNext
  <2> QED
    BY <1>1, <2>1
<1>3. ASSUME NEW i \in 0..(Len(p) - 1), i \in S PROVE i + 1 \in S
  <2>1. i + 1 \in 1..Len(p) /\ i \in Nat
    BY <1>1
  <2>2. /\ count(i) \in Nat
        /\ count(i + 1) = count(i) + (IF p[i + 1] \in CommandChars THEN 1 ELSE 0)
        /\ HowMany(p, chars, i + 1) = HowMany(p, chars, i) + (IF p[i + 1] \in chars THEN 1 ELSE 0)
    BY <2>1, CountNext
  <2>3. HowMany(c, chars, count(i)) = HowMany(p, chars, i)
    BY <1>3
  <2>4. CASE p[i + 1] \in CommandChars
    <3>1. count(i + 1) = count(i) + 1 /\ c[count(i) + 1] = p[i + 1]
      BY <2>1, <2>2, <2>4 DEF Listed
    <3>2. Steps(c, chars)
      BY CountSteps
    <3>3. HowMany(c, chars, count(i + 1)) = HowMany(p, chars, i + 1)
      <4> HIDE DEF count
      <4> QED
        BY <2>2, <2>3, <3>1, <3>2 DEF Steps
    <3> QED
      BY <2>1, <3>3
  <2>5. CASE p[i + 1] \notin CommandChars
    <3>1. p[i + 1] \notin chars /\ count(i + 1) = count(i) + 0
      BY <2>2, <2>5
    <3>2. HowMany(p, chars, i + 1) = HowMany(p, chars, i)
      <4>1. HowMany(p, chars, i) \in Nat
        BY <2>1, CountNext
      <4> QED
        BY <2>2, <3>1, <4>1
    <3>3. count(i + 1) = count(i)
      BY <2>2, <3>1
    <3>4. HowMany(c, chars, count(i + 1)) = HowMany(p, chars, i + 1)
      BY <2>3, <3>2, <3>3
    <3> QED
      BY <2>1, <3>4
  <2> QED
    BY <2>4, <2>5
<1> HIDE DEF S
<1>4. \A i \in 0..Len(p) : i \in S
  BY <1>1, <1>2, <1>3, OneByOne
<1> QED
  BY <1>4 DEF S

LEMMA DepthsKept ==
  ASSUME NEW p \in Seq(STRING), NEW c, Listed(p, Len(p), c)
  PROVE  \A i \in 0..Len(p) : Depth(c, HowMany(p, CommandChars, i)) = Depth(p, i)
<1>1. {"["} \in SUBSET CommandChars /\ {"]"} \in SUBSET CommandChars
  BY DEF CommandChars, Brackets
<1>2. \A i \in 0..Len(p) :
        /\ HowMany(c, {"["}, HowMany(p, CommandChars, i)) = HowMany(p, {"["}, i)
        /\ HowMany(c, {"]"}, HowMany(p, CommandChars, i)) = HowMany(p, {"]"}, i)
  BY <1>1, CountsKept
<1> QED
  BY <1>2 DEF Depth

\* The number of the command at i, where there is one.
Number(p, i) == HowMany(p, CommandChars, i)

LEMMA NumberOfCommand ==
  ASSUME NEW p \in Seq(STRING), NEW c, Listed(p, Len(p), c),
         NEW i \in 1..Len(p), p[i] \in CommandChars
  PROVE  Number(p, i) \in 1..Len(c) /\ Number(p, i) = Number(p, i - 1) + 1 /\ c[Number(p, i)] = p[i]
<1>1. i - 1 \in Nat /\ (i - 1) + 1 = i /\ i \in Nat /\ Len(p) \in Nat /\ i <= Len(p)
  OBVIOUS
<1>2. Steps(p, CommandChars)
  BY CountSteps
<1>3. Number(p, i - 1) \in Nat /\ Number(p, i) = Number(p, i - 1) + 1
  BY <1>1, <1>2 DEF Steps, Number
<1>4. Number(p, i) <= Len(c) /\ Len(c) \in Nat
  BY <1>1, CountGrows DEF Listed, Number
<1> QED
  BY <1>3, <1>4 DEF Listed, Number

LEMMA MatchKept ==
  ASSUME NEW p \in Seq(STRING), NEW c, Listed(p, Len(p), c),
         NEW i \in 1..Len(p), NEW j \in 1..Len(p), Match(p, i, j)
  PROVE  Match(c, Number(p, i), Number(p, j))
<1>1. /\ p[i] = "[" /\ p[j] = "]" /\ i < j /\ Depth(p, j) = Depth(p, i) - 1
      /\ \A k \in i..(j - 1) : Depth(p, k) >= Depth(p, i)
  BY DEF Match, OpenFrom
<1>2. p[i] \in CommandChars /\ p[j] \in CommandChars
  BY <1>1 DEF CommandChars, Brackets
<1>3. /\ Number(p, i) \in 1..Len(c) /\ Number(p, j) \in 1..Len(c)
      /\ c[Number(p, i)] = "[" /\ c[Number(p, j)] = "]" /\ Number(p, j) = Number(p, j - 1) + 1
  BY <1>1, <1>2, NumberOfCommand
<1>4. i \in Nat \ {0} /\ j \in Nat \ {0} /\ j - 1 \in Nat /\ Len(c) \in Nat
      /\ Len(p) \in Nat
  BY DEF Listed
<1>5. Number(p, i) < Number(p, j)
  BY <1>1, <1>2, <1>4, CountMore DEF Number
<1>6. \A k \in 0..Len(p) : Depth(c, Number(p, k)) = Depth(p, k)
  BY DepthsKept DEF Number
<1>7. ASSUME NEW m \in Number(p, i)..(Number(p, j) - 1)
      PROVE  Depth(c, m) >= Depth(c, Number(p, i))
  <2>1. m \in 1..Number(p, j - 1)
    <3>1. Number(p, j) - 1 = Number(p, j - 1)
      <4>1. Number(p, j - 1) \in Nat
        BY <1>4, CountNext DEF Number
      <4> QED
        BY <1>3, <4>1
    <3> QED
      BY <1>3, <3>1
  <2>2. PICK k \in 1..(j - 1) : p[k] \in CommandChars /\ Number(p, k) = m
    BY <1>4, <2>1, CommandReached DEF Number
  <2>3. ~(k < i)
    <3> SUFFICES ASSUME k < i PROVE FALSE
      OBVIOUS
    <3>1. Number(p, k) < Number(p, i)
      BY <1>2, <1>4, CountMore DEF Number
    <3> QED
      BY <1>3, <2>2, <3>1
  <2>4. k \in i..(j - 1) /\ k \in 0..Len(p) /\ i \in 0..Len(p)
    BY <1>4, <2>3
  <2>5. Depth(c, m) = Depth(p, k) /\ Depth(c, Number(p, i)) = Depth(p, i)
    BY <1>6, <2>2, <2>4
  <2> QED
    BY <1>1, <2>4, <2>5
<1>8. Depth(c, Number(p, j)) = Depth(c, Number(p, i)) - 1
  BY <1>1, <1>4, <1>6
<1> QED
  BY <1>3, <1>5, <1>7, <1>8 DEF Match, OpenFrom

\* A bracket has one partner.
LEMMA PartnerOnce ==
  ASSUME NEW p, NEW n \in Nat, NEW k \in 1..n, NEW i \in 1..n, NEW j \in 1..n,
         Match(p, k, i) \/ Match(p, i, k), Match(p, k, j) \/ Match(p, j, k)
  PROVE  i = j
<1>1. \A a, b \in 1..n : Match(p, a, b) => p[a] = "[" /\ p[b] = "]" /\ a < b
  BY DEF Match, OpenFrom
<1>2. CASE Match(p, k, i) /\ Match(p, k, j)
  BY <1>1, <1>2, MatchesNest
<1>3. CASE Match(p, i, k) /\ Match(p, j, k)
  <2>1. i < k /\ j < k
    BY <1>1, <1>3
  <2>2. \/ i = j /\ k = k
        \/ i < j /\ k < k
        \/ j < i /\ k < k
        \/ k < j
        \/ k < i
    BY <1>3, MatchesNest
  <2> QED
    BY <2>1, <2>2
<1> QED
  BY <1>1, <1>2, <1>3

-----------------------------------------------------------------------------
(* The stream of a finished parse is the text, command by command *)

\* How many operations stand before q, labels not counted.
Before(s, q) == Cardinality({r \in DOMAIN s : s[r].code # "LABEL" /\ r < q})

LEMMA BeforeNext ==
  ASSUME NEW s \in Seq(Operations), NEW q \in DOMAIN s
  PROVE  /\ Before(s, q) \in Nat /\ Before(s, 1) = 0
         /\ Before(s, q + 1) = Before(s, q) + (IF s[q].code = "LABEL" THEN 0 ELSE 1)
<1> DEFINE codes == [r \in 1..Len(s) |-> s[r].code]
           plain == Codes \ {"LABEL"}
           others(x) == {r \in DOMAIN s : s[r].code # "LABEL" /\ r < x}
           counted(x) == {r \in 1..(x - 1) : codes[r] \in plain}
<1>1. DOMAIN s = 1..Len(s) /\ Len(s) \in Nat /\ q \in 1..Len(s) /\ \A r \in 1..Len(s) : s[r].code \in Codes
  <2>1. DOMAIN s = 1..Len(s) /\ Len(s) \in Nat /\ \A r \in 1..Len(s) : s[r] \in Operations
    OBVIOUS
  <2> QED
    BY <2>1 DEF Operations
<1>2. \A r \in 1..Len(s) : codes[r] = s[r].code
  OBVIOUS
<1>3. \A x \in 1..(Len(s) + 1) : others(x) = counted(x)
  <2> SUFFICES ASSUME NEW x \in 1..(Len(s) + 1) PROVE others(x) = counted(x)
    OBVIOUS
  <2>1. \A r \in 1..(x - 1) : r \in 1..Len(s)
    BY <1>1
  <2>2. \A r \in 1..Len(s) : r < x <=> r \in 1..(x - 1)
    BY <1>1
  <2> HIDE DEF codes
  <2> QED
    BY <1>1, <1>2, <2>1, <2>2
<1>4. \A x \in 1..(Len(s) + 1) : Before(s, x) = HowMany(codes, plain, x - 1)
  BY <1>3 DEF Before, HowMany
<1>5. 1 \in 1..(Len(s) + 1) /\ q \in 1..(Len(s) + 1) /\ q + 1 \in 1..(Len(s) + 1)
      /\ q - 1 \in Nat /\ (q - 1) + 1 = q /\ (q + 1) - 1 = q /\ 1 - 1 = 0
  BY <1>1
<1>6. codes[q] \in plain <=> s[q].code # "LABEL"
  BY <1>1, <1>2
<1> HIDE DEF codes, plain
<1>7. Steps(codes, plain)
  BY CountSteps
<1>8. HowMany(codes, plain, 0) = 0
  BY CountNext
<1>9. Before(s, 1) = 0
  BY <1>4, <1>5, <1>8
<1>10. Before(s, q) = HowMany(codes, plain, q - 1) /\ Before(s, q + 1) = HowMany(codes, plain, q)
  BY <1>4, <1>5
<1>11. /\ HowMany(codes, plain, q - 1) \in Nat
       /\ HowMany(codes, plain, q) = HowMany(codes, plain, q - 1) + (IF codes[q] \in plain THEN 1 ELSE 0)
  BY <1>5, <1>7 DEF Steps
<1> QED
  BY <1>6, <1>9, <1>10, <1>11

LEMMA BeforePlace ==
  ASSUME NEW p, NEW n \in Nat, NEW s \in Seq(Operations), InPlace(p, n, s)
  PROVE  \A i \in 0..n : Before(s, Place(p, i + 1)) = Number(p, i)
<1> DEFINE S == {i \in 0..n : Before(s, Place(p, i + 1)) = Number(p, i)}
<1>1. 0 \in S
  <2>1. Place(p, 1) = 1
    BY PlaceNext
  <2>2. Before(s, 1) = 0
    <3>1. \A r \in DOMAIN s : ~(r < 1)
      OBVIOUS
    <3>2. {r \in DOMAIN s : s[r].code # "LABEL" /\ r < 1} = {}
      BY <3>1
    <3> QED
      BY <3>2, FS_EmptySet DEF Before
  <2>3. Number(p, 0) = 0
    BY CountNext DEF Number
  <2> QED
    BY <2>1, <2>2, <2>3
<1>2. ASSUME NEW i \in 0..(n - 1), i \in S PROVE i + 1 \in S
  <2>1. i \in Nat /\ i + 1 \in 1..n /\ i + 1 \in 0..n
    OBVIOUS
  <2> DEFINE a == Place(p, i + 1)
  <2>2. a \in Nat /\ Before(s, a) = Number(p, i)
    BY <1>2, <2>1, PlaceNext
  <2>3. Steps(p, CommandChars)
    BY CountSteps
  <2>4. Number(p, i) \in Nat
        /\ Number(p, i + 1) = Number(p, i) + (IF p[i + 1] \in CommandChars THEN 1 ELSE 0)
    BY <2>1, <2>3 DEF Steps, Number
  <2>5. CASE p[i + 1] \notin CommandChars
    <3>1. Place(p, (i + 1) + 1) = a
      BY <2>1, <2>5, PlaceNext
    <3> QED
      BY <2>1, <2>2, <2>4, <2>5, <3>1
  <2>6. CASE p[i + 1] \in CommandChars
    <3>1. a \in DOMAIN s /\ s[a].code = CodeFor(p[i + 1])
      BY <2>1, <2>6 DEF InPlace
    <3>2. s[a].code # "LABEL"
      <4>1. CASE p[i + 1] \in Brackets
        BY <3>1, <4>1 DEF Brackets, CodeFor
      <4>2. CASE p[i + 1] \notin Brackets
        <5>1. p[i + 1] \in DOMAIN Translated
          BY <2>6, <4>2 DEF CommandChars, Brackets, Translated
        <5> QED
          BY <3>1, <5>1, TranslatedOperations
      <4> QED
        BY <4>1, <4>2
    <3>3. Before(s, a + 1) = Number(p, i + 1)
      BY <2>2, <2>4, <2>6, <3>1, <3>2, BeforeNext
    <3>4. CASE p[i + 1] \notin Brackets
      <4>1. Place(p, (i + 1) + 1) = a + 1
        BY <2>1, <2>6, <3>4, PlaceNext
      <4> QED
        BY <2>1, <3>3, <4>1
    <3>5. CASE p[i + 1] \in Brackets
      <4>1. Place(p, (i + 1) + 1) = a + 2
        BY <2>1, <3>5, PlaceNext
      <4>2. a + 1 \in DOMAIN s /\ s[a + 1].code = "LABEL"
        BY <2>1, <2>6, <3>5 DEF InPlace
      <4>3. Before(s, (a + 1) + 1) = Before(s, a + 1)
        <5>1. Before(s, a + 1) \in Nat
          BY <4>2, BeforeNext
        <5>2. Before(s, (a + 1) + 1) = Before(s, a + 1) + 0
          BY <4>2, BeforeNext
        <5> QED
          BY <5>1, <5>2
      <4>4. (a + 1) + 1 = a + 2
        BY <2>2
      <4> QED
        BY <2>1, <3>3, <4>1, <4>3, <4>4
    <3> QED
      BY <3>4, <3>5
  <2> QED
    BY <2>5, <2>6
<1> HIDE DEF S
<1>3. \A i \in 0..n : i \in S
  BY <1>1, <1>2, OneByOne
<1> QED
  BY <1>3 DEF S

\* The operation at q is that of the next command behind those before it.
Does(s, q, c) ==
  LET k == Before(s, q) + 1
  IN  k \in 1..Len(c) /\ c[k] \in CommandChars /\ s[q].code = CodeFor(c[k])

\* The jump at q leads behind the partner of its bracket.
LeadsTo(s, q, l, c) ==
  LET k == Before(s, q) + 1
      j == Before(s, l)
  IN  j \in 1..Len(c) /\ (Match(c, k, j) \/ Match(c, j, k))

Spells(s, c) ==
  /\ c \in Seq(STRING) /\ Before(s, Len(s) + 1) = Len(c)
  /\ \A q \in DOMAIN s : s[q].code # "LABEL" => Does(s, q, c)
  /\ \A q, l \in DOMAIN s : Joined(s, q, l) => LeadsTo(s, q, l, c)

LEMMA SpelledOut ==
  ASSUME NEW p \in Seq(STRING), NEW s \in Seq(Operations), Distinct(s),
         InPlace(p, Len(p), s), Nested(p, Len(p)), MatchesJoined(p, Len(p), s),
         Depth(p, Len(p)) = 0
  PROVE  Spells(s, CommandsOf(p))
<1> DEFINE n == Len(p)
           c == CommandsOf(p)
<1>1. Listed(p, n, c) /\ n \in Nat
  BY CommandsListed
<1> HIDE DEF c
<1>2. c \in Seq(STRING) /\ Len(c) = Number(p, n)
  BY <1>1 DEF Listed, Number
<1>3. \A i \in 0..n : Before(s, Place(p, i + 1)) = Number(p, i)
  BY <1>1, BeforePlace
<1>4. Before(s, Len(s) + 1) = Len(c)
  <2>1. Len(s) = Place(p, n + 1) - 1
    BY DEF InPlace
  <2>2. Place(p, n + 1) \in Nat
    BY <1>1, PlaceNext
  <2>3. Len(s) + 1 = Place(p, n + 1) /\ n \in 0..n
    BY <1>1, <2>1, <2>2
  <2> QED
    BY <1>2, <1>3, <2>3
<1>5. ASSUME NEW i \in 1..n, p[i] \in CommandChars
      PROVE  /\ Place(p, i) \in DOMAIN s /\ s[Place(p, i)].code = CodeFor(p[i])
             /\ Before(s, Place(p, i)) + 1 = Number(p, i)
             /\ Number(p, i) \in 1..Len(c) /\ c[Number(p, i)] = p[i]
             /\ s[Place(p, i)].code # "LABEL"
  <2>1. Number(p, i) \in 1..Len(c) /\ Number(p, i) = Number(p, i - 1) + 1 /\ c[Number(p, i)] = p[i]
    BY <1>1, <1>5, NumberOfCommand
  <2>2. i - 1 \in 0..n /\ (i - 1) + 1 = i
    BY <1>1
  <2>3. Before(s, Place(p, i)) = Number(p, i - 1)
    BY <1>3, <2>2
  <2>4. Place(p, i) \in DOMAIN s /\ s[Place(p, i)].code = CodeFor(p[i])
    BY <1>5 DEF InPlace
  <2>5. CodeFor(p[i]) # "LABEL"
    <3>1. CASE p[i] \in Brackets
      BY <3>1 DEF Brackets, CodeFor
    <3>2. CASE p[i] \notin Brackets
      <4>1. p[i] \in DOMAIN Translated
        BY <1>5, <3>2 DEF CommandChars, Brackets, Translated
      <4> QED
        BY <4>1, TranslatedOperations
    <3> QED
      BY <3>1, <3>2
  <2> QED
    BY <2>1, <2>3, <2>4, <2>5
<1>6. ASSUME NEW q \in DOMAIN s, s[q].code # "LABEL"
      PROVE  Does(s, q, c)
  <2>1. PICK i \in 1..n : p[i] \in CommandChars /\ q = Place(p, i)
    BY <1>6, BracketsAreCommands DEF InPlace
  <2> QED
    BY <1>5, <2>1 DEF Does
<1>7. ASSUME NEW i \in 1..n, p[i] \in Brackets
      PROVE  Before(s, Place(p, i) + 1) = Number(p, i)
  <2>1. p[i] \in CommandChars
    BY <1>7, BracketsAreCommands
  <2>2. /\ Place(p, i) \in DOMAIN s /\ s[Place(p, i)].code # "LABEL"
        /\ Before(s, Place(p, i)) + 1 = Number(p, i)
    BY <1>5, <2>1
  <2> QED
    BY <2>2, BeforeNext
<1>8. ASSUME NEW q \in DOMAIN s, NEW l \in DOMAIN s, Joined(s, q, l)
      PROVE  LeadsTo(s, q, l, c)
  <2>1. PICK i \in 1..n, j \in 1..n : JoinsBrackets(p, i, j, q, l)
    BY <1>1, <1>8, JoinedBrackets
  <2>2. /\ Match(p, i, j)
        /\ \/ q = Place(p, i) /\ l = Place(p, j) + 1
           \/ q = Place(p, j) /\ l = Place(p, i) + 1
    BY <2>1 DEF JoinsBrackets
  <2>3. p[i] \in Brackets /\ p[j] \in Brackets
    BY <2>2 DEF Match, OpenFrom, Brackets
  <2>4. p[i] \in CommandChars /\ p[j] \in CommandChars
    BY <2>3, BracketsAreCommands
  <2>5. /\ Before(s, Place(p, i)) + 1 = Number(p, i) /\ Before(s, Place(p, i) + 1) = Number(p, i)
        /\ Before(s, Place(p, j)) + 1 = Number(p, j) /\ Before(s, Place(p, j) + 1) = Number(p, j)
        /\ Number(p, i) \in 1..Len(c) /\ Number(p, j) \in 1..Len(c)
    BY <1>5, <1>7, <2>3, <2>4
  <2>6. Match(c, Number(p, i), Number(p, j))
    BY <1>1, <2>2, MatchKept
  <2> QED
    BY <2>2, <2>5, <2>6 DEF LeadsTo
<1>9. Spells(s, c)
  BY <1>2, <1>4, <1>6, <1>8 DEF Spells
<1> QED
  BY <1>9 DEF c

LEMMA FinishedSpells ==
  ASSUME Progress, Finish, status' = "ok"
  PROVE  Spells(stream', CommandsOf(program')) /\ Simple(stream')
<1>1. /\ Shape /\ stack = <<>> /\ at > Len(program) /\ status = "parsing" /\ stream' = stream
      /\ program' = program
  BY DEF Progress, Finish
<1>2. /\ InPlace(program, Read, stream) /\ Nested(program, Read) /\ Simple(stream)
      /\ MatchesJoined(program, Read, stream) /\ StackIsOpen(program, Read, stream, stack)
  BY <1>1 DEF Progress, Parsed
<1>3. /\ Read = Len(program) /\ Read \in Nat /\ program \in Seq(STRING)
      /\ stream \in Seq(Operations) /\ Distinct(stream)
  BY <1>1 DEF Shape, Read
<1>4. Depth(program, Read) = 0
  <2>1. Len(stack) = 2 * Depth(program, Read) /\ Depth(program, Read) \in Int
    BY <1>2, <1>3, DepthNext DEF StackIsOpen
  <2> QED
    BY <1>1, <2>1
<1>5. Spells(stream, CommandsOf(program))
  BY <1>2, <1>3, <1>4, SpelledOut
<1> QED
  BY <1>1, <1>2, <1>5

-----------------------------------------------------------------------------
(* The properties of the parser *)

\* The stream is a stream with an address for each operation, and the stack
\* holds pairs of its addresses.
THEOREM ParserTypeCorrect == Spec => []TypeOK
<1>1. Progress => TypeOK
  <2> SUFFICES ASSUME Progress PROVE TypeOK
    OBVIOUS
  <2>1. Shape
    BY DEF Progress
  <2>2. IsStream(stream)
    <3>1. stream \in Seq(Operations) /\ Distinct(stream) /\ DOMAIN stream = 1..Len(stream)
      BY <2>1 DEF Shape
    <3>2. Cardinality(Addresses(stream)) = Len(stream)
      BY <3>1, AddressesCounted
    <3>3. \A q \in DOMAIN stream : stream[q] \in Operations
      BY <3>1
    <3> QED
      BY <3>2, <3>3 DEF IsStream, Operations
  <2> QED
    BY <2>1, <2>2 DEF TypeOK, Shape
<1> QED
  BY <1>1, ParserProgress, PTL

\* "ok" is the answer to balanced brackets only, UnmatchedJump never is.
THEOREM ParserAcceptsBalanced == Spec => []AcceptsBalanced
<1>1. Progress => AcceptsBalanced
  <2> SUFFICES ASSUME Progress, status \in {"ok", "UnmatchedJump"}
               PROVE  AcceptsBalanced
    BY DEF AcceptsBalanced
  <2>1. /\ Shape /\ Nested(program, Read) /\ StackIsOpen(program, Read, stream, stack)
    BY DEF Progress, Parsed
  <2>2. /\ program \in Seq(STRING) /\ Read = Len(program) /\ stack \in Seq(Addresses(stream))
        /\ status = "ok" => stack = <<>>
        /\ status = "UnmatchedJump" => stack # <<>>
    BY <2>1 DEF Shape
  <2>3. Len(program) \in Nat /\ DOMAIN program = 1..Len(program)
        /\ Depth(program, Len(program)) \in Int
    BY <2>2, DepthNext
  <2>4. Len(stack) = 2 * Depth(program, Len(program))
    BY <2>1, <2>2 DEF StackIsOpen
  <2>5. \A i \in DOMAIN program : Depth(program, i) >= 0
    <3>1. \A i \in DOMAIN program : i \in 0..Read
      BY <2>2, <2>3
    <3> QED
      BY <2>1, <3>1 DEF Nested
  <2>6. status = "ok" => Depth(program, Len(program)) = 0
    BY <2>2, <2>3, <2>4
  <2>7. status = "UnmatchedJump" => Depth(program, Len(program)) # 0
    BY <2>2, <2>3, <2>4
  <2> QED
    BY <2>5, <2>6, <2>7 DEF AcceptsBalanced, Balanced
<1> QED
  BY <1>1, ParserProgress, PTL

\* Brackets that match are joined as soon as both are read, whatever the
\* nesting, and the stack holds exactly the loops that are still open.
THEOREM ParserJumpsFollowBrackets == Spec => []JumpsFollowBrackets
<1>1. Progress => JumpsFollowBrackets
  <2> SUFFICES ASSUME Progress, status # "undefined" PROVE JumpsFollowBrackets
    BY DEF JumpsFollowBrackets
  <2>1. /\ InPlace(program, Read, stream) /\ MatchesJoined(program, Read, stream)
        /\ StackIsOpen(program, Read, stream, stack)
    BY DEF Progress, Parsed
  <2>2. ASSUME NEW i \in 1..Read, NEW j \in 1..Read, Match(program, i, j)
        PROVE  stream[Place(program, i)].code = "JZ" /\ stream[Place(program, j)].code = "JNZ"
    <3>1. program[i] = "[" /\ program[j] = "]"
      BY <2>2 DEF Match, OpenFrom
    <3>2. program[i] \in CommandChars /\ program[j] \in CommandChars
      BY <3>1 DEF CommandChars, Brackets
    <3>3. /\ stream[Place(program, i)].code = CodeFor(program[i])
          /\ stream[Place(program, j)].code = CodeFor(program[j])
      BY <2>1, <3>2 DEF InPlace
    <3> QED
      BY <3>1, <3>3 DEF CodeFor
  <2> QED
    BY <2>1, <2>2 DEF JumpsFollowBrackets, MatchesJoined, StackIsOpen
<1> QED
  BY <1>1, ParserProgress, PTL

\* What an accepted program is parsed to is well joined, and has one operation
\* besides the labels for each command of the text.
THEOREM ParserWellJoined == Spec => []ParsedWellJoined
<1>1. Progress => ParsedWellJoined
  <2> SUFFICES ASSUME Progress, status = "ok" PROVE ParsedWellJoined
    BY DEF ParsedWellJoined
  <2>1. /\ Shape /\ InPlace(program, Read, stream) /\ Nested(program, Read)
        /\ MatchesJoined(program, Read, stream) /\ StackIsOpen(program, Read, stream, stack)
        /\ CommandsCounted(program, Read, stream)
    BY DEF Progress, Parsed
  <2>2. /\ Read = Len(program) /\ Read \in Nat /\ stack = <<>> /\ stream \in Seq(Operations)
    BY <2>1 DEF Shape
  <2>3. Depth(program, Read) = 0
    <3>1. Len(stack) = 2 * Depth(program, Read) /\ Depth(program, Read) \in Int
      BY <2>1, <2>2, DepthNext DEF StackIsOpen
    <3> QED
      BY <2>2, <3>1
  <2>4. WellJoined(stream)
    BY <2>1, <2>2, <2>3, FinishedWellJoined
  <2> QED
    BY <2>1, <2>2, <2>4 DEF ParsedWellJoined, CommandsCounted, Unlabelled
<1> QED
  BY <1>1, ParserProgress, PTL

===============================================================================

--------------------------- MODULE CompilerProofs ---------------------------
(***************************************************************************)
(* Theorems about CodeArea, for pages, reservations and pieces of code of  *)
(* any size, and about Compile, for both architectures and streams of any  *)
(* length: where the code of each operation lies, and where jumps go.      *)
(***************************************************************************)
EXTENDS Compiler, StreamFacts

-----------------------------------------------------------------------------
(* The code area: arithmetic of pages *)

\* A number of bytes fills so many pages and not one more.
LEMMA FilledPages ==
  ASSUME NEW n \in Nat, NEW s \in Nat, s > 0
  PROVE  /\ n \div s \in Nat
         /\ (n \div s) * s <= n
         /\ n < (n \div s + 1) * s
  OBVIOUS

\* Fewer pages have fewer bytes.
LEMMA PagesGrow ==
  ASSUME NEW a \in Int, NEW b \in Int, NEW s \in Nat, s > 0
  PROVE  /\ a * s < b * s => a < b
         /\ a <= b => a * s <= b * s
<1>1. a * s < b * s => a < b
  <2>1. SUFFICES ASSUME b <= a PROVE b * s <= a * s
    OBVIOUS
  <2>2. PICK d \in Nat : a = b + d
    BY <2>1
  <2>3. a * s = b * s + d * s /\ d * s >= 0
    BY <2>2
  <2> QED
    BY <2>3
<1>2. ASSUME a <= b PROVE a * s <= b * s
  <2>1. PICK d \in Nat : b = a + d
    BY <1>2
  <2>2. b * s = a * s + d * s /\ d * s >= 0
    BY <2>1
  <2> QED
    BY <2>2
<1> QED
  BY <1>1, <1>2

\* The pages before the new end are old ones or new ones, those behind neither.
LEMMA SplitFront ==
  ASSUME NEW p \in Nat, NEW old \in Nat, NEW new \in Nat, old <= new
  PROVE  /\ p < new => p < old \/ p \in old..(new - 1)
         /\ p >= new => p >= old /\ p \notin old..(new - 1)
         /\ p \in old..(new - 1) => ~(p < old)
  OBVIOUS

-----------------------------------------------------------------------------
(* The inductive invariant of the area *)

\* The code ends in the last accessible page: before the first piece it is
\* still the page left out, and there is no accessible page.
EndsInLastPage ==
  /\ size >= PageSize
  /\ \/ allocated = 0 /\ size = PageSize
     \/ /\ allocated > 0
        /\ (allocated - 1) * PageSize <= size /\ size < allocated * PageSize

\* The one page too many is what the error stands for.
ErrSaysWhere == allocated \in 0..(Reserved + 1) /\ (err <=> allocated > Reserved)

\* The accessible pages are the first ones, with the protection access.
FrontIs(access) ==
  \A p \in 0..Reserved :
    /\ p < allocated => prot[p] = access
    /\ p \in Pages /\ p >= allocated => prot[p] = "none"

OpenFront == area = "open" => FrontIs("rw")
SealedFront == area = "sealed" => FrontIs("rx") /\ ~err

Shape == EndsInLastPage /\ ErrSaysWhere /\ OpenFront /\ SealedFront

\* Sizes and products of them are numbers.
LEMMA Numbers ==
  PageSize \in Nat /\ PageSize > 0 /\ Reserved \in Nat /\ Reserved > 0 /\ MaxPiece \in Nat
  BY AreaAssumption

\* A new area has the shape.
LEMMA InitShape ==
  Init => TypeOK /\ Shape
<1> SUFFICES ASSUME Init PROVE TypeOK /\ Shape
  OBVIOUS
<1>1. PICK behind \in Behind :
        prot = [p \in 0..Reserved |-> IF p \in Pages THEN "none" ELSE behind]
  BY DEF Init
<1>2. TypeOK
  BY <1>1, AreaAssumption, Numbers DEF Init, TypeOK, Protections
<1>3. EndsInLastPage /\ ErrSaysWhere
  BY Numbers DEF Init, EndsInLastPage, ErrSaysWhere
<1>4. OpenFront /\ SealedFront
  BY <1>1, Numbers DEF Init, OpenFront, SealedFront, FrontIs, Pages
<1> QED
  BY <1>2, <1>3, <1>4 DEF Shape

\* What Protect does to each page.
LEMMA ProtectEach ==
  ASSUME TypeOK, NEW pages, NEW access \in {"rw", "rx"}, Protect(pages, access)
  PROVE  /\ prot' \in [0..Reserved -> Protections]
         /\ \A p \in 0..Reserved : prot'[p] = IF p \in pages THEN access ELSE prot[p]
  BY DEF TypeOK, Protect, Protections

\* Room for one more piece: where the code ends afterwards.
LEMMA RoomForPiece ==
  ASSUME TypeOK, EndsInLastPage, ErrSaysWhere, ~err, NEW length \in 1..MaxPiece
  PROVE  LET pages == PagesAfter(length)
         IN  /\ pages \in 1..(Reserved + 1) /\ pages >= allocated
             /\ (pages - 1) * PageSize <= size + length
             /\ size + length < pages * PageSize
<1> DEFINE filled == (size + length) \div PageSize
<1>1. size \in Nat /\ length \in Nat /\ length < PageSize /\ allocated \in Nat /\ allocated <= Reserved
  BY AreaAssumption, Numbers DEF TypeOK, ErrSaysWhere
<1>2. filled \in Nat /\ filled * PageSize <= size + length /\ size + length < (filled + 1) * PageSize
  BY <1>1, Numbers, FilledPages
<1>3. allocated > 0 => (allocated - 1) * PageSize <= size
  BY <1>1, Numbers DEF EndsInLastPage
<1>4. size <= Reserved * PageSize
  <2>1. 1 * PageSize <= Reserved * PageSize /\ allocated * PageSize <= Reserved * PageSize
    BY <1>1, Numbers, PagesGrow
  <2>2. allocated * PageSize \in Int /\ Reserved * PageSize \in Int /\ 1 * PageSize = PageSize
    BY <1>1, Numbers
  <2>3. size <= PageSize \/ size < allocated * PageSize
    BY <1>1, Numbers DEF EndsInLastPage
  <2> QED
    BY <1>1, <2>1, <2>2, <2>3, Numbers
<1>5. filled <= Reserved
  <2>1. filled * PageSize < (Reserved + 1) * PageSize
    <3>1. (Reserved + 1) * PageSize = Reserved * PageSize + PageSize
      BY Numbers
    <3>2. filled * PageSize \in Int /\ Reserved * PageSize \in Int
      BY <1>2, Numbers
    <3> QED
      BY <1>1, <1>2, <1>4, <3>1, <3>2, Numbers
  <2>2. filled < Reserved + 1
    BY <1>2, <2>1, Numbers, PagesGrow
  <2> QED
    BY <1>2, <2>2, Numbers
<1>6. CASE filled + 1 > allocated
  <2>1. PagesAfter(length) = filled + 1
    BY <1>6 DEF PagesAfter, PagesFor
  <2>2. (filled + 1) - 1 = filled
    BY <1>2
  <2> QED
    BY <1>1, <1>2, <1>5, <1>6, <2>1, <2>2, Numbers
<1>7. CASE ~(filled + 1 > allocated)
  <2>1. PagesAfter(length) = allocated
    BY <1>7 DEF PagesAfter, PagesFor
  <2>2. (filled + 1) * PageSize <= allocated * PageSize /\ allocated > 0
    BY <1>1, <1>2, <1>7, Numbers, PagesGrow
  <2>3. (filled + 1) * PageSize \in Int /\ allocated * PageSize \in Int
        /\ (allocated - 1) * PageSize \in Int
    BY <1>1, <1>2, Numbers
  <2>4. size + length < allocated * PageSize
    BY <1>1, <1>2, <2>2, <2>3
  <2>5. (allocated - 1) * PageSize <= size + length
    BY <1>1, <1>3, <2>2, <2>3
  <2> QED
    BY <1>1, <2>1, <2>2, <2>4, <2>5, Numbers
<1> QED
  BY <1>6, <1>7

-----------------------------------------------------------------------------
(* The steps of the area *)

\* A piece that is stored keeps the shape.
LEMMA StoreKeepsShape ==
  ASSUME TypeOK, Shape, area = "open", NEW length \in 1..MaxPiece, Store(length)
  PROVE  (TypeOK /\ Shape)'
<1>1. /\ ~err /\ allocated' = PagesAfter(length) /\ size' = size + length
      /\ area' = area /\ Protect(allocated..(allocated' - 1), "rw")
      /\ err' = (allocated' > Reserved)
  BY Zenon DEF Store
<1>2. /\ allocated' \in 1..(Reserved + 1) /\ allocated' >= allocated
      /\ (allocated' - 1) * PageSize <= size' /\ size' < allocated' * PageSize
  BY <1>1, RoomForPiece DEF Shape
<1>3. /\ prot' \in [0..Reserved -> Protections]
      /\ \A p \in 0..Reserved :
           prot'[p] = IF p \in allocated..(allocated' - 1) THEN "rw" ELSE prot[p]
  BY <1>1, ProtectEach
<1>4. size \in Nat /\ allocated \in Nat /\ length \in Nat /\ size' \in Nat /\ allocated' \in Nat
  BY <1>1, <1>2, Numbers DEF TypeOK
<1>5. TypeOK'
  <2>1. err' \in BOOLEAN
    <3>1. (allocated' > Reserved) \in BOOLEAN
      OBVIOUS
    <3> QED
      BY <1>1, <3>1, Zenon
  <2> QED
    BY <1>1, <1>3, <1>4, <2>1 DEF TypeOK
<1>6. EndsInLastPage'
  BY <1>1, <1>2, <1>4, Numbers DEF Shape, EndsInLastPage
<1>7. ErrSaysWhere'
  <2>1. err' <=> allocated' > Reserved
    BY <1>1, Zenon
  <2> QED
    BY <1>2, <2>1, Numbers DEF ErrSaysWhere
<1>8. OpenFront'
  <2>1. SUFFICES ASSUME NEW p \in 0..Reserved
                 PROVE  /\ p < allocated' => prot'[p] = "rw"
                        /\ p \in Pages /\ p >= allocated' => prot'[p] = "none"
    BY DEF OpenFront, FrontIs
  <2>2. p < allocated => prot[p] = "rw"
    BY DEF Shape, OpenFront, FrontIs
  <2>3. p \in Pages /\ p >= allocated => prot[p] = "none"
    BY DEF Shape, OpenFront, FrontIs
  <2>4. prot'[p] = IF p \in allocated..(allocated' - 1) THEN "rw" ELSE prot[p]
    BY <1>3, <2>1
  <2>5. p \in Nat /\ allocated <= allocated'
    BY <1>2, <1>4, <2>1, Numbers
  <2>6. /\ p < allocated' => p < allocated \/ p \in allocated..(allocated' - 1)
        /\ p >= allocated' => p >= allocated /\ p \notin allocated..(allocated' - 1)
        /\ p \in allocated..(allocated' - 1) => ~(p < allocated)
    BY <1>4, <2>5, SplitFront
  <2> QED
    BY <2>2, <2>3, <2>4, <2>6, Zenon
<1>9. SealedFront'
  BY <1>1 DEF SealedFront
<1> QED
  BY <1>5, <1>6, <1>7, <1>8, <1>9 DEF Shape

\* Sealing gives every accessible page the new protection.
LEMMA SealingKeepsShape ==
  ASSUME TypeOK, Shape, ~err, MakeExecutable
  PROVE  (TypeOK /\ Shape)'
<1>1. /\ area = "open" /\ area' = "sealed" /\ size' = size /\ allocated' = allocated /\ err' = err
      /\ Protect(0..(allocated - 1), "rx")
  BY DEF MakeExecutable, bookkeeping
<1>2. allocated \in Nat
  BY DEF TypeOK
<1>3. /\ prot' \in [0..Reserved -> Protections]
      /\ \A p \in 0..Reserved :
           prot'[p] = IF p \in 0..(allocated - 1) THEN "rx" ELSE prot[p]
  BY <1>1, ProtectEach
<1>4. TypeOK'
  BY <1>1, <1>3 DEF TypeOK
<1>5. EndsInLastPage' /\ ErrSaysWhere' /\ OpenFront'
  BY <1>1 DEF Shape, EndsInLastPage, ErrSaysWhere, OpenFront
<1>6. SealedFront'
  <2>1. SUFFICES ASSUME NEW p \in 0..Reserved
                 PROVE  /\ p < allocated => prot'[p] = "rx"
                        /\ p \in Pages /\ p >= allocated => prot'[p] = "none"
    BY <1>1 DEF SealedFront, FrontIs
  <2>2. p \in Pages /\ p >= allocated => prot[p] = "none"
    BY <1>1 DEF Shape, OpenFront, FrontIs
  <2> QED
    BY <1>2, <1>3, <2>2
<1> QED
  BY <1>4, <1>5, <1>6 DEF Shape

\* An area that is gone, or whose process is, has no protections to keep.
LEMMA EndingKeepsShape ==
  ASSUME TypeOK, Shape, area' \in {"gone", "exited"}, UNCHANGED bookkeeping,
         prot' \in [0..Reserved -> Protections]
  PROVE  (TypeOK /\ Shape)'
<1>1. size' = size /\ allocated' = allocated /\ err' = err
  BY DEF bookkeeping
<1>2. TypeOK'
  BY <1>1 DEF TypeOK
<1>3. EndsInLastPage' /\ ErrSaysWhere'
  BY <1>1 DEF Shape, EndsInLastPage, ErrSaysWhere
<1>4. OpenFront' /\ SealedFront'
  BY DEF OpenFront, SealedFront
<1> QED
  BY <1>2, <1>3, <1>4 DEF Shape

\* Every step keeps the shape.
LEMMA NextShape ==
  TypeOK /\ Shape /\ [Next]_areaVars => (TypeOK /\ Shape)'
<1> SUFFICES ASSUME TypeOK, Shape, [Next]_areaVars PROVE (TypeOK /\ Shape)'
  OBVIOUS
<1>1. prot \in [0..Reserved -> Protections]
  BY DEF TypeOK
<1>2. ASSUME NEW length \in 1..MaxPiece, EmitData(length) PROVE (TypeOK /\ Shape)'
  <2>1. CASE Store(length)
    BY <1>2, <2>1, StoreKeepsShape DEF EmitData
  <2>2. CASE Ignore
    BY <2>2 DEF Ignore, areaVars, bookkeeping, TypeOK, Shape, EndsInLastPage, ErrSaysWhere,
                OpenFront, SealedFront, FrontIs
  <2> QED
    BY <1>2, <2>1, <2>2 DEF EmitData
<1>3. ASSUME NEW length \in 1..MaxPiece, EmitFails(length) PROVE (TypeOK /\ Shape)'
  BY <1>1, <1>3, EndingKeepsShape DEF EmitFails
<1>4. CASE GiveUp
  BY <1>1, <1>4, EndingKeepsShape DEF GiveUp
<1>5. CASE ~err /\ MakeExecutable
  BY <1>5, SealingKeepsShape
<1>6. CASE MakeExecutableFails
  BY <1>1, <1>6, EndingKeepsShape DEF MakeExecutableFails
<1>7. CASE Destroy
  <2>1. prot' \in [0..Reserved -> Protections]
    BY <1>1, <1>7 DEF Destroy, Protections
  <2> QED
    BY <1>7, <2>1, EndingKeepsShape DEF Destroy
<1>8. CASE UNCHANGED areaVars
  BY <1>8 DEF areaVars, bookkeeping, TypeOK, Shape, EndsInLastPage, ErrSaysWhere,
              OpenFront, SealedFront, FrontIs
<1> QED
  BY <1>2, <1>3, <1>4, <1>5, <1>6, <1>7, <1>8 DEF Next

-----------------------------------------------------------------------------
(* Theorems about the code area *)

\* In every reachable state the variables have their types and the accessible
\* pages are the first ones, the code ending in the last of them.
THEOREM AreaShape ==
  Spec => [](TypeOK /\ Shape)
  BY InitShape, NextShape, PTL DEF Spec

\* Sizes and counts of pages stay numbers, and every page has a protection.
THEOREM AreaTypeCorrect ==
  Spec => []TypeOK
  BY AreaShape, PTL

\* A page with code in it is an accessible one.
LEMMA CodeIsInFront ==
  ASSUME TypeOK, EndsInLastPage, NEW p \in CodePages
  PROVE  p \in 0..Reserved /\ p < allocated
<1>1. p \in 1..Reserved /\ p * PageSize < size /\ allocated \in Nat /\ size \in Nat
  BY DEF CodePages, TypeOK
<1>2. p * PageSize < allocated * PageSize => p < allocated
  BY <1>1, Numbers, PagesGrow
<1>3. size = PageSize => FALSE
  <2>1. 1 * PageSize <= p * PageSize
    BY <1>1, Numbers, PagesGrow
  <2>2. p * PageSize \in Int /\ 1 * PageSize = PageSize
    BY <1>1, Numbers
  <2> QED
    BY <1>1, <2>1, <2>2, Numbers
<1>4. p * PageSize \in Int /\ allocated * PageSize \in Int
  BY <1>1, Numbers
<1> QED
  BY <1>1, <1>2, <1>3, <1>4 DEF EndsInLastPage

\* EmitData and the patches write only where Protect made the memory
\* writable, however long the pieces are and however many there are.
THEOREM AllWrittenIsBacked ==
  Spec => []WrittenIsBacked
<1>1. TypeOK /\ Shape => WrittenIsBacked
  <2>1. SUFFICES ASSUME TypeOK, Shape, area \in {"open", "sealed"}, NEW p \in CodePages
                 PROVE  prot[p] = IF area = "open" THEN "rw" ELSE "rx"
    BY DEF WrittenIsBacked
  <2>2. p \in 0..Reserved /\ p < allocated
    BY <2>1, CodeIsInFront DEF Shape
  <2>3. CASE area = "open"
    BY <2>1, <2>2, <2>3 DEF Shape, OpenFront, FrontIs
  <2>4. CASE area = "sealed"
    BY <2>1, <2>2, <2>4 DEF Shape, SealedFront, FrontIs
  <2> QED
    BY <2>1, <2>3, <2>4
<1> QED
  BY <1>1, AreaShape, PTL

\* Where the code ends, as the error says it: inside the reservation, or past
\* all of it.
LEMMA ErrSplitsSizes ==
  ASSUME TypeOK, EndsInLastPage, ErrSaysWhere
  PROVE  /\ ~err => size <= Reserved * PageSize
         /\ err => size >= Reserved * PageSize
<1>1. size \in Nat /\ allocated \in Nat /\ Reserved * PageSize \in Int /\ allocated * PageSize \in Int
  BY Numbers DEF TypeOK
<1>2. ASSUME ~err PROVE size <= Reserved * PageSize
  <2>1. allocated <= Reserved
    BY <1>1, <1>2, Numbers DEF ErrSaysWhere
  <2>2. allocated * PageSize <= Reserved * PageSize /\ 1 * PageSize <= Reserved * PageSize
    BY <1>1, <2>1, Numbers, PagesGrow
  <2>3. 1 * PageSize = PageSize
    BY Numbers
  <2> QED
    BY <1>1, <2>2, <2>3, Numbers DEF EndsInLastPage
<1>3. ASSUME err PROVE size >= Reserved * PageSize
  <2>1. allocated = Reserved + 1 /\ allocated - 1 = Reserved
    BY <1>1, <1>3, Numbers DEF ErrSaysWhere
  <2> QED
    BY <1>1, <2>1, Numbers DEF EndsInLastPage
<1> QED
  BY <1>2, <1>3

\* Code is made executable only when all of it went in, and nothing of the
\* reservation stays writable.
THEOREM SealingIsForGood ==
  Spec => []SealedForGood
<1>1. TypeOK /\ Shape => SealedForGood
  <2>1. SUFFICES ASSUME TypeOK, Shape, area = "sealed"
                 PROVE  /\ ~err /\ size <= Reserved * PageSize
                        /\ \A p \in Pages : prot[p] # "rw"
    BY DEF SealedForGood
  <2>2. ~err /\ FrontIs("rx")
    BY <2>1 DEF Shape, SealedFront
  <2>3. size <= Reserved * PageSize
    BY <2>1, <2>2, ErrSplitsSizes DEF Shape
  <2>4. ASSUME NEW p \in Pages PROVE prot[p] # "rw"
    <3>1. p \in 0..Reserved /\ p \in Int /\ allocated \in Int
      BY <2>1, Numbers DEF Pages, TypeOK
    <3> QED
      BY <2>2, <3>1 DEF FrontIs
  <2> QED
    BY <2>2, <2>3, <2>4
<1> QED
  BY <1>1, AreaShape, PTL

\* OutOfMemory is never reported while the reservation has room.
THEOREM ErrorsAreFull ==
  Spec => []ErrMeansFull
<1>1. TypeOK /\ Shape => ErrMeansFull
  BY ErrSplitsSizes DEF Shape, ErrMeansFull
<1> QED
  BY <1>1, AreaShape, PTL

-----------------------------------------------------------------------------
(* Templates laid out in memory *)

\* A sequence of instructions none of which is empty.
IsTemplate(instrs) ==
  /\ Len(instrs) \in Nat /\ DOMAIN instrs = 1..Len(instrs)
  /\ \A k \in DOMAIN instrs : instrs[k].len \in Nat \ {0}

\* Each instruction ends its length behind the one before it.
EndsOneByOne(instrs, place, n, end) ==
  end[0] = place /\ \A k \in 1..n : end[k] = end[k - 1] + instrs[k].len

LEMMA EndsExist ==
  ASSUME NEW instrs, NEW place, NEW n \in Nat
  PROVE  \E end : end = [k \in 0..n |-> end[k]] /\ EndsOneByOne(instrs, place, n, end)
<1> DEFINE S == {m \in 0..n : \E end : end = [k \in 0..m |-> end[k]]
                                       /\ EndsOneByOne(instrs, place, m, end)}
<1>1. 0 \in S
  <2> DEFINE first == [k \in 0..0 |-> place]
  <2>1. first = [k \in 0..0 |-> first[k]] /\ EndsOneByOne(instrs, place, 0, first)
    BY DEF EndsOneByOne
  <2> HIDE DEF first
  <2> QED
    BY <2>1
<1>2. ASSUME NEW m \in 0..(n - 1), m \in S PROVE m + 1 \in S
  <2>1. PICK end : EndsOneByOne(instrs, place, m, end)
    BY <1>2
  <2> DEFINE longer == [k \in 0..(m + 1) |-> IF k = m + 1 THEN end[m] + instrs[m + 1].len ELSE end[k]]
  <2>2. m \in Nat /\ m + 1 \in 0..n /\ 0 # m + 1 /\ 0 \in 0..(m + 1)
    OBVIOUS
  <2>3. longer[0] = place
    BY <2>1, <2>2 DEF EndsOneByOne
  <2>4. ASSUME NEW k \in 1..(m + 1) PROVE longer[k] = longer[k - 1] + instrs[k].len
    <3>1. k \in 0..(m + 1) /\ k - 1 \in 0..(m + 1) /\ k - 1 # m + 1
      BY <2>2
    <3>2. CASE k = m + 1
      <4>1. k - 1 = m
        BY <2>2, <3>2
      <4> QED
        BY <3>1, <3>2, <4>1
    <3>3. CASE k # m + 1
      <4>1. k \in 1..m
        BY <2>2, <3>3
      <4> QED
        BY <2>1, <3>1, <3>3, <4>1 DEF EndsOneByOne
    <3> QED
      BY <3>2, <3>3
  <2>5. longer = [k \in 0..(m + 1) |-> longer[k]]
    OBVIOUS
  <2> HIDE DEF longer
  <2> QED
    BY <2>2, <2>3, <2>4, <2>5 DEF EndsOneByOne
<1>3. \A m \in 0..n : m \in S
  <2> HIDE DEF S
  <2> QED
    BY <1>1, <1>2, OneByOne
<1>4. n \in 0..n
  OBVIOUS
<1> QED
  BY <1>3, <1>4

LEMMA EndsFollow ==
  ASSUME NEW instrs, NEW place, Len(instrs) \in Nat
  PROVE  EndsOneByOne(instrs, place, Len(instrs), Ends(place, instrs))
<1> DEFINE n == Len(instrs)
           Defined(end) == [k \in 0..n |-> IF k = 0 THEN place ELSE end[k - 1] + instrs[k].len]
<1>1. \E end : end = Defined(end)
  <2>1. PICK end : end = [k \in 0..n |-> end[k]] /\ EndsOneByOne(instrs, place, n, end)
    BY EndsExist
  <2>2. \A k \in 0..n : end[k] = IF k = 0 THEN place ELSE end[k - 1] + instrs[k].len
    <3>1. \A k \in 0..n : k # 0 => k \in 1..n
      OBVIOUS
    <3> QED
      BY <2>1, <3>1 DEF EndsOneByOne
  <2>3. [k \in 0..n |-> end[k]] = Defined(end)
    BY <2>2
  <2> QED
    BY <2>1, <2>3
<1> DEFINE end == CHOOSE end : end = Defined(end)
<1>2. end = Defined(end)
  <2> HIDE DEF Defined
  <2> QED
    BY <1>1
<1>3. Ends(place, instrs) = end
  BY DEF Ends
<1> HIDE DEF end
<1>4. EndsOneByOne(instrs, place, n, end)
  BY <1>2 DEF EndsOneByOne
<1> QED
  BY <1>3, <1>4

\* The ends as numbers: later ones are greater.
LEMMA EndsGrow ==
  ASSUME NEW instrs, IsTemplate(instrs), NEW place \in Nat
  PROVE  /\ Ends(place, instrs)[0] = place
         /\ \A k \in 0..Len(instrs) : Ends(place, instrs)[k] \in Nat
         /\ \A k \in 1..Len(instrs) : Ends(place, instrs)[k] = Ends(place, instrs)[k - 1] + instrs[k].len
         /\ \A k \in 0..Len(instrs) : \A j \in 0..(k - 1) : Ends(place, instrs)[j] < Ends(place, instrs)[k]
<1> DEFINE n == Len(instrs)
           end == Ends(place, instrs)
           S == {k \in 0..n : end[k] \in Nat /\ \A j \in 0..(k - 1) : end[j] \in Nat /\ end[j] < end[k]}
<1>1. n \in Nat /\ DOMAIN instrs = 1..n /\ \A k \in 1..n : instrs[k].len \in Nat \ {0}
  BY DEF IsTemplate
<1>2. end[0] = place /\ \A k \in 1..n : end[k] = end[k - 1] + instrs[k].len
  BY <1>1, EndsFollow DEF EndsOneByOne
<1> HIDE DEF end
<1>3. 0 \in S
  BY <1>1, <1>2
<1>4. ASSUME NEW k \in 0..(n - 1), k \in S PROVE k + 1 \in S
  <2>1. k + 1 \in 1..n /\ (k + 1) - 1 = k /\ k + 1 \in 0..n
    BY <1>1
  <2>2. end[k + 1] = end[k] + instrs[k + 1].len /\ instrs[k + 1].len \in Nat \ {0}
    BY <1>1, <1>2, <2>1
  <2>3. end[k] \in Nat /\ \A j \in 0..(k - 1) : end[j] \in Nat /\ end[j] < end[k]
    BY <1>4
  <2>4. end[k + 1] \in Nat /\ end[k] < end[k + 1]
    BY <2>2, <2>3
  <2>5. ASSUME NEW j \in 0..((k + 1) - 1) PROVE end[j] \in Nat /\ end[j] < end[k + 1]
    <3>1. j = k \/ j \in 0..(k - 1)
      BY <1>1
    <3> QED
      BY <2>3, <2>4, <3>1
  <2> QED
    BY <2>1, <2>4, <2>5
<1>5. \A k \in 0..n : k \in S
  <2> HIDE DEF S
  <2> QED
    BY <1>1, <1>3, <1>4, OneByOne
<1> QED
  BY <1>2, <1>5 DEF end

\* Laid out elsewhere, a template is as long.
LEMMA EndsMove ==
  ASSUME NEW instrs, IsTemplate(instrs), NEW place \in Nat
  PROVE  \A k \in 0..Len(instrs) : Ends(place, instrs)[k] = place + Ends(0, instrs)[k]
<1> DEFINE n == Len(instrs)
           end == Ends(place, instrs)
           from == Ends(0, instrs)
           S == {k \in 0..n : end[k] = place + from[k]}
<1>1. n \in Nat /\ \A k \in 1..n : instrs[k].len \in Nat
  BY DEF IsTemplate
<1>2. /\ end[0] = place /\ \A k \in 1..n : end[k] = end[k - 1] + instrs[k].len
      /\ from[0] = 0 /\ \A k \in 1..n : from[k] = from[k - 1] + instrs[k].len
      /\ \A k \in 0..n : from[k] \in Nat
  BY EndsGrow
<1> HIDE DEF end, from
<1>3. 0 \in S
  BY <1>1, <1>2
<1>4. ASSUME NEW k \in 0..(n - 1), k \in S PROVE k + 1 \in S
  <2>1. k + 1 \in 1..n /\ (k + 1) - 1 = k /\ k + 1 \in 0..n /\ k \in 0..n
    BY <1>1
  <2>2. /\ end[k + 1] = end[k] + instrs[k + 1].len /\ from[k + 1] = from[k] + instrs[k + 1].len
        /\ instrs[k + 1].len \in Nat /\ from[k] \in Nat /\ end[k] = place + from[k]
    BY <1>1, <1>2, <1>4, <2>1
  <2> QED
    BY <2>1, <2>2
<1>5. \A k \in 0..n : k \in S
  <2> HIDE DEF S
  <2> QED
    BY <1>1, <1>3, <1>4, OneByOne
<1> QED
  BY <1>5 DEF end, from

\* Every instruction of AArch64 is four bytes long.
LEMMA EndsByFours ==
  ASSUME NEW instrs, IsTemplate(instrs), NEW place \in Nat, \A k \in DOMAIN instrs : instrs[k].len = 4
  PROVE  \A k \in 0..Len(instrs) : Ends(place, instrs)[k] = place + 4 * k
<1> DEFINE n == Len(instrs)
           end == Ends(place, instrs)
           S == {k \in 0..n : end[k] = place + 4 * k}
<1>1. n \in Nat /\ \A k \in 1..n : instrs[k].len = 4
  BY DEF IsTemplate
<1>2. end[0] = place /\ \A k \in 1..n : end[k] = end[k - 1] + instrs[k].len
  BY EndsGrow
<1> HIDE DEF end
<1>3. 0 \in S
  BY <1>1, <1>2
<1>4. ASSUME NEW k \in 0..(n - 1), k \in S PROVE k + 1 \in S
  <2>1. k + 1 \in 1..n /\ (k + 1) - 1 = k /\ k + 1 \in 0..n /\ k \in Nat
    BY <1>1
  <2>2. end[k + 1] = end[k] + 4 /\ end[k] = place + 4 * k
    BY <1>1, <1>2, <1>4, <2>1
  <2>3. end[k + 1] = place + 4 * (k + 1)
    BY <2>1, <2>2
  <2> QED
    BY <2>1, <2>3
<1>5. \A k \in 0..n : k \in S
  <2> HIDE DEF S
  <2> QED
    BY <1>1, <1>3, <1>4, OneByOne
<1> QED
  BY <1>5 DEF end

\* Each instruction of a template is where the one before it ends.
LEMMA PlacedInstructions ==
  ASSUME NEW instrs, IsTemplate(instrs), NEW place \in Nat
  PROVE  /\ DOMAIN Placed(place, instrs) = {Ends(place, instrs)[k - 1] : k \in 1..Len(instrs)}
         /\ \A k \in 1..Len(instrs) : Placed(place, instrs)[Ends(place, instrs)[k - 1]] = instrs[k]
         /\ Ends(place, instrs)[Len(instrs)] = place + CodeLength(instrs)
         /\ CodeLength(instrs) \in Nat
<1> DEFINE n == Len(instrs)
           end == Ends(place, instrs)
<1>1. n \in Nat /\ DOMAIN instrs = 1..n /\ n \in 0..n
  BY DEF IsTemplate
<1>2. \A k \in 0..n : end[k] \in Nat /\ \A j \in 0..(k - 1) : end[j] < end[k]
  BY EndsGrow
<1>3. Placed(place, instrs) = [b \in {end[k - 1] : k \in 1..n} |-> instrs[CHOOSE k \in 1..n : end[k - 1] = b]]
  BY <1>1 DEF Placed
<1>4. end[n] = place + CodeLength(instrs) /\ CodeLength(instrs) \in Nat
  BY <1>1, EndsMove, EndsGrow DEF CodeLength
<1> HIDE DEF end
<1>5. ASSUME NEW k \in 1..n PROVE (CHOOSE j \in 1..n : end[j - 1] = end[k - 1]) = k
  <2>1. ASSUME NEW j \in 1..n, end[j - 1] = end[k - 1] PROVE j = k
    <3>1. /\ j - 1 \in 0..n /\ k - 1 \in 0..n
          /\ j < k => j - 1 \in 0..((k - 1) - 1)
          /\ k < j => k - 1 \in 0..((j - 1) - 1)
      BY <1>1
    <3>2. end[j - 1] \in Nat /\ end[k - 1] \in Nat
      BY <1>2, <3>1
    <3>3. ~(j < k) /\ ~(k < j)
      BY <1>2, <2>1, <3>1, <3>2
    <3> QED
      BY <1>1, <3>3
  <2> QED
    BY <2>1
<1>6. ASSUME NEW k \in 1..n PROVE Placed(place, instrs)[end[k - 1]] = instrs[k]
  <2>1. end[k - 1] \in {end[j - 1] : j \in 1..n}
    OBVIOUS
  <2>2. Placed(place, instrs)[end[k - 1]] = instrs[CHOOSE j \in 1..n : end[j - 1] = end[k - 1]]
    BY <1>3, <2>1
  <2> QED
    BY <1>5, <2>2
<1> HIDE DEF n
<1>7. DOMAIN Placed(place, instrs) = {end[k - 1] : k \in 1..n}
  BY <1>3
<1> QED
  BY <1>4, <1>6, <1>7 DEF end, n

-----------------------------------------------------------------------------
(* The inductive invariant of the compiler *)

\* Code is in the area, all that was translated so far.
Working == phase \in {"operations", "jumps", "sealing", "compiled"}

\* Where the code of each translated operation starts, and where the last ends.
Bounds == IF phase = "operations" THEN Append(starts, size) ELSE starts

BodyStart == PageSize + CodeLength(Entry)
BodyEnd   == Bounds[translated + 1]
Body      == BodyStart..BodyEnd

\* A translated jump ends in the branch to be patched.
JumpLength == IF target = "x86-64" THEN 6 ELSE 4
SlotOf(i)  == Bounds[i + 1] - JumpLength

\* The registers that lead to what was saved.
Frame == {"rsp", "rbp", "sp"}

\* An instruction that leaves the stack alone, but for the slot of rdx.
Harmless(i) ==
  /\ i.do \notin {"push", "pop", "ret"}
  /\ i.do \in {"move", "set", "movk", "addimm", "add", "madd", "load", "loadlow", "restore"}
       => i.to \notin Frame
  /\ i.do = "save" => i.base = "rbp"

\* The instructions of AArch64 have one length, and none of them saves rdx.
OfARM(i) == i.len = 4 /\ i.do # "save"

BoundsInOrder ==
  /\ translated \in 0..Len(stream) /\ ~err
  /\ phase # "operations" => translated = Len(stream)
  /\ starts \in Seq(Nat) /\ Len(Bounds) = translated + 1
  /\ Bounds \in Seq(Nat) /\ Bounds[1] = BodyStart
  /\ \A i \in 1..(translated + 1) : \A j \in i..(translated + 1) : Bounds[i] <= Bounds[j]
  /\ phase \in {"operations", "jumps"} => size = BodyEnd
  /\ phase \in {"sealing", "compiled"} => size = BodyEnd + CodeLength(Exit)

\* No two instructions overlap.
CodeInOrder ==
  /\ \A b \in DOMAIN code :
       /\ b \in Nat /\ code[b].len \in Nat \ {0}
       /\ b >= PageSize /\ b + code[b].len <= size
  /\ \A b, c \in DOMAIN code : b < c => b + code[b].len <= c

\* A template is where it was laid out.
LaidOut(c, place, instrs) ==
  \A k \in 1..Len(instrs) :
    /\ Ends(place, instrs)[k - 1] \in DOMAIN c
    /\ c[Ends(place, instrs)[k - 1]] = instrs[k]

\* Between entry and exit nothing touches the stack, and nothing leads out.
BodyHarmless ==
  \A b \in DOMAIN code : BodyStart <= b /\ b < BodyEnd =>
    /\ Harmless(code[b])
    /\ target = "aarch64" => OfARM(code[b])
    /\ code[b].do = "branch" =>
         \/ b + code[b].len + code[b].distance \in Body
         \/ \E i \in 1..translated : IsJump(stream[i]) /\ b = SlotOf(i)

\* What is remembered of a jump and of a label.
JumpNote(i)  == [op |-> stream[i], behind |-> Bounds[i + 1]]
LabelNote(i) == [id |-> stream[i].id, at |-> Bounds[i]]

JumpNotes  == {JumpNote(i) : i \in {q \in 1..translated : IsJump(stream[q])}}
LabelNotes == {LabelNote(i) : i \in {q \in 1..translated : stream[q].code = "LABEL"}}

Target(i) == Position(stream, stream[i].op1)

\* The branch it gets.
BranchOf(i) == Jump(stream[i].code, Bounds[Target(i)] - Bounds[i + 1])

\* A jump waits for its distance, or it has got it.
JumpsSlotted ==
  \A i \in 1..translated : IsJump(stream[i]) =>
    /\ SlotOf(i) \in DOMAIN code /\ code[SlotOf(i)].len = JumpLength
    /\ Bounds[i] <= SlotOf(i)
    /\ \/ \E n \in DOMAIN jumps : jumps[n] = JumpNote(i)
       \/ /\ phase # "operations"
          /\ code[SlotOf(i)] = BranchOf(i)

Noted ==
  /\ jumps \in Seq(JumpNotes) /\ labels \in Seq(LabelNotes)
  /\ \A i \in 1..translated : stream[i].code = "LABEL" =>
       \E n \in DOMAIN labels : labels[n] = LabelNote(i)
  /\ phase \in {"sealing", "compiled"} => jumps = <<>>

\* AArch64 counts in instructions.
Aligned ==
  target = "aarch64" => \A i \in 1..(translated + 1) : (Bounds[i] - BodyStart) % 4 = 0

Layout ==
  /\ BoundsInOrder /\ CodeInOrder
  /\ LaidOut(code, PageSize, Entry)
  /\ phase \in {"sealing", "compiled"} => LaidOut(code, BodyEnd, Exit)
  /\ BodyHarmless /\ JumpsSlotted /\ Noted /\ Aligned

\* The area is empty until the stream is done.
Untouched ==
  /\ code = <<>> /\ size = PageSize /\ ~err
  /\ translated = 0 /\ jumps = <<>> /\ labels = <<>> /\ starts = <<>>

-----------------------------------------------------------------------------
(* The templates *)

\* An instruction that just goes on to the next one.
Plain(i) ==
  /\ i.len \in Nat \ {0} /\ Harmless(i) /\ i.do # "branch"
  /\ target = "aarch64" => OfARM(i)

IsPlain(instrs) == \E S : instrs \in Seq(S) /\ \A i \in S : Plain(i)

LEMMA PlainOf ==
  ASSUME NEW S, NEW instrs, instrs \in Seq(S), \A i \in S : Plain(i)
  PROVE  IsPlain(instrs)
BY DEF IsPlain

LEMMA PlainTogether ==
  ASSUME NEW left, NEW right, IsPlain(left), IsPlain(right)
  PROVE  IsPlain(left \o right)
<1>1. PICK S : left \in Seq(S) /\ \A i \in S : Plain(i)
  BY DEF IsPlain
<1>2. PICK T : right \in Seq(T) /\ \A i \in T : Plain(i)
  BY DEF IsPlain
<1>3. left \in Seq(S \cup T) /\ right \in Seq(S \cup T)
  BY <1>1, <1>2
<1>4. left \o right \in Seq(S \cup T)
  BY <1>3
<1> QED
  BY <1>1, <1>2, <1>4 DEF IsPlain

LEMMA PlainTemplate ==
  ASSUME NEW instrs, IsPlain(instrs)
  PROVE  IsTemplate(instrs) /\ \A k \in DOMAIN instrs : Plain(instrs[k])
<1>1. PICK S : instrs \in Seq(S) /\ \A i \in S : Plain(i)
  BY DEF IsPlain
<1>2. Len(instrs) \in Nat /\ DOMAIN instrs = 1..Len(instrs)
  BY <1>1
<1>3. \A k \in DOMAIN instrs : Plain(instrs[k])
  BY <1>1
<1> QED
  BY <1>2, <1>3 DEF IsTemplate, Plain

LEMMA PlainNone == IsPlain(<<>>)
<1> DEFINE S == {}
           none == <<>>
<1>1. none \in Seq(S) /\ \A i \in S : Plain(i)
  OBVIOUS
<1> HIDE DEF S, none
<1>2. IsPlain(none)
  BY <1>1, PlainOf
<1> QED
  BY <1>2 DEF none

LEMMA PlainOne ==
  ASSUME NEW a, Plain(a)
  PROVE  IsPlain(<<a>>)
<1> DEFINE S == {a}
           instrs == <<a>>
<1>1. instrs \in Seq(S) /\ \A i \in S : Plain(i)
  OBVIOUS
<1> HIDE DEF S, instrs
<1>2. IsPlain(instrs)
  BY <1>1, PlainOf
<1> QED
  BY <1>2 DEF instrs

LEMMA PlainTwo ==
  ASSUME NEW a, NEW b, Plain(a), Plain(b)
  PROVE  IsPlain(<<a, b>>)
<1> DEFINE S == {a, b}
           instrs == <<a, b>>
<1>1. instrs \in Seq(S) /\ \A i \in S : Plain(i)
  OBVIOUS
<1> HIDE DEF S, instrs
<1>2. IsPlain(instrs)
  BY <1>1, PlainOf
<1> QED
  BY <1>2 DEF instrs

LEMMA PlainThree ==
  ASSUME NEW a, NEW b, NEW c, Plain(a), Plain(b), Plain(c)
  PROVE  IsPlain(<<a, b, c>>)
<1> DEFINE S == {a, b, c}
           instrs == <<a, b, c>>
<1>1. instrs \in Seq(S) /\ \A i \in S : Plain(i)
  OBVIOUS
<1> HIDE DEF S, instrs
<1>2. IsPlain(instrs)
  BY <1>1, PlainOf
<1> QED
  BY <1>2 DEF instrs

LEMMA PlainFour ==
  ASSUME NEW a, NEW b, NEW c, NEW d, Plain(a), Plain(b), Plain(c), Plain(d)
  PROVE  IsPlain(<<a, b, c, d>>)
<1> DEFINE S == {a, b, c, d}
           instrs == <<a, b, c, d>>
<1>1. instrs \in Seq(S) /\ \A i \in S : Plain(i)
  OBVIOUS
<1> HIDE DEF S, instrs
<1>2. IsPlain(instrs)
  BY <1>1, PlainOf
<1> QED
  BY <1>2 DEF instrs

LEMMA PlainFive ==
  ASSUME NEW a, NEW b, NEW c, NEW d, NEW e,
         Plain(a), Plain(b), Plain(c), Plain(d), Plain(e)
  PROVE  IsPlain(<<a, b, c, d, e>>)
<1> DEFINE S == {a, b, c, d, e}
           instrs == <<a, b, c, d, e>>
<1>1. instrs \in Seq(S) /\ \A i \in S : Plain(i)
  OBVIOUS
<1> HIDE DEF S, instrs
<1>2. IsPlain(instrs)
  BY <1>1, PlainOf
<1> QED
  BY <1>2 DEF instrs

LEMMA PlainSix ==
  ASSUME NEW a, NEW b, NEW c, NEW d, NEW e, NEW f,
         Plain(a), Plain(b), Plain(c), Plain(d), Plain(e), Plain(f)
  PROVE  IsPlain(<<a, b, c, d, e, f>>)
<1> DEFINE S == {a, b, c, d, e, f}
           instrs == <<a, b, c, d, e, f>>
<1>1. instrs \in Seq(S) /\ \A i \in S : Plain(i)
  OBVIOUS
<1> HIDE DEF S, instrs
<1>2. IsPlain(instrs)
  BY <1>1, PlainOf
<1> QED
  BY <1>2 DEF instrs

\* A template that repeats one instruction.
LEMMA PlainAgain ==
  ASSUME NEW a, Plain(a)
  PROVE  IsPlain([k \in 1..4 |-> a])
<1> DEFINE S == {a}
           instrs == [k \in 1..4 |-> a]
<1>1. instrs \in Seq(S) /\ \A i \in S : Plain(i)
  OBVIOUS
<1> HIDE DEF S, instrs
<1>2. IsPlain(instrs)
  BY <1>1, PlainOf
<1> QED
  BY <1>2 DEF instrs

\* The instructions of x86-64 but branches, as long as they write no register
\* of the frame.
LEMMA PlainInX86 ==
  ASSUME target = "x86-64"
  PROVE  /\ \A off, value : Plain(X86!AddByte(off, value))
         /\ \A off, value : Plain(X86!MoveByte(off, value))
         /\ \A off, sign : Plain(X86!AddLow(off, sign))
         /\ Plain(X86!LoadLow("rax")) /\ Plain(X86!LoadLow("rbx"))
         /\ Plain(X86!Mul)
         /\ Plain(X86!SaveCell) /\ Plain(X86!RestoreCell)
         /\ \A value : Plain(X86!Compare(value))
         /\ Plain(X86!Nop(1))
         /\ \A to, from : to \notin Frame => Plain(X86!Move(to, from, 3))
         /\ \A to, value : \A len \in Nat \ {0} :
              to \notin Frame => Plain(X86!Set(to, value, len))
         /\ \A to, from, value : \A len \in Nat \ {0} :
              to \notin Frame => Plain(X86!AddImm(to, from, value, len))
         /\ \A fn : Plain(X86!Call(fn, 2))
<1>1. ASSUME NEW off
      PROVE  /\ 3 + X86!DispLen(off) \in Nat \ {0}
             /\ 2 + X86!EncLen(off) \in Nat \ {0}
  <2>1. X86!EncLen(off) \in {1, 4} /\ X86!DispLen(off) \in {0, 1, 4}
    BY DEF X86!EncLen, X86!DispLen
  <2> QED
    BY <2>1
<1> USE DEF Plain, Harmless, OfARM
<1>2. ASSUME NEW off, NEW value
      PROVE  Plain(X86!AddByte(off, value)) /\ Plain(X86!MoveByte(off, value))
  BY <1>1 DEF X86!AddByte, X86!MoveByte
<1>3. ASSUME NEW off, NEW sign PROVE Plain(X86!AddLow(off, sign))
  BY <1>1 DEF X86!AddLow
<1>4. /\ Plain(X86!LoadLow("rax")) /\ Plain(X86!LoadLow("rbx"))
      /\ Plain(X86!Mul) /\ \A value : Plain(X86!Compare(value))
  BY DEF X86!LoadLow, X86!Mul, X86!Compare, Frame
<1>5. Plain(X86!SaveCell) /\ Plain(X86!RestoreCell)
  BY DEF X86!SaveCell, X86!RestoreCell, Frame
<1>6. Plain(X86!Nop(1)) /\ \A fn : Plain(X86!Call(fn, 2))
  BY DEF X86!Nop, X86!Call
<1>7. \A to, from : to \notin Frame => Plain(X86!Move(to, from, 3))
  BY DEF X86!Move
<1>8. ASSUME NEW to, to \notin Frame, NEW from, NEW value, NEW len \in Nat \ {0}
      PROVE  Plain(X86!Set(to, value, len)) /\ Plain(X86!AddImm(to, from, value, len))
  BY <1>8 DEF X86!Set, X86!AddImm
<1> QED
  BY <1>2, <1>3, <1>4, <1>5, <1>6, <1>7, <1>8

\* The templates of x86-64 for all operations but jumps, searches and labels.
LEMMA PlainTemplatesX86 ==
  ASSUME target = "x86-64", NEW amount, NEW off, NEW mode
  PROVE  /\ IsPlain(X86!EmitNop)
         /\ IsPlain(X86!EmitIncrCell(amount, off))
         /\ IsPlain(X86!EmitDecrCell(amount, off))
         /\ IsPlain(X86!EmitImullCell(amount, off))
         /\ IsPlain(X86!EmitDmullCell(amount, off))
         /\ IsPlain(X86!EmitSetCell(amount, off))
         /\ IsPlain(X86!EmitIncrPtr(amount)) /\ IsPlain(X86!EmitDecrPtr(amount))
         /\ IsPlain(X86!EmitRead(mode)) /\ IsPlain(X86!EmitWrite)
<1>1. /\ "rdx" \notin Frame /\ "r8" \notin Frame /\ "rax" \notin Frame
      /\ "rdi" \notin Frame /\ "rsi" \notin Frame
  BY DEF Frame
<1>2. IsPlain(X86!EmitNop)
  BY PlainInX86, PlainAgain DEF X86!EmitNop
<1>3. IsPlain(X86!EmitIncrCell(amount, off)) /\ IsPlain(X86!EmitDecrCell(amount, off))
  BY PlainInX86, PlainOne DEF X86!EmitIncrCell, X86!EmitDecrCell
<1>4. IsPlain(X86!EmitSetCell(amount, off))
  BY PlainInX86, PlainOne DEF X86!EmitSetCell
<1>5. IsPlain(X86!Product(amount))
  BY <1>1, PlainInX86, PlainOne, PlainFive DEF X86!Product
<1>6. IsPlain(X86!EmitImullCell(amount, off)) /\ IsPlain(X86!EmitDmullCell(amount, off))
  <2>1. IsPlain(<<X86!AddLow(off, 1)>>) /\ IsPlain(<<X86!AddLow(off, -1)>>)
    BY PlainInX86, PlainOne
  <2> QED
    BY <1>5, <2>1, PlainTogether DEF X86!EmitImullCell, X86!EmitDmullCell
<1>7. IsPlain(X86!EmitIncrPtr(amount)) /\ IsPlain(X86!EmitDecrPtr(amount))
  <2>1. 3 + X86!EncLen(amount) \in Nat \ {0}
    BY DEF X86!EncLen
  <2> QED
    BY <1>1, <2>1, PlainInX86, PlainOne DEF X86!EmitIncrPtr, X86!EmitDecrPtr
<1>8. IsPlain(X86!EmitRead(mode))
  BY <1>1, PlainInX86, PlainSix DEF X86!EmitRead
<1>9. IsPlain(X86!EmitWrite)
  BY <1>1, PlainInX86, PlainFive DEF X86!EmitWrite
<1> QED
  BY <1>2, <1>3, <1>4, <1>6, <1>7, <1>8, <1>9

\* The instructions of AArch64 but branches, pushes and pops, as long as they
\* do not write the stack pointer.
LEMMA PlainInARM ==
  ASSUME target = "aarch64"
  PROVE  \A to : to \notin Frame =>
           /\ \A left, right : Plain(ARM!ADD(to, left, right))
           /\ \A left, right : Plain(ARM!SUB(to, left, right))
           /\ \A from, value : Plain(ARM!ADDI(to, from, value))
           /\ \A from, value : Plain(ARM!SUBI(to, from, value))
           /\ \A left, right, acc, sign : Plain(ARM!MADD(to, left, right, acc, sign))
           /\ \A base, off : Plain(ARM!LDRB(to, base, off))
           /\ \A value : Plain(ARM!MOVZ(to, value))
           /\ \A value, hw : Plain(ARM!MOVK(to, value, hw))
           /\ \A from : Plain(ARM!Move(to, from, 4))
<1> SUFFICES ASSUME NEW to, to \notin Frame, NEW left, NEW right, NEW acc, NEW sign
             PROVE  /\ Plain(ARM!ADD(to, left, right))
                    /\ Plain(ARM!SUB(to, left, right))
                    /\ Plain(ARM!ADDI(to, left, right))
                    /\ Plain(ARM!SUBI(to, left, right))
                    /\ Plain(ARM!MADD(to, left, right, acc, sign))
                    /\ Plain(ARM!LDRB(to, left, right))
                    /\ Plain(ARM!MOVZ(to, left))
                    /\ Plain(ARM!MOVK(to, left, right))
                    /\ Plain(ARM!Move(to, left, 4))
  OBVIOUS
<1> USE DEF Plain, Harmless, OfARM
<1>1. Plain(ARM!ADD(to, left, right)) /\ Plain(ARM!SUB(to, left, right))
  BY DEF ARM!ADD, ARM!SUB
<1>2. Plain(ARM!ADDI(to, left, right)) /\ Plain(ARM!SUBI(to, left, right))
  BY DEF ARM!ADDI, ARM!SUBI, ARM!AddImm
<1>3. Plain(ARM!MADD(to, left, right, acc, sign)) /\ Plain(ARM!LDRB(to, left, right))
  BY DEF ARM!MADD, ARM!LDRB
<1>4. /\ Plain(ARM!MOVZ(to, left)) /\ Plain(ARM!MOVK(to, left, right))
      /\ Plain(ARM!Move(to, left, 4))
  BY DEF ARM!MOVZ, ARM!Set, ARM!MOVK, ARM!Move
<1> QED
  BY <1>1, <1>2, <1>3, <1>4

LEMMA PlainStoresARM ==
  ASSUME target = "aarch64"
  PROVE  /\ \A from, base, off : Plain(ARM!STRB(from, base, off))
         /\ \A reg, value : Plain(ARM!CMP(reg, value))
         /\ \A fn : Plain(ARM!Call(fn, 4))
         /\ Plain(ARM!Nop(4)) /\ Plain(ARM!BRK)
BY DEF Plain, Harmless, OfARM, ARM!STRB, ARM!CMP, ARM!Call, ARM!Nop,
       ARM!BRK

LEMMA FrameOfARM ==
  /\ "x0" \notin Frame /\ "x1" \notin Frame /\ "x2" \notin Frame /\ "x3" \notin Frame
  /\ "x4" \notin Frame /\ "x6" \notin Frame /\ "x19" \notin Frame /\ "x20" \notin Frame
  /\ "x21" \notin Frame /\ "x29" \notin Frame
BY DEF Frame

LEMMA PlainLoadImmediate64 ==
  ASSUME target = "aarch64", NEW to, to \notin Frame, NEW value
  PROVE  IsPlain(ARM!LoadImmediate64(to, value))
<1> DEFINE Higher(hw) == IF ARM!Half(value, hw) > 0
                         THEN <<ARM!MOVK(to, ARM!Half(value, hw), hw)>> ELSE <<>>
<1>1. ASSUME NEW hw PROVE IsPlain(Higher(hw))
  BY PlainInARM, PlainOne, PlainNone
<1>2. IsPlain(<<ARM!MOVZ(to, ARM!Half(value, 0))>>)
  BY PlainInARM, PlainOne
<1>3. ARM!LoadImmediate64(to, value) =
        <<ARM!MOVZ(to, ARM!Half(value, 0))>> \o Higher(1) \o Higher(2) \o Higher(3)
  BY DEF ARM!LoadImmediate64
<1> HIDE DEF Higher
<1> QED
  BY <1>1, <1>2, <1>3, PlainTogether

\* The templates of AArch64 for all operations but jumps, searches and labels.
LEMMA PlainTemplatesARM ==
  ASSUME target = "aarch64", NEW amount, NEW off, NEW mode
  PROVE  /\ IsPlain(ARM!EmitNop)
         /\ IsPlain(ARM!EmitIncrCell(amount, off))
         /\ IsPlain(ARM!EmitDecrCell(amount, off))
         /\ IsPlain(ARM!EmitImullCell(amount, off))
         /\ IsPlain(ARM!EmitDmullCell(amount, off))
         /\ IsPlain(ARM!EmitSetCell(amount, off))
         /\ IsPlain(ARM!EmitRead(mode)) /\ IsPlain(ARM!EmitWrite)
<1>1. IsPlain(ARM!EmitNop)
  BY PlainStoresARM, PlainAgain DEF ARM!EmitNop
<1>2. ASSUME NEW adjust, Plain(adjust) PROVE IsPlain(ARM!EmitIncrDecrCell(off, adjust))
  <2>1. IsPlain(<<ARM!LDRB("x2", "x19", off), adjust, ARM!STRB("x2", "x19", off)>>)
    BY <1>2, FrameOfARM, PlainInARM, PlainStoresARM, PlainThree
  <2>2. IsPlain(<<ARM!ADD("x1", "x19", "x1"), ARM!LDRB("x2", "x1", 0), adjust,
                  ARM!STRB("x2", "x1", 0)>>)
    BY <1>2, FrameOfARM, PlainInARM, PlainStoresARM, PlainFour
  <2>3. IsPlain(ARM!LoadImmediate64("x1", off))
    BY FrameOfARM, PlainLoadImmediate64
  <2> QED
    BY <2>1, <2>2, <2>3, PlainTogether DEF ARM!EmitIncrDecrCell
<1>3. IsPlain(ARM!EmitIncrCell(amount, off)) /\ IsPlain(ARM!EmitDecrCell(amount, off))
  BY <1>2, FrameOfARM, PlainInARM DEF ARM!EmitIncrCell, ARM!EmitDecrCell
<1>4. IsPlain(ARM!EmitImullCell(amount, off))
  <2>1. IsPlain(<<ARM!LDRB("x2", "x19", 0)>>)
    BY FrameOfARM, PlainInARM, PlainOne
  <2>2. IsPlain(ARM!LoadImmediate64("x3", off))
    BY FrameOfARM, PlainLoadImmediate64
  <2>3. IsPlain(<<ARM!ADD("x6", "x19", "x3"), ARM!LDRB("x4", "x6", 0),
                  ARM!MOVZ("x1", amount), ARM!MADD("x2", "x2", "x1", "x4", 1),
                  ARM!STRB("x2", "x6", 0)>>)
    BY FrameOfARM, PlainInARM, PlainStoresARM, PlainFive
  <2> QED
    BY <2>1, <2>2, <2>3, PlainTogether DEF ARM!EmitImullCell
<1>5. IsPlain(ARM!EmitDmullCell(amount, off))
  <2>1. IsPlain(<<ARM!LDRB("x1", "x19", 0)>>)
    BY FrameOfARM, PlainInARM, PlainOne
  <2>2. IsPlain(ARM!LoadImmediate64("x4", off))
    BY FrameOfARM, PlainLoadImmediate64
  <2>3. IsPlain(<<ARM!ADD("x6", "x19", "x4"), ARM!LDRB("x2", "x6", 0),
                  ARM!MOVZ("x0", amount), ARM!MADD("x1", "x1", "x0", "x2", -1),
                  ARM!STRB("x1", "x6", 0)>>)
    BY FrameOfARM, PlainInARM, PlainStoresARM, PlainFive
  <2> QED
    BY <2>1, <2>2, <2>3, PlainTogether DEF ARM!EmitDmullCell
<1>6. IsPlain(ARM!EmitSetCell(amount, off))
  <2>1. IsPlain(<<ARM!MOVZ("x2", amount)>>) /\ IsPlain(<<ARM!STRB("x2", "x19", off)>>)
    BY FrameOfARM, PlainInARM, PlainStoresARM, PlainOne
  <2>2. IsPlain(ARM!LoadImmediate64("x1", off))
    BY FrameOfARM, PlainLoadImmediate64
  <2>3. IsPlain(<<ARM!ADD("x1", "x19", "x1"), ARM!STRB("x2", "x1", 0)>>)
    BY FrameOfARM, PlainInARM, PlainStoresARM, PlainTwo
  <2> QED
    BY <2>1, <2>2, <2>3, PlainTogether DEF ARM!EmitSetCell
<1>7. IsPlain(ARM!EmitRead(mode))
  BY FrameOfARM, PlainInARM, PlainStoresARM, PlainThree DEF ARM!EmitRead
<1>8. IsPlain(ARM!EmitWrite)
  BY FrameOfARM, PlainInARM, PlainStoresARM, PlainTwo DEF ARM!EmitWrite
<1> QED
  BY <1>1, <1>3, <1>4, <1>5, <1>6, <1>7, <1>8

LEMMA PlainMovesARM ==
  ASSUME target = "aarch64", NEW amount
  PROVE  IsPlain(ARM!EmitIncrPtr(amount)) /\ IsPlain(ARM!EmitDecrPtr(amount))
<1>1. ASSUME NEW by PROVE IsPlain(ARM!EmitIncrPtr(by))
  <2>1. ASSUME NEW distance PROVE IsPlain(ARM!LoadImmediate64("x1", distance))
    BY FrameOfARM, PlainLoadImmediate64
  <2>2. ASSUME NEW distance
        PROVE  /\ IsPlain(<<ARM!ADDI("x19", "x19", distance)>>)
               /\ IsPlain(<<ARM!SUBI("x19", "x19", distance)>>)
    BY FrameOfARM, PlainInARM, PlainOne
  <2>3. /\ IsPlain(<<ARM!ADD("x19", "x19", "x1")>>)
        /\ IsPlain(<<ARM!SUB("x19", "x19", "x1")>>)
    BY FrameOfARM, PlainInARM, PlainOne
  <2> DEFINE distance == IF by < 0 THEN -by ELSE by
  <2>4. ARM!EmitIncrPtr(by) =
          IF by = 0 THEN <<>>
          ELSE IF ARM!Near(distance)
               THEN IF by > 0 THEN <<ARM!ADDI("x19", "x19", distance)>>
                    ELSE <<ARM!SUBI("x19", "x19", distance)>>
               ELSE ARM!LoadImmediate64("x1", distance)
                      \o (IF by > 0 THEN <<ARM!ADD("x19", "x19", "x1")>>
                          ELSE <<ARM!SUB("x19", "x19", "x1")>>)
    BY DEF ARM!EmitIncrPtr
  <2> HIDE DEF distance
  <2> QED
    BY <2>1, <2>2, <2>3, <2>4, PlainNone, PlainTogether
<1> QED
  BY <1>1 DEF ARM!EmitDecrPtr

\* What the rest needs to know of the template of an operation: its branches
\* stay inside, but for the one a jump ends in; a label has no code.
Closed(instrs, k) ==
  /\ instrs[k].distance \in Int
  /\ Ends(0, instrs)[k] + instrs[k].distance \in 0..CodeLength(instrs)

TemplateFits(op, instrs) ==
  /\ IsTemplate(instrs)
  /\ \A k \in DOMAIN instrs :
       /\ Harmless(instrs[k])
       /\ target = "aarch64" => OfARM(instrs[k])
       /\ instrs[k].do = "branch" => (IsJump(op) /\ k = Len(instrs)) \/ Closed(instrs, k)
  /\ IsJump(op) => Len(instrs) > 0 /\ instrs[Len(instrs)].len = JumpLength
  /\ op.code = "LABEL" => instrs = <<>>

LEMMA PlainFits ==
  ASSUME NEW op, ~IsJump(op), NEW instrs, IsPlain(instrs), op.code = "LABEL" => instrs = <<>>
  PROVE  TemplateFits(op, instrs)
BY PlainTemplate DEF TemplateFits, Plain

LEMMA SearchFitsX86 ==
  ASSUME target = "x86-64", NEW op, op.code \in FindCodes, NEW value, NEW step
  PROVE  TemplateFits(op, X86!EmitFindCell(value, step))
<1> DEFINE instrs == X86!EmitFindCell(value, step)
<1>1. Len(instrs) = 4 /\ DOMAIN instrs = 1..4
  BY DEF X86!EmitFindCell
<1>2. /\ instrs[1].len = 3 /\ instrs[2].len = 2 /\ instrs[3].len = 7 /\ instrs[4].len = 2
      /\ instrs[1].do = "cmpbyte" /\ instrs[2].do = "branch" /\ instrs[3].do = "addimm"
      /\ instrs[4].do = "branch" /\ instrs[2].distance = 9 /\ instrs[4].distance = -14
      /\ instrs[3].to = "rdx"
  BY DEF X86!EmitFindCell, X86!Compare, X86!Branch, X86!AddImm
<1> HIDE DEF instrs
<1>3. \A k \in 1..4 : k = 1 \/ k = 2 \/ k = 3 \/ k = 4
  OBVIOUS
<1>4. IsTemplate(instrs)
  BY <1>1, <1>2, <1>3 DEF IsTemplate
<1>5. /\ Ends(0, instrs)[2] = 5 /\ Ends(0, instrs)[4] = 14 /\ CodeLength(instrs) = 14
  <2>1. /\ Ends(0, instrs)[0] = 0
        /\ \A k \in 1..4 : Ends(0, instrs)[k] = Ends(0, instrs)[k - 1] + instrs[k].len
    <3>1. 0 \in Nat
      OBVIOUS
    <3>2. /\ Ends(0, instrs)[0] = 0
          /\ \A k \in 1..Len(instrs) : Ends(0, instrs)[k] = Ends(0, instrs)[k - 1] + instrs[k].len
      BY ONLY <1>4, <3>1, EndsGrow
    <3> QED
      BY <1>1, <3>2
  <2>2. Ends(0, instrs)[1] = 3 /\ Ends(0, instrs)[2] = 5 /\ Ends(0, instrs)[3] = 12
        /\ Ends(0, instrs)[4] = 14
    <3>1. Ends(0, instrs)[1] = Ends(0, instrs)[0] + 3
      BY <1>2, <2>1
    <3>2. Ends(0, instrs)[2] = Ends(0, instrs)[1] + 2
      BY <1>2, <2>1
    <3>3. Ends(0, instrs)[3] = Ends(0, instrs)[2] + 7
      BY <1>2, <2>1
    <3>4. Ends(0, instrs)[4] = Ends(0, instrs)[3] + 2
      BY <1>2, <2>1
    <3> QED
      BY <2>1, <3>1, <3>2, <3>3, <3>4
  <2> QED
    BY <1>1, <2>2 DEF CodeLength
<1>6. ~IsJump(op) /\ op.code # "LABEL"
  BY DEF IsJump, JumpCodes, FindCodes
<1>7. Closed(instrs, 2) /\ Closed(instrs, 4)
  BY <1>2, <1>5 DEF Closed
<1>8. \A k \in 1..4 : Harmless(instrs[k])
  BY <1>2, <1>3 DEF Harmless, Frame
<1> QED
  BY <1>1, <1>2, <1>3, <1>4, <1>6, <1>7, <1>8 DEF TemplateFits, instrs

LEMMA NarrowSmall ==
  ASSUME NEW x \in Int, NEW values \in Nat, values % 2 = 0,
         x < values \div 2, x >= -(values \div 2)
  PROVE  ARM!Narrow(x, values) = x
<1> DEFINE half == values \div 2
<1>1. half \in Nat /\ values = 2 * half
  OBVIOUS
<1>2. x + half \in 0..(values - 1)
  BY <1>1
<1>3. (x + half) % values = x + half
  BY <1>2
<1> QED
  BY <1>1, <1>3 DEF ARM!Narrow

LEMMA SearchFitsARM ==
  ASSUME target = "aarch64", NEW op, op.code \in FindCodes, NEW value, NEW step
  PROVE  TemplateFits(op, ARM!EmitFindCell(value, step))
<1> DEFINE instrs == ARM!EmitFindCell(value, step)
<1>1. Len(instrs) = 5 /\ DOMAIN instrs = 1..5
  BY DEF ARM!EmitFindCell
<1>2. ARM!Narrow(-3, BranchSize) = -3
  BY CodeAssumption, NarrowSmall
<1>3. /\ instrs[1] = ARM!B(2) /\ instrs[3] = ARM!LDRB("x1", "x19", 0)
      /\ instrs[4] = ARM!CMP("x1", value)
      /\ instrs[5] = ARM!BCond("nonzero", -3)
      /\ \/ instrs[2] = ARM!ADDI("x19", "x19", step)
         \/ instrs[2] = ARM!SUBI("x19", "x19", -step)
  BY DEF ARM!EmitFindCell
<1> HIDE DEF instrs
<1>4. \A k \in 1..5 : k = 1 \/ k = 2 \/ k = 3 \/ k = 4 \/ k = 5
  OBVIOUS
<1>5. Plain(instrs[2]) /\ Plain(instrs[3]) /\ Plain(instrs[4])
  BY <1>3, FrameOfARM, PlainInARM, PlainStoresARM
<1>6. /\ instrs[1].do = "branch" /\ instrs[1].distance = 4 /\ instrs[1].len = 4
      /\ instrs[5].do = "branch" /\ instrs[5].distance = -16 /\ instrs[5].len = 4
  BY <1>2, <1>3 DEF ARM!B, ARM!BCond, ARM!Branch
<1>7. \A k \in 1..5 : OfARM(instrs[k]) /\ Harmless(instrs[k])
  <2>1. /\ Harmless(instrs[1]) /\ Harmless(instrs[5])
        /\ OfARM(instrs[1]) /\ OfARM(instrs[5])
    BY <1>6 DEF Harmless, OfARM
  <2> QED
    BY <1>4, <1>5, <1>6, <2>1 DEF Plain
<1>8. IsTemplate(instrs) /\ \A k \in DOMAIN instrs : instrs[k].len = 4
  BY <1>1, <1>7 DEF IsTemplate, OfARM
<1>9. \A k \in 0..5 : Ends(0, instrs)[k] = 4 * k
  <2>1. 0 \in Nat
    OBVIOUS
  <2>2. \A k \in 0..Len(instrs) : Ends(0, instrs)[k] = 0 + 4 * k
    BY <1>8, <2>1, EndsByFours
  <2> QED
    BY <1>1, <2>2
<1>10. Closed(instrs, 1) /\ Closed(instrs, 5)
  BY <1>1, <1>6, <1>9 DEF Closed, CodeLength
<1>11. ~IsJump(op) /\ op.code # "LABEL"
  BY DEF IsJump, JumpCodes, FindCodes
<1>12. \A k \in 1..5 : instrs[k].do = "branch" => Closed(instrs, k)
  BY <1>4, <1>5, <1>10 DEF Plain
<1> QED
  BY <1>1, <1>7, <1>8, <1>11, <1>12 DEF TemplateFits, instrs

LEMMA JumpFitsX86 ==
  ASSUME target = "x86-64", NEW op, op.code \in JumpCodes
  PROVE  TemplateFits(op, X86!EmitJump(op.code))
<1> DEFINE instrs == X86!EmitJump(op.code)
<1>1. /\ Len(instrs) = 2 /\ DOMAIN instrs = 1..2 /\ instrs[1] = X86!Compare(0)
      /\ instrs[2] = X86!Jump(op.code, 0)
  BY DEF X86!EmitJump
<1>2. instrs[2].do = "branch" /\ instrs[2].len = 6
  BY <1>1 DEF X86!Jump, X86!Branch
<1> HIDE DEF instrs
<1>3. Plain(instrs[1])
  BY <1>1, PlainInX86
<1>4. \A k \in 1..2 : k = 1 \/ k = 2
  OBVIOUS
<1>5. \A k \in 1..2 : Harmless(instrs[k]) /\ instrs[k].len \in Nat \ {0}
  BY <1>2, <1>3, <1>4 DEF Plain, Harmless
<1>6. IsTemplate(instrs)
  BY <1>1, <1>5 DEF IsTemplate
<1>7. IsJump(op) /\ op.code # "LABEL"
  BY DEF IsJump, JumpCodes
<1> QED
  BY <1>1, <1>2, <1>3, <1>4, <1>5, <1>6, <1>7 DEF TemplateFits, JumpLength, Plain, instrs

LEMMA JumpFitsARM ==
  ASSUME target = "aarch64", NEW op, op.code \in JumpCodes
  PROVE  TemplateFits(op, ARM!EmitJump(op.code))
<1> DEFINE instrs == ARM!EmitJump(op.code)
<1>1. IsPlain(instrs)
  BY FrameOfARM, PlainInARM, PlainStoresARM, PlainThree DEF ARM!EmitJump
<1>2. Len(instrs) = 3 /\ DOMAIN instrs = 1..3
  BY DEF ARM!EmitJump
<1> HIDE DEF instrs
<1>3. IsTemplate(instrs) /\ \A k \in 1..3 : Plain(instrs[k])
  BY <1>1, <1>2, PlainTemplate
<1>4. IsJump(op) /\ op.code # "LABEL"
  BY DEF IsJump, JumpCodes
<1> QED
  BY <1>2, <1>3, <1>4 DEF TemplateFits, JumpLength, Plain, OfARM, instrs

LEMMA TranslationFitsX86 ==
  ASSUME target = "x86-64", NEW op, op.code \in Codes, NEW mode
  PROVE  TemplateFits(op, X86!Translation(op, mode))
<1> DEFINE amount == op.op1 % ByteSize
<1> USE DEF X86!Translation, X86!JumpCodes
<1>1. CASE op.code \in CellCodes \cup MulCodes \cup PtrCodes \cup {"NOP", "SET_CELL"}
  <2>1. ~IsJump(op) /\ op.code # "LABEL"
    BY <1>1 DEF IsJump, JumpCodes, CellCodes, MulCodes, PtrCodes
  <2>2. IsPlain(X86!Translation(op, mode))
    <3>1. CASE op.code = "NOP"
      <4>1. X86!Translation(op, mode) = X86!EmitNop
        BY <3>1
      <4> HIDE DEF X86!Translation
      <4> QED
        BY <4>1, PlainTemplatesX86
    <3>2. CASE op.code = "INCR_CELL"
      <4>1. X86!Translation(op, mode) = X86!EmitIncrCell(amount, op.op2)
        BY <3>2
      <4> HIDE DEF X86!Translation
      <4> QED
        BY <4>1, PlainTemplatesX86
    <3>3. CASE op.code = "DECR_CELL"
      <4>1. X86!Translation(op, mode) = X86!EmitDecrCell(amount, op.op2)
        BY <3>3
      <4> HIDE DEF X86!Translation
      <4> QED
        BY <4>1, PlainTemplatesX86
    <3>4. CASE op.code = "IMUL_CELL"
      <4>1. X86!Translation(op, mode) = X86!EmitImullCell(amount, op.op2)
        BY <3>4
      <4> HIDE DEF X86!Translation
      <4> QED
        BY <4>1, PlainTemplatesX86
    <3>5. CASE op.code = "DMUL_CELL"
      <4>1. X86!Translation(op, mode) = X86!EmitDmullCell(amount, op.op2)
        BY <3>5
      <4> HIDE DEF X86!Translation
      <4> QED
        BY <4>1, PlainTemplatesX86
    <3>6. CASE op.code = "SET_CELL"
      <4>1. X86!Translation(op, mode) = X86!EmitSetCell(amount, op.op2)
        BY <3>6
      <4> HIDE DEF X86!Translation
      <4> QED
        BY <4>1, PlainTemplatesX86
    <3>7. CASE op.code = "INCR_PTR"
      <4>1. X86!Translation(op, mode) = X86!EmitIncrPtr(op.op1)
        BY <3>7
      <4> HIDE DEF X86!Translation
      <4> QED
        BY <4>1, PlainTemplatesX86
    <3>8. CASE op.code = "DECR_PTR"
      <4>1. X86!Translation(op, mode) = X86!EmitDecrPtr(op.op1)
        BY <3>8
      <4> HIDE DEF X86!Translation
      <4> QED
        BY <4>1, PlainTemplatesX86
    <3> QED
      BY <1>1, <3>1, <3>2, <3>3, <3>4, <3>5, <3>6, <3>7, <3>8 DEF CellCodes, MulCodes, PtrCodes
  <2> QED
    BY <2>1, <2>2, PlainFits
<1>2. CASE op.code \in IOCodes
  <2>1. ~IsJump(op) /\ op.code # "LABEL"
    BY <1>2 DEF IsJump, JumpCodes, IOCodes
  <2>2. op.code = "READ" \/ op.code = "WRITE"
    BY <1>2 DEF IOCodes
  <2>3. \/ X86!Translation(op, mode) =
             X86!EmitIncrPtr(op.op2) \o X86!EmitRead(mode) \o X86!EmitDecrPtr(op.op2)
        \/ X86!Translation(op, mode) =
             X86!EmitIncrPtr(op.op2) \o X86!EmitWrite \o X86!EmitDecrPtr(op.op2)
    BY <2>2
  <2>4. /\ IsPlain(X86!EmitIncrPtr(op.op2)) /\ IsPlain(X86!EmitDecrPtr(op.op2))
        /\ IsPlain(X86!EmitRead(mode)) /\ IsPlain(X86!EmitWrite)
    BY PlainTemplatesX86
  <2> HIDE DEF X86!Translation
  <2>5. IsPlain(X86!Translation(op, mode))
    BY <2>3, <2>4, PlainTogether
  <2> QED
    BY <2>1, <2>5, PlainFits
<1>3. CASE op.code \in JumpCodes
  <2>1. X86!Translation(op, mode) = X86!EmitJump(op.code)
    BY <1>3 DEF JumpCodes
  <2> HIDE DEF X86!Translation
  <2> QED
    BY <1>3, <2>1, JumpFitsX86
<1>4. CASE op.code \in FindCodes
  <2>1. \/ X86!Translation(op, mode) = X86!EmitFindCell(amount, op.op2)
        \/ X86!Translation(op, mode) = X86!EmitFindCell(amount, -op.op2)
    BY <1>4 DEF FindCodes
  <2> HIDE DEF X86!Translation
  <2> QED
    BY <1>4, <2>1, SearchFitsX86
<1>5. CASE op.code = "LABEL"
  <2>1. X86!Translation(op, mode) = <<>> /\ ~IsJump(op)
    BY <1>5 DEF IsJump, JumpCodes
  <2> HIDE DEF X86!Translation
  <2> QED
    BY <2>1, PlainNone, PlainFits
<1> QED
  BY <1>1, <1>2, <1>3, <1>4, <1>5 DEF Codes

LEMMA TranslationFitsARM ==
  ASSUME target = "aarch64", NEW op, op.code \in Codes, NEW mode
  PROVE  TemplateFits(op, ARM!Translation(op, mode))
<1> DEFINE amount == op.op1 % ByteSize
<1> USE DEF ARM!Translation, ARM!JumpCodes
<1>1. CASE op.code \in CellCodes \cup MulCodes \cup PtrCodes \cup {"NOP", "SET_CELL"}
  <2>1. ~IsJump(op) /\ op.code # "LABEL"
    BY <1>1 DEF IsJump, JumpCodes, CellCodes, MulCodes, PtrCodes
  <2>2. IsPlain(ARM!Translation(op, mode))
    <3>1. CASE op.code = "NOP"
      <4>1. ARM!Translation(op, mode) = ARM!EmitNop
        BY <3>1
      <4> HIDE DEF ARM!Translation
      <4> QED
        BY <4>1, PlainTemplatesARM
    <3>2. CASE op.code = "INCR_CELL"
      <4>1. ARM!Translation(op, mode) = ARM!EmitIncrCell(amount, op.op2)
        BY <3>2
      <4> HIDE DEF ARM!Translation
      <4> QED
        BY <4>1, PlainTemplatesARM
    <3>3. CASE op.code = "DECR_CELL"
      <4>1. ARM!Translation(op, mode) = ARM!EmitDecrCell(amount, op.op2)
        BY <3>3
      <4> HIDE DEF ARM!Translation
      <4> QED
        BY <4>1, PlainTemplatesARM
    <3>4. CASE op.code = "IMUL_CELL"
      <4>1. ARM!Translation(op, mode) = ARM!EmitImullCell(amount, op.op2)
        BY <3>4
      <4> HIDE DEF ARM!Translation
      <4> QED
        BY <4>1, PlainTemplatesARM
    <3>5. CASE op.code = "DMUL_CELL"
      <4>1. ARM!Translation(op, mode) = ARM!EmitDmullCell(amount, op.op2)
        BY <3>5
      <4> HIDE DEF ARM!Translation
      <4> QED
        BY <4>1, PlainTemplatesARM
    <3>6. CASE op.code = "SET_CELL"
      <4>1. ARM!Translation(op, mode) = ARM!EmitSetCell(amount, op.op2)
        BY <3>6
      <4> HIDE DEF ARM!Translation
      <4> QED
        BY <4>1, PlainTemplatesARM
    <3>7. CASE op.code = "INCR_PTR"
      <4>1. ARM!Translation(op, mode) = ARM!EmitIncrPtr(op.op1)
        BY <3>7
      <4> HIDE DEF ARM!Translation
      <4> QED
        BY <4>1, PlainMovesARM
    <3>8. CASE op.code = "DECR_PTR"
      <4>1. ARM!Translation(op, mode) = ARM!EmitDecrPtr(op.op1)
        BY <3>8
      <4> HIDE DEF ARM!Translation
      <4> QED
        BY <4>1, PlainMovesARM
    <3> QED
      BY <1>1, <3>1, <3>2, <3>3, <3>4, <3>5, <3>6, <3>7, <3>8 DEF CellCodes, MulCodes, PtrCodes
  <2> QED
    BY <2>1, <2>2, PlainFits
<1>2. CASE op.code \in IOCodes
  <2>1. ~IsJump(op) /\ op.code # "LABEL"
    BY <1>2 DEF IsJump, JumpCodes, IOCodes
  <2>2. op.code = "READ" \/ op.code = "WRITE"
    BY <1>2 DEF IOCodes
  <2>3. \/ ARM!Translation(op, mode) =
             ARM!EmitIncrPtr(op.op2) \o ARM!EmitRead(mode) \o ARM!EmitDecrPtr(op.op2)
        \/ ARM!Translation(op, mode) =
             ARM!EmitIncrPtr(op.op2) \o ARM!EmitWrite \o ARM!EmitDecrPtr(op.op2)
    BY <2>2
  <2>4. /\ IsPlain(ARM!EmitIncrPtr(op.op2)) /\ IsPlain(ARM!EmitDecrPtr(op.op2))
        /\ IsPlain(ARM!EmitRead(mode)) /\ IsPlain(ARM!EmitWrite)
    BY PlainTemplatesARM, PlainMovesARM
  <2> HIDE DEF ARM!Translation
  <2>5. IsPlain(ARM!Translation(op, mode))
    BY <2>3, <2>4, PlainTogether
  <2> QED
    BY <2>1, <2>5, PlainFits
<1>3. CASE op.code \in JumpCodes
  <2>1. ARM!Translation(op, mode) = ARM!EmitJump(op.code)
    BY <1>3 DEF JumpCodes
  <2> HIDE DEF ARM!Translation
  <2> QED
    BY <1>3, <2>1, JumpFitsARM
<1>4. CASE op.code \in FindCodes
  <2>1. \/ ARM!Translation(op, mode) = ARM!EmitFindCell(amount, op.op2)
        \/ ARM!Translation(op, mode) = ARM!EmitFindCell(amount, -op.op2)
    BY <1>4 DEF FindCodes
  <2> HIDE DEF ARM!Translation
  <2> QED
    BY <1>4, <2>1, SearchFitsARM
<1>5. CASE op.code = "LABEL"
  <2>1. ARM!Translation(op, mode) = <<>> /\ ~IsJump(op)
    BY <1>5 DEF IsJump, JumpCodes
  <2> HIDE DEF ARM!Translation
  <2> QED
    BY <2>1, PlainNone, PlainFits
<1> QED
  BY <1>1, <1>2, <1>3, <1>4, <1>5 DEF Codes

LEMMA TranslationFits ==
  ASSUME target \in {"x86-64", "aarch64"}, NEW op, op.code \in Codes
  PROVE  TemplateFits(op, Translation(op))
<1>1. CASE target = "x86-64"
  BY <1>1, TranslationFitsX86 DEF Translation, OnX86
<1>2. CASE target = "aarch64"
  BY <1>2, TranslationFitsARM DEF Translation, OnX86
<1> QED
  BY <1>1, <1>2

-----------------------------------------------------------------------------
(* Entry and exit *)

LEMMA JoinedTogether ==
  ASSUME NEW S, NEW left \in Seq(S), NEW right \in Seq(S), NEW both, both = left \o right
  PROVE  /\ both \in Seq(S) /\ Len(both) = Len(left) + Len(right)
         /\ \A k \in 1..Len(left) : both[k] = left[k]
         /\ \A k \in 1..Len(right) : both[Len(left) + k] = right[k]
OBVIOUS

LEMMA TemplateOf ==
  ASSUME NEW S, \A i \in S : i.len \in Nat \ {0}, NEW instrs \in Seq(S)
  PROVE  IsTemplate(instrs)
BY DEF IsTemplate

LEMMA SavedX86 ==
  /\ Len(X86!Saved) = 16 /\ DOMAIN X86!Saved = 1..16
  /\ \A k \in 1..16 : X86!RegLen(X86!Saved[k]) \in Nat \ {0}
<1>1. Len(X86!Saved) = 16 /\ DOMAIN X86!Saved = 1..16
  BY DEF X86!Saved
<1>2. \A r : X86!RegLen(r) \in Nat \ {0}
  BY DEF X86!RegLen
<1> QED
  BY <1>1, <1>2

LEMMA EntryX86 ==
  ASSUME target = "x86-64"
  PROVE  /\ IsTemplate(Entry) /\ Len(Entry) = 19
         /\ \A k \in 1..16 : Entry[k] =
              X86!Push(<<X86!Saved[k]>>, X86!RegLen(X86!Saved[k]))
         /\ Entry[17] = X86!Move("rdx", "rdi", 3)
         /\ Entry[18] = X86!Move("rbp", "rsp", 3)
         /\ Entry[19] = X86!AddImm("rsp", "rsp", -10, 4)
<1> DEFINE SavedAt(k) ==
             X86!Push(<<X86!Saved[k]>>, X86!RegLen(X86!Saved[k]))
           pushes == [k \in 1..16 |-> SavedAt(k)]
           rest == <<X86!Move("rdx", "rdi", 3), X86!Move("rbp", "rsp", 3),
                     X86!AddImm("rsp", "rsp", -10, 4)>>
           S == {SavedAt(k) : k \in 1..16} \cup
                  {X86!Move("rdx", "rdi", 3), X86!Move("rbp", "rsp", 3),
                   X86!AddImm("rsp", "rsp", -10, 4)}
<1>1. Entry = pushes \o rest
  BY SavedX86 DEF Entry, OnX86, X86!EmitEntry
<1>2. pushes \in Seq(S) /\ Len(pushes) = 16 /\ \A k \in 1..16 : pushes[k] = SavedAt(k)
  <2> HIDE DEF SavedAt
  <2> QED
    OBVIOUS
<1>3. /\ rest \in Seq(S) /\ Len(rest) = 3
      /\ rest[1] = X86!Move("rdx", "rdi", 3)
      /\ rest[2] = X86!Move("rbp", "rsp", 3)
      /\ rest[3] = X86!AddImm("rsp", "rsp", -10, 4)
  <2> HIDE DEF SavedAt
  <2> QED
    OBVIOUS
<1>4. \A i \in S : i.len \in Nat \ {0}
  BY SavedX86 DEF X86!Push, X86!Move, X86!AddImm
<1> HIDE DEF pushes, rest, S, SavedAt
<1>5. /\ Entry \in Seq(S) /\ Len(Entry) = 19
      /\ \A k \in 1..16 : Entry[k] = pushes[k]
      /\ \A k \in 1..3 : Entry[16 + k] = rest[k]
  <2>1. pushes \in Seq(S) /\ rest \in Seq(S) /\ Entry = pushes \o rest
    BY <1>1, <1>2, <1>3
  <2>2. /\ Entry \in Seq(S) /\ Len(Entry) = Len(pushes) + Len(rest)
        /\ \A k \in 1..Len(pushes) : Entry[k] = pushes[k]
        /\ \A k \in 1..Len(rest) : Entry[Len(pushes) + k] = rest[k]
    BY <2>1, JoinedTogether
  <2>3. Len(pushes) = 16 /\ Len(rest) = 3
    BY <1>2, <1>3
  <2> QED
    BY <2>2, <2>3
<1>6. Entry[16 + 1] = rest[1] /\ Entry[16 + 2] = rest[2] /\ Entry[16 + 3] = rest[3]
  BY <1>5
<1>7. IsTemplate(Entry)
  <2>1. Entry \in Seq(S)
    BY <1>5
  <2> QED
    BY <1>4, <2>1, TemplateOf
<1> QED
  BY <1>2, <1>3, <1>5, <1>6, <1>7 DEF SavedAt

LEMMA ExitX86 ==
  ASSUME target = "x86-64"
  PROVE  /\ IsTemplate(Exit) /\ Len(Exit) = 18
         /\ Exit[1] = X86!AddImm("rsp", "rsp", 10, 4)
         /\ \A k \in 2..17 : Exit[k] =
              X86!Pop(<<X86!Saved[18 - k]>>,
                               X86!RegLen(X86!Saved[18 - k]))
         /\ Exit[18] = X86!Ret(1)
<1> DEFINE Restored(j) ==
             X86!Pop(<<X86!Saved[j]>>, X86!RegLen(X86!Saved[j]))
           first == <<X86!AddImm("rsp", "rsp", 10, 4)>>
           pops == [k \in 1..16 |-> Restored(17 - k)]
           last == <<X86!Ret(1)>>
           S == {Restored(k) : k \in 1..16} \cup
                  {X86!AddImm("rsp", "rsp", 10, 4), X86!Ret(1)}
<1>1. Exit = first \o pops \o last
  <2>1. \A k \in 1..16 : X86!Reverse(X86!Saved)[k] = X86!Saved[17 - k]
    BY SavedX86 DEF X86!Reverse
  <2> QED
    BY <2>1, SavedX86 DEF Exit, OnX86, X86!EmitExit
<1>2. pops \in Seq(S) /\ Len(pops) = 16 /\ \A k \in 1..16 : pops[k] = Restored(17 - k)
  <2> HIDE DEF Restored
  <2> QED
    OBVIOUS
<1>3. /\ first \in Seq(S) /\ Len(first) = 1 /\ first[1] = X86!AddImm("rsp", "rsp", 10, 4)
      /\ last \in Seq(S) /\ Len(last) = 1 /\ last[1] = X86!Ret(1)
  <2> HIDE DEF Restored
  <2> QED
    OBVIOUS
<1>4. \A i \in S : i.len \in Nat \ {0}
  BY SavedX86 DEF X86!Pop, X86!Ret, X86!AddImm
<1> HIDE DEF first, pops, last, S, Restored
<1> DEFINE front == first \o pops
<1>5. /\ front \in Seq(S) /\ Len(front) = 17 /\ front[1] = first[1]
      /\ \A k \in 1..16 : front[1 + k] = pops[k]
  <2>1. first \in Seq(S) /\ pops \in Seq(S) /\ front = first \o pops
    BY <1>2, <1>3
  <2> HIDE DEF front
  <2>2. /\ front \in Seq(S) /\ Len(front) = Len(first) + Len(pops)
        /\ \A k \in 1..Len(first) : front[k] = first[k]
        /\ \A k \in 1..Len(pops) : front[Len(first) + k] = pops[k]
    BY <2>1, JoinedTogether
  <2>3. Len(first) = 1 /\ Len(pops) = 16
    BY <1>3, <1>2
  <2> QED
    BY <2>2, <2>3
<1> HIDE DEF front
<1>6. /\ Exit \in Seq(S) /\ Len(Exit) = 18
      /\ \A k \in 1..17 : Exit[k] = front[k]
      /\ Exit[17 + 1] = last[1]
  <2>1. front \in Seq(S) /\ last \in Seq(S) /\ Exit = front \o last
    BY <1>1, <1>3, <1>5 DEF front
  <2>2. /\ Exit \in Seq(S) /\ Len(Exit) = Len(front) + Len(last)
        /\ \A k \in 1..Len(front) : Exit[k] = front[k]
        /\ \A k \in 1..Len(last) : Exit[Len(front) + k] = last[k]
    BY <2>1, JoinedTogether
  <2>3. Len(front) = 17 /\ Len(last) = 1
    BY <1>5, <1>3
  <2> QED
    BY <2>2, <2>3
<1>7. ASSUME NEW k \in 2..17 PROVE Exit[k] = Restored(18 - k)
  <2>1. k - 1 \in 1..16 /\ k \in 1..17 /\ 1 + (k - 1) = k /\ 17 - (k - 1) = 18 - k
    OBVIOUS
  <2>2. Exit[k] = front[k]
    BY <1>6, <2>1
  <2>3. front[1 + (k - 1)] = pops[k - 1]
    BY <1>5, <2>1
  <2>4. pops[k - 1] = Restored(17 - (k - 1))
    BY <1>2, <2>1
  <2> QED
    BY <2>1, <2>2, <2>3, <2>4
<1>8. IsTemplate(Exit)
  <2>1. Exit \in Seq(S)
    BY <1>6
  <2> QED
    BY <1>4, <2>1, TemplateOf
<1> QED
  BY <1>3, <1>5, <1>6, <1>7, <1>8 DEF Restored

LEMMA EntryARM ==
  ASSUME target = "aarch64"
  PROVE  /\ IsTemplate(Entry) /\ Len(Entry) >= 5
         /\ \A k \in DOMAIN Entry : Entry[k].len = 4
         /\ Entry[1] = ARM!Push(<<"x30", "x29">>, 4)
         /\ Entry[2] = ARM!Push(<<"x20", "x19">>, 4)
         /\ Entry[3] = ARM!Push(<<"x22", "x21">>, 4)
         /\ \A k \in 4..Len(Entry) : Plain(Entry[k])
<1> DEFINE pushes == <<ARM!Push(<<"x30", "x29">>, 4), ARM!Push(<<"x20", "x19">>, 4),
                       ARM!Push(<<"x22", "x21">>, 4)>>
           moves == <<ARM!Move("x29", "sp", 4), ARM!Move("x19", "x0", 4)>>
           first == <<ARM!Push(<<"x30", "x29">>, 4), ARM!Push(<<"x20", "x19">>, 4),
                      ARM!Push(<<"x22", "x21">>, 4), ARM!Move("x29", "sp", 4),
                      ARM!Move("x19", "x0", 4)>>
           loads == ARM!LoadImmediate64("x21", WriteAddr)
                      \o ARM!LoadImmediate64("x20", ReadAddr)
<1>1. Entry = first \o ARM!LoadImmediate64("x21", WriteAddr)
                         \o ARM!LoadImmediate64("x20", ReadAddr)
  BY DEF Entry, OnX86, ARM!EmitEntry
<1>2. IsPlain(ARM!LoadImmediate64("x21", WriteAddr)) /\ IsPlain(ARM!LoadImmediate64("x20", ReadAddr))
  BY FrameOfARM, PlainLoadImmediate64
<1>3. PICK S : /\ ARM!LoadImmediate64("x21", WriteAddr) \in Seq(S)
               /\ \A i \in S : Plain(i)
  BY <1>2 DEF IsPlain
<1>4. PICK T : /\ ARM!LoadImmediate64("x20", ReadAddr) \in Seq(T)
               /\ \A i \in T : Plain(i)
  BY <1>2 DEF IsPlain
<1> DEFINE F == {first[k] : k \in 1..5}
           U == F \cup S \cup T
<1>5. first \in Seq(F) /\ Len(first) = 5 /\ DOMAIN first = 1..5
  OBVIOUS
<1>6. /\ Plain(first[4]) /\ Plain(first[5])
      /\ first[1].len = 4 /\ first[2].len = 4 /\ first[3].len = 4
  BY FrameOfARM, PlainInARM DEF ARM!Push
<1>7. /\ first[1] = ARM!Push(<<"x30", "x29">>, 4)
      /\ first[2] = ARM!Push(<<"x20", "x19">>, 4)
      /\ first[3] = ARM!Push(<<"x22", "x21">>, 4)
  OBVIOUS
<1> HIDE DEF first
<1> DEFINE front == first \o ARM!LoadImmediate64("x21", WriteAddr)
           back == ARM!LoadImmediate64("x20", ReadAddr)
<1>8. /\ first \in Seq(U) /\ ARM!LoadImmediate64("x21", WriteAddr) \in Seq(U)
      /\ back \in Seq(U)
  BY <1>3, <1>4, <1>5
<1>9. \A k \in 1..5 : first[k] \in F
  OBVIOUS
<1> HIDE DEF U, F
<1> DEFINE load == ARM!LoadImmediate64("x21", WriteAddr)
<1>10. /\ front \in Seq(U) /\ Len(front) = 5 + Len(load)
       /\ \A k \in 1..5 : front[k] = first[k]
       /\ \A k \in 1..Len(load) : front[5 + k] = load[k]
  <2>1. first \in Seq(U) /\ load \in Seq(U) /\ front = first \o load
    BY <1>8
  <2> HIDE DEF front, load
  <2>2. /\ front \in Seq(U) /\ Len(front) = Len(first) + Len(load)
        /\ \A k \in 1..Len(first) : front[k] = first[k]
        /\ \A k \in 1..Len(load) : front[Len(first) + k] = load[k]
    BY <2>1, JoinedTogether
  <2> QED
    BY <1>5, <2>2
<1>11. Len(ARM!LoadImmediate64("x21", WriteAddr)) \in Nat /\ Len(back) \in Nat
  BY <1>8
<1>12. \A k \in 6..Len(front) : Plain(front[k])
  <2> SUFFICES ASSUME NEW k \in 6..Len(front) PROVE Plain(front[k])
    OBVIOUS
  <2>1. k - 5 \in 1..Len(ARM!LoadImmediate64("x21", WriteAddr)) /\ 5 + (k - 5) = k
    BY <1>10, <1>11
  <2>2. front[k] = ARM!LoadImmediate64("x21", WriteAddr)[k - 5]
    BY <1>10, <2>1
  <2> QED
    BY <1>3, <2>1, <2>2
<1> HIDE DEF front, back
<1>13. /\ Entry \in Seq(U) /\ Len(Entry) = Len(front) + Len(back)
       /\ \A k \in 1..Len(front) : Entry[k] = front[k]
       /\ \A k \in 1..Len(back) : Entry[Len(front) + k] = back[k]
  BY <1>1, <1>8, <1>10, JoinedTogether DEF front, back
<1>14. \A k \in 1..5 : Entry[k] = first[k]
  BY <1>10, <1>11, <1>13
<1>15. \A k \in 4..Len(Entry) : Plain(Entry[k])
  <2> SUFFICES ASSUME NEW k \in 4..Len(Entry) PROVE Plain(Entry[k])
    OBVIOUS
  <2>1. CASE k <= 5
    <3>1. k = 4 \/ k = 5
      BY <2>1
    <3> QED
      BY <1>6, <1>14, <3>1
  <2>2. CASE 5 < k /\ k <= Len(front)
    BY <1>12, <1>13, <2>2
  <2>3. CASE Len(front) < k
    <3>1. k - Len(front) \in 1..Len(back) /\ Len(front) + (k - Len(front)) = k
      BY <1>10, <1>11, <1>13, <2>3
    <3>2. Entry[k] = back[k - Len(front)]
      BY <1>13, <3>1
    <3> QED
      BY <1>4, <3>1, <3>2 DEF back
  <2> QED
    BY <1>10, <1>11, <2>1, <2>2, <2>3
<1>16. /\ Len(Entry) \in Nat /\ DOMAIN Entry = 1..Len(Entry)
       /\ Len(Entry) >= 5
  BY <1>10, <1>11, <1>13
<1>17. \A k \in DOMAIN Entry : Entry[k].len = 4
  <2> SUFFICES ASSUME NEW k \in DOMAIN Entry PROVE Entry[k].len = 4
    OBVIOUS
  <2>1. CASE k \in 4..Len(Entry)
    BY <1>15, <2>1 DEF Plain, OfARM
  <2>2. CASE k = 1 \/ k = 2 \/ k = 3
    BY <1>6, <1>14, <2>2
  <2> QED
    BY <1>16, <2>1, <2>2
<1>18. IsTemplate(Entry)
  BY <1>16, <1>17 DEF IsTemplate
<1> QED
  BY <1>7, <1>14, <1>15, <1>16, <1>17, <1>18

LEMMA ExitARM ==
  ASSUME target = "aarch64"
  PROVE  /\ IsTemplate(Exit) /\ Len(Exit) = 4
         /\ Exit[1] = ARM!Pop(<<"x21", "x22">>, 4)
         /\ Exit[2] = ARM!Pop(<<"x19", "x20">>, 4)
         /\ Exit[3] = ARM!Pop(<<"x29", "x30">>, 4)
         /\ Exit[4] = ARM!Ret(4)
<1>1. /\ Exit[1] = ARM!Pop(<<"x21", "x22">>, 4)
      /\ Exit[2] = ARM!Pop(<<"x19", "x20">>, 4)
      /\ Exit[3] = ARM!Pop(<<"x29", "x30">>, 4)
      /\ Exit[4] = ARM!Ret(4)
      /\ Len(Exit) = 4 /\ DOMAIN Exit = 1..4
  BY DEF Exit, OnX86, ARM!EmitExit
<1>2. \A k \in 1..4 : k = 1 \/ k = 2 \/ k = 3 \/ k = 4
  OBVIOUS
<1>3. /\ Exit[1].len = 4 /\ Exit[2].len = 4
      /\ Exit[3].len = 4 /\ Exit[4].len = 4
  BY <1>1 DEF ARM!Pop, ARM!Ret
<1>4. \A k \in 1..4 : Exit[k].len = 4
  BY <1>2, <1>3
<1> QED
  BY <1>1, <1>4 DEF IsTemplate

-----------------------------------------------------------------------------
(* Code goes into the area *)

\* A template laid out behind the code is not in its way.
LEMMA StoredInOrder ==
  ASSUME PageSize \in Nat, size \in Nat, PageSize <= size, CodeInOrder,
         NEW instrs, IsTemplate(instrs),
         code' = Over(code, Placed(size, instrs)), size' = size + CodeLength(instrs)
  PROVE  /\ CodeInOrder'
         /\ \A b \in DOMAIN code : b \in DOMAIN code' /\ code'[b] = code[b] /\ b < size
         /\ LaidOut(code', size, instrs)
         /\ \A b \in DOMAIN code' :
              \/ b \in DOMAIN code
              \/ \E k \in 1..Len(instrs) : b = Ends(size, instrs)[k - 1] /\ b >= size
<1> DEFINE n == Len(instrs)
           end == Ends(size, instrs)
<1>1. /\ n \in Nat /\ \A k \in 1..n : instrs[k].len \in Nat \ {0}
  BY DEF IsTemplate
<1>2. /\ end[0] = size /\ \A k \in 0..n : end[k] \in Nat
      /\ \A k \in 1..n : end[k] = end[k - 1] + instrs[k].len
      /\ \A k \in 0..n : \A j \in 0..(k - 1) : end[j] < end[k]
  BY EndsGrow
<1>3. /\ DOMAIN Placed(size, instrs) = {end[k - 1] : k \in 1..n}
      /\ \A k \in 1..n : Placed(size, instrs)[end[k - 1]] = instrs[k]
      /\ end[n] = size' /\ CodeLength(instrs) \in Nat
  <2>1. size' = size + CodeLength(instrs)
    OBVIOUS
  <2>2. /\ DOMAIN Placed(size, instrs) = {Ends(size, instrs)[k - 1] : k \in 1..Len(instrs)}
        /\ \A k \in 1..Len(instrs) : Placed(size, instrs)[Ends(size, instrs)[k - 1]] = instrs[k]
        /\ Ends(size, instrs)[Len(instrs)] = size + CodeLength(instrs)
        /\ CodeLength(instrs) \in Nat
    BY PlacedInstructions
  <2> QED
    BY <2>1, <2>2
<1> HIDE DEF end, n
<1>4. /\ DOMAIN code' = DOMAIN code \cup {end[k - 1] : k \in 1..n}
      /\ \A b \in DOMAIN code : code'[b] = code[b]
      /\ \A b \in {end[k - 1] : k \in 1..n} : b \notin DOMAIN code => code'[b] = Placed(size, instrs)[b]
  BY <1>3 DEF Over
<1>5. \A b \in DOMAIN code :
        /\ b \in Nat /\ code[b].len \in Nat \ {0} /\ b >= PageSize /\ b + code[b].len <= size
        /\ b < size
  <2> SUFFICES ASSUME NEW b \in DOMAIN code
               PROVE  /\ b \in Nat /\ code[b].len \in Nat \ {0} /\ b >= PageSize
                      /\ b + code[b].len <= size /\ b < size
    OBVIOUS
  <2>1. /\ b \in Nat /\ code[b].len \in Nat \ {0} /\ b >= PageSize /\ b + code[b].len <= size
    BY DEF CodeInOrder
  <2> QED
    BY <2>1
<1>6. ASSUME NEW k \in 1..n
      PROVE  /\ end[k - 1] \in Nat /\ end[k] \in Nat /\ end[k - 1] >= size /\ end[k] <= size'
             /\ end[k - 1] \notin DOMAIN code /\ end[k - 1] \in DOMAIN code'
             /\ code'[end[k - 1]] = instrs[k]
             /\ end[k] = end[k - 1] + instrs[k].len /\ instrs[k].len \in Nat \ {0}
  <2>1. k - 1 \in 0..n /\ k \in 0..n /\ 0 \in 0..n
    BY <1>1
  <2>2. end[k - 1] \in Nat /\ end[k] \in Nat /\ end[k] = end[k - 1] + instrs[k].len
    BY <1>2, <2>1
  <2>3. end[k - 1] >= size
    <3>1. CASE k - 1 = 0
      BY <1>2, <3>1
    <3>2. CASE k - 1 # 0
      <4>1. 0 \in 0..((k - 1) - 1)
        BY <2>1, <3>2
      <4>2. end[0] < end[k - 1]
        BY <1>2, <2>1, <4>1
      <4> QED
        BY <1>2, <2>2, <4>2
    <3> QED
      BY <3>1, <3>2
  <2>4. end[k] <= size'
    <3>1. CASE k = n
      BY <1>2, <1>3, <2>1, <2>2, <3>1
    <3>2. CASE k # n
      <4>1. k \in 0..(n - 1) /\ n \in 0..n
        BY <1>1, <3>2
      <4>2. end[k] < end[n] /\ end[n] \in Nat
        BY <1>2, <4>1
      <4> QED
        BY <1>3, <2>2, <4>2
    <3> QED
      BY <3>1, <3>2
  <2>5. end[k - 1] \notin DOMAIN code
    BY <1>5, <2>2, <2>3
  <2>6. end[k - 1] \in {end[j - 1] : j \in 1..n}
    OBVIOUS
  <2> QED
    BY <1>1, <1>3, <1>4, <2>2, <2>3, <2>4, <2>5, <2>6
<1>7. size' \in Nat /\ size <= size'
  BY <1>3
<1>8. ASSUME NEW b \in DOMAIN code'
      PROVE  \/ b \in DOMAIN code /\ code'[b] = code[b]
             \/ \E k \in 1..n : b = end[k - 1]
  BY <1>4
<1>9. ASSUME NEW b \in DOMAIN code'
      PROVE  /\ b \in Nat /\ code'[b].len \in Nat \ {0}
             /\ b >= PageSize /\ b + code'[b].len <= size'
  <2>1. CASE b \in DOMAIN code /\ code'[b] = code[b]
    BY <1>5, <1>7, <2>1
  <2>2. ASSUME NEW k \in 1..n, b = end[k - 1]
        PROVE  /\ b \in Nat /\ code'[b].len \in Nat \ {0}
               /\ b >= PageSize /\ b + code'[b].len <= size'
    <3>1. /\ b \in Nat /\ b >= size /\ code'[b] = instrs[k] /\ end[k] <= size'
          /\ end[k] = b + instrs[k].len /\ instrs[k].len \in Nat \ {0}
      BY <1>6, <2>2
    <3> QED
      BY <3>1
  <2> QED
    BY <1>8, <2>1, <2>2
<1>10. ASSUME NEW b \in DOMAIN code', NEW c \in DOMAIN code', b < c
       PROVE  b + code'[b].len <= c
  <2>1. CASE b \in DOMAIN code /\ c \in DOMAIN code
    BY <1>4, <1>10, <2>1 DEF CodeInOrder
  <2>2. ASSUME b \in DOMAIN code, NEW k \in 1..n, c = end[k - 1] PROVE b + code'[b].len <= c
    <3>1. c \in Nat /\ c >= size /\ code'[b] = code[b]
      BY <1>4, <1>6, <2>2
    <3>2. b \in Nat /\ code[b].len \in Nat /\ b + code[b].len <= size
      BY <1>5, <2>2
    <3> QED
      BY <3>1, <3>2
  <2>3. ASSUME c \in DOMAIN code, NEW k \in 1..n, b = end[k - 1] PROVE FALSE
    <3>1. b \in Nat /\ b >= size /\ c \in Nat /\ c < size
      BY <1>5, <1>6, <2>3
    <3> QED
      BY <1>10, <3>1
  <2>4. ASSUME NEW j \in 1..n, b = end[j - 1], NEW k \in 1..n, c = end[k - 1]
        PROVE  b + code'[b].len <= c
    <3>1. b \in Nat /\ c \in Nat /\ end[j] = b + code'[b].len
      BY <1>6, <2>4
    <3>2. j <= k - 1
      <4>1. CASE j = k
        BY <1>10, <2>4, <3>1, <4>1
      <4>2. CASE k < j
        <5>1. k - 1 \in 0..((j - 1) - 1) /\ j - 1 \in 0..n
          BY <1>1, <4>2
        <5>2. c < b
          BY <1>2, <2>4, <5>1
        <5> QED
          BY <1>10, <3>1, <5>2
      <4> QED
        BY <4>1, <4>2
    <3>3. j \in 0..n /\ k - 1 \in 0..n
      BY <1>1
    <3>4. CASE j = k - 1
      BY <2>4, <3>1, <3>4
    <3>5. CASE j # k - 1
      <4>1. j \in 0..((k - 1) - 1)
        BY <3>2, <3>5
      <4>2. end[j] < c /\ end[j] \in Nat
        BY <1>2, <2>4, <3>3, <4>1
      <4> QED
        BY <3>1, <4>2
    <3> QED
      BY <3>4, <3>5
  <2> QED
    BY <1>8, <2>1, <2>2, <2>3, <2>4
<1>11. CodeInOrder'
  BY <1>9, <1>10 DEF CodeInOrder
<1>12. LaidOut(code', size, instrs)
  BY <1>6 DEF LaidOut, end, n
<1> QED
  BY <1>4, <1>5, <1>6, <1>8, <1>11, <1>12 DEF end, n

LEMMA EmitStores ==
  ASSUME NEW template, NEW after, Emit(template, after), ~err, Working'
  PROVE  /\ phase' = after /\ ~err' /\ size' = size + CodeLength(template)
         /\ code' = Over(code, Placed(size, template))
BY DEF Emit, Working, EmitData, EmitFails,
       Store, Ignore

LEMMA TemplatesFixed ==
  ASSUME target' = target
  PROVE  /\ Entry' = Entry /\ Exit' = Exit
         /\ BodyStart' = BodyStart /\ JumpLength' = JumpLength
BY DEF Entry, Exit, OnX86, BodyStart, JumpLength

LEMMA EntryAndExit ==
  ASSUME target \in {"x86-64", "aarch64"}
  PROVE  /\ IsTemplate(Entry) /\ CodeLength(Entry) \in Nat
         /\ IsTemplate(Exit) /\ CodeLength(Exit) \in Nat
<1>1. IsTemplate(Entry) /\ IsTemplate(Exit)
  BY EntryX86, ExitX86, EntryARM, ExitARM
<1>2. 0 \in Nat
  OBVIOUS
<1> QED
  BY <1>1, <1>2, PlacedInstructions

LEMMA BoundsFacts ==
  ASSUME target \in {"x86-64", "aarch64"}, Working, BoundsInOrder, stream \in Seq(Operations)
  PROVE  /\ translated \in Nat /\ Len(stream) \in Nat /\ translated <= Len(stream)
         /\ PageSize \in Nat /\ BodyStart \in Nat /\ PageSize <= BodyStart
         /\ \A i \in 1..(translated + 1) :
              Bounds[i] \in Nat /\ BodyStart <= Bounds[i] /\ Bounds[i] <= BodyEnd
         /\ BodyEnd \in Nat /\ BodyStart <= BodyEnd
         /\ size \in Nat /\ BodyEnd <= size /\ PageSize <= size
<1>1. Len(stream) \in Nat /\ translated \in Nat /\ translated <= Len(stream)
  BY DEF BoundsInOrder
<1>2. PageSize \in Nat /\ BodyStart \in Nat /\ PageSize <= BodyStart
  BY EntryAndExit, Numbers DEF BodyStart
<1>3. \A i \in 1..(translated + 1) : Bounds[i] \in Nat
  <2>1. Bounds \in Seq(Nat) /\ Len(Bounds) = translated + 1
    BY DEF BoundsInOrder
  <2>2. DOMAIN Bounds = 1..(translated + 1)
    BY <2>1
  <2> QED
    BY <2>1, <2>2
<1>4. 1 \in 1..(translated + 1) /\ translated + 1 \in 1..(translated + 1)
  BY <1>1
<1>5. \A i \in 1..(translated + 1) : BodyStart <= Bounds[i] /\ Bounds[i] <= BodyEnd
  <2> SUFFICES ASSUME NEW i \in 1..(translated + 1) PROVE BodyStart <= Bounds[i] /\ Bounds[i] <= BodyEnd
    OBVIOUS
  <2>1. i \in 1..(translated + 1) /\ translated + 1 \in i..(translated + 1)
    BY <1>1
  <2>2. Bounds[1] <= Bounds[i] /\ Bounds[i] <= Bounds[translated + 1]
    BY <1>4, <2>1 DEF BoundsInOrder
  <2> QED
    BY <2>2 DEF BodyEnd, BoundsInOrder
<1>6. BodyEnd \in Nat /\ BodyStart <= BodyEnd
  BY <1>3, <1>4, <1>5 DEF BodyEnd
<1>7. size \in Nat /\ BodyEnd <= size
  <2>1. size = BodyEnd \/ size = BodyEnd + CodeLength(Exit)
    BY DEF BoundsInOrder, Working
  <2> QED
    BY <1>6, <2>1, EntryAndExit
<1> QED
  BY <1>1, <1>2, <1>3, <1>5, <1>6, <1>7

LEMMA EntryKeeps ==
  ASSUME target \in {"x86-64", "aarch64"}, stream \in Seq(Operations), Untouched,
         TranslateEntry, Working'
  PROVE  Layout'
<1>1. /\ Emit(Entry, "operations") /\ target' = target /\ stream' = stream
      /\ translated' = 0 /\ jumps' = <<>> /\ labels' = <<>> /\ starts' = <<>>
  BY DEF TranslateEntry, lists, Untouched
<1>2. /\ phase' = "operations" /\ ~err' /\ size' = PageSize + CodeLength(Entry)
      /\ code' = Over(code, Placed(size, Entry)) /\ size = PageSize
  BY <1>1, EmitStores DEF Untouched
<1>3. /\ Entry' = Entry /\ Exit' = Exit
      /\ BodyStart' = BodyStart /\ size' = BodyStart
  BY <1>1, <1>2, TemplatesFixed DEF BodyStart
<1>4. Bounds' = <<BodyStart>>
  <2>1. Bounds' = Append(<<>>, size')
    BY <1>1, <1>2 DEF Bounds
  <2> QED
    BY <1>3, <2>1
<1>5. PageSize \in Nat /\ BodyStart \in Nat
  BY EntryAndExit, Numbers DEF BodyStart
<1>6. BodyEnd' = BodyStart
  BY <1>1, <1>4 DEF BodyEnd
<1>7. BoundsInOrder'
  <2>1. /\ Bounds' \in Seq(Nat) /\ Len(Bounds') = 1 /\ Bounds'[1] = BodyStart /\ starts' \in Seq(Nat)
    BY <1>1, <1>4, <1>5
  <2>2. Len(stream) \in Nat
    OBVIOUS
  <2>3. \A i \in 1..1 : \A j \in i..1 : Bounds'[i] <= Bounds'[j]
    <3>1. \A i \in 1..1 : \A j \in i..1 : i = 1 /\ j = 1
      OBVIOUS
    <3> QED
      BY <1>5, <2>1, <3>1
  <2> QED
    BY <1>1, <1>2, <1>3, <1>6, <2>1, <2>2, <2>3 DEF BoundsInOrder
<1>8. /\ CodeInOrder' /\ LaidOut(code', PageSize, Entry)
      /\ \A b \in DOMAIN code' : \E k \in 1..Len(Entry) : b = Ends(PageSize, Entry)[k - 1]
  <2>1. DOMAIN code = {}
    BY DEF Untouched
  <2>2. CodeInOrder
    BY <2>1 DEF CodeInOrder
  <2> QED
    BY <1>2, <1>5, <2>1, <2>2, StoredInOrder, EntryAndExit
<1>9. BodyHarmless'
  <2>1. \A b \in DOMAIN code' : b \in Nat
    BY <1>8 DEF CodeInOrder
  <2>2. \A b \in DOMAIN code' : ~(BodyStart <= b /\ b < BodyStart)
    BY <1>5, <2>1
  <2> QED
    BY <1>3, <1>6, <2>2 DEF BodyHarmless
<1>10. JumpsSlotted' /\ Noted'
  BY <1>1, <1>2 DEF JumpsSlotted, Noted
<1>11. Aligned'
  <2>1. \A i \in 1..1 : Bounds'[i] - BodyStart = 0
    <3>1. \A i \in 1..1 : i = 1
      OBVIOUS
    <3> QED
      BY <1>4, <1>5, <3>1
  <2> QED
    BY <1>1, <1>3, <2>1 DEF Aligned
<1> QED
  BY <1>2, <1>3, <1>7, <1>8, <1>9, <1>10, <1>11 DEF Layout

LEMMA FourByFour ==
  ASSUME NEW a \in Nat, NEW c \in Nat, (a - c) % 4 = 0, NEW m \in Nat
  PROVE  ((a + 4 * m) - c) % 4 = 0
<1>1. PICK d \in Int : a - c = 4 * d
  <2> DEFINE d == (a - c) \div 4
  <2>1. d \in Int /\ a - c = 4 * d
    OBVIOUS
  <2> QED
    BY <2>1
<1>2. (a + 4 * m) - c = 4 * (d + m) /\ d + m \in Int
  BY <1>1
<1>3. \A e \in Int : (4 * e) % 4 = 0
  OBVIOUS
<1> QED
  BY <1>2, <1>3

\* What TranslateOp does if there is room for the code.
LEMMA OpTranslated ==
  ASSUME BoundsInOrder, TranslateOp, Working'
  PROVE  LET op     == stream[translated + 1]
             instrs == Translation(op)
         IN  /\ phase = "operations" /\ phase' = "operations" /\ ~err' /\ translated < Len(stream)
             /\ target' = target /\ stream' = stream
             /\ size' = size + CodeLength(instrs) /\ code' = Over(code, Placed(size, instrs))
             /\ jumps' = IF IsJump(op) THEN Append(jumps, [op |-> op, behind |-> size']) ELSE jumps
             /\ labels' = IF op.code = "LABEL" THEN Append(labels, [id |-> op.id, at |-> size'])
                          ELSE labels
             /\ translated' = translated + 1 /\ starts' = Append(starts, size)
<1> DEFINE op == stream[translated + 1]
           instrs == Translation(op)
<1>1. /\ phase = "operations" /\ translated < Len(stream)
      /\ Emit(instrs, "operations")
      /\ jumps' = IF IsJump(op) THEN Append(jumps, [op |-> op, behind |-> size']) ELSE jumps
      /\ labels' = IF op.code = "LABEL" THEN Append(labels, [id |-> op.id, at |-> size'])
                   ELSE labels
      /\ translated' = translated + 1 /\ starts' = Append(starts, size)
      /\ target' = target /\ stream' = stream
  BY DEF TranslateOp, IsJump, JumpCodes, IsJump, JumpCodes
<1>2. ~err
  BY DEF BoundsInOrder
<1> HIDE DEF op, instrs
<1>3. /\ phase' = "operations" /\ ~err' /\ size' = size + CodeLength(instrs)
      /\ code' = Over(code, Placed(size, instrs))
  BY <1>1, <1>2, EmitStores
<1> QED
  BY <1>1, <1>3 DEF op, instrs

\* One bound more.
LEMMA BoundsLonger ==
  ASSUME target \in {"x86-64", "aarch64"}, Working, BoundsInOrder, stream \in Seq(Operations),
         phase = "operations", phase' = "operations", ~err', translated < Len(stream),
         target' = target, stream' = stream,
         NEW length \in Nat, size' = size + length,
         translated' = translated + 1, starts' = Append(starts, size)
  PROVE  /\ BoundsInOrder'
         /\ \A i \in 1..(translated + 1) : Bounds'[i] = Bounds[i]
         /\ Bounds'[translated + 2] = size' /\ BodyEnd' = size' /\ size = BodyEnd
         /\ size' \in Nat /\ size <= size'
<1>1. /\ translated \in Nat /\ Len(stream) \in Nat
      /\ \A i \in 1..(translated + 1) : Bounds[i] \in Nat /\ Bounds[i] <= BodyEnd
      /\ size \in Nat
  BY BoundsFacts
<1>2. /\ starts \in Seq(Nat) /\ Bounds = Append(starts, size) /\ Bounds \in Seq(Nat)
      /\ Len(Bounds) = translated + 1 /\ size = BodyEnd /\ Bounds[1] = BodyStart
      /\ \A i \in 1..(translated + 1) : \A j \in i..(translated + 1) : Bounds[i] <= Bounds[j]
  BY DEF BoundsInOrder, Bounds
<1>3. Bounds' = Append(Bounds, size')
  BY <1>2 DEF Bounds
<1>4. size' \in Nat /\ size <= size'
  BY <1>1
<1>5. /\ Bounds' \in Seq(Nat) /\ Len(Bounds') = translated + 2
      /\ \A i \in 1..(translated + 1) : Bounds'[i] = Bounds[i]
      /\ Bounds'[translated + 2] = size'
  <2>1. /\ Append(Bounds, size') \in Seq(Nat) /\ Len(Append(Bounds, size')) = Len(Bounds) + 1
        /\ \A i \in 1..Len(Bounds) : Append(Bounds, size')[i] = Bounds[i]
        /\ Append(Bounds, size')[Len(Bounds) + 1] = size'
    <3>1. Bounds \in Seq(Nat)
      BY <1>2
    <3> QED
      BY <1>4, <3>1
  <2>2. (translated + 1) + 1 = translated + 2
    BY <1>1
  <2> QED
    BY <1>2, <1>3, <2>1, <2>2
<1>6. starts' \in Seq(Nat)
  BY <1>1, <1>2
<1>7. BodyEnd' = size'
  <2>1. (translated + 1) + 1 = translated + 2
    BY <1>1
  <2> QED
    BY <1>5, <2>1 DEF BodyEnd
<1>8. \A i \in 1..(translated + 2) : \A j \in i..(translated + 2) : Bounds'[i] <= Bounds'[j]
  <2> SUFFICES ASSUME NEW i \in 1..(translated + 2), NEW j \in i..(translated + 2)
               PROVE  Bounds'[i] <= Bounds'[j]
    OBVIOUS
  <2>1. CASE j = translated + 2
    <3>1. CASE i = translated + 2
      BY <1>4, <1>5, <2>1, <3>1
    <3>2. CASE i # translated + 2
      <4>1. i \in 1..(translated + 1)
        BY <1>1, <3>2
      <4>2. Bounds'[i] = Bounds[i] /\ Bounds[i] \in Nat /\ Bounds[i] <= size
        BY <1>1, <1>2, <1>5, <4>1
      <4> QED
        BY <1>1, <1>4, <1>5, <2>1, <4>2
    <3> QED
      BY <3>1, <3>2
  <2>2. CASE j # translated + 2
    <3>1. i \in 1..(translated + 1) /\ j \in i..(translated + 1) /\ j \in 1..(translated + 1)
      BY <1>1, <2>2
    <3> QED
      BY <1>2, <1>5, <3>1
  <2> QED
    BY <2>1, <2>2
<1>9. BodyStart' = BodyStart
  BY TemplatesFixed
<1>10. Bounds'[1] = BodyStart
  BY <1>1, <1>2, <1>5
<1>11. BoundsInOrder'
  <2>1. /\ translated' \in 0..Len(stream) /\ translated' + 1 = translated + 2
    BY <1>1
  <2> QED
    BY <1>5, <1>6, <1>7, <1>8, <1>9, <1>10, <2>1 DEF BoundsInOrder
<1> QED
  BY <1>2, <1>4, <1>5, <1>7, <1>11

LEMMA OpKeeps ==
  ASSUME target \in {"x86-64", "aarch64"}, stream \in Seq(Operations), Working, Layout,
         TranslateOp, Working',
         NEW i, i = translated + 1, NEW op, op = stream[i],
         NEW instrs, instrs = Translation(op)
  PROVE  Layout'
<1> DEFINE end == Ends(size, instrs)
           n == Len(instrs)
<1>1. /\ phase = "operations" /\ phase' = "operations" /\ ~err' /\ translated < Len(stream)
      /\ target' = target /\ stream' = stream
      /\ size' = size + CodeLength(instrs) /\ code' = Over(code, Placed(size, instrs))
      /\ jumps' = IF IsJump(op) THEN Append(jumps, [op |-> op, behind |-> size']) ELSE jumps
      /\ labels' = IF op.code = "LABEL" THEN Append(labels, [id |-> op.id, at |-> size']) ELSE labels
      /\ translated' = translated + 1 /\ starts' = Append(starts, size)
  BY OpTranslated DEF Layout
<1>2. /\ translated \in Nat /\ Len(stream) \in Nat /\ PageSize \in Nat /\ BodyStart \in Nat
      /\ PageSize <= BodyStart /\ BodyEnd \in Nat /\ BodyStart <= BodyEnd
      /\ size \in Nat /\ PageSize <= size
      /\ \A q \in 1..(translated + 1) :
           Bounds[q] \in Nat /\ BodyStart <= Bounds[q] /\ Bounds[q] <= BodyEnd
  BY BoundsFacts DEF Layout
<1>3. op \in Operations /\ i \in 1..Len(stream)
  BY <1>1, <1>2
<1>4. TemplateFits(op, instrs) /\ IsTemplate(instrs)
  <2>1. op.code \in Codes
    BY <1>3 DEF Operations
  <2> QED
    BY <2>1, TranslationFits DEF TemplateFits
<1>5. n \in Nat /\ DOMAIN instrs = 1..n /\ n \in 0..n /\ 0 \in Nat
  BY <1>4 DEF IsTemplate
<1>6. /\ \A k \in 0..n : end[k] = size + Ends(0, instrs)[k] /\ end[k] \in Nat
      /\ \A k \in 1..n : end[k] = end[k - 1] + instrs[k].len
      /\ end[n] = size' /\ CodeLength(instrs) \in Nat
  <2>1. \A k \in 0..n : end[k] = size + Ends(0, instrs)[k]
    BY <1>2, <1>4, EndsMove
  <2>2. /\ \A k \in 0..n : end[k] \in Nat
        /\ \A k \in 1..n : end[k] = end[k - 1] + instrs[k].len
    BY <1>2, <1>4, EndsGrow
  <2>3. end[n] = size + CodeLength(instrs) /\ CodeLength(instrs) \in Nat
    BY <1>2, <1>4, PlacedInstructions
  <2> QED
    BY <1>1, <2>1, <2>2, <2>3
<1>7. /\ BoundsInOrder'
      /\ \A q \in 1..(translated + 1) : Bounds'[q] = Bounds[q]
      /\ Bounds'[translated + 2] = size' /\ BodyEnd' = size' /\ size = BodyEnd
      /\ size' \in Nat /\ size <= size'
  <2>1. BoundsInOrder
    BY DEF Layout
  <2> QED
    BY <1>1, <1>6, <2>1, BoundsLonger
<1>8. /\ Entry' = Entry /\ BodyStart' = BodyStart /\ JumpLength' = JumpLength
  BY <1>1, TemplatesFixed
<1>9. /\ CodeInOrder'
      /\ \A b \in DOMAIN code : b \in DOMAIN code' /\ code'[b] = code[b] /\ b < size
      /\ LaidOut(code', size, instrs)
      /\ \A b \in DOMAIN code' : b \in DOMAIN code \/ \E k \in 1..n : b = end[k - 1] /\ b >= size
  <2>1. CodeInOrder
    BY DEF Layout
  <2>2. /\ PageSize \in Nat /\ size \in Nat /\ PageSize <= size /\ IsTemplate(instrs)
        /\ code' = Over(code, Placed(size, instrs)) /\ size' = size + CodeLength(instrs)
    BY <1>1, <1>2, <1>4
  <2> QED
    BY <2>1, <2>2, StoredInOrder
<1> HIDE DEF end, n
<1>10. \A q \in 1..translated : SlotOf(q)' = SlotOf(q) /\ JumpNote(q)' = JumpNote(q)
                                 /\ LabelNote(q)' = LabelNote(q)
  <2> SUFFICES ASSUME NEW q \in 1..translated
               PROVE  /\ SlotOf(q)' = SlotOf(q) /\ JumpNote(q)' = JumpNote(q)
                      /\ LabelNote(q)' = LabelNote(q)
    OBVIOUS
  <2>1. q \in 1..(translated + 1) /\ q + 1 \in 1..(translated + 1)
    BY <1>2
  <2> QED
    BY <1>1, <1>7, <1>8, <2>1 DEF SlotOf, JumpNote, LabelNote
<1>11. i \in 1..translated' /\ \A q \in 1..translated' : q \in 1..translated \/ q = i
  BY <1>1, <1>2
\* The slot of a jump is its last instruction.
<1>12. ASSUME IsJump(op)
       PROVE  /\ n \in 1..n /\ SlotOf(i)' = end[n - 1] /\ instrs[n].len = JumpLength
  <2>1. n \in 1..n /\ instrs[n].len = JumpLength
    BY <1>4, <1>5, <1>12 DEF TemplateFits, n
  <2>2. size' = end[n - 1] + JumpLength /\ n - 1 \in 0..n
    BY <1>6, <2>1
  <2>3. SlotOf(i)' = size' - JumpLength
    <3>1. i + 1 = translated + 2
      BY <1>2
    <3> QED
      BY <1>7, <1>8, <3>1 DEF SlotOf
  <2>4. JumpLength \in Nat /\ end[n - 1] \in Nat
    BY <1>6, <2>2 DEF JumpLength
  <2> QED
    BY <2>1, <2>2, <2>3, <2>4
<1>13. BodyHarmless'
  <2> SUFFICES ASSUME NEW b \in DOMAIN code', BodyStart <= b, b < size'
               PROVE  /\ Harmless(code'[b])
                      /\ target = "aarch64" => OfARM(code'[b])
                      /\ code'[b].do = "branch" =>
                           \/ b + code'[b].len + code'[b].distance \in BodyStart..size'
                           \/ \E q \in 1..translated' : IsJump(stream'[q]) /\ b = SlotOf(q)'
    BY <1>1, <1>7, <1>8 DEF BodyHarmless, Body
  <2>1. CASE b \in DOMAIN code
    <3>1. code'[b] = code[b] /\ b < BodyEnd
      BY <1>7, <1>9, <2>1
    <3>2. /\ Harmless(code[b])
          /\ target = "aarch64" => OfARM(code[b])
          /\ code[b].do = "branch" =>
               \/ b + code[b].len + code[b].distance \in BodyStart..BodyEnd
               \/ \E q \in 1..translated : IsJump(stream[q]) /\ b = SlotOf(q)
      BY <2>1, <3>1 DEF Layout, BodyHarmless, Body
    <3>3. ASSUME code[b].do = "branch", b + code[b].len + code[b].distance \in BodyStart..BodyEnd
          PROVE  b + code[b].len + code[b].distance \in BodyStart..size'
      BY <1>2, <1>7, <3>3
    <3>4. ASSUME NEW q \in 1..translated, IsJump(stream[q]), b = SlotOf(q)
          PROVE  \E r \in 1..translated' : IsJump(stream'[r]) /\ b = SlotOf(r)'
      <4>1. q \in 1..translated'
        BY <1>1, <1>2
      <4> QED
        BY <1>1, <1>10, <3>4, <4>1
    <3> QED
      BY <3>1, <3>2, <3>3, <3>4
  <2>2. ASSUME NEW k \in 1..n, b = end[k - 1]
        PROVE  /\ Harmless(code'[b])
               /\ target = "aarch64" => OfARM(code'[b])
               /\ code'[b].do = "branch" =>
                    \/ b + code'[b].len + code'[b].distance \in BodyStart..size'
                    \/ \E q \in 1..translated' : IsJump(stream'[q]) /\ b = SlotOf(q)'
    <3>1. code'[b] = instrs[k] /\ k \in DOMAIN instrs
      BY <1>5, <1>9, <2>2 DEF LaidOut, end, n
    <3>2. /\ Harmless(instrs[k])
          /\ target = "aarch64" => OfARM(instrs[k])
          /\ instrs[k].do = "branch" => (IsJump(op) /\ k = n) \/ Closed(instrs, k)
      BY <1>4, <3>1 DEF TemplateFits, n
    <3>3. ASSUME Closed(instrs, k)
          PROVE  b + instrs[k].len + instrs[k].distance \in BodyStart..size'
      <4>1. k \in 0..n /\ b + instrs[k].len = end[k] /\ end[k] = size + Ends(0, instrs)[k]
        BY <1>5, <1>6, <2>2
      <4>2. Ends(0, instrs)[k] + instrs[k].distance \in 0..CodeLength(instrs)
        BY <3>3 DEF Closed
      <4>3. Ends(0, instrs)[k] \in Nat
        BY <1>4, <1>5, <4>1, EndsGrow DEF n
      <4>4. instrs[k].distance \in Int
        BY <3>3 DEF Closed
      <4>5. size \in Nat /\ size' = size + CodeLength(instrs) /\ CodeLength(instrs) \in Nat
            /\ BodyStart \in Nat /\ BodyStart <= size
        BY <1>1, <1>2, <1>6, <1>7
      <4> DEFINE r == Ends(0, instrs)[k]
                 d == instrs[k].distance
      <4>6. (size + r) + d \in BodyStart..size'
        <5>1. r \in Nat /\ d \in Int /\ r + d >= 0 /\ r + d <= CodeLength(instrs)
          BY <4>2, <4>3, <4>4, <4>5
        <5> HIDE DEF r, d
        <5> QED
          BY <4>5, <5>1
      <4> QED
        BY <4>1, <4>6
    <3>4. ASSUME IsJump(op), k = n
          PROVE  \E q \in 1..translated' : IsJump(stream'[q]) /\ b = SlotOf(q)'
      BY <1>1, <1>11, <1>12, <2>2, <3>4
    <3> QED
      BY <3>1, <3>2, <3>3, <3>4
  <2> QED
    BY <1>9, <2>1, <2>2
<1>14. /\ IsJump(op) => JumpNote(i)' = [op |-> op, behind |-> size']
       /\ op.code = "LABEL" => LabelNote(i)' = [id |-> op.id, at |-> size']
  <2>1. i + 1 = translated + 2 /\ stream'[i] = op /\ i \in 1..(translated + 1)
    BY <1>1, <1>2
  <2>2. Bounds'[i + 1] = size' /\ Bounds'[i] = Bounds[i] /\ Bounds[i] = size
    BY <1>7, <2>1 DEF BodyEnd
  <2>3. ASSUME op.code = "LABEL" PROVE size' = size
    <3>1. n = 0
      BY <1>4, <2>3 DEF TemplateFits, n
    <3>2. Ends(size, instrs)[0] = size
      BY <1>2, <1>4, EndsGrow
    <3> QED
      BY <1>6, <3>1, <3>2 DEF end
  <2> QED
    BY <2>1, <2>2, <2>3 DEF JumpNote, LabelNote
<1>15. jumps' \in Seq(JumpNotes') /\ labels' \in Seq(LabelNotes')
  <2>1. jumps \in Seq(JumpNotes) /\ labels \in Seq(LabelNotes)
    BY DEF Layout, Noted
  <2>2. /\ JumpNotes' = {JumpNote(q)' : q \in {r \in 1..translated' : IsJump(stream'[r])}}
        /\ LabelNotes' = {LabelNote(q)' : q \in {r \in 1..translated' : stream'[r].code = "LABEL"}}
    BY DEF JumpNotes, LabelNotes
  <2>3. JumpNotes \subseteq JumpNotes' /\ LabelNotes \subseteq LabelNotes'
    <3>1. \A q \in 1..translated : q \in 1..translated' /\ stream'[q] = stream[q]
      BY <1>1, <1>2
    <3> QED
      BY <1>10, <2>2, <3>1 DEF JumpNotes, LabelNotes
  <2>4. stream'[i] = op
    BY <1>1
  <2>5. /\ IsJump(op) => [op |-> op, behind |-> size'] \in JumpNotes'
        /\ op.code = "LABEL" => [id |-> op.id, at |-> size'] \in LabelNotes'
    BY <1>11, <1>14, <2>2, <2>4
  <2>6. jumps \in Seq(JumpNotes') /\ labels \in Seq(LabelNotes')
    BY <2>1, <2>3
  <2> QED
    BY <1>1, <2>5, <2>6
\* What was noted stays noted.
<1>16. /\ \A k \in DOMAIN jumps : k \in DOMAIN jumps' /\ jumps'[k] = jumps[k]
       /\ \A k \in DOMAIN labels : k \in DOMAIN labels' /\ labels'[k] = labels[k]
       /\ IsJump(op) => \E k \in DOMAIN jumps' : jumps'[k] = [op |-> op, behind |-> size']
       /\ op.code = "LABEL" => \E k \in DOMAIN labels' : labels'[k] = [id |-> op.id, at |-> size']
  <2>1. jumps \in Seq(JumpNotes) /\ labels \in Seq(LabelNotes)
    BY DEF Layout, Noted
  <2>2. ASSUME NEW S, NEW s \in Seq(S), NEW x
        PROVE  /\ \A k \in DOMAIN s : k \in DOMAIN Append(s, x) /\ Append(s, x)[k] = s[k]
               /\ \E k \in DOMAIN Append(s, x) : Append(s, x)[k] = x
    <3>1. /\ Len(s) \in Nat /\ DOMAIN s = 1..Len(s)
          /\ DOMAIN Append(s, x) = 1..(Len(s) + 1) /\ Append(s, x)[Len(s) + 1] = x
          /\ \A k \in 1..Len(s) : Append(s, x)[k] = s[k]
      OBVIOUS
    <3>2. Len(s) + 1 \in 1..(Len(s) + 1)
      BY <3>1
    <3> QED
      BY <3>1, <3>2
  <2>3. CASE IsJump(op)
    <3>1. jumps' = Append(jumps, [op |-> op, behind |-> size']) /\ labels' = labels
      BY <1>1, <2>3 DEF IsJump, JumpCodes
    <3>2. op.code # "LABEL"
      BY <2>3 DEF IsJump, JumpCodes
    <3> QED
      BY <2>1, <2>2, <3>1, <3>2
  <2>4. CASE op.code = "LABEL"
    <3>1. labels' = Append(labels, [id |-> op.id, at |-> size']) /\ jumps' = jumps
      BY <1>1, <2>4 DEF IsJump, JumpCodes
    <3>2. ~IsJump(op)
      BY <2>4 DEF IsJump, JumpCodes
    <3> QED
      BY <2>1, <2>2, <3>1, <3>2
  <2>5. CASE ~IsJump(op) /\ op.code # "LABEL"
    BY <1>1, <2>5
  <2> QED
    BY <2>3, <2>4, <2>5
<1>17. JumpsSlotted'
  <2> SUFFICES ASSUME NEW q \in 1..translated', IsJump(stream'[q])
               PROVE  /\ SlotOf(q)' \in DOMAIN code' /\ code'[SlotOf(q)'].len = JumpLength
                      /\ Bounds'[q] <= SlotOf(q)'
                      /\ \E k \in DOMAIN jumps' : jumps'[k] = JumpNote(q)'
    BY <1>8 DEF JumpsSlotted
  <2>1. CASE q \in 1..translated
    <3>1. /\ SlotOf(q) \in DOMAIN code /\ code[SlotOf(q)].len = JumpLength
          /\ Bounds[q] <= SlotOf(q)
          /\ \E k \in DOMAIN jumps : jumps[k] = JumpNote(q)
      BY <1>1, <2>1 DEF Layout, JumpsSlotted
    <3>2. Bounds'[q] = Bounds[q]
      BY <1>2, <1>7, <2>1
    <3> QED
      BY <1>9, <1>10, <1>16, <2>1, <3>1, <3>2
  <2>2. CASE q = i
    <3>1. IsJump(op)
      BY <1>1, <2>2
    <3>2. /\ n \in 1..n /\ SlotOf(i)' = end[n - 1] /\ instrs[n].len = JumpLength
      BY <1>12, <3>1
    <3>3. end[n - 1] \in DOMAIN code' /\ code'[end[n - 1]] = instrs[n]
      BY <1>9, <3>2 DEF LaidOut, end, n
    <3>4. Bounds'[i] <= end[n - 1]
      <4>1. Bounds'[i] = size
        BY <1>2, <1>7 DEF BodyEnd
      <4>2. n - 1 \in 0..n
        BY <3>2
      <4>3. end[n - 1] = size + Ends(0, instrs)[n - 1] /\ Ends(0, instrs)[n - 1] \in Nat
        BY <1>4, <1>5, <1>6, <4>2, EndsGrow DEF n
      <4> QED
        BY <1>2, <4>1, <4>3
    <3> QED
      BY <1>14, <1>16, <2>2, <3>1, <3>2, <3>3, <3>4
  <2> QED
    BY <1>11, <2>1, <2>2
<1>18. Noted'
  <2>1. \A q \in 1..translated' : stream'[q].code = "LABEL" =>
          \E k \in DOMAIN labels' : labels'[k] = LabelNote(q)'
    <3> SUFFICES ASSUME NEW q \in 1..translated', stream'[q].code = "LABEL"
                 PROVE  \E k \in DOMAIN labels' : labels'[k] = LabelNote(q)'
      OBVIOUS
    <3>1. CASE q \in 1..translated
      <4>1. PICK k \in DOMAIN labels : labels[k] = LabelNote(q)
        BY <1>1, <3>1 DEF Layout, Noted
      <4> QED
        BY <1>10, <1>16, <3>1, <4>1
    <3>2. CASE q = i
      BY <1>1, <1>14, <1>16, <3>2
    <3> QED
      BY <1>11, <3>1, <3>2
  <2> QED
    BY <1>1, <1>15, <2>1 DEF Noted
<1>19. Aligned'
  <2> SUFFICES ASSUME target = "aarch64", NEW q \in 1..(translated' + 1)
               PROVE  (Bounds'[q] - BodyStart) % 4 = 0
    BY <1>1, <1>8 DEF Aligned
  <2>1. \A r \in 1..(translated + 1) : (Bounds[r] - BodyStart) % 4 = 0
    BY DEF Layout, Aligned
  <2>2. CASE q \in 1..(translated + 1)
    BY <1>7, <2>1, <2>2
  <2>3. CASE q = translated + 2
    <3>1. \A k \in DOMAIN instrs : instrs[k].len = 4
      BY <1>4 DEF TemplateFits, OfARM
    <3>2. end[n] = size + 4 * n
      <4>1. size \in Nat /\ IsTemplate(instrs)
        BY <1>2, <1>4
      <4>2. \A k \in 0..Len(instrs) : Ends(size, instrs)[k] = size + 4 * k
        BY ONLY <3>1, <4>1, EndsByFours
      <4> QED
        BY <1>5, <4>2 DEF end, n
    <3>3. (BodyEnd - BodyStart) % 4 = 0
      BY <1>2, <2>1 DEF BodyEnd
    <3>4. ASSUME NEW a \in Nat, NEW c \in Nat, (a - c) % 4 = 0, NEW m \in Nat
          PROVE  ((a + 4 * m) - c) % 4 = 0
      BY <3>4, FourByFour
    <3> QED
      BY <1>2, <1>5, <1>6, <1>7, <2>3, <3>2, <3>3, <3>4
  <2> QED
    BY <1>1, <1>2, <2>2, <2>3
<1>20. LaidOut(code', PageSize, Entry)
  BY <1>9 DEF Layout, LaidOut
<1> QED
  BY <1>1, <1>7, <1>8, <1>9, <1>13, <1>17, <1>18, <1>19, <1>20 DEF Layout

-----------------------------------------------------------------------------
(* Jumps are patched *)

\* A jump of a sound stream leads to a label of it.
LEMMA TargetFound ==
  ASSUME Sound(stream), NEW i \in DOMAIN stream, IsJump(stream[i])
  PROVE  /\ Target(i) \in DOMAIN stream /\ stream[Target(i)].code = "LABEL"
         /\ stream[Target(i)].id = stream[i].op1
<1>1. PICK l \in DOMAIN stream : Joined(stream, i, l)
  BY DEF Sound, WellJoined
<1>2. stream[i].op1 = stream[l].id /\ stream[l].code = "LABEL"
  BY <1>1 DEF Joined
<1>3. Target(i) = l
  BY <1>2, PositionOfAddress DEF Target, Sound
<1> QED
  BY <1>2, <1>3

\* What was noted of the label of a jump is found again.
LEMMA LabelFound ==
  ASSUME Sound(stream), Layout, phase = "jumps", NEW i \in 1..translated, IsJump(stream[i]),
         NEW jump, jump = JumpNote(i)
  PROVE  LabelOf(jump).at = Bounds[Target(i)]
<1> DEFINE S == {n \in DOMAIN labels : labels[n].id = stream[i].op1}
<1>1. translated = Len(stream) /\ DOMAIN stream = 1..translated
  BY DEF Layout, BoundsInOrder, Sound
<1>2. /\ Target(i) \in 1..translated /\ stream[Target(i)].code = "LABEL"
      /\ stream[Target(i)].id = stream[i].op1
  BY <1>1, TargetFound
<1>3. PICK n \in DOMAIN labels : labels[n] = LabelNote(Target(i))
  BY <1>2 DEF Layout, Noted
<1>4. labels \in Seq(LabelNotes)
  BY DEF Layout, Noted
<1>5. S \in SUBSET Nat /\ n \in S
  BY <1>2, <1>3, <1>4 DEF LabelNote
<1>6. Min(S) \in DOMAIN labels /\ labels[Min(S)].id = stream[i].op1
  <2>1. Min(S) \in S
    <3> HIDE DEF S
    <3> QED
      BY <1>5, SmallestNumber
  <2> QED
    BY <2>1
<1>7. PICK l \in 1..translated : labels[Min(S)] = LabelNote(l)
  <2>1. labels[Min(S)] \in LabelNotes
    BY <1>4, <1>6
  <2> QED
    BY <2>1 DEF LabelNotes
<1>8. l = Target(i)
  BY <1>1, <1>2, <1>6, <1>7 DEF LabelNote, Sound, Distinct
<1>9. LabelOf(jump) = labels[Min(S)]
  BY DEF LabelOf, Min, JumpNote
<1> QED
  BY <1>7, <1>8, <1>9 DEF LabelNote

\* The slots of two jumps are different, and all of them lie in the body.
LEMMA SlotsApart ==
  ASSUME target \in {"x86-64", "aarch64"}, stream \in Seq(Operations), Working, Layout,
         NEW i \in 1..translated, IsJump(stream[i])
  PROVE  /\ SlotOf(i) \in Nat /\ BodyStart <= SlotOf(i) /\ SlotOf(i) < BodyEnd
         /\ SlotOf(i) + JumpLength = Bounds[i + 1]
         /\ \A q \in 1..translated : IsJump(stream[q]) /\ SlotOf(q) = SlotOf(i) => q = i
<1>1. /\ translated \in Nat /\ BodyStart \in Nat /\ BodyEnd \in Nat
      /\ \A q \in 1..(translated + 1) :
           Bounds[q] \in Nat /\ BodyStart <= Bounds[q] /\ Bounds[q] <= BodyEnd
  BY BoundsFacts DEF Layout
<1>2. JumpLength \in Nat \ {0}
  BY DEF JumpLength
<1>3. \A q \in 1..translated : IsJump(stream[q]) =>
        /\ q \in 1..(translated + 1) /\ q + 1 \in 1..(translated + 1)
        /\ Bounds[q] \in Nat /\ Bounds[q + 1] \in Nat /\ Bounds[q] <= SlotOf(q)
        /\ SlotOf(q) = Bounds[q + 1] - JumpLength
  <2>1. \A q \in 1..translated : q \in 1..(translated + 1) /\ q + 1 \in 1..(translated + 1)
    BY <1>1
  <2> QED
    BY <1>1, <2>1 DEF Layout, JumpsSlotted, SlotOf
<1>4. \A q, r \in 1..translated : IsJump(stream[q]) /\ IsJump(stream[r]) /\ q < r => SlotOf(q) < SlotOf(r)
  <2> SUFFICES ASSUME NEW q \in 1..translated, NEW r \in 1..translated,
                      IsJump(stream[q]), IsJump(stream[r]), q < r
               PROVE  SlotOf(q) < SlotOf(r)
    OBVIOUS
  <2>1. q + 1 \in 1..(translated + 1) /\ r \in (q + 1)..(translated + 1)
    BY <1>1
  <2>2. Bounds[q + 1] <= Bounds[r]
    BY <2>1 DEF Layout, BoundsInOrder
  <2>3. Bounds[q + 1] \in Nat /\ SlotOf(q) = Bounds[q + 1] - JumpLength
    BY <1>3
  <2>4. SlotOf(q) \in Int /\ SlotOf(q) < Bounds[q + 1]
    BY <1>2, <2>3
  <2>5. Bounds[r + 1] \in Nat /\ SlotOf(r) = Bounds[r + 1] - JumpLength
    BY <1>3
  <2>6. SlotOf(r) \in Int
    BY <1>2, <2>5
  <2>7. Bounds[r] \in Nat /\ Bounds[r] <= SlotOf(r)
    BY <1>3
  <2> QED
    BY <2>2, <2>3, <2>4, <2>6, <2>7
<1>5. /\ SlotOf(i) \in Nat /\ BodyStart <= SlotOf(i) /\ SlotOf(i) < BodyEnd
      /\ SlotOf(i) + JumpLength = Bounds[i + 1]
  BY <1>1, <1>2, <1>3
<1>6. ASSUME NEW q \in 1..translated, IsJump(stream[q]), SlotOf(q) = SlotOf(i) PROVE q = i
  <2>1. ~(q < i) /\ ~(i < q)
    BY <1>3, <1>4, <1>5, <1>6
  <2> QED
    BY <1>1, <2>1
<1> QED
  BY <1>5, <1>6

\* The branch a jump gets is an instruction like others.
LEMMA BranchFits ==
  ASSUME target \in {"x86-64", "aarch64"}, NEW opcode, NEW distance
  PROVE  /\ Jump(opcode, distance).len = JumpLength
         /\ Jump(opcode, distance).do = "branch"
         /\ Harmless(Jump(opcode, distance))
         /\ target = "aarch64" => OfARM(Jump(opcode, distance))
<1>1. /\ Jump(opcode, distance).len = JumpLength
      /\ Jump(opcode, distance).do = "branch"
  BY DEF Jump, OnX86, X86!Jump, X86!Branch, ARM!Jump,
         ARM!BCond, ARM!Branch, JumpLength
<1> QED
  BY <1>1 DEF Harmless, OfARM, JumpLength

LEMMA PatchKeeps ==
  ASSUME target \in {"x86-64", "aarch64"}, Sound(stream), Working, Layout, PatchJump
  PROVE  Layout'
<1>1. /\ phase = "jumps" /\ phase' = "jumps" /\ jumps # <<>> /\ jumps' = Tail(jumps)
      /\ PatchCode(Head(jumps), LabelOf(Head(jumps)).at - Head(jumps).behind)
      /\ target' = target /\ stream' = stream /\ translated' = translated /\ labels' = labels
      /\ starts' = starts /\ size' = size /\ err' = err
  BY DEF PatchJump, areaVars, bookkeeping
<1>2. /\ translated \in Nat /\ PageSize \in Nat /\ BodyStart \in Nat /\ BodyEnd \in Nat
      /\ stream \in Seq(Operations)
      /\ \A q \in 1..(translated + 1) : Bounds[q] \in Nat /\ BodyStart <= Bounds[q]
  BY BoundsFacts DEF Layout, Sound
<1>3. jumps \in Seq(JumpNotes) /\ jumps' \in Seq(JumpNotes) /\ Head(jumps) \in JumpNotes
  BY <1>1 DEF Layout, Noted
<1>4. PICK i \in 1..translated : IsJump(stream[i]) /\ Head(jumps) = JumpNote(i)
  BY <1>3 DEF JumpNotes
<1> DEFINE slot == SlotOf(i)
           branch == BranchOf(i)
<1>5. /\ slot \in Nat /\ BodyStart <= slot /\ slot < BodyEnd
      /\ \A q \in 1..translated : IsJump(stream[q]) /\ SlotOf(q) = slot => q = i
      /\ slot \in DOMAIN code /\ code[slot].len = JumpLength
  BY <1>2, <1>4, SlotsApart DEF Layout, JumpsSlotted
<1>6. /\ branch.len = JumpLength /\ branch.do = "branch" /\ Harmless(branch)
      /\ target = "aarch64" => OfARM(branch)
  BY BranchFits DEF BranchOf
<1>7. code' = [code EXCEPT ![slot] = branch]
  <2>1. LabelOf(Head(jumps)).at = Bounds[Target(i)]
    BY <1>1, <1>4, LabelFound
  <2>2. Head(jumps).behind = Bounds[i + 1] /\ Head(jumps).op.code = stream[i].code
    BY <1>4 DEF JumpNote
  <2>3. PatchCode(Head(jumps), Bounds[Target(i)] - Bounds[i + 1])
    BY <1>1, <2>1, <2>2
  <2> QED
    BY <1>6, <2>2, <2>3 DEF PatchCode, SlotOf, BranchOf
<1> HIDE DEF slot, branch
<1>8. /\ DOMAIN code' = DOMAIN code /\ code'[slot] = branch
      /\ \A b \in DOMAIN code : code'[b].len = code[b].len /\ (b # slot => code'[b] = code[b])
  BY <1>5, <1>6, <1>7
<1>9. /\ Entry' = Entry /\ Exit' = Exit
      /\ BodyStart' = BodyStart /\ JumpLength' = JumpLength
  BY <1>1, TemplatesFixed
<1>10. Bounds' = Bounds /\ BodyEnd' = BodyEnd
  BY <1>1 DEF Bounds, BodyEnd
<1>11. \A q : /\ SlotOf(q)' = SlotOf(q) /\ Target(q)' = Target(q)
              /\ JumpNote(q)' = JumpNote(q) /\ LabelNote(q)' = LabelNote(q)
              /\ BranchOf(q)' = BranchOf(q)
  <2>1. \A q : /\ SlotOf(q)' = SlotOf(q) /\ Target(q)' = Target(q)
               /\ JumpNote(q)' = JumpNote(q) /\ LabelNote(q)' = LabelNote(q)
    BY <1>1, <1>9, <1>10 DEF SlotOf, Target, JumpNote, LabelNote
  <2>2. \A q : BranchOf(q)' = BranchOf(q)
    BY <1>1, <1>10, <2>1 DEF BranchOf, Jump, OnX86
  <2> QED
    BY <2>1, <2>2
<1>12. BoundsInOrder'
  BY <1>1, <1>9, <1>10 DEF Layout, BoundsInOrder
<1>13. CodeInOrder'
  BY <1>1, <1>8 DEF Layout, CodeInOrder
<1>14. LaidOut(code', PageSize, Entry)
  <2> DEFINE n == Len(Entry)
             end == Ends(PageSize, Entry)
  <2>1. n \in Nat /\ end[n] = BodyStart
    BY <1>2, EntryAndExit, PlacedInstructions DEF BodyStart, IsTemplate
  <2>2. \A k \in 0..n : \A j \in 0..(k - 1) : end[j] < end[k]
    BY <1>2, EntryAndExit, EndsGrow
  <2>3. LaidOut(code, PageSize, Entry)
    BY DEF Layout
  <2> HIDE DEF end
  <2>4. \A k \in 1..n : end[k - 1] < BodyStart
    <3>1. n \in 0..n /\ \A k \in 1..n : k - 1 \in 0..(n - 1)
      BY <2>1
    <3> QED
      BY <2>1, <2>2, <3>1
  <2>5. \A k \in 1..n : end[k - 1] # slot
    BY <1>2, <1>5, <2>4
  <2> QED
    BY <1>8, <2>3, <2>5 DEF LaidOut, end, n
<1>15. BodyHarmless'
  <2> SUFFICES ASSUME NEW b \in DOMAIN code, BodyStart <= b, b < BodyEnd
               PROVE  /\ Harmless(code'[b])
                      /\ target = "aarch64" => OfARM(code'[b])
                      /\ code'[b].do = "branch" =>
                           \/ b + code'[b].len + code'[b].distance \in Body
                           \/ \E q \in 1..translated : IsJump(stream[q]) /\ b = SlotOf(q)
    BY <1>1, <1>8, <1>9, <1>10, <1>11 DEF BodyHarmless, Body
  <2>1. CASE b = slot
    BY <1>4, <1>6, <1>8, <2>1 DEF slot
  <2>2. CASE b # slot
    BY <1>8, <2>2 DEF Layout, BodyHarmless
  <2> QED
    BY <2>1, <2>2
<1>16. JumpsSlotted'
  <2> SUFFICES ASSUME NEW q \in 1..translated, IsJump(stream[q])
               PROVE  /\ SlotOf(q) \in DOMAIN code' /\ code'[SlotOf(q)].len = JumpLength
                      /\ Bounds[q] <= SlotOf(q)
                      /\ \/ \E n \in DOMAIN jumps' : jumps'[n] = JumpNote(q)
                         \/ code'[SlotOf(q)] = BranchOf(q)
    BY <1>1, <1>9, <1>10, <1>11 DEF JumpsSlotted
  <2>1. /\ SlotOf(q) \in DOMAIN code /\ code[SlotOf(q)].len = JumpLength /\ Bounds[q] <= SlotOf(q)
        /\ \/ \E n \in DOMAIN jumps : jumps[n] = JumpNote(q)
           \/ code[SlotOf(q)] = BranchOf(q)
    BY DEF Layout, JumpsSlotted
  <2>2. CASE q = i
    BY <1>5, <1>8, <2>1, <2>2 DEF slot, branch
  <2>3. CASE q # i
    <3>1. SlotOf(q) # slot
      BY <1>5, <2>3
    <3>2. ASSUME NEW n \in DOMAIN jumps, jumps[n] = JumpNote(q)
          PROVE  \E m \in DOMAIN jumps' : jumps'[m] = JumpNote(q)
      <4>1. n # 1
        <5>1. stream[q] # stream[i]
          <6>1. q \in DOMAIN stream /\ i \in DOMAIN stream
            <7>1. translated \in 0..Len(stream) /\ DOMAIN stream = 1..Len(stream)
              BY DEF Sound, Layout, BoundsInOrder
            <7> QED
              BY <1>2, <7>1
          <6> QED
            BY <2>3, <6>1 DEF Sound, Distinct
        <5>2. Head(jumps) = jumps[1]
          BY <1>1, <1>3
        <5> QED
          BY <1>4, <3>2, <5>1, <5>2 DEF JumpNote
      <4>2. n - 1 \in DOMAIN jumps' /\ jumps'[n - 1] = jumps[n]
        BY <1>1, <1>3, <4>1
      <4> QED
        BY <3>2, <4>2
    <3> QED
      BY <1>8, <2>1, <3>1, <3>2
  <2> QED
    BY <2>2, <2>3
<1>17. Noted'
  <2>1. JumpNotes' = JumpNotes /\ LabelNotes' = LabelNotes
    BY <1>1, <1>11 DEF JumpNotes, LabelNotes
  <2> QED
    BY <1>1, <1>3, <1>11, <2>1 DEF Layout, Noted
<1>18. Aligned'
  BY <1>1, <1>9, <1>10 DEF Layout, Aligned
<1> QED
  BY <1>1, <1>9, <1>12, <1>13, <1>14, <1>15, <1>16, <1>17, <1>18 DEF Layout

-----------------------------------------------------------------------------
(* The code is finished *)

LEMMA AllTranslatedKeeps ==
  ASSUME target \in {"x86-64", "aarch64"}, stream \in Seq(Operations), Working, Layout,
         AllTranslated
  PROVE  Layout'
<1>1. /\ phase = "operations" /\ phase' = "jumps" /\ translated = Len(stream)
      /\ starts' = Append(starts, size)
      /\ target' = target /\ stream' = stream /\ translated' = translated /\ jumps' = jumps
      /\ labels' = labels /\ code' = code /\ size' = size /\ err' = err
  BY DEF AllTranslated, areaVars, bookkeeping
<1>2. Bounds' = Bounds /\ BodyEnd' = BodyEnd /\ Bounds = starts' /\ Body' = BodyStart..BodyEnd
  <2>1. Bounds' = Bounds /\ Bounds = starts'
    BY <1>1 DEF Bounds
  <2> QED
    BY <1>1, <2>1, TemplatesFixed DEF BodyEnd, Body
<1>3. /\ Entry' = Entry /\ Exit' = Exit
      /\ BodyStart' = BodyStart /\ JumpLength' = JumpLength
  BY <1>1, TemplatesFixed
<1>4. \A q : /\ SlotOf(q)' = SlotOf(q) /\ JumpNote(q)' = JumpNote(q) /\ LabelNote(q)' = LabelNote(q)
  BY <1>1, <1>2, <1>3 DEF SlotOf, JumpNote, LabelNote
<1>5. BoundsInOrder'
  <2>1. starts' \in Seq(Nat)
    BY <1>2 DEF Layout, BoundsInOrder
  <2> QED
    BY <1>1, <1>2, <1>3, <2>1 DEF Layout, BoundsInOrder
<1>6. CodeInOrder'
  BY <1>1 DEF Layout, CodeInOrder
<1>7. LaidOut(code', PageSize, Entry')
  BY <1>1, <1>3 DEF Layout
<1>8. BodyHarmless'
  BY <1>1, <1>2, <1>3, <1>4 DEF Layout, BodyHarmless, Body
<1>9. JumpsSlotted'
  BY <1>1, <1>2, <1>3, <1>4 DEF Layout, JumpsSlotted
<1>10. Noted'
  <2>1. JumpNotes' = JumpNotes /\ LabelNotes' = LabelNotes
    BY <1>1, <1>4 DEF JumpNotes, LabelNotes
  <2> QED
    BY <1>1, <1>4, <2>1 DEF Layout, Noted
<1>11. Aligned'
  BY <1>1, <1>2, <1>3 DEF Layout, Aligned
<1> QED
  BY <1>1, <1>5, <1>6, <1>7, <1>8, <1>9, <1>10, <1>11 DEF Layout

LEMMA ExitKeeps ==
  ASSUME target \in {"x86-64", "aarch64"}, stream \in Seq(Operations), Working, Layout,
         TranslateExit, Working'
  PROVE  Layout'
<1>1. /\ phase = "jumps" /\ jumps = <<>> /\ Emit(Exit, "sealing")
      /\ target' = target /\ stream' = stream /\ translated' = translated /\ jumps' = jumps
      /\ labels' = labels /\ starts' = starts
  BY DEF TranslateExit, lists
<1>2. /\ phase' = "sealing" /\ ~err' /\ size' = size + CodeLength(Exit)
      /\ code' = Over(code, Placed(size, Exit))
  BY <1>1, EmitStores DEF Layout, BoundsInOrder
<1>3. /\ Entry' = Entry /\ Exit' = Exit
      /\ BodyStart' = BodyStart /\ JumpLength' = JumpLength
  BY <1>1, TemplatesFixed
<1>4. Bounds' = Bounds /\ BodyEnd' = BodyEnd /\ Body' = Body
  BY <1>1, <1>2, <1>3 DEF Bounds, BodyEnd, Body
<1>5. \A q : /\ SlotOf(q)' = SlotOf(q) /\ JumpNote(q)' = JumpNote(q) /\ LabelNote(q)' = LabelNote(q)
              /\ BranchOf(q)' = BranchOf(q)
  <2>1. \A q : /\ SlotOf(q)' = SlotOf(q) /\ Target(q)' = Target(q)
               /\ JumpNote(q)' = JumpNote(q) /\ LabelNote(q)' = LabelNote(q)
    BY <1>1, <1>3, <1>4 DEF SlotOf, Target, JumpNote, LabelNote
  <2>2. \A q : BranchOf(q)' = BranchOf(q)
    BY <1>1, <1>4, <2>1 DEF BranchOf, Jump, OnX86
  <2> QED
    BY <2>1, <2>2
<1>6. /\ PageSize \in Nat /\ size \in Nat /\ PageSize <= size /\ BodyEnd \in Nat /\ size = BodyEnd
  BY <1>1, BoundsFacts DEF Layout, BoundsInOrder
<1>7. /\ CodeInOrder'
      /\ \A b \in DOMAIN code : b \in DOMAIN code' /\ code'[b] = code[b] /\ b < size
      /\ LaidOut(code', size, Exit)
      /\ \A b \in DOMAIN code' : b \in DOMAIN code \/ \E k \in 1..Len(Exit) :
                                     b = Ends(size, Exit)[k - 1] /\ b >= size
  <2>1. CodeInOrder
    BY DEF Layout
  <2> QED
    BY <1>2, <1>6, <2>1, EntryAndExit, StoredInOrder
<1>8. BoundsInOrder'
  <2>1. size' = BodyEnd' + CodeLength(Exit)
    BY <1>2, <1>4, <1>6
  <2> QED
    BY <1>1, <1>2, <1>3, <1>4, <2>1 DEF Layout, BoundsInOrder
<1>9. LaidOut(code', PageSize, Entry')
  BY <1>3, <1>7 DEF Layout, LaidOut
<1>10. LaidOut(code', BodyEnd', Exit')
  BY <1>3, <1>4, <1>6, <1>7
<1>11. BodyHarmless'
  <2>1. \A b \in DOMAIN code' : b < BodyEnd => b \in DOMAIN code /\ code'[b] = code[b]
    <3>1. \A b \in DOMAIN code' : b \in Nat
      BY <1>7 DEF CodeInOrder
    <3> QED
      BY <1>6, <1>7, <3>1
  <2> QED
    BY <1>1, <1>3, <1>4, <1>5, <2>1 DEF Layout, BodyHarmless
<1>12. JumpsSlotted'
  BY <1>1, <1>2, <1>3, <1>4, <1>5, <1>7 DEF Layout, JumpsSlotted
<1>13. Noted'
  <2>1. JumpNotes' = JumpNotes /\ LabelNotes' = LabelNotes
    BY <1>1, <1>5 DEF JumpNotes, LabelNotes
  <2> QED
    BY <1>1, <1>5, <2>1 DEF Layout, Noted
<1>14. Aligned'
  BY <1>1, <1>3, <1>4 DEF Layout, Aligned
<1> QED
  BY <1>8, <1>7, <1>9, <1>10, <1>11, <1>12, <1>13, <1>14 DEF Layout

\* Nothing in the code or the lists changes any more.
LEMMA LayoutStays ==
  ASSUME Working, Layout, UNCHANGED <<target, stream, translated, jumps, labels, starts, code, size, err>>,
         \/ phase' = phase
         \/ phase = "sealing" /\ phase' = "compiled"
  PROVE  Layout'
<1>1. /\ target' = target /\ stream' = stream /\ translated' = translated /\ jumps' = jumps
      /\ labels' = labels /\ starts' = starts /\ code' = code /\ size' = size /\ err' = err
  OBVIOUS
<1>2. /\ phase' = "operations" <=> phase = "operations"
      /\ phase' = "jumps" <=> phase = "jumps"
      /\ phase' \in {"sealing", "compiled"} <=> phase \in {"sealing", "compiled"}
  OBVIOUS
<1>3. /\ Entry' = Entry /\ Exit' = Exit
      /\ BodyStart' = BodyStart /\ JumpLength' = JumpLength
  BY <1>1, TemplatesFixed
<1>4. Bounds' = Bounds /\ BodyEnd' = BodyEnd /\ Body' = Body
  BY <1>1, <1>2, <1>3 DEF Bounds, BodyEnd, Body
<1>5. \A q : /\ SlotOf(q)' = SlotOf(q) /\ JumpNote(q)' = JumpNote(q) /\ LabelNote(q)' = LabelNote(q)
              /\ BranchOf(q)' = BranchOf(q)
  <2>1. \A q : /\ SlotOf(q)' = SlotOf(q) /\ Target(q)' = Target(q)
               /\ JumpNote(q)' = JumpNote(q) /\ LabelNote(q)' = LabelNote(q)
    BY <1>1, <1>3, <1>4 DEF SlotOf, Target, JumpNote, LabelNote
  <2>2. \A q : BranchOf(q)' = BranchOf(q)
    BY <1>1, <1>4, <2>1 DEF BranchOf, Jump, OnX86
  <2> QED
    BY <2>1, <2>2
<1>6. BoundsInOrder'
  BY <1>1, <1>2, <1>3, <1>4 DEF Layout, BoundsInOrder
<1>7. CodeInOrder'
  BY <1>1 DEF Layout, CodeInOrder
<1>8. /\ LaidOut(code', PageSize, Entry')
      /\ phase' \in {"sealing", "compiled"} => LaidOut(code', BodyEnd', Exit')
  BY <1>1, <1>2, <1>3, <1>4 DEF Layout
<1>9. BodyHarmless'
  BY <1>1, <1>3, <1>4, <1>5 DEF Layout, BodyHarmless
<1>10. JumpsSlotted'
  BY <1>1, <1>2, <1>3, <1>4, <1>5 DEF Layout, JumpsSlotted
<1>11. Noted'
  <2>1. JumpNotes' = JumpNotes /\ LabelNotes' = LabelNotes
    BY <1>1, <1>5 DEF JumpNotes, LabelNotes
  <2> QED
    BY <1>1, <1>2, <1>5, <2>1 DEF Layout, Noted
<1>12. Aligned'
  BY <1>1, <1>3, <1>4 DEF Layout, Aligned
<1> QED
  BY <1>6, <1>7, <1>8, <1>9, <1>10, <1>11, <1>12 DEF Layout

-----------------------------------------------------------------------------
(* Every run of the compiler *)

\* What is compiled is a sound stream, and all code that is in the area lies
\* there as Layout has it.
Ready ==
  /\ target \in {"x86-64", "aarch64"}
  /\ phase = "entry" => Untouched
  /\ phase # "entry" => Sound(stream)
  /\ Working => Layout

LEMMA IdleIsReady ==
  ASSUME Idle, target \in {"x86-64", "aarch64"}
  PROVE  Ready
BY DEF Idle, Init, Ready, Untouched, Working

LEMMA CompileKeepsReady ==
  ASSUME Ready, Sound(stream), Compile
  PROVE  Ready'
<1>1. /\ target' = target /\ stream' = stream /\ phase # "compiled" /\ phase' # "entry"
      /\ target \in {"x86-64", "aarch64"}
  BY DEF Ready, Compile, TranslateEntry, TranslateOp, Emit, AllTranslated, PatchJump,
         TranslateExit, Seal
<1>2. stream \in Seq(Operations)
  BY DEF Sound
<1>3. ASSUME Working' PROVE Layout'
  <2>1. CASE TranslateEntry
    <3>1. Untouched
      BY <2>1 DEF TranslateEntry, Ready
    <3> QED
      BY <1>1, <1>2, <1>3, <2>1, <3>1, EntryKeeps
  <2>2. CASE TranslateOp
    <3>1. Working /\ Layout
      BY <2>2 DEF TranslateOp, Working, Ready
    <3>2. \E i, o, t : i = translated + 1 /\ o = stream[i] /\ t = Translation(o)
      OBVIOUS
    <3> QED
      BY <1>1, <1>2, <1>3, <2>2, <3>1, <3>2, OpKeeps
  <2>3. CASE AllTranslated
    <3>1. Working /\ Layout
      BY <2>3 DEF AllTranslated, Working, Ready
    <3> QED
      BY <1>1, <1>2, <2>3, <3>1, AllTranslatedKeeps
  <2>4. CASE PatchJump
    <3>1. Working /\ Layout
      BY <2>4 DEF PatchJump, Working, Ready
    <3> QED
      BY <1>1, <2>4, <3>1, PatchKeeps
  <2>5. CASE TranslateExit
    <3>1. Working /\ Layout
      BY <2>5 DEF TranslateExit, Working, Ready
    <3> QED
      BY <1>1, <1>2, <1>3, <2>5, <3>1, ExitKeeps
  <2>6. CASE Seal
    <3>1. /\ Working /\ Layout /\ phase = "sealing" /\ phase' \in {"compiled", "exited"}
          /\ UNCHANGED <<target, stream, translated, jumps, labels, starts, code, size, err>>
      BY <2>6 DEF Seal, Working, Ready, lists, MakeExecutable, MakeExecutableFails,
         bookkeeping
    <3>2. phase' = "compiled"
      BY <1>3, <3>1 DEF Working
    <3> QED
      BY <3>1, <3>2, LayoutStays
  <2> QED
    BY <2>1, <2>2, <2>3, <2>4, <2>5, <2>6 DEF Compile
<1> QED
  BY <1>1, <1>3 DEF Ready

\* Before the compiler starts the stream may still change; afterwards it may not.
LEMMA ReadyStays ==
  ASSUME Ready, UNCHANGED <<target, phase, translated, jumps, labels, starts, code, size, err>>,
         phase = "entry" \/ stream' = stream
  PROVE  Ready'
<1>1. Working' <=> Working
  BY DEF Working
<1>2. CASE phase = "entry"
  BY <1>2 DEF Ready, Untouched, Working
<1>3. CASE phase # "entry"
  <2>1. Working => Layout'
    BY <1>3, LayoutStays DEF Ready
  <2> QED
    BY <1>1, <1>3, <2>1 DEF Ready
<1> QED
  BY <1>2, <1>3

-----------------------------------------------------------------------------
(* Jumps land *)

\* The branch of a jump is the only instruction that ends where its code ends.
LEMMA OneBranch ==
  ASSUME Ready, Patched, NEW i \in DOMAIN stream, IsJump(stream[i])
  PROVE  /\ BranchesOf(i) = {SlotOf(i)} /\ code[SlotOf(i)] = BranchOf(i)
         /\ i \in 1..translated /\ Target(i) \in 1..translated /\ starts = Bounds
<1>1. /\ Working /\ Layout /\ phase \in {"sealing", "compiled"} /\ Sound(stream)
      /\ target \in {"x86-64", "aarch64"}
  BY DEF Ready, Patched, Working
<1>2. translated = Len(stream) /\ DOMAIN stream = 1..translated /\ starts = Bounds
  BY <1>1 DEF Layout, BoundsInOrder, Sound, Bounds
<1>3. i \in 1..translated /\ Target(i) \in 1..translated
  BY <1>1, <1>2, TargetFound
<1>4. /\ SlotOf(i) \in DOMAIN code /\ code[SlotOf(i)] = BranchOf(i)
  <2>1. jumps = <<>>
    BY <1>1 DEF Layout, Noted
  <2> QED
    BY <1>1, <1>3, <2>1 DEF Layout, JumpsSlotted
<1>5. code[SlotOf(i)].len = JumpLength /\ code[SlotOf(i)].do = "branch"
  BY <1>1, <1>4, BranchFits DEF BranchOf
<1>6. SlotOf(i) \in Nat /\ SlotOf(i) + JumpLength = Bounds[i + 1] /\ JumpLength \in Nat \ {0}
  BY <1>1, <1>3, SlotsApart DEF JumpLength, Sound
<1>7. SlotOf(i) \in BranchesOf(i)
  BY <1>2, <1>4, <1>5, <1>6 DEF BranchesOf
<1>8. ASSUME NEW b \in BranchesOf(i) PROVE b = SlotOf(i)
  <2>1. /\ b \in DOMAIN code /\ b \in Nat /\ code[b].len \in Nat \ {0}
        /\ b + code[b].len = SlotOf(i) + JumpLength
    BY <1>1, <1>2, <1>6 DEF BranchesOf, Layout, CodeInOrder
  <2>2. /\ b < SlotOf(i) => b + code[b].len <= SlotOf(i)
        /\ SlotOf(i) < b => SlotOf(i) + JumpLength <= b
    BY <1>1, <1>4, <1>5, <2>1 DEF Layout, CodeInOrder
  <2> QED
    BY <1>6, <2>1, <2>2
<1> QED
  BY <1>2, <1>3, <1>4, <1>7, <1>8

LEMMA BackByFours ==
  ASSUME NEW a \in Nat, NEW b \in Nat, NEW c \in Nat, (a - c) % 4 = 0, (b - c) % 4 = 0
  PROVE  (a - b) \div 4 \in Int /\ 4 * ((a - b) \div 4) = a - b
<1>1. PICK d \in Int, e \in Int : a - c = 4 * d /\ b - c = 4 * e
  <2>1. a - c = 4 * ((a - c) \div 4) /\ (a - c) \div 4 \in Int
    OBVIOUS
  <2>2. b - c = 4 * ((b - c) \div 4) /\ (b - c) \div 4 \in Int
    OBVIOUS
  <2> QED
    BY <2>1, <2>2
<1>2. a - b = 4 * (d - e)
  BY <1>1
<1> QED
  BY <1>1, <1>2

\* The distance the branch of a jump was given.
LEMMA DistanceOf ==
  ASSUME Ready, Patched, DistancesFit, NEW i \in DOMAIN stream, IsJump(stream[i])
  PROVE  BranchOf(i).distance = Bounds[Target(i)] - Bounds[i + 1]
<1> DEFINE to == Bounds[Target(i)]
           from == Bounds[i + 1]
<1>1. /\ Working /\ Layout /\ Sound(stream) /\ target \in {"x86-64", "aarch64"}
  BY DEF Ready, Patched, Working
<1>2. i \in 1..translated /\ Target(i) \in 1..translated /\ starts = Bounds
  BY OneBranch
<1>3. /\ translated \in Nat /\ BodyStart \in Nat /\ to \in Nat /\ from \in Nat
      /\ i + 1 \in 1..(translated + 1) /\ Target(i) \in 1..(translated + 1)
  <2>1. /\ translated \in Nat /\ BodyStart \in Nat
        /\ \A q \in 1..(translated + 1) : Bounds[q] \in Nat
    BY <1>1, BoundsFacts DEF Layout, Sound
  <2>2. i + 1 \in 1..(translated + 1) /\ Target(i) \in 1..(translated + 1)
    BY <1>2, <2>1
  <2> QED
    BY <2>1, <2>2
<1>4. CASE target = "x86-64"
  BY <1>4 DEF BranchOf, Jump, OnX86, X86!Jump, X86!Branch
<1>5. CASE target = "aarch64"
  <2> DEFINE distance == (to - from) \div 4 + 1
  <2>1. (to - BodyStart) % 4 = 0 /\ (from - BodyStart) % 4 = 0
    BY <1>1, <1>3, <1>5 DEF Layout, Aligned
  <2>2. distance < BranchSize \div 2 /\ distance > -(BranchSize \div 2)
    BY <1>2, <1>5 DEF DistancesFit, Target
  <2>3. BranchOf(i).distance = 4 * ARM!Narrow(distance, BranchSize) - 4
    BY <1>5 DEF BranchOf, Jump, OnX86, ARM!Jump, ARM!BCond,
       ARM!Branch
  <2> HIDE DEF to, from
  <2>4. (to - from) \div 4 \in Int /\ 4 * ((to - from) \div 4) = to - from
    BY <1>3, <2>1, BackByFours
  <2>5. BranchSize \in Nat /\ BranchSize % 2 = 0 /\ BranchSize \div 2 \in Nat
    BY CodeAssumption
  <2>6. distance \in Int
    BY <2>4
  <2>7. ARM!Narrow(distance, BranchSize) = distance
    <3> HIDE DEF distance
    <3>1. distance < BranchSize \div 2 /\ distance >= -(BranchSize \div 2)
      BY <2>2, <2>5, <2>6
    <3> QED
      BY <2>5, <2>6, <3>1, NarrowSmall
  <2> QED
    BY <1>3, <2>3, <2>4, <2>7 DEF to, from
<1> QED
  BY <1>1, <1>4, <1>5

\* Where the branches go, unless one of AArch64 is too short for its distance.
LEMMA JumpsLandOnceReady ==
  ASSUME Ready, DistancesFit
  PROVE  JumpsLand
<1> SUFFICES ASSUME Ready, DistancesFit, Patched, NEW i \in DOMAIN stream, IsJump(stream[i])
             PROVE  /\ BranchesOf(i) # {}
                    /\ \A b \in BranchesOf(i) :
                         starts[i + 1] + code[b].distance = starts[Position(stream, stream[i].op1)]
  BY DEF JumpsLand
<1>1. /\ BranchesOf(i) = {SlotOf(i)} /\ code[SlotOf(i)] = BranchOf(i) /\ starts = Bounds
      /\ i \in 1..translated /\ Target(i) \in 1..translated
  BY OneBranch
<1>2. BranchOf(i).distance = Bounds[Target(i)] - Bounds[i + 1]
  BY DistanceOf
<1>3. Bounds[Target(i)] \in Nat /\ Bounds[i + 1] \in Nat
  <2>1. /\ Working /\ Layout /\ Sound(stream) /\ target \in {"x86-64", "aarch64"}
    BY DEF Ready, Patched, Working
  <2>2. translated \in Nat /\ \A q \in 1..(translated + 1) : Bounds[q] \in Nat
    BY <2>1, BoundsFacts DEF Layout, Sound
  <2> QED
    BY <1>1, <2>2
<1> QED
  BY <1>1, <1>2, <1>3 DEF Target
=============================================================================

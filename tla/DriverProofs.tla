----------------------------- MODULE DriverProofs -----------------------------
(***************************************************************************)
(* Theorems about Driver, for command lines and files of any length and    *)
(* heaps of any size.                                                      *)
(***************************************************************************)
EXTENDS Driver, FiniteSetsExt, FiniteSetTheorems, SequenceTheorems, TLAPS

-----------------------------------------------------------------------------
(* Numbers *)

\* Every set of numbers has a smallest one: the numbers are well ordered,
\* because the intervals from 0 to them are.
LEMMA SmallestNumber ==
  ASSUME NEW S \in SUBSET Nat, S # {}
  PROVE  Min(S) \in S /\ \A x \in S : Min(S) <= x
<1> DEFINE intervals == {0..x : x \in S}
<1>1. intervals # {} /\ intervals \subseteq FiniteSubsetsOf(Nat)
  <2>1. \A x \in Nat : IsFiniteSet(0..x) /\ 0..x \in SUBSET Nat
    BY FS_Interval
  <2> QED
    BY <2>1 DEF FiniteSubsetsOf
<1>2. PICK low \in intervals : \A i \in intervals : ~(<<i, low>> \in StrictSubsetOrdering(Nat))
  <2> HIDE DEF intervals
  <2> QED
    BY <1>1, FS_StrictSubsetOrderingWellFounded, WFMin
<1>3. PICK x \in S : low = 0..x
  OBVIOUS
<1>4. \A y \in S : x <= y
  <2> SUFFICES ASSUME NEW y \in S, y < x PROVE FALSE
    OBVIOUS
  <2>1. x \in Nat /\ y \in Nat
    OBVIOUS
  <2>2. 0..y \subseteq 0..x /\ x \in 0..x /\ x \notin 0..y
    BY <2>1
  <2>3. <<0..y, 0..x>> \in StrictSubsetOrdering(Nat)
    BY <2>1, <2>2 DEF StrictSubsetOrdering
  <2> QED
    BY <1>2, <1>3, <2>3
<1> QED
  BY <1>4 DEF Min

\* A number of bytes fills so many pages and not one more.
LEMMA FilledPages ==
  ASSUME NEW n \in Nat, NEW s \in Nat, s > 0
  PROVE  /\ n \div s \in Nat
         /\ (n \div s) * s <= n
         /\ n < (n \div s + 1) * s
  OBVIOUS

-----------------------------------------------------------------------------
(* The inductive invariant *)

Words == {"prog", "code", "heap"}
Stages == {"options", "open", "read", "parse", "parsed", "interpreter", "compiler",
           "compiled", "ran", "exited"}

\* The arguments looked at so far.
Seen == todo - 1

\* The command line and what was made of it.
OptionsShape ==
  /\ argv \in Seq(Arguments) /\ todo \in 1..(Len(argv) + 1)
  /\ dump_flags \in Seq(Flags)
  /\ settings = [path |-> settings.path, heap_size |-> settings.heap_size,
                 mode |-> settings.mode, level |-> settings.level, eof |-> settings.eof]
  /\ settings.heap_size \in Nat /\ settings.mode \in {"interpreter", "compiler"}

\* Of the first n arguments the last one for the option has the value in the
\* field, or there is none and the value is the default.
Counts(args, n, opt, field, default, value) ==
  \/ (\A i \in 1..n : args[i].opt # opt) /\ value = default
  \/ \E i \in 1..n : /\ args[i].opt = opt /\ value = args[i][field]
                     /\ \A j \in (i + 1)..n : args[j].opt # opt

SettingsCount ==
  /\ Counts(argv, Seen, "file", "name", "", settings.path)
  /\ Counts(argv, Seen, "memory", "bytes", DefaultHeap, settings.heap_size)
  /\ Counts(argv, Seen, "mode", "name", "compiler", settings.mode)
  /\ Counts(argv, Seen, "level", "name", "2", settings.level)
  /\ Counts(argv, Seen, "eof", "name", "keep", settings.eof)

\* The dump flags of one argument that are about a word.
About(arg, word) ==
  IF arg.opt = "dump" THEN {k \in DOMAIN arg.flags : arg.flags[k].asks = word} ELSE {}

\* Asked, for the first n arguments of a command line.
AskedSoFar(args, n, word) ==
  \E i \in 1..n : \E k \in About(args[i], word) :
    /\ args[i].flags[k].rest # "other"
    /\ \A j \in 1..n : \A l \in About(args[j], word) : j < i \/ (j = i /\ l <= k)

\* The first flag about the word is the word itself, or a value for it.
Enabled(flags, word) ==
  \E q \in 1..Len(flags) :
    /\ flags[q].asks = word /\ flags[q].rest # "other"
    /\ \A r \in 1..(q - 1) : flags[r].asks # word

FlagsCount == \A word \in Words : Enabled(dump_flags, word) <=> AskedSoFar(argv, Seen, word)

\* The file as far as it was read.
FileShape ==
  /\ file \in 0..MaxFile /\ fsize \in 0..MaxFile /\ bytes_read \in 0..fsize
  /\ \/ content = <<>> /\ stage \in {"options", "open", "exited"}
     \/ content = [i \in 1..(fsize + 1) |-> IF i <= bytes_read THEN i ELSE 0]
  /\ stage \notin {"options", "open", "read", "exited"} => bytes_read = fsize

\* What main has decided and done by the time it stands where it does.
MainShape ==
  /\ stage \in Stages /\ available \in Nat /\ exit \in {"", "0", "1", "signal"}
  /\ stage \notin {"options", "exited"} => todo = Len(argv) + 1 /\ settings.path # ""
  /\ stage # "exited" => exit = "" /\ done = IF stage = "ran" THEN {"run"} ELSE {}
  /\ stage \in {"interpreter", "compiler", "compiled", "ran"} =>
       /\ ~Enabled(dump_flags, "prog")
       /\ available = Rounded(settings.heap_size) /\ available > 0
  /\ stage = "interpreter" => settings.mode = "interpreter"
  /\ stage \in {"compiler", "compiled"} => settings.mode = "compiler"
  /\ stage = "ran" => ~(settings.mode = "compiler" /\ Enabled(dump_flags, "code"))

\* What DoesWhatIsAsked says of the end, in the words of the code.
Wants ==
  IF Enabled(dump_flags, "prog") THEN {"prog"}
  ELSE IF Enabled(dump_flags, "code") /\ settings.mode = "compiler" THEN {"code"}
  ELSE {"run"} \cup (IF Enabled(dump_flags, "heap") THEN {"heap"} ELSE {})

Progress == OptionsShape /\ SettingsCount /\ FlagsCount /\ FileShape /\ MainShape /\ DoesWhatIsAsked

-----------------------------------------------------------------------------
(* The settings *)

\* An argument for another option leaves a setting alone.
LEMMA CountsStay ==
  ASSUME NEW args, NEW n \in Nat, NEW opt, NEW field, NEW default, NEW value,
         Counts(args, n, opt, field, default, value), args[n + 1].opt # opt
  PROVE  Counts(args, n + 1, opt, field, default, value)
<1>1. \A i \in 1..(n + 1) : i \in 1..n \/ i = n + 1
  OBVIOUS
<1>2. CASE (\A i \in 1..n : args[i].opt # opt) /\ value = default
  BY <1>1, <1>2 DEF Counts
<1>3. ASSUME NEW i \in 1..n, args[i].opt = opt, value = args[i][field],
             \A j \in (i + 1)..n : args[j].opt # opt
      PROVE  Counts(args, n + 1, opt, field, default, value)
  <2>1. \A j \in (i + 1)..(n + 1) : j \in (i + 1)..n \/ j = n + 1
    OBVIOUS
  <2>2. i \in 1..(n + 1) /\ \A j \in (i + 1)..(n + 1) : args[j].opt # opt
    BY <1>3, <2>1
  <2> QED
    BY <1>3, <2>2 DEF Counts
<1> QED
  BY <1>2, <1>3 DEF Counts

\* An argument for the option decides.
LEMMA CountsNew ==
  ASSUME NEW args, NEW n \in Nat, NEW opt, NEW field, NEW default, args[n + 1].opt = opt
  PROVE  Counts(args, n + 1, opt, field, default, args[n + 1][field])
<1>1. n + 1 \in 1..(n + 1) /\ (n + 1 + 1)..(n + 1) = {}
  OBVIOUS
<1> QED
  BY <1>1 DEF Counts

-----------------------------------------------------------------------------
(* The dump flags *)

\* What the code finds out about a word is what Enabled says.
LEMMA EnabledIsDecided ==
  ASSUME dump_flags \in Seq(Flags), NEW word
  PROVE  IsDumpEnabled(word) <=> Enabled(dump_flags, word)
<1> DEFINE hits == {q \in 1..Len(dump_flags) : dump_flags[q].asks = word}
           first == SelectInSeq(dump_flags, LAMBDA f : f.asks = word)
<1>1. first = IF hits # {} THEN Min(hits) ELSE 0
  BY DEF SelectInSeq
<1>2. hits \in SUBSET Nat
  OBVIOUS
<1>3. IsDumpEnabled(word) <=> first # 0 /\ dump_flags[first].rest # "other"
  BY DEF IsDumpEnabled
<1> HIDE DEF first
<1>4. CASE hits = {}
  BY <1>1, <1>3, <1>4 DEF Enabled
<1>5. CASE hits # {}
  <2>1. first \in hits /\ \A q \in hits : first <= q
    <3> HIDE DEF hits
    <3> QED
      BY <1>1, <1>2, <1>5, SmallestNumber
  <2>2. first \in 1..Len(dump_flags) /\ dump_flags[first].asks = word
    BY <2>1
  <2>3. \A r \in 1..(first - 1) : dump_flags[r].asks # word
    BY <2>1, <2>2
  <2>4. \A q \in 1..Len(dump_flags) :
          dump_flags[q].asks = word /\ (\A r \in 1..(q - 1) : dump_flags[r].asks # word) => q = first
    BY <2>1, <2>2
  <2> QED
    BY <1>3, <2>2, <2>3, <2>4 DEF Enabled
<1> QED
  BY <1>4, <1>5

\* An argument without a flag about the word changes nothing.
LEMMA AskedStays ==
  ASSUME NEW args, NEW n \in Nat, NEW word, About(args[n + 1], word) = {}
  PROVE  AskedSoFar(args, n + 1, word) <=> AskedSoFar(args, n, word)
<1>1. 1..(n + 1) = (1..n) \cup {n + 1}
  OBVIOUS
<1> QED
  BY <1>1 DEF AskedSoFar

\* The last flag about the word in the last argument decides.
LEMMA AskedNew ==
  ASSUME NEW args, NEW n \in Nat, NEW word, NEW k \in Nat, k \in About(args[n + 1], word),
         \A l \in About(args[n + 1], word) : l \in Nat /\ l <= k
  PROVE  AskedSoFar(args, n + 1, word) <=> args[n + 1].flags[k].rest # "other"
<1>1. \A j \in 1..(n + 1) : j < n + 1 \/ j = n + 1
  OBVIOUS
<1>2. n + 1 \in 1..(n + 1)
  OBVIOUS
<1>3. args[n + 1].flags[k].rest # "other" => AskedSoFar(args, n + 1, word)
  BY <1>1, <1>2 DEF AskedSoFar
<1>4. ASSUME AskedSoFar(args, n + 1, word) PROVE args[n + 1].flags[k].rest # "other"
  <2>0. PICK i \in 1..(n + 1) : \E m \in About(args[i], word) :
          /\ args[i].flags[m].rest # "other"
          /\ \A j \in 1..(n + 1) : \A l \in About(args[j], word) : j < i \/ (j = i /\ l <= m)
    BY <1>4 DEF AskedSoFar
  <2>1. PICK m \in About(args[i], word) :
          /\ args[i].flags[m].rest # "other"
          /\ \A j \in 1..(n + 1) : \A l \in About(args[j], word) : j < i \/ (j = i /\ l <= m)
    BY <2>0
  <2>2. i = n + 1 /\ k <= m
    BY <1>1, <1>2, <2>1
  <2>3. m \in Nat /\ m <= k
    BY <2>2
  <2> QED
    BY <2>1, <2>2, <2>3
<1> QED
  BY <1>3, <1>4

\* DumpEnable: the flags of the argument in front, the last one first.
InFront(new, old) == Reverse(new) \o old

LEMMA FrontFlags ==
  ASSUME NEW new \in Seq(Flags), NEW old \in Seq(Flags)
  PROVE  /\ InFront(new, old) \in Seq(Flags)
         /\ Len(InFront(new, old)) = Len(new) + Len(old)
         /\ \A q \in 1..Len(new) : InFront(new, old)[q] = new[Len(new) - q + 1]
         /\ \A q \in 1..Len(old) : InFront(new, old)[Len(new) + q] = old[q]
<1> DEFINE back == Reverse(new)
<1>1. /\ back \in Seq(Flags) /\ Len(back) = Len(new)
      /\ \A q \in 1..Len(new) : back[q] = new[Len(new) - q + 1]
  BY DEF Reverse
<1>2. InFront(new, old) = back \o old
  BY DEF InFront
<1> HIDE DEF back
<1>3. back \o old \in Seq(Flags)
  BY <1>1
<1>8. Len(back \o old) = Len(back) + Len(old)
  <2>1. back \in Seq(Flags)
    BY <1>1
  <2> QED
    BY <2>1
<1>4. Len(new) \in Nat /\ Len(old) \in Nat
  OBVIOUS
<1>5. \A q \in 1..Len(new) : (back \o old)[q] = new[Len(new) - q + 1]
  <2>1. \A q \in 1..Len(back) : (back \o old)[q] = back[q]
    BY <1>1
  <2> QED
    BY <1>1, <2>1
<1>6. \A q \in 1..Len(old) : (back \o old)[Len(new) + q] = old[q]
  <2>1. \A q \in 1..Len(old) : (back \o old)[Len(back) + q] = old[q]
    BY <1>1
  <2> QED
    BY <1>1, <2>1
<1> QED
  BY <1>1, <1>2, <1>3, <1>5, <1>6, <1>8

LEMMA FlagsNext ==
  ASSUME NEW args, NEW n \in Nat, args[n + 1].opt = "dump", args[n + 1].flags \in Seq(Flags),
         NEW old \in Seq(Flags), NEW word, Enabled(old, word) <=> AskedSoFar(args, n, word)
  PROVE  Enabled(InFront(args[n + 1].flags, old), word) <=> AskedSoFar(args, n + 1, word)
<1> DEFINE new == args[n + 1].flags
           all == InFront(new, old)
           m == Len(new)
           hits == {q \in 1..m : all[q].asks = word}
<1>0. new \in Seq(Flags)
  OBVIOUS
<1> HIDE DEF new
<1>1. /\ Len(all) = m + Len(old) /\ m \in Nat /\ Len(old) \in Nat /\ DOMAIN new = 1..m
      /\ \A q \in 1..m : all[q] = new[m - q + 1]
      /\ \A q \in 1..Len(old) : all[m + q] = old[q]
  <2>1. /\ Len(all) = Len(new) + Len(old)
        /\ \A q \in 1..Len(new) : all[q] = new[Len(new) - q + 1]
        /\ \A q \in 1..Len(old) : all[Len(new) + q] = old[q]
    BY <1>0, FrontFlags
  <2> QED
    BY <1>0, <2>1
<1>2. About(args[n + 1], word) = {k \in 1..m : new[k].asks = word}
  BY <1>1 DEF About, new
<1> HIDE DEF all, m
<1>3. CASE hits = {}
  <2>1. \A k \in 1..m : new[k].asks # word
    <3> SUFFICES ASSUME NEW k \in 1..m PROVE new[k].asks # word
      OBVIOUS
    <3>1. m - k + 1 \in 1..m /\ m - (m - k + 1) + 1 = k
      BY <1>1
    <3> QED
      BY <1>1, <1>3, <3>1
  <2>2. AskedSoFar(args, n + 1, word) <=> AskedSoFar(args, n, word)
    BY <1>2, <2>1, AskedStays
  <2>3. Enabled(all, word) => Enabled(old, word)
    <3> SUFFICES ASSUME NEW q \in 1..Len(all), all[q].asks = word, all[q].rest # "other",
                        \A r \in 1..(q - 1) : all[r].asks # word
                 PROVE  Enabled(old, word)
      BY DEF Enabled
    <3>1. q - m \in 1..Len(old) /\ m + (q - m) = q
      BY <1>1, <1>3
    <3>2. old[q - m] = all[q]
      BY <1>1, <3>1
    <3>3. \A r \in 1..(q - m - 1) : old[r].asks # word
      <4> SUFFICES ASSUME NEW r \in 1..(q - m - 1) PROVE old[r].asks # word
        OBVIOUS
      <4>1. r \in 1..Len(old) /\ m + r \in 1..(q - 1)
        BY <1>1, <3>1
      <4> QED
        BY <1>1, <4>1
    <3> QED
      BY <3>1, <3>2, <3>3 DEF Enabled
  <2>4. Enabled(old, word) => Enabled(all, word)
    <3> SUFFICES ASSUME NEW q \in 1..Len(old), old[q].asks = word, old[q].rest # "other",
                        \A r \in 1..(q - 1) : old[r].asks # word
                 PROVE  Enabled(all, word)
      BY DEF Enabled
    <3> DEFINE p == m + q
    <3>1. p \in 1..Len(all) /\ all[p] = old[q]
      BY <1>1
    <3>2. \A r \in 1..(p - 1) : all[r].asks # word
      <4> SUFFICES ASSUME NEW r \in 1..(p - 1) PROVE all[r].asks # word
        OBVIOUS
      <4>1. CASE r \in 1..m
        BY <1>3, <4>1
      <4>2. CASE r \notin 1..m
        <5>1. r - m \in 1..(q - 1) /\ r - m \in 1..Len(old) /\ m + (r - m) = r
          BY <1>1, <4>2
        <5> QED
          BY <1>1, <5>1
      <4> QED
        BY <4>1, <4>2
    <3> HIDE DEF p
    <3> QED
      BY <3>1, <3>2 DEF Enabled
  <2> QED
    BY <2>2, <2>3, <2>4 DEF new, all
<1>4. CASE hits # {}
  <2> DEFINE q0 == Min(hits)
             k0 == m - q0 + 1
  <2>1. q0 \in hits /\ \A q \in hits : q0 <= q
    <3>1. hits \in SUBSET Nat
      OBVIOUS
    <3> HIDE DEF hits
    <3> QED
      BY <1>4, <3>1, SmallestNumber
  <2> HIDE DEF q0
  <2>2. q0 \in 1..m /\ all[q0].asks = word /\ all[q0] = new[k0] /\ k0 \in 1..m
    BY <1>1, <2>1
  <2>3. \A r \in 1..(q0 - 1) : all[r].asks # word
    BY <1>1, <2>1, <2>2
  <2>4. \A q \in 1..Len(all) :
          all[q].asks = word /\ (\A r \in 1..(q - 1) : all[r].asks # word) => q = q0
    <3> SUFFICES ASSUME NEW q \in 1..Len(all), all[q].asks = word,
                        \A r \in 1..(q - 1) : all[r].asks # word
                 PROVE  q = q0
      OBVIOUS
    <3>1. q <= q0
      BY <1>1, <2>2
    <3>2. q \in hits
      BY <1>1, <2>2, <3>1
    <3> QED
      BY <2>1, <2>2, <3>1, <3>2
  <2>5. q0 \in 1..Len(all)
    BY <1>1, <2>2
  <2>6. Enabled(all, word) <=> all[q0].rest # "other"
    BY <2>2, <2>3, <2>4, <2>5 DEF Enabled
  <2>7. \A l \in 1..m : new[l].asks = word => l <= k0
    <3> SUFFICES ASSUME NEW l \in 1..m, new[l].asks = word PROVE l <= k0
      OBVIOUS
    <3>1. m - l + 1 \in 1..m /\ m - (m - l + 1) + 1 = l
      BY <1>1
    <3>2. m - l + 1 \in hits
      BY <1>1, <3>1
    <3>3. q0 <= m - l + 1
      BY <2>1, <3>2
    <3> QED
      BY <1>1, <2>2, <3>3
  <2> HIDE DEF k0
  <2>8. AskedSoFar(args, n + 1, word) <=> args[n + 1].flags[k0].rest # "other"
    <3>1. k0 \in Nat /\ k0 \in About(args[n + 1], word)
      BY <1>2, <2>2
    <3>2. \A l \in About(args[n + 1], word) : l \in Nat /\ l <= k0
      BY <1>2, <2>7
    <3> QED
      BY <3>1, <3>2, AskedNew
  <2> QED
    BY <2>2, <2>6, <2>8 DEF new, all
<1> QED
  BY <1>3, <1>4

-----------------------------------------------------------------------------
(* The options *)

LEMMA TakenSettings ==
  ASSUME OptionsShape, NEW a
  PROVE  Taken(a) = [path      |-> IF a.opt = "file" THEN a["name"] ELSE settings.path,
                     heap_size |-> IF a.opt = "memory" THEN a["bytes"] ELSE settings.heap_size,
                     mode      |-> IF a.opt = "mode" THEN a["name"] ELSE settings.mode,
                     level     |-> IF a.opt = "level" THEN a["name"] ELSE settings.level,
                     eof       |-> IF a.opt = "eof" THEN a["name"] ELSE settings.eof]
<1>1. settings = [path |-> settings.path, heap_size |-> settings.heap_size,
                  mode |-> settings.mode, level |-> settings.level, eof |-> settings.eof]
  BY DEF OptionsShape
<1>2. CASE a.opt = "file"
  BY <1>1, <1>2 DEF Taken
<1>3. CASE a.opt = "mode"
  BY <1>1, <1>3 DEF Taken
<1>4. CASE a.opt = "level"
  BY <1>1, <1>4 DEF Taken
<1>5. CASE a.opt = "eof"
  BY <1>1, <1>5 DEF Taken
<1>6. CASE a.opt = "memory"
  BY <1>1, <1>6 DEF Taken
<1>7. CASE a.opt \notin {"file", "mode", "level", "eof", "memory"}
  BY <1>1, <1>7 DEF Taken
<1> QED
  BY <1>2, <1>3, <1>4, <1>5, <1>6, <1>7

LEMMA TakeArgumentKeeps ==
  ASSUME OptionsShape, SettingsCount, FlagsCount, TakeArgument
  PROVE  OptionsShape' /\ SettingsCount' /\ FlagsCount'
<1> DEFINE n == Seen
           a == argv[todo]
<1>1. /\ n \in Nat /\ n + 1 = todo /\ todo \in 1..Len(argv) /\ argv' = argv
      /\ todo' = todo + 1 /\ Seen' = n + 1 /\ todo' \in 1..(Len(argv') + 1)
      /\ argv \in Seq(Arguments) /\ a \in Arguments
  BY DEF OptionsShape, TakeArgument, Seen
<1>2. /\ a.opt = "dump" => a.flags \in Seq(Flags)
      /\ a.opt = "memory" => a.bytes \in Nat
      /\ a.opt = "mode" => a.name \in {"interpreter", "compiler"}
  BY <1>1, ArgumentsAssumption DEF TakeArgument, Refused
<1>3. /\ settings'.path      = IF a.opt = "file" THEN a["name"] ELSE settings.path
      /\ settings'.heap_size = IF a.opt = "memory" THEN a["bytes"] ELSE settings.heap_size
      /\ settings'.mode      = IF a.opt = "mode" THEN a["name"] ELSE settings.mode
      /\ settings'.level     = IF a.opt = "level" THEN a["name"] ELSE settings.level
      /\ settings'.eof       = IF a.opt = "eof" THEN a["name"] ELSE settings.eof
      /\ settings' = [path |-> settings'.path, heap_size |-> settings'.heap_size,
                      mode |-> settings'.mode, level |-> settings'.level, eof |-> settings'.eof]
  <2>1. settings' = Taken(a)
    BY DEF TakeArgument
  <2> QED
    BY <2>1, TakenSettings
<1>4. /\ a.opt # "dump" => dump_flags' = dump_flags
      /\ a.opt = "dump" => dump_flags' = InFront(a.flags, dump_flags)
  BY DEF TakeArgument, DumpEnabled, InFront
<1>5. dump_flags \in Seq(Flags) /\ settings.heap_size \in Nat
      /\ settings.mode \in {"interpreter", "compiler"}
  BY DEF OptionsShape
<1>6. dump_flags' \in Seq(Flags)
  BY <1>2, <1>4, <1>5, FrontFlags
<1>7. settings'.heap_size \in Nat /\ settings'.mode \in {"interpreter", "compiler"}
  BY <1>2, <1>3, <1>5
<1>8. OptionsShape'
  BY <1>1, <1>3, <1>6, <1>7 DEF OptionsShape
<1>9. a = argv[n + 1]
  BY <1>1
<1> HIDE DEF n, a
<1>10. SettingsCount'
  <2>1. ASSUME NEW opt, NEW field, NEW default, NEW old, NEW new,
               new = IF a.opt = opt THEN a[field] ELSE old,
               Counts(argv, n, opt, field, default, old)
        PROVE  Counts(argv, n + 1, opt, field, default, new)
    BY <1>1, <1>9, <2>1, CountsStay, CountsNew
  <2>2. /\ Counts(argv, n, "file", "name", "", settings.path)
        /\ Counts(argv, n, "memory", "bytes", DefaultHeap, settings.heap_size)
        /\ Counts(argv, n, "mode", "name", "compiler", settings.mode)
        /\ Counts(argv, n, "level", "name", "2", settings.level)
        /\ Counts(argv, n, "eof", "name", "keep", settings.eof)
    BY DEF SettingsCount, n
  <2>3. Counts(argv, n + 1, "file", "name", "", settings'.path)
    BY <1>3, <2>1, <2>2
  <2>4. Counts(argv, n + 1, "memory", "bytes", DefaultHeap, settings'.heap_size)
    BY <1>3, <2>1, <2>2
  <2>5. Counts(argv, n + 1, "mode", "name", "compiler", settings'.mode)
    BY <1>3, <2>1, <2>2
  <2>6. Counts(argv, n + 1, "level", "name", "2", settings'.level)
    BY <1>3, <2>1, <2>2
  <2>7. Counts(argv, n + 1, "eof", "name", "keep", settings'.eof)
    BY <1>3, <2>1, <2>2
  <2> QED
    BY <1>1, <2>3, <2>4, <2>5, <2>6, <2>7 DEF SettingsCount
<1>11. FlagsCount'
  <2> SUFFICES ASSUME NEW word \in Words
               PROVE  Enabled(dump_flags', word) <=> AskedSoFar(argv, n + 1, word)
    BY <1>1 DEF FlagsCount
  <2>1. Enabled(dump_flags, word) <=> AskedSoFar(argv, n, word)
    BY DEF FlagsCount, n
  <2>2. CASE a.opt = "dump"
    <3>1. Enabled(InFront(argv[n + 1].flags, dump_flags), word) <=> AskedSoFar(argv, n + 1, word)
      BY <1>1, <1>2, <1>5, <1>9, <2>1, <2>2, FlagsNext
    <3> QED
      BY <1>4, <1>9, <2>2, <3>1
  <2>3. CASE a.opt # "dump"
    <3>1. About(argv[n + 1], word) = {}
      BY <1>9, <2>3 DEF About
    <3>2. AskedSoFar(argv, n + 1, word) <=> AskedSoFar(argv, n, word)
      BY <1>1, <3>1, AskedStays
    <3> QED
      BY <1>4, <2>1, <2>3, <3>2
  <2> QED
    BY <2>2, <2>3
<1> QED
  BY <1>8, <1>10, <1>11

-----------------------------------------------------------------------------
(* All arguments looked at *)

LEMMA LastCounts ==
  ASSUME argv \in Seq(Arguments), NEW opt, NEW field, NEW default, NEW value,
         Counts(argv, Len(argv), opt, field, default[field], value)
  PROVE  LastGiven(opt, default)[field] = value
<1>1. Len(argv) \in Nat /\ DOMAIN argv = 1..Len(argv)
  OBVIOUS
<1>2. CASE \A i \in 1..Len(argv) : argv[i].opt # opt
  <2>1. Given(opt) = {}
    BY <1>1, <1>2 DEF Given
  <2>2. value = default[field]
    BY <1>2 DEF Counts
  <2> QED
    BY <2>1, <2>2 DEF LastGiven
<1>3. ASSUME NEW i \in 1..Len(argv), argv[i].opt = opt, value = argv[i][field],
             \A j \in (i + 1)..Len(argv) : argv[j].opt # opt
      PROVE  LastGiven(opt, default)[field] = value
  <2>1. i \in Given(opt)
    BY <1>1, <1>3 DEF Given
  <2>2. \A j \in Given(opt) : j \in Int /\ i >= j
    BY <1>1, <1>3 DEF Given
  <2>3. Max(Given(opt)) \in Given(opt) /\ \A j \in Given(opt) : Max(Given(opt)) >= j
    BY <2>1, <2>2 DEF Max
  <2>4. Max(Given(opt)) = i
    <3> DEFINE m == Max(Given(opt))
    <3>1. m \in Int /\ i >= m /\ m >= i /\ i \in Int
      BY <2>1, <2>2, <2>3
    <3> HIDE DEF m
    <3>2. m = i
      BY <3>1
    <3> QED
      BY <3>2 DEF m
  <2> QED
    BY <1>3, <2>1, <2>4 DEF LastGiven
<1> QED
  BY <1>2, <1>3 DEF Counts

LEMMA AskedCounts ==
  ASSUME argv \in Seq(Arguments), NEW word
  PROVE  Asked(word) <=> AskedSoFar(argv, Len(argv), word)
<1>1. DOMAIN argv = 1..Len(argv)
  OBVIOUS
<1>2. \A i : FlagsAbout(word, i) = About(argv[i], word)
  BY DEF FlagsAbout, About
<1> QED
  BY <1>1, <1>2 DEF Asked, AskedSoFar

LEMMA SettingsAreLast ==
  ASSUME OptionsShape, SettingsCount, todo = Len(argv) + 1
  PROVE  /\ settings = [path |-> LastGiven("file", [name |-> ""]).name,
                        heap_size |-> LastGiven("memory", [bytes |-> DefaultHeap]).bytes,
                        mode  |-> LastGiven("mode", [name |-> "compiler"]).name,
                        level |-> LastGiven("level", [name |-> "2"]).name,
                        eof   |-> LastGiven("eof", [name |-> "keep"]).name]
         /\ settings.mode = LastGiven("mode", [name |-> "compiler"]).name
<1>1. argv \in Seq(Arguments) /\ Seen = Len(argv)
  BY DEF OptionsShape, Seen
<1>2. /\ Counts(argv, Len(argv), "file", "name", "", settings.path)
      /\ Counts(argv, Len(argv), "memory", "bytes", DefaultHeap, settings.heap_size)
      /\ Counts(argv, Len(argv), "mode", "name", "compiler", settings.mode)
      /\ Counts(argv, Len(argv), "level", "name", "2", settings.level)
      /\ Counts(argv, Len(argv), "eof", "name", "keep", settings.eof)
  BY <1>1 DEF SettingsCount
<1>3. LastGiven("file", [name |-> ""])["name"] = settings.path
  <2> DEFINE d == [name |-> ""]
  <2>1. d["name"] = ""
    OBVIOUS
  <2> HIDE DEF d
  <2>2. Counts(argv, Len(argv), "file", "name", d["name"], settings.path)
    BY <1>2, <2>1
  <2>3. LastGiven("file", d)["name"] = settings.path
    BY <1>1, <2>2, LastCounts
  <2> QED
    BY <2>3 DEF d
<1>4. LastGiven("memory", [bytes |-> DefaultHeap])["bytes"] = settings.heap_size
  <2> DEFINE d == [bytes |-> DefaultHeap]
  <2>1. d["bytes"] = DefaultHeap
    OBVIOUS
  <2> HIDE DEF d
  <2>2. Counts(argv, Len(argv), "memory", "bytes", d["bytes"], settings.heap_size)
    BY <1>2, <2>1
  <2>3. LastGiven("memory", d)["bytes"] = settings.heap_size
    BY <1>1, <2>2, LastCounts
  <2> QED
    BY <2>3 DEF d
<1>5. LastGiven("mode", [name |-> "compiler"])["name"] = settings.mode
  <2> DEFINE d == [name |-> "compiler"]
  <2>1. d["name"] = "compiler"
    OBVIOUS
  <2> HIDE DEF d
  <2>2. Counts(argv, Len(argv), "mode", "name", d["name"], settings.mode)
    BY <1>2, <2>1
  <2>3. LastGiven("mode", d)["name"] = settings.mode
    BY <1>1, <2>2, LastCounts
  <2> QED
    BY <2>3 DEF d
<1>6. LastGiven("level", [name |-> "2"])["name"] = settings.level
  <2> DEFINE d == [name |-> "2"]
  <2>1. d["name"] = "2"
    OBVIOUS
  <2> HIDE DEF d
  <2>2. Counts(argv, Len(argv), "level", "name", d["name"], settings.level)
    BY <1>2, <2>1
  <2>3. LastGiven("level", d)["name"] = settings.level
    BY <1>1, <2>2, LastCounts
  <2> QED
    BY <2>3 DEF d
<1>7. LastGiven("eof", [name |-> "keep"])["name"] = settings.eof
  <2> DEFINE d == [name |-> "keep"]
  <2>1. d["name"] = "keep"
    OBVIOUS
  <2> HIDE DEF d
  <2>2. Counts(argv, Len(argv), "eof", "name", d["name"], settings.eof)
    BY <1>2, <2>1
  <2>3. LastGiven("eof", d)["name"] = settings.eof
    BY <1>1, <2>2, LastCounts
  <2> QED
    BY <2>3 DEF d
<1> QED
  BY <1>3, <1>4, <1>5, <1>6, <1>7 DEF OptionsShape

\* Once all arguments were looked at, the settings and the flags say what the
\* command line asks for.
LEMMA WantsIsAsked ==
  ASSUME OptionsShape, SettingsCount, FlagsCount, todo = Len(argv) + 1
  PROVE  Wants = Asks
<1>1. argv \in Seq(Arguments) /\ Seen = Len(argv)
  BY DEF OptionsShape, Seen
<1>2. \A word \in Words : Enabled(dump_flags, word) <=> Asked(word)
  BY <1>1, AskedCounts DEF FlagsCount
<1>3. settings.mode = LastGiven("mode", [name |-> "compiler"]).name
  BY SettingsAreLast
<1>4. /\ Enabled(dump_flags, "prog") <=> Asked("prog")
      /\ Enabled(dump_flags, "code") <=> Asked("code")
      /\ Enabled(dump_flags, "heap") <=> Asked("heap")
  BY <1>2 DEF Words
<1> QED
  BY <1>3, <1>4 DEF Wants, Asks

-----------------------------------------------------------------------------
(* The steps of main *)

\* What keeps the options, and what keeps the file.
LEMMA OptionsSame ==
  ASSUME OptionsShape, SettingsCount, FlagsCount, UNCHANGED optionVars
  PROVE  OptionsShape' /\ SettingsCount' /\ FlagsCount'
  BY DEF optionVars, OptionsShape, SettingsCount, FlagsCount, Seen

\* As long as main has not ended there is no outcome to speak of.
LEMMA NoOutcome ==
  ASSUME exit' = ""
  PROVE  DoesWhatIsAsked'
  BY DEF DoesWhatIsAsked

LEMMA ExitKeeps ==
  ASSUME Progress, stage # "exited", NEW status \in {"0", "1", "signal"}, NEW more,
         Exit(status, more),
         status = "0" => (more = {"help"} /\ done = {}) \/ done \cup more = Asks,
         status = "1" => done \cup more = {},
         status = "signal" => done \cup more = {"run"} /\ "run" \in Asks
  PROVE  Progress'
<1>1. /\ stage' = "exited" /\ exit' = status /\ done' = done \cup more
      /\ UNCHANGED optionVars /\ UNCHANGED fileVars /\ available' = available
  BY DEF Exit
<1>2. OptionsShape' /\ SettingsCount' /\ FlagsCount'
  BY <1>1, OptionsSame DEF Progress
<1>3. FileShape'
  BY <1>1 DEF Progress, FileShape, fileVars
<1>4. MainShape'
  BY <1>1 DEF Progress, MainShape, Stages
<1>5. Asks' = Asks
  BY <1>1 DEF optionVars, Asks, Asked, FlagsAbout, LastGiven, Given
<1>6. DoesWhatIsAsked'
  BY <1>1, <1>5 DEF DoesWhatIsAsked
<1> QED
  BY <1>2, <1>3, <1>4, <1>6 DEF Progress

LEMMA FailKeeps ==
  ASSUME Progress, stage \notin {"exited", "ran"}, Fail
  PROVE  Progress'
<1>1. done = {}
  BY DEF Progress, MainShape
<1> QED
  BY <1>1, ExitKeeps DEF Fail

LEMMA OptionsKeeps ==
  ASSUME Progress, Options
  PROVE  Progress'
<1>1. CASE TakeArgument /\ Go("options", "options") /\ UNCHANGED <<fileVars, available>>
  <2>1. OptionsShape' /\ SettingsCount' /\ FlagsCount'
    BY <1>1, TakeArgumentKeeps DEF Progress
  <2>2. /\ stage = "options" /\ stage' = "options" /\ exit' = exit /\ done' = done
        /\ UNCHANGED fileVars /\ available' = available
    BY <1>1 DEF Go
  <2>3. exit' = "" /\ FileShape' /\ MainShape'
    BY <2>2 DEF Progress, FileShape, MainShape, fileVars, Stages
  <2> QED
    BY <2>1, <2>3, NoOutcome DEF Progress
<1>2. CASE stage = "options" /\ AsksForHelp /\ Exit("0", {"help"})
  <2>1. done = {}
    BY <1>2 DEF Progress, MainShape
  <2> QED
    BY <1>2, <2>1, ExitKeeps
<1>3. CASE stage = "options" /\ OptionsFail /\ Fail
  BY <1>3, FailKeeps
<1>4. CASE OptionsDone /\ Go("options", "open") /\ UNCHANGED <<optionVars, fileVars, available>>
  <2>1. /\ todo > Len(argv) /\ settings.path # "" /\ UNCHANGED optionVars /\ UNCHANGED fileVars
        /\ stage = "options" /\ stage' = "open" /\ exit' = exit /\ done' = done
        /\ available' = available
    BY <1>4 DEF OptionsDone, Go
  <2>2. OptionsShape' /\ SettingsCount' /\ FlagsCount'
    BY <2>1, OptionsSame DEF Progress
  <2>3. todo = Len(argv) + 1
    <3>1. Len(argv) \in Nat /\ todo \in 1..(Len(argv) + 1)
      BY DEF Progress, OptionsShape
    <3>2. todo > Len(argv)
      BY <2>1
    <3> QED
      BY <3>1, <3>2
  <2>4. exit' = "" /\ FileShape' /\ MainShape'
    BY <2>1, <2>3 DEF Progress, FileShape, MainShape, fileVars, optionVars, Stages
  <2> QED
    BY <2>2, <2>4, NoOutcome DEF Progress
<1> QED
  BY <1>1, <1>2, <1>3, <1>4 DEF Options

LEMMA OpenKeeps ==
  ASSUME Progress, Open
  PROVE  Progress'
<1>1. CASE Measure /\ Go("open", "read") /\ UNCHANGED <<optionVars, available>>
  <2>1. /\ stage = "open" /\ stage' = "read" /\ exit' = exit /\ done' = done
        /\ UNCHANGED optionVars /\ available' = available
        /\ fsize' = file /\ content' = [i \in 1..(file + 1) |-> 0] /\ bytes_read' = 0 /\ file' = file
    BY <1>1 DEF Go, Measure
  <2>2. OptionsShape' /\ SettingsCount' /\ FlagsCount'
    BY <2>1, OptionsSame DEF Progress
  <2>3. FileShape'
    <3>1. file \in 0..MaxFile /\ \A i \in 1..(file + 1) : ~(i <= 0)
      BY DEF Progress, FileShape
    <3>2. content' = [i \in 1..(fsize' + 1) |-> IF i <= bytes_read' THEN i ELSE 0]
      BY <2>1, <3>1
    <3> QED
      BY <2>1, <3>1, <3>2 DEF FileShape
  <2>4. exit' = "" /\ MainShape'
    BY <2>1 DEF Progress, MainShape, optionVars, Stages
  <2> QED
    BY <2>2, <2>3, <2>4, NoOutcome DEF Progress
<1>2. CASE stage = "open" /\ Fail
  BY <1>2, FailKeeps
<1> QED
  BY <1>1, <1>2 DEF Open

\* read puts the next bytes behind those read before, and never more of them
\* than the string has room for.
LEMMA ReadKeeps ==
  ASSUME FileShape, stage = "read", stage' = "read", Read
  PROVE  FileShape'
<1>1. PICK r \in Answers :
        /\ content' = [i \in DOMAIN content |->
                         IF i \in (bytes_read + 1)..(bytes_read + r) THEN i ELSE content[i]]
        /\ bytes_read' = bytes_read + r
  BY DEF Read
<1>2. file' = file /\ fsize' = fsize /\ bytes_read < fsize
  BY DEF Read, WantsMore
<1>3. /\ file \in Nat /\ fsize \in 0..MaxFile /\ bytes_read \in 0..fsize /\ MaxFile \in Nat
      /\ content = [i \in 1..(fsize + 1) |-> IF i <= bytes_read THEN i ELSE 0]
  BY DriverAssumption DEF FileShape
<1>4. r \in Nat /\ bytes_read + r <= fsize
  BY <1>2, <1>3 DEF Answers
<1>5. content' = [i \in 1..(fsize' + 1) |-> IF i <= bytes_read' THEN i ELSE 0]
  BY <1>1, <1>2, <1>3, <1>4
<1> QED
  BY <1>1, <1>2, <1>3, <1>4, <1>5 DEF FileShape

LEMMA ReadFileKeeps ==
  ASSUME Progress, ReadFile
  PROVE  Progress'
<1>1. CASE Read /\ Go("read", "read") /\ UNCHANGED <<optionVars, available>>
  <2>1. /\ stage = "read" /\ stage' = "read" /\ exit' = exit /\ done' = done
        /\ UNCHANGED optionVars /\ available' = available
    BY <1>1 DEF Go
  <2>2. OptionsShape' /\ SettingsCount' /\ FlagsCount'
    BY <2>1, OptionsSame DEF Progress
  <2>3. FileShape'
    BY <1>1, <2>1, ReadKeeps DEF Progress
  <2>4. exit' = "" /\ MainShape'
    BY <2>1 DEF Progress, MainShape, optionVars, Stages
  <2> QED
    BY <2>2, <2>3, <2>4, NoOutcome DEF Progress
<1>2. CASE ~WantsMore /\ Go("read", "parse") /\ UNCHANGED <<optionVars, fileVars, available>>
  <2>1. /\ stage = "read" /\ stage' = "parse" /\ exit' = exit /\ done' = done
        /\ UNCHANGED optionVars /\ UNCHANGED fileVars /\ available' = available
        /\ ~(bytes_read < fsize)
    BY <1>2 DEF Go, WantsMore
  <2>2. OptionsShape' /\ SettingsCount' /\ FlagsCount'
    BY <2>1, OptionsSame DEF Progress
  <2>3. bytes_read = fsize
    BY <2>1 DEF Progress, FileShape
  <2>4. FileShape'
    BY <2>1, <2>3 DEF Progress, FileShape, fileVars
  <2>5. exit' = "" /\ MainShape'
    BY <2>1 DEF Progress, MainShape, optionVars, Stages
  <2> QED
    BY <2>2, <2>4, <2>5, NoOutcome DEF Progress
<1> QED
  BY <1>1, <1>2 DEF ReadFile

LEMMA GoKeeps ==
  ASSUME Progress, UNCHANGED optionVars, UNCHANGED fileVars,
         {stage, stage'} \cap {"options", "open", "read", "exited"} = {},
         MainShape'
  PROVE  Progress'
<1>1. OptionsShape' /\ SettingsCount' /\ FlagsCount'
  BY OptionsSame DEF Progress
<1>2. FileShape'
  BY DEF Progress, FileShape, fileVars
<1>3. exit' = ""
  BY DEF MainShape
<1> QED
  BY <1>1, <1>2, <1>3, NoOutcome DEF Progress

LEMMA ParseFileKeeps ==
  ASSUME Progress, ParseFile
  PROVE  Progress'
<1>1. CASE Go("parse", "parsed") /\ UNCHANGED <<optionVars, fileVars, available>>
  <2>1. MainShape'
    BY <1>1 DEF Go, Progress, MainShape, optionVars, Stages
  <2> QED
    BY <1>1, <2>1, GoKeeps DEF Go
<1>2. CASE stage = "parse" /\ Fail
  BY <1>2, FailKeeps
<1> QED
  BY <1>1, <1>2 DEF ParseFile

\* Behind the options IsDumpEnabled decides what is wanted, which is what was
\* asked for.
LEMMA Decided ==
  ASSUME Progress, stage \notin {"options", "exited"}
  PROVE  /\ \A word : IsDumpEnabled(word) <=> Enabled(dump_flags, word)
         /\ Wants = Asks
<1>1. dump_flags \in Seq(Flags) /\ todo = Len(argv) + 1
  BY DEF Progress, OptionsShape, MainShape
<1>2. \A word : IsDumpEnabled(word) <=> Enabled(dump_flags, word)
  BY <1>1, EnabledIsDecided
<1>3. Wants = Asks
  BY <1>1, WantsIsAsked DEF Progress
<1> QED
  BY <1>2, <1>3

LEMMA DumpProgKeeps ==
  ASSUME Progress, DumpProg
  PROVE  Progress'
<1>1. stage = "parsed" /\ IsDumpEnabled("prog") /\ Exit("0", {"prog"})
  BY DEF DumpProg
<1>2. Asks = {"prog"}
  BY <1>1, Decided DEF Wants
<1>3. done = {}
  BY <1>1 DEF Progress, MainShape
<1>4. done \cup {"prog"} = Asks
  BY <1>2, <1>3
<1> QED
  BY <1>1, <1>4, ExitKeeps

\* Rounding a heap up to whole pages adds less than a page.
LEMMA RoundedUp ==
  ASSUME NEW size \in Nat
  PROVE  /\ Rounded(size) \in Nat
         /\ size <= Rounded(size) /\ Rounded(size) <= size + PageSize - 1
<1> DEFINE n == size + PageSize - 1
           pages == n \div PageSize
<1>1. PageSize \in Nat /\ PageSize > 0 /\ n \in Nat
  BY DriverAssumption
<1>2. pages \in Nat /\ pages * PageSize <= n /\ n < (pages + 1) * PageSize
  BY <1>1, FilledPages
<1>3. Rounded(size) = pages * PageSize
  BY DEF Rounded
<1> HIDE DEF pages
<1>4. (pages + 1) * PageSize = pages * PageSize + PageSize /\ pages * PageSize \in Nat
  BY <1>1, <1>2
<1> QED
  BY <1>1, <1>2, <1>3, <1>4

LEMMA CreateHeapKeeps ==
  ASSUME Progress, CreateHeap
  PROVE  Progress'
<1>1. stage = "parsed" /\ ~IsDumpEnabled("prog")
  BY DEF CreateHeap
<1>2. CASE Fail
  BY <1>1, <1>2, FailKeeps
<1>3. CASE /\ Rounded(settings.heap_size) > 0
           /\ available' = Rounded(settings.heap_size)
           /\ Go("parsed", settings.mode)
           /\ UNCHANGED <<optionVars, fileVars>>
  <2>1. settings.heap_size \in Nat /\ settings.mode \in {"interpreter", "compiler"}
    BY DEF Progress, OptionsShape
  <2>2. Rounded(settings.heap_size) \in Nat
    BY <2>1, RoundedUp
  <2>3. ~Enabled(dump_flags, "prog")
    BY <1>1, Decided
  <2>4. /\ stage' = settings.mode /\ exit' = exit /\ done' = done
        /\ argv' = argv /\ todo' = todo /\ settings' = settings /\ dump_flags' = dump_flags
    BY <1>3 DEF Go, optionVars
  <2>5. /\ exit = "" /\ done = {} /\ todo = Len(argv) + 1 /\ settings.path # ""
    BY <1>1 DEF Progress, MainShape
  <2>6. MainShape'
    BY <1>3, <2>1, <2>2, <2>3, <2>4, <2>5 DEF MainShape, Stages, Rounded
  <2> QED
    BY <1>1, <1>3, <2>1, <2>4, <2>6, GoKeeps
<1> QED
  BY <1>2, <1>3 DEF CreateHeap

LEMMA CompileKeeps ==
  ASSUME Progress, Compile
  PROVE  Progress'
<1>1. CASE Go("compiler", "compiled") /\ UNCHANGED <<optionVars, fileVars, available>>
  <2>1. MainShape'
    BY <1>1 DEF Go, Progress, MainShape, optionVars, Stages, Rounded
  <2> QED
    BY <1>1, <2>1, GoKeeps DEF Go
<1>2. CASE stage = "compiler" /\ Fail
  BY <1>2, FailKeeps
<1> QED
  BY <1>1, <1>2 DEF Compile

LEMMA DumpCodeKeeps ==
  ASSUME Progress, DumpCode
  PROVE  Progress'
<1>1. stage = "compiled" /\ IsDumpEnabled("code") /\ Exit("0", {"code"})
  BY DEF DumpCode
<1>2. done = {} /\ ~Enabled(dump_flags, "prog") /\ settings.mode = "compiler"
  BY <1>1 DEF Progress, MainShape
<1>3. Asks = {"code"}
  BY <1>1, <1>2, Decided DEF Wants
<1>4. done \cup {"code"} = Asks
  BY <1>2, <1>3
<1> QED
  BY <1>1, <1>4, ExitKeeps

LEMMA RunKeeps ==
  ASSUME Progress, Run
  PROVE  Progress'
<1>1. /\ stage \in {"interpreter", "compiled"} /\ Runnable
  BY DEF Run, Runnable
<1>2. /\ done = {} /\ exit = "" /\ ~Enabled(dump_flags, "prog")
      /\ stage = "interpreter" => settings.mode = "interpreter"
  BY <1>1 DEF Progress, MainShape
<1>3. ~(settings.mode = "compiler" /\ Enabled(dump_flags, "code"))
  BY <1>1, <1>2, Decided DEF Runnable
<1>4. CASE /\ stage' = "ran" /\ done' = done \cup {"run"}
           /\ UNCHANGED <<optionVars, fileVars, available, exit>>
  <2>1. done' = {"run"}
    BY <1>2, <1>4
  <2>2. MainShape'
    BY <1>1, <1>2, <1>3, <1>4, <2>1 DEF Progress, MainShape, optionVars, Stages, Rounded
  <2> QED
    BY <1>1, <1>4, <2>2, GoKeeps
<1>5. CASE Exit("signal", {"run"})
  <2>1. "run" \in Asks
    BY <1>1, <1>2, <1>3, Decided DEF Wants
  <2>2. done \cup {"run"} = {"run"}
    BY <1>2
  <2> QED
    BY <1>1, <1>5, <2>1, <2>2, ExitKeeps
<1> QED
  BY <1>4, <1>5 DEF Run

LEMMA LeaveKeeps ==
  ASSUME Progress, Leave
  PROVE  Progress'
<1> DEFINE more == IF IsDumpEnabled("heap") THEN {"heap"} ELSE {}
<1>1. stage = "ran" /\ Exit("0", more)
  BY DEF Leave
<1>2. /\ done = {"run"} /\ ~Enabled(dump_flags, "prog")
      /\ ~(settings.mode = "compiler" /\ Enabled(dump_flags, "code"))
  BY <1>1 DEF Progress, MainShape
<1>3. Asks = {"run"} \cup more
  BY <1>1, <1>2, Decided DEF Wants
<1>4. done \cup more = Asks
  BY <1>2, <1>3
<1> HIDE DEF more
<1> QED
  BY <1>1, <1>4, ExitKeeps

LEMMA FirstProgress ==
  ASSUME Init
  PROVE  Progress
<1>1. /\ argv \in BoundedSeq(Arguments, MaxArguments)
      /\ todo = 1 /\ settings = Defaults /\ dump_flags = <<>>
  BY DEF Init, OptionsInit
<1>2. file \in 0..MaxFile /\ fsize = 0 /\ content = <<>> /\ bytes_read = 0
  BY DEF Init, FileInit
<1>3. stage = "options" /\ available = 0 /\ done = {} /\ exit = ""
  BY DEF Init
<1>4. argv \in Seq(Arguments) /\ Len(argv) \in Nat
  <2>1. PICK n \in 0..MaxArguments : argv \in [1..n -> Arguments]
    BY <1>1 DEF BoundedSeq, SeqOf
  <2>2. n \in Nat
    BY <2>1, ArgumentsAssumption
  <2>3. argv \in Seq(Arguments)
    BY <2>1, <2>2, SeqDef
  <2> QED
    BY <2>3
<1>5. todo = 1 /\ todo \in 1..(Len(argv) + 1) /\ Seen = 0
  <2>1. todo = 1
    BY <1>1
  <2> QED
    BY <1>4, <2>1 DEF Seen
<1>6. OptionsShape
  <2>1. DefaultHeap \in Nat
    BY DriverAssumption
  <2>2. /\ settings = [path |-> settings.path, heap_size |-> settings.heap_size,
                       mode |-> settings.mode, level |-> settings.level, eof |-> settings.eof]
        /\ settings.heap_size = DefaultHeap /\ settings.mode = "compiler"
    BY <1>1 DEF Defaults
  <2>3. dump_flags \in Seq(Flags)
    BY <1>1
  <2> QED
    BY <1>4, <1>5, <2>1, <2>2, <2>3 DEF OptionsShape
<1>7. 1..Seen = {}
  BY <1>5
<1>8. SettingsCount
  BY <1>1, <1>7 DEF SettingsCount, Counts, Defaults
<1>9. FlagsCount
  <2>1. dump_flags = <<>> /\ 1..Len(<<>>) = {}
    BY <1>1
  <2> QED
    BY <1>7, <2>1 DEF FlagsCount, Enabled, AskedSoFar
<1>10. FileShape
  <2>1. 0 \in 0..MaxFile /\ 0 \in 0..0
    BY DriverAssumption
  <2> QED
    BY <1>2, <1>3, <2>1 DEF FileShape
<1>11. MainShape
  BY <1>3 DEF MainShape, Stages
<1>12. DoesWhatIsAsked
  BY <1>3 DEF DoesWhatIsAsked
<1> QED
  BY <1>6, <1>8, <1>9, <1>10, <1>11, <1>12 DEF Progress

\* main has got as far as Progress says, after every step.
THEOREM DriverProgress == Spec => []Progress
<1>1. Init => Progress
  BY FirstProgress
<1>2. Progress /\ [Next]_vars => Progress'
  <2> SUFFICES ASSUME Progress, [Next]_vars PROVE Progress'
    OBVIOUS
  <2>1. CASE Options
    BY <2>1, OptionsKeeps
  <2>2. CASE Open
    BY <2>2, OpenKeeps
  <2>3. CASE ReadFile
    BY <2>3, ReadFileKeeps
  <2>4. CASE ParseFile
    BY <2>4, ParseFileKeeps
  <2>5. CASE DumpProg
    BY <2>5, DumpProgKeeps
  <2>6. CASE CreateHeap
    BY <2>6, CreateHeapKeeps
  <2>7. CASE Compile
    BY <2>7, CompileKeeps
  <2>8. CASE DumpCode
    BY <2>8, DumpCodeKeeps
  <2>9. CASE Leave
    BY <2>9, LeaveKeeps
  <2>10. CASE ReadError
    BY <2>10, FailKeeps DEF ReadError
  <2>11. CASE Run
    BY <2>11, RunKeeps
  <2>12. CASE Others
    <3>1. /\ stage \in {"open", "read"} /\ UNCHANGED optionVars /\ UNCHANGED mainVars
          /\ file' \in 0..MaxFile /\ UNCHANGED buffer
      BY <2>12 DEF Others, FileChanges
    <3>2. OptionsShape' /\ SettingsCount' /\ FlagsCount'
      BY <3>1, OptionsSame DEF Progress
    <3>3. FileShape'
      BY <3>1 DEF Progress, FileShape, buffer, mainVars
    <3>4. exit' = "" /\ MainShape'
      BY <3>1 DEF Progress, MainShape, mainVars, optionVars, Stages
    <3> QED
      BY <3>2, <3>3, <3>4, NoOutcome DEF Progress
  <2>13. CASE UNCHANGED vars
    <3>1. UNCHANGED optionVars /\ UNCHANGED fileVars /\ UNCHANGED mainVars
      BY <2>13 DEF vars
    <3>2. OptionsShape' /\ SettingsCount' /\ FlagsCount'
      BY <3>1, OptionsSame DEF Progress
    <3>3. FileShape' /\ MainShape'
      BY <3>1 DEF Progress, FileShape, MainShape, fileVars, mainVars, optionVars, Rounded
    <3>4. Asks' = Asks
      BY <3>1 DEF optionVars, Asks, Asked, FlagsAbout, LastGiven, Given
    <3>5. DoesWhatIsAsked'
      BY <3>1, <3>4 DEF Progress, DoesWhatIsAsked, mainVars
    <3> QED
      BY <3>2, <3>3, <3>5 DEF Progress
  <2> QED
    BY <2>1, <2>2, <2>3, <2>4, <2>5, <2>6, <2>7, <2>8, <2>9, <2>10, <2>11, <2>12, <2>13
       DEF Next, Main
<1> QED
  BY <1>1, <1>2, PTL DEF Spec

-----------------------------------------------------------------------------
(* The properties of main *)

\* The string is never written behind its end, whatever read answers and
\* however the file changes.
THEOREM DriverTypeCorrect == Spec => []TypeOK
<1>1. Progress => TypeOK
  <2> SUFFICES ASSUME Progress PROVE TypeOK
    OBVIOUS
  <2>1. /\ OptionsShape /\ FileShape /\ MainShape
    BY DEF Progress
  <2>2. content \in Seq(0..MaxFile)
    <3>1. fsize \in 0..MaxFile /\ MaxFile \in Nat /\ bytes_read \in 0..fsize
      BY <2>1, DriverAssumption DEF FileShape
    <3>2. CASE content = <<>>
      BY <3>2
    <3>3. CASE content = [i \in 1..(fsize + 1) |-> IF i <= bytes_read THEN i ELSE 0]
      <4>1. \A i \in 1..(fsize + 1) : (IF i <= bytes_read THEN i ELSE 0) \in 0..MaxFile
        BY <3>1
      <4>2. fsize + 1 \in Nat
        BY <3>1
      <4>3. content \in [1..(fsize + 1) -> 0..MaxFile]
        BY <3>3, <4>1
      <4> QED
        BY <4>2, <4>3, SeqDef
    <3> QED
      BY <2>1, <3>2, <3>3 DEF FileShape
  <2>3. settings.path # "" \/ stage \in {"options", "exited"}
    BY <2>1 DEF MainShape
  <2> QED
    BY <2>1, <2>2, <2>3 DEF TypeOK, OptionsShape, FileShape, MainShape
<1> QED
  BY <1>1, DriverProgress, PTL

\* However often an option is repeated and whatever comes in between, the
\* settings main works with are those of the last argument of each kind.
THEOREM DriverLastOneCounts == Spec => []LastOneCounts
<1>1. Progress => LastOneCounts
  <2> SUFFICES ASSUME Progress, stage \notin {"options", "exited"} PROVE LastOneCounts
    BY DEF LastOneCounts
  <2>1. todo = Len(argv) + 1
    BY DEF Progress, MainShape
  <2> QED
    BY <2>1, SettingsAreLast DEF Progress, LastOneCounts
<1> QED
  BY <1>1, DriverProgress, PTL

\* What is parsed is the file as it was measured, however read divided it.
THEOREM DriverContentIsFile == Spec => []ContentIsFile
<1>1. Progress => ContentIsFile
  BY DEF Progress, FileShape, ContentIsFile
<1> QED
  BY <1>1, DriverProgress, PTL

\* main succeeds only when it did what the command line asks for, and an
\* error comes before any of it.
THEOREM DriverDoesWhatIsAsked == Spec => []DoesWhatIsAsked
<1>1. Progress => DoesWhatIsAsked
  BY DEF Progress
<1> QED
  BY <1>1, DriverProgress, PTL

\* A program that runs has the cells that were asked for, whatever their
\* number and the size of a page.
THEOREM DriverHeapHolds == Spec => []HeapHolds
<1>1. Progress => HeapHolds
  <2> SUFFICES ASSUME Progress, stage \in {"interpreter", "compiler", "compiled", "ran"}
               PROVE  HeapHolds
    BY DEF HeapHolds
  <2>1. /\ settings.heap_size \in Nat /\ available = Rounded(settings.heap_size)
        /\ available > 0
    BY DEF Progress, OptionsShape, MainShape
  <2>2. available \in Nat /\ settings.heap_size <= available
        /\ available <= settings.heap_size + PageSize - 1
    BY <2>1, RoundedUp
  <2>3. settings.heap_size + PageSize - 1 \in Int
    BY <2>1, DriverAssumption
  <2> QED
    BY <2>1, <2>2, <2>3 DEF HeapHolds
<1> QED
  BY <1>1, DriverProgress, PTL

=============================================================================

-------------------------------- MODULE Driver --------------------------------
(***************************************************************************)
(* main of src/src/bf.cc from the command line to the exit: what is read,  *)
(* what is done with it, what is left out and which errors end it.  What   *)
(* the program means is the affair of BfCc and Compiled: here parsing,     *)
(* compiling and running only succeed or fail.                             *)
(***************************************************************************)
EXTENDS CommandLine, SourceFile

CONSTANTS PageSize,  \* the bytes of a page
          MaxHeap    \* the largest heap, UINT32_MAX >> 1 in the code

ASSUME DriverAssumption ==
  /\ PageSize \in Nat \ {0} /\ MaxHeap \in Nat /\ MaxFile \in Nat
  /\ DefaultHeap \in 1..MaxHeap

VARIABLES stage,      \* where main stands
          available,  \* the cells of the heap
          done,       \* history: what main has done for its user
          exit        \* "0", "1" or "signal"; "" before that

mainVars == <<stage, available, done, exit>>
vars == <<optionVars, fileVars, mainVars>>

Init ==
  /\ OptionsInit /\ FileInit
  /\ stage = "options" /\ available = 0 /\ done = {} /\ exit = ""

\* The process ends, and what is in more has been done too.
Exit(status, more) ==
  /\ stage' = "exited" /\ exit' = status /\ done' = done \cup more
  /\ UNCHANGED <<optionVars, fileVars, available>>

\* Ensure and Error.
Fail == Exit("1", {})

Go(from, to) == stage = from /\ stage' = to /\ UNCHANGED <<done, exit>>

Options ==
  \/ TakeArgument /\ Go("options", "options") /\ UNCHANGED <<fileVars, available>>
  \/ stage = "options" /\ AsksForHelp /\ Exit("0", {"help"})
  \/ stage = "options" /\ OptionsFail /\ Fail
  \/ OptionsDone /\ Go("options", "open") /\ UNCHANGED <<optionVars, fileVars, available>>

\* The file may not exist or, as a pipe does, not be seekable.
Open ==
  \/ Measure /\ Go("open", "read") /\ UNCHANGED <<optionVars, available>>
  \/ stage = "open" /\ Fail

ReadFile ==
  \/ Read /\ Go("read", "read") /\ UNCHANGED <<optionVars, available>>
  \/ ~WantsMore /\ Go("read", "parse") /\ UNCHANGED <<optionVars, fileVars, available>>

\* A read may also fail.
ReadError == stage = "read" /\ WantsMore /\ Fail

\* Parse, and the optimizer, which does not fail.
ParseFile ==
  \/ Go("parse", "parsed") /\ UNCHANGED <<optionVars, fileVars, available>>
  \/ stage = "parse" /\ Fail

DumpProg == stage = "parsed" /\ IsDumpEnabled("prog") /\ Exit("0", {"prog"})

\* @mutant: the heap is rounded down to whole pages.
RoundedDown(size) == (size \div PageSize) * PageSize

Rounded(size) == ((size + PageSize - 1) \div PageSize) * PageSize

\* Heap::Create: too large a heap is refused, one of no pages by mmap, and any
\* other may be.
CreateHeap ==
  /\ stage = "parsed" /\ ~IsDumpEnabled("prog")
  /\ \/ /\ settings.heap_size <= MaxHeap /\ Rounded(settings.heap_size) > 0
        /\ available' = Rounded(settings.heap_size)
        /\ Go("parsed", settings.mode)
        /\ UNCHANGED <<optionVars, fileVars>>
     \/ Fail

\* Compiler::Create and Compile: no memory, or no right to make it executable.
Compile ==
  \/ Go("compiler", "compiled") /\ UNCHANGED <<optionVars, fileVars, available>>
  \/ stage = "compiler" /\ Fail

\* @mutant: main goes on to the heap.
DumpCodeToo ==
  /\ stage = "compiled" /\ IsDumpEnabled("code")
  /\ stage' = "ran" /\ done' = done \cup {"code"}
  /\ UNCHANGED <<optionVars, fileVars, available, exit>>

DumpCode == stage = "compiled" /\ IsDumpEnabled("code") /\ Exit("0", {"code"})

\* The program may also run forever.
Runnable ==
  \/ stage = "interpreter"
  \/ stage = "compiled" /\ ~IsDumpEnabled("code")

Run ==
  /\ Runnable
  /\ \/ stage' = "ran" /\ done' = done \cup {"run"}
        /\ UNCHANGED <<optionVars, fileVars, available, exit>>
     \/ Exit("signal", {"run"})

Leave == stage = "ran" /\ Exit("0", IF IsDumpEnabled("heap") THEN {"heap"} ELSE {})

Main ==
  \/ Options \/ Open \/ ReadFile \/ ParseFile \/ DumpProg
  \/ CreateHeap \/ Compile \/ DumpCode \/ Leave

Others == stage \in {"open", "read"} /\ FileChanges /\ UNCHANGED <<optionVars, mainVars>>

Next == Main \/ ReadError \/ Run \/ Others

\* main goes on as long as it can; nothing is assumed of the program it runs,
\* and no error has to come that would end the reading.
Spec == Init /\ [][Next]_vars /\ WF_vars(Main)

-----------------------------------------------------------------------------
(* Properties *)

\* The string is never written behind its end, even when the file grows.
TypeOK ==
  /\ todo \in 1..(Len(argv) + 1) /\ dump_flags \in Seq(Flags)
  /\ settings.path # "" \/ stage \in {"options", "exited"}
  /\ bytes_read \in 0..fsize /\ content \in Seq(0..MaxFile)
  /\ available \in Nat /\ exit \in {"", "0", "1", "signal"}

\* The last argument for an option, or what holds without one.
Given(opt) == {i \in DOMAIN argv : argv[i].opt = opt}
LastGiven(opt, default) == IF Given(opt) = {} THEN default ELSE argv[Max(Given(opt))]

\* Options may be repeated and mixed with the program: the last one of each
\* kind counts, and none undoes another kind.
LastOneCounts ==
  stage \notin {"options", "exited"} =>
    settings = [path |-> LastGiven("file", [name |-> ""]).name,
                heap_size |-> LastGiven("memory", [bytes |-> DefaultHeap]).bytes,
                mode  |-> LastGiven("mode", [name |-> "compiler"]).name,
                level |-> LastGiven("level", [name |-> "2"]).name,
                eof   |-> LastGiven("eof", [name |-> "keep"]).name]

\* What is parsed is the file as it was measured, and a '\0' behind it, however
\* read divided it and whatever was appended meanwhile.
ContentIsFile ==
  stage \notin {"options", "open", "read", "exited"} /\ ~truncated =>
    content = [i \in 1..(fsize + 1) |-> IF i <= fsize THEN i ELSE 0]

\* Which dump flags of the i-th argument start with the word.
FlagsAbout(word, i) ==
  IF argv[i].opt = "dump" THEN {k \in DOMAIN argv[i].flags : argv[i].flags[k].asks = word} ELSE {}

\* The latest flag that starts with the word is the word itself, or a value
\* for it.
Asked(word) ==
  \E i \in DOMAIN argv : \E k \in FlagsAbout(word, i) :
    /\ argv[i].flags[k].rest # "other"
    /\ \A j \in DOMAIN argv : \A l \in FlagsAbout(word, j) : j < i \/ (j = i /\ l <= k)

\* What a command line asks for: the operations alone; the code, if there is
\* any, without running it; or a run, and the heap after it.
Asks ==
  IF Asked("prog") THEN {"prog"}
  ELSE IF Asked("code") /\ LastGiven("mode", [name |-> "compiler"]).name = "compiler" THEN {"code"}
  ELSE {"run"} \cup (IF Asked("heap") THEN {"heap"} ELSE {})

\* bf-cc succeeds only when it did all that was asked for and nothing else;
\* when it reports an error no part of the program has run.
DoesWhatIsAsked ==
  /\ exit = "0" => done = {"help"} \/ done = Asks
  /\ exit = "1" => done = {}
  /\ exit = "signal" => done = {"run"} /\ "run" \in Asks

\* A program that runs has the cells that were asked for, and not a page more
\* than that takes.
HeapHolds ==
  stage \in {"interpreter", "compiler", "compiled", "ran"} =>
    settings.heap_size <= available /\ available \in 1..(settings.heap_size + PageSize - 1)

\* main always comes to the program or to an exit, unless the file is cut
\* short under its hands.
GetsThere == <>(Runnable \/ exit # "" \/ truncated)
===============================================================================

----------------------------- MODULE CommandLine -----------------------------
(***************************************************************************)
(* parse_opts of src/src/bf.cc, one argument at a time, and the dump flags *)
(* of src/src/debug.cc.  An argument is a record: what option it is, in    *)
(* its short or its long form, and its value, "bad" or negative if the     *)
(* program refuses it.                                                     *)
(***************************************************************************)
EXTENDS Integers, SequencesExt

CONSTANTS Arguments,     \* the arguments considered
          MaxArguments,  \* how many of them a command line has at most
          DefaultHeap    \* DEFAULT_HEAP_SIZE

\* The text asked for by IsDumpEnabled that a flag starts with, and what comes
\* after it: nothing, a value, or other characters, as in "progress".
Flags == [asks : {"prog", "code", "heap"}, rest : {"", "=value", "other"}]

\* Dump flags come as a list, a heap size as a number, and -i and -c are the
\* modes there are.
ASSUME ArgumentsAssumption ==
  /\ MaxArguments \in Nat
  /\ \A a \in Arguments :
       /\ a.opt = "dump" => a.flags \in Seq(Flags)
       /\ a.opt = "memory" => a.bytes \in Int
       /\ a.opt = "mode" => a.name \in {"interpreter", "compiler"}

VARIABLES argv,        \* the command line, never changed
          todo,        \* the argument parse_opts looks at next
          settings,    \* args of bf.cc
          dump_flags   \* see debug.cc

optionVars == <<argv, todo, settings, dump_flags>>

Defaults ==
  [path |-> "", heap_size |-> DefaultHeap, mode |-> "compiler", level |-> "2", eof |-> "keep"]

OptionsInit ==
  /\ argv \in BoundedSeq(Arguments, MaxArguments)
  /\ todo = 1 /\ settings = Defaults /\ dump_flags = <<>>

Refused(a) ==
  \/ a.opt = "unknown"
  \/ a.opt \in {"level", "eof"} /\ a.name = "bad"
  \/ a.opt = "memory" /\ a.bytes < 0

\* @mutant: the first program named is the one that is read.
TakenFirstFile(a) ==
  CASE a.opt = "file" /\ settings.path = "" -> [settings EXCEPT !.path = a.name]
    [] a.opt = "mode"   -> [settings EXCEPT !.mode = a.name]
    [] a.opt = "level"  -> [settings EXCEPT !.level = a.name]
    [] a.opt = "eof"    -> [settings EXCEPT !.eof = a.name]
    [] a.opt = "memory" -> [settings EXCEPT !.heap_size = a.bytes]
    [] OTHER            -> settings

\* The settings after an argument.  An option "empty", an -m, -e or -d without
\* a value, changes nothing; an empty argument is the name of a file.
Taken(a) ==
  CASE a.opt = "file"   -> [settings EXCEPT !.path = a.name]
    [] a.opt = "mode"   -> [settings EXCEPT !.mode = a.name]
    [] a.opt = "level"  -> [settings EXCEPT !.level = a.name]
    [] a.opt = "eof"    -> [settings EXCEPT !.eof = a.name]
    [] a.opt = "memory" -> [settings EXCEPT !.heap_size = a.bytes]
    [] OTHER            -> settings

\* DumpEnable puts every flag of a list in front of those before it; empty
\* ones between commas are skipped.
DumpEnabled(a) == IF a.opt = "dump" THEN Reverse(a.flags) \o dump_flags ELSE dump_flags

TakeArgument ==
  /\ todo <= Len(argv) /\ argv[todo].opt # "help" /\ ~Refused(argv[todo])
  /\ settings' = Taken(argv[todo])
  /\ dump_flags' = DumpEnabled(argv[todo])
  /\ todo' = todo + 1
  /\ UNCHANGED argv

AsksForHelp == todo <= Len(argv) /\ argv[todo].opt = "help"

OptionsFail ==
  IF todo <= Len(argv) THEN Refused(argv[todo]) ELSE settings.path = ""

OptionsDone == todo > Len(argv) /\ settings.path # ""

\* The first flag that starts with what is asked for decides.
IsDumpEnabled(word) ==
  LET first == SelectInSeq(dump_flags, LAMBDA f : f.asks = word)
  IN  first # 0 /\ dump_flags[first].rest # "other"
==============================================================================

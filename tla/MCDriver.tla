------------------------------- MODULE MCDriver -------------------------------
(* Command lines of a few arguments, files of a few bytes. *)
EXTENDS Driver

Dump(flags) == [opt |-> "dump", flags |-> flags]
Flag(word, after) == [asks |-> word, rest |-> after]

FewArguments ==
  {[opt |-> "help"], [opt |-> "unknown"], [opt |-> "empty"],
   [opt |-> "level", name |-> "3"], [opt |-> "level", name |-> "bad"],
   [opt |-> "memory", bytes |-> 0], [opt |-> "memory", bytes |-> 5],
   [opt |-> "memory", bytes |-> 99], [opt |-> "memory", bytes |-> -1],
   [opt |-> "eof", name |-> "0"], [opt |-> "eof", name |-> "-1"], [opt |-> "eof", name |-> "bad"],
   [opt |-> "mode", name |-> "interpreter"], [opt |-> "mode", name |-> "compiler"],
   [opt |-> "file", name |-> "a.bf"], [opt |-> "file", name |-> "/dev/stdin"],
   [opt |-> "file", name |-> ""],
   Dump(<<Flag("prog", "")>>), Dump(<<Flag("code", "")>>),
   Dump(<<Flag("prog", "other"), Flag("heap", "=value")>>),
   Dump(<<Flag("heap", ""), Flag("heap", "other"), Flag("code", "other")>>)}
===============================================================================

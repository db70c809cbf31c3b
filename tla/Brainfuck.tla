------------------------------ MODULE Brainfuck ------------------------------
(***************************************************************************)
(* What a program means: the text executed command by command, on the heap *)
(* and with the EOF behaviour README.md documents.  The module is the      *)
(* abstract specification the parser, optimizer and interpreter together   *)
(* are compared with; none of it is in the code.                           *)
(***************************************************************************)
EXTENDS Integers, Sequences, Text

CONSTANTS ByteSize, HeapSize, MaxOutput

VARIABLES commands,  \* the program without its comments
          eof,       \* the EOF mode
          machine    \* the state of the run

\* A machine before its first command.
Booted(input) ==
  [at |-> 1, cells |-> [c \in 0..(HeapSize - 1) |-> 0], dp |-> 0,
   input |-> input, output |-> <<>>, status |-> "running"]

\* The brackets that match, both ways.
Partner(p, i) ==
  CHOOSE j \in DOMAIN p : Match(p, i, j) \/ Match(p, j, i)

\* README.md, "EOF for read operations".
AtEOF(mode, cell) ==
  CASE mode = "keep" -> cell [] mode = "0" -> 0 [] mode = "-1" -> ByteSize - 1

\* The machine after the command at m.at of the program p.
After(p, mode, m) ==
  LET c == p[m.at]
      cell == m.cells[m.dp]
      Put(value) == [m.cells EXCEPT ![m.dp] = value % ByteSize]
      next == m.at + 1
  IN  IF m.at > Len(p) THEN [m EXCEPT !.status = "halted"]
      ELSE IF c \in {">", "<"}
           THEN [m EXCEPT !.at = next, !.dp = IF c = ">" THEN @ + 1 ELSE @ - 1]
      ELSE IF m.dp \notin DOMAIN m.cells THEN [m EXCEPT !.status = "trapped"]
      ELSE CASE c = "+" -> [m EXCEPT !.at = next, !.cells = Put(cell + 1)]
             [] c = "-" -> [m EXCEPT !.at = next, !.cells = Put(cell - 1)]
             [] c = "," -> IF m.input = <<>>
                           THEN [m EXCEPT !.at = next, !.cells = Put(AtEOF(mode, cell))]
                           ELSE [m EXCEPT !.at = next, !.cells = Put(Head(m.input)),
                                          !.input = Tail(@)]
             [] c = "." -> IF Len(m.output) = MaxOutput
                           THEN [m EXCEPT !.status = "cut"]
                           ELSE [m EXCEPT !.at = next, !.output = Append(@, cell)]
             [] c = "[" -> [m EXCEPT !.at = IF cell = 0 THEN Partner(p, m.at) + 1 ELSE next]
             [] c = "]" -> [m EXCEPT !.at = IF cell # 0 THEN Partner(p, m.at) + 1 ELSE next]

\* The machine when it stops, or after so many commands.
Outcome(p, mode, input, fuel) ==
  LET run[n \in 0..fuel] ==
        IF n = 0 THEN Booted(input)
        ELSE CHOOSE m \in {IF before.status = "running" THEN After(p, mode, before) ELSE before :
                              before \in {run[n - 1]}} : TRUE
  IN  run[fuel]

Step ==
  /\ machine.status = "running"
  /\ machine' = After(commands, eof, machine)
  /\ UNCHANGED <<commands, eof>>

Init == machine = Booted(machine.input)

Spec == Init /\ [][Step]_<<commands, eof, machine>>
==============================================================================

--------------------------------- MODULE BfCc ---------------------------------
(***************************************************************************)
(* main of src/src/bf.cc with -i: the program is parsed, optimized at the  *)
(* level of the command line, and interpreted.                             *)
(***************************************************************************)
EXTENDS Instr, Text, FiniteSets

CONSTANTS HeapSize, GuardCells, MaxOutput,  \* see Heap
          Cases,   \* the texts considered, each with an EOF mode and a stdin
          Levels,  \* the optimization levels considered
          Fuel     \* how many commands of a program its meaning is followed

\* Texts are sequences of characters, stdin is a sequence of bytes.
ASSUME CasesAssumption ==
  \A c \in Cases :
    /\ c.program \in Seq(STRING)
    /\ \E i \in DOMAIN EOFModes : c.eof = EOFModes[i]
    /\ c.input \in Seq(0..(ByteSize - 1))

ASSUME HeapAssumption ==
  /\ HeapSize \in Nat \ {0} /\ GuardCells \in Nat
  /\ MaxOutput \in Nat /\ Fuel \in Nat

VARIABLES program, at, stack, parsed,   \* Parser
          stream,                       \* made, rewritten and executed
          iter, offset, level, stage,   \* Optimizer
          eof, pc, cells, dp, input, output, status,  \* Interpreter
          expected  \* what the text means; only looked at by the properties

parserVars == <<program, at, stack, parsed>>
optimizerVars == <<iter, offset, level, stage>>
interpreterVars == <<eof, pc, cells, dp, input, output, status>>
vars == <<parserVars, stream, optimizerVars, interpreterVars, expected>>

Parser == INSTANCE Parser WITH status <- parsed, Programs <- {c.program : c \in Cases}
Optimizer == INSTANCE Optimizer
Interpreter == INSTANCE Interpreter

Commands == CommandsOf(program)

\* The unoptimized stream seen as the text: labels are no commands.
SourceAt ==
  1 + Cardinality({i \in DOMAIN stream :
        stream[i].code # "LABEL" /\ (pc = nil \/ i < Position(stream, pc))})

machine ==
  [at |-> IF status = "idle" THEN 1 ELSE SourceAt,
   cells |-> cells, dp |-> dp, input |-> input, output |-> output,
   status |-> CASE status = "idle" -> "running" [] status = "stray" -> "trapped"
                [] OTHER -> status]

Source == INSTANCE Brainfuck WITH commands <- Commands

Init ==
  /\ \E c \in Cases : program = c.program /\ eof = c.eof /\ input = c.input
  /\ level \in Levels
  /\ Parser!Idle /\ Interpreter!Idle /\ pc = nil /\ Optimizer!Idle
  /\ \E text \in {Commands} : expected = Source!Outcome(text, eof, input, Fuel)

Parse == Parser!Next /\ UNCHANGED <<optimizerVars, interpreterVars, expected>>

Optimize ==
  /\ parsed = "ok"
  /\ Optimizer!Optimize
  /\ UNCHANGED <<parserVars, interpreterVars, expected>>

Run ==
  /\ parsed = "ok" /\ Optimizer!Finished
  /\ Interpreter!Interpret
  /\ UNCHANGED <<parserVars, optimizerVars, expected>>

\* The program has exited, or its output is not followed any further.
Ended == parsed \notin {"parsing", "ok"} \/ Interpreter!Ended

Next == Parse \/ Optimize \/ Run \/ (Ended /\ UNCHANGED vars)

Spec == Init /\ [][Next]_vars /\ WF_vars(Next)

-----------------------------------------------------------------------------
(* Properties *)

TypeOK ==
  /\ IsStream(stream)
  /\ offset \in Int /\ stage \in 0..9
  /\ cells \in [0..(HeapSize - 1) -> 0..(ByteSize - 1)] /\ dp \in Int
  /\ status \in {"idle", "running", "halted", "trapped", "stray", "cut"}

\* README.md, "IR", of every stream between two rounds of an optimization: a
\* jump has its label and a label its one jump, JZ leads forwards, JNZ back.
JumpsJoined == parsed = "ok" /\ status = "idle" => WellJoined(stream)

\* README.md, "IR": care must be taken if the stream is manipulated while an
\* iterator is alive.  No pass and no jump leaves one on a deleted operation.
IteratorsLive == {iter, pc} \subseteq Addresses(stream) \cup {nil}

\* What Verify demands of the stream after every pass (instr.cc:165-213).
VerifyHolds == parsed = "ok" /\ status = "idle" => Verified(stream)

\* However a program was optimized, when it ends it has done what its text
\* means: it halts only if the text does, with the same output, the same
\* heap and the same input consumed; it is killed or goes astray only if the
\* text touches a cell outside the heap, and not before the output that comes
\* first.
MeansTheSame ==
  /\ status = "halted" /\ expected.status # "trapped" =>
       /\ expected.status = "halted"
       /\ output = expected.output /\ cells = expected.cells /\ input = expected.input
  /\ status \in {"trapped", "stray"} => expected.status = "trapped"
  /\ Interpreter!Ended => IsPrefix(expected.output, output)

\* Unoptimized, the interpreter executes the text command by command.
ImplementsSource == Source!Init /\ [][level = 0 => Source!Step]_machine

\* A program whose text halts also halts optimized: no pass loops forever,
\* and none turns a loop that ends into one that does not.
HaltsIfTextHalts == expected.status = "halted" => <>(status = "halted")

\* README.md, "EOF for read operations": at the end of stdin, the default mode
\* keeps the cell as it is.
KeepsCellAtEOF ==
  [][status = "running" /\ pc # nil /\ OpAt(stream, pc).code = "READ"
       /\ eof = "keep" /\ input = <<>> => UNCHANGED cells]_vars

\* Parser and optimizer come to an end whatever the program does.
OptimizerFinishes == <>(parsed \notin {"parsing", "ok"} \/ status # "idle")
===============================================================================

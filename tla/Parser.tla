------------------------------- MODULE Parser -------------------------------
(***************************************************************************)
(* Parse of src/src/parse.cc: one character of the program per step.       *)
(***************************************************************************)
EXTENDS Instr, Text

CONSTANT Programs  \* the programs considered, sequences of characters

ASSUME ProgramsAssumption == \A p \in Programs : p \in Seq(STRING)

VARIABLES program,  \* the text, never changed
          at,       \* the position of the character to read next
          stream,   \* the operations appended so far
          stack,    \* jump_stack: the addresses of the unfinished jumps and labels
          status    \* "parsing", "ok", "UnmatchedJump", or "undefined"

vars == <<program, at, stream, stack, status>>

\* Nothing read yet.
Idle == at = 1 /\ stream = <<>> /\ stack = <<>> /\ status = "parsing"

Init == program \in Programs /\ Idle

\* The operation a command without brackets stands for.
Translated == [c \in {"+", "-", ">", "<", ",", "."} |->
  CASE c = "+" -> [code |-> "INCR_CELL", op1 |-> 1]
    [] c = "-" -> [code |-> "DECR_CELL", op1 |-> 1]
    [] c = ">" -> [code |-> "INCR_PTR",  op1 |-> 1]
    [] c = "<" -> [code |-> "DECR_PTR",  op1 |-> 1]
    [] c = "," -> [code |-> "READ",      op1 |-> 0]
    [] c = "." -> [code |-> "WRITE",     op1 |-> 0]]

Reading(chars) ==
  /\ status = "parsing" /\ at <= Len(program)
  /\ program[at] \in chars
  /\ at' = at + 1
  /\ UNCHANGED program

Command ==
  /\ Reading(DOMAIN Translated)
  /\ LET op == Translated[program[at]]
     IN  stream' = AppendOp(stream, op.code, op.op1, 0)
  /\ UNCHANGED <<stack, status>>

\* @mutant: the label is not pushed.
OpenLoopJumpOnly ==
  /\ Reading({"["})
  /\ \E s1 \in {AppendOp(stream, "JZ", 0, 0)} :
       stream' = AppendOp(s1, "LABEL", 0, 0) /\ stack' = Append(stack, Last(s1).id)
  /\ UNCHANGED status

OpenLoop ==
  /\ Reading({"["})
  /\ \E s1 \in {AppendOp(stream, "JZ", 0, 0)} :
     \E s2 \in {AppendOp(s1, "LABEL", 0, 0)} :
       /\ stream' = s2
       /\ stack' = stack \o <<Last(s1).id, Last(s2).id>>
  /\ UNCHANGED status

\* @mutant: only the jump back is told its label.
CloseLoopOneWay ==
  /\ Reading({"]"}) /\ Len(stack) >= 2
  /\ LET label == Last(stack)
         other == stack[Len(stack) - 1]
     IN  \E s1 \in {AppendOp(stream, "JNZ", label, 0)} :
         \E s2 \in {AppendOp(s1, "LABEL", other, 0)} :
           stream' = SetOperand1(s2, label, Last(s1).id)
  /\ stack' = SubSeq(stack, 1, Len(stack) - 2)
  /\ UNCHANGED status

\* @mutant: the jumps are taken from the bottom of the stack.
CloseLoopOldest ==
  /\ Reading({"]"}) /\ Len(stack) >= 2
  /\ LET label == stack[2]
         other == stack[1]
     IN  \E s1 \in {AppendOp(stream, "JNZ", label, 0)} :
         \E s2 \in {SetOperand1(s1, label, Last(s1).id)} :
         \E s3 \in {AppendOp(s2, "LABEL", other, 0)} :
           stream' = SetOperand1(s3, other, Last(s3).id)
  /\ stack' = SubSeq(stack, 3, Len(stack))
  /\ UNCHANGED status

CloseLoop ==
  /\ Reading({"]"}) /\ Len(stack) >= 2
  /\ LET label == Last(stack)
         other == stack[Len(stack) - 1]
     IN  \E s1 \in {AppendOp(stream, "JNZ", label, 0)} :
         \E s2 \in {SetOperand1(s1, label, Last(s1).id)} :
         \E s3 \in {AppendOp(s2, "LABEL", other, 0)} :
           stream' = SetOperand1(s3, other, Last(s3).id)
  /\ stack' = SubSeq(stack, 1, Len(stack) - 2)
  /\ UNCHANGED status

\* jump_stack.back() of an empty vector: undefined behaviour, any outcome.
CloseUnopened ==
  /\ Reading({"]"}) /\ stack = <<>>
  /\ status' = "undefined"
  /\ UNCHANGED <<stream, stack>>

\* @mutant: the character is looked at again and again.
CommentStaying ==
  /\ status = "parsing" /\ at <= Len(program)
  /\ program[at] \notin CommandChars
  /\ UNCHANGED vars

Comment ==
  /\ status = "parsing" /\ at <= Len(program)
  /\ program[at] \notin CommandChars
  /\ at' = at + 1
  /\ UNCHANGED <<program, stream, stack, status>>

\* @mutant: the jumps left on the stack are not looked at.
FinishUnchecked ==
  /\ status = "parsing" /\ at > Len(program)
  /\ status' = "ok"
  /\ UNCHANGED <<program, at, stream, stack>>

Finish ==
  /\ status = "parsing" /\ at > Len(program)
  /\ status' = IF stack = <<>> THEN "ok" ELSE "UnmatchedJump"
  /\ UNCHANGED <<program, at, stream, stack>>

Next == Command \/ OpenLoop \/ CloseLoop \/ CloseUnopened \/ Comment \/ Finish

Spec == Init /\ [][Next]_vars /\ WF_vars(Next)

-----------------------------------------------------------------------------
(* Properties *)

\* The stream is a stream and the stack holds pairs of its addresses.
TypeOK ==
  /\ at \in 1..(Len(program) + 1)
  /\ IsStream(stream)
  /\ stack \in Seq(Addresses(stream)) /\ Len(stack) % 2 = 0
  /\ status \in {"parsing", "ok", "UnmatchedJump", "undefined"}

\* How many characters were read so far.
Read == at - 1

\* Where the operation of the i-th character stands: every command before it
\* has its operation, and every bracket has brought a label along.
Place(p, i) == 1 + HowMany(p, CommandChars, i - 1) + HowMany(p, Brackets, i - 1)

\* A program is accepted exactly when its brackets balance, and refused with
\* UnmatchedJump when some loop is never closed.  (A ']' too many is neither.)
AcceptsBalanced ==
  /\ status = "ok" => Balanced(program)
  /\ status = "UnmatchedJump" => ~Balanced(program)

\* At any moment of the parse the brackets that match have been joined: the
\* JZ with the label behind the JNZ, the JNZ with the label behind the JZ.
\* All other jumps and labels are still on the stack, innermost last.
JumpsFollowBrackets ==
  status # "undefined" =>
    LET place(i) == Place(program, i)
    IN  /\ \A i, j \in 1..Read : Match(program, i, j) =>
             /\ stream[place(i)].code = "JZ" /\ stream[place(j)].code = "JNZ"
             /\ Joined(stream, place(i), place(j) + 1)
             /\ Joined(stream, place(j), place(i) + 1)
        /\ Len(stack) = 2 * Depth(program, Read)
        /\ \A i \in 1..Read : OpenFrom(program, i, Read) =>
             LET k == 2 * Depth(program, i)
             IN  /\ stack[k - 1] = stream[place(i)].id
                 /\ stack[k] = stream[place(i) + 1].id

\* README.md, "IR": what a finished parse hands on is well joined, and its
\* operations are the commands of the program.
ParsedWellJoined ==
  status = "ok" =>
    /\ WellJoined(stream)
    /\ Cardinality({q \in DOMAIN stream : stream[q].code # "LABEL"})
         = HowMany(program, CommandChars, Len(program))

\* Error UnmatchedJump (error.cc:32-33) is what a program with unbalanced
\* brackets is refused with.
RefusesUnbalanced ==
  status # "parsing" /\ ~Balanced(program) => status = "UnmatchedJump"

\* Whatever the text, the parse ends.
Terminates == <>(status # "parsing")
=============================================================================

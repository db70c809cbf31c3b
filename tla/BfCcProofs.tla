------------------------------ MODULE BfCcProofs ------------------------------
(***************************************************************************)
(* Theorems about a whole run, for programs of any length, every level of  *)
(* optimization, heaps of any size and any input.                          *)
(***************************************************************************)
EXTENDS BfCc, StreamFacts

PP == INSTANCE ParserProofs WITH status <- parsed, Programs <- {c.program : c \in Cases}
OP == INSTANCE OptimizerProofs

-----------------------------------------------------------------------------
(* The inductive invariant *)

\* The optimizer has not started, nor the program.
Waiting == stage = 0 /\ offset = 0 /\ iter = nil /\ pc = nil /\ status = "idle"

HeapTyped ==
  /\ \E i \in DOMAIN EOFModes : eof = EOFModes[i]
  /\ cells \in [0..(HeapSize - 1) -> 0..(ByteSize - 1)] /\ dp \in Int
  /\ input \in Seq(0..(ByteSize - 1))
  /\ status \in {"idle", "running", "halted", "trapped", "stray", "cut"}

\* First the stream is made, then rewritten, then executed: no two at a time.
\* Who is not at work has left what the next one starts from.
InOrder ==
  /\ parsed # "ok" => PP!Progress /\ Waiting
  /\ parsed = "ok" => OP!Optimizing
  /\ status = "idle" => pc = nil
  /\ status # "idle" => Optimizer!Finished
  /\ pc \in Addresses(stream) \cup {nil}

Whole == HeapTyped /\ InOrder

-----------------------------------------------------------------------------
(* BfCc and the two modules of proofs have an instance of Parser and of    *)
(* Optimizer each; that the instances agree is seen by expanding both.     *)

LEMMA Assumed ==
  PP!ByteSizeAssumption /\ PP!ProgramsAssumption /\ OP!ByteSizeAssumption
BY ByteSizeAssumption, CasesAssumption
   DEF PP!ByteSizeAssumption, PP!ProgramsAssumption, OP!ByteSizeAssumption

LEMMA SameParser ==
  /\ Parser!Idle => PP!Idle
  /\ Parser!Next => PP!Next
  /\ Parser!Next => \/ Parser!Finish /\ PP!Finish
                    \/ parsed' \in {"parsing", "undefined"}
<1> USE DEF Parser!AppendOp, PP!AppendOp, Parser!Operation, PP!Operation, Parser!Fresh,
      PP!Fresh, Parser!Min, PP!Min, Parser!Addresses, PP!Addresses, Parser!Last, PP!Last,
      Parser!SetOperand1, PP!SetOperand1, Parser!Position, PP!Position
<1>1. Parser!Command => PP!Command
  BY DEF Parser!Command, PP!Command, Parser!Reading, PP!Reading, Parser!Translated,
       PP!Translated
<1>2. Parser!OpenLoop => PP!OpenLoop
  BY DEF Parser!OpenLoop, PP!OpenLoop, Parser!Reading, PP!Reading
<1>3. Parser!CloseLoop => PP!CloseLoop
  BY DEF Parser!CloseLoop, PP!CloseLoop, Parser!Reading, PP!Reading
<1>4. Parser!CloseUnopened => PP!CloseUnopened
  BY DEF Parser!CloseUnopened, PP!CloseUnopened, Parser!Reading, PP!Reading
<1>5. Parser!Comment => PP!Comment
  BY DEF Parser!Comment, PP!Comment, Parser!CommandChars, PP!CommandChars, Parser!Brackets,
       PP!Brackets
<1>6. Parser!Finish => PP!Finish
  BY DEF Parser!Finish, PP!Finish
<1>7. Parser!Idle => PP!Idle
  BY DEF Parser!Idle, PP!Idle
<1>8. ASSUME Parser!Command \/ Parser!OpenLoop \/ Parser!CloseLoop
               \/ Parser!CloseUnopened \/ Parser!Comment
      PROVE  parsed' \in {"parsing", "undefined"}
  BY <1>8 DEF Parser!Command, Parser!OpenLoop, Parser!CloseLoop, Parser!CloseUnopened,
              Parser!Comment, Parser!Reading
<1> HIDE DEF Parser!AppendOp, PP!AppendOp, Parser!Last, PP!Last, Parser!SetOperand1, PP!SetOperand1
<1> QED
  BY <1>1, <1>2, <1>3, <1>4, <1>5, <1>6, <1>7, <1>8 DEF Parser!Next, PP!Next

LEMMA SameOptimizer ==
  Optimizer!Optimize => OP!Optimize /\ ~Optimizer!Finished
<1> USE DEF Optimizer!Here, OP!Here, Optimizer!SelectInSubSeq, OP!SelectInSubSeq, Optimizer!Min,
      OP!Min, Optimizer!Position, OP!Position, Optimizer!DeleteRange, OP!DeleteRange,
      Optimizer!AddressAt, OP!AddressAt, Optimizer!nil, OP!nil, Optimizer!HereAt, OP!HereAt,
      Optimizer!CellCodes, OP!CellCodes, Optimizer!Max, OP!Max, Optimizer!StepBeyond,
      OP!StepBeyond, Optimizer!PtrCodes, OP!PtrCodes, Optimizer!PassOver, OP!PassOver,
      Optimizer!LookingAt, OP!LookingAt, Optimizer!Operation, OP!Operation, Optimizer!IsJump,
      OP!IsJump, Optimizer!JumpCodes, OP!JumpCodes, Optimizer!InsertBefore, OP!InsertBefore,
      Optimizer!InsertAt, OP!InsertAt, Optimizer!Fresh, OP!Fresh, Optimizer!Addresses,
      OP!Addresses, Optimizer!Delete, OP!Delete, Optimizer!RemoveAt, OP!RemoveAt,
      Optimizer!MulCodes, OP!MulCodes, Optimizer!IOCodes, OP!IOCodes, Optimizer!FindCodes,
      OP!FindCodes, Optimizer!StepOver, OP!StepOver, Optimizer!Plus, OP!Plus, Optimizer!Begin,
      OP!Begin
<1>1. Optimizer!CommentLoop => OP!CommentLoop
  BY DEF Optimizer!CommentLoop, OP!CommentLoop, Optimizer!SkippingNops, OP!SkippingNops,
       Optimizer!LoopEnd, OP!LoopEnd, Optimizer!Drop, OP!Drop
<1>2. Optimizer!FusionOp => OP!FusionOp
  BY DEF Optimizer!FusionOp, OP!FusionOp, Optimizer!FuseCells, OP!FuseCells, Optimizer!RunEnd,
       OP!RunEnd, Optimizer!SameCell, OP!SameCell, Optimizer!SameCode, OP!SameCode,
       Optimizer!Amount, OP!Amount, Optimizer!Units, OP!Units, Optimizer!Fused, OP!Fused,
       Optimizer!FusePtr, OP!FusePtr, Optimizer!Cardinality, OP!Cardinality
<1>3. Optimizer!ReplaceSingleInstructionLoops => OP!ReplaceSingleInstructionLoops
  BY DEF Optimizer!ReplaceSingleInstructionLoops, OP!ReplaceSingleInstructionLoops,
       Optimizer!LoopAround, OP!LoopAround, Optimizer!ClearsCell, OP!ClearsCell,
       Optimizer!Closed, OP!Closed, Optimizer!LoopBecomes, OP!LoopBecomes
<1>4. Optimizer!ReplaceFindCellLoops => OP!ReplaceFindCellLoops
  BY DEF Optimizer!ReplaceFindCellLoops, OP!ReplaceFindCellLoops, Optimizer!LoopAround,
       OP!LoopAround, Optimizer!Closed, OP!Closed, Optimizer!LoopBecomes, OP!LoopBecomes,
       Optimizer!FindCode, OP!FindCode
<1>5. Optimizer!MergeSetIncrDecr => OP!MergeSetIncrDecr
  BY DEF Optimizer!MergeSetIncrDecr, OP!MergeSetIncrDecr, Optimizer!SetAndAdjust,
       OP!SetAndAdjust, Optimizer!Merged, OP!Merged
<1>6. Optimizer!MultiplyLoop => OP!MultiplyLoop
  BY DEF Optimizer!MultiplyLoop, OP!MultiplyLoop, Optimizer!Innermost, OP!Innermost,
       Optimizer!Body, OP!Body, Optimizer!Multiplicative, OP!Multiplicative,
       Optimizer!TouchesCounter, OP!TouchesCounter, Optimizer!CountsDown, OP!CountsDown,
       Optimizer!Multiply, OP!Multiply, Optimizer!Multiplications, OP!Multiplications,
       Optimizer!Multiplying, OP!Multiplying
<1>7. Optimizer!DoubleGuard => OP!DoubleGuard
  BY DEF Optimizer!DoubleGuard, OP!DoubleGuard, Optimizer!ScanEnd, OP!ScanEnd,
       Optimizer!EndsScan, OP!EndsScan, Optimizer!Repeats, OP!Repeats
<1>8. Optimizer!DelayPtr => OP!DelayPtr
  BY DEF Optimizer!DelayPtr, OP!DelayPtr, Optimizer!FlushMoves, OP!FlushMoves,
       Optimizer!FlushCodes, OP!FlushCodes, Optimizer!Flushed, OP!Flushed, Optimizer!Abs,
       OP!Abs, Optimizer!NothingToFlush, OP!NothingToFlush, Optimizer!TakeOffset, OP!TakeOffset,
       Optimizer!OffsetCodes, OP!OffsetCodes, Optimizer!HoldBackMove, OP!HoldBackMove,
       Optimizer!Held, OP!Held
<1>9. Optimizer!NextStage => OP!NextStage
  BY DEF Optimizer!NextStage, OP!NextStage, Optimizer!Finished, OP!Finished, Optimizer!pipeline,
       OP!pipeline, Optimizer!StageAfter, OP!StageAfter
<1>10. Optimizer!Rewriting => OP!Rewriting
  BY <1>1, <1>2, <1>3, <1>4, <1>5, <1>6, <1>7 DEF Optimizer!Rewriting, OP!Rewriting
<1>11. Optimizer!DelayingMoves => OP!DelayingMoves
  BY <1>8 DEF Optimizer!DelayingMoves, OP!DelayingMoves
<1>12. Optimizer!Rewriting \/ Optimizer!DelayingMoves => stage \in 1..8
  BY DEF Optimizer!Rewriting, Optimizer!DelayingMoves
<1>13. stage \in 1..8 => ~Optimizer!Finished
  BY DEF Optimizer!Finished, Optimizer!pipeline
<1>14. Optimizer!NextStage => ~Optimizer!Finished
  BY DEF Optimizer!NextStage
<1> QED
  BY <1>9, <1>10, <1>11, <1>12, <1>13, <1>14 DEF Optimizer!Optimize, OP!Optimize

LEMMA SameOperations ==
  PP!Operations = Operations /\ OP!Operations = Operations
BY DEF PP!Operations, OP!Operations, Operations, PP!nil, OP!nil, nil, PP!Codes, OP!Codes, Codes,
       PP!CellCodes, OP!CellCodes, CellCodes, PP!PtrCodes, OP!PtrCodes, PtrCodes,
       PP!MulCodes, OP!MulCodes, MulCodes, PP!FindCodes, OP!FindCodes, FindCodes,
       PP!IOCodes, OP!IOCodes, IOCodes, PP!JumpCodes, OP!JumpCodes, JumpCodes

LEMMA SameStreams ==
  ASSUME NEW s
  PROVE  /\ PP!Distinct(s) <=> Distinct(s)
         /\ PP!Sound(s) <=> Sound(s)
         /\ OP!Sound(s) <=> Sound(s)
         /\ OP!Addresses(s) = Addresses(s)
<1>1. PP!Distinct(s) <=> Distinct(s)
  BY DEF PP!Distinct, Distinct
<1>2. OP!Distinct(s) <=> Distinct(s)
  BY DEF OP!Distinct, Distinct
<1>3. /\ PP!WellJoined(s) <=> WellJoined(s)
      /\ OP!WellJoined(s) <=> WellJoined(s)
  BY DEF PP!WellJoined, OP!WellJoined, WellJoined, PP!Joined, OP!Joined, Joined,
         PP!IsJump, OP!IsJump, IsJump, PP!JumpCodes, OP!JumpCodes, JumpCodes
<1>4. /\ PP!LoopsNest(s) <=> LoopsNest(s)
      /\ OP!LoopsNest(s) <=> LoopsNest(s)
  BY DEF PP!LoopsNest, OP!LoopsNest, LoopsNest, PP!Inside, OP!Inside, Inside,
         PP!Joined, OP!Joined, Joined, PP!IsJump, OP!IsJump, IsJump,
         PP!JumpCodes, OP!JumpCodes, JumpCodes
<1>5. OP!Addresses(s) = Addresses(s)
  BY DEF OP!Addresses, Addresses
<1> QED
  BY <1>1, <1>2, <1>3, <1>4, <1>5, SameOperations DEF PP!Sound, OP!Sound, Sound

-----------------------------------------------------------------------------
(* The program starts *)

LEMMA WholeAtStart ==
  ASSUME Init
  PROVE  Whole
<1>1. PICK c \in Cases : program = c.program /\ eof = c.eof /\ input = c.input
  BY DEF Init
<1>2. /\ program \in {case.program : case \in Cases}
      /\ \E i \in DOMAIN EOFModes : eof = EOFModes[i]
      /\ input \in Seq(0..(ByteSize - 1))
  BY <1>1, CasesAssumption
<1>3. Waiting /\ parsed = "parsing" /\ dp = 0 /\ cells = [i \in 0..(HeapSize - 1) |-> 0]
  BY DEF Init, Waiting, Parser!Idle, Interpreter!Idle, Optimizer!Idle, Optimizer!nil, nil
<1>4. HeapTyped
  BY <1>2, <1>3, ByteSizeAssumption DEF HeapTyped, Waiting
<1>5. PP!Progress
  <2>1. PP!Init
    BY <1>2, SameParser DEF Init, PP!Init
  <2> QED
    BY <2>1, Assumed, PP!FirstProgress
<1> QED
  BY <1>3, <1>4, <1>5 DEF Whole, InOrder, Waiting

-----------------------------------------------------------------------------
(* It is parsed *)

LEMMA ParseKeeps ==
  ASSUME Whole, Parse
  PROVE  Whole'
<1>1. Parser!Next /\ UNCHANGED <<optimizerVars, interpreterVars, expected>>
  BY DEF Parse
<1>2. parsed = "parsing"
  BY <1>1 DEF Parser!Next, Parser!Command, Parser!OpenLoop, Parser!CloseLoop,
              Parser!CloseUnopened, Parser!Comment, Parser!Finish, Parser!Reading
<1>3. PP!Progress /\ Waiting
  BY <1>2 DEF Whole, InOrder
<1>4. PP!Progress'
  BY <1>1, <1>3, SameParser, Assumed, PP!NextKeeps
<1>5. Waiting'
  BY <1>1, <1>3 DEF Waiting, optimizerVars, interpreterVars
<1>6. HeapTyped'
  BY <1>1 DEF Whole, HeapTyped, interpreterVars
<1>7. ASSUME parsed' = "ok" PROVE OP!Optimizing'
  <2>1. PP!Finish
    BY <1>1, <1>7, SameParser
  <2>2. PP!Sound(stream')
    BY <1>3, <1>7, <2>1, Assumed, PP!FinishedSound
  <2>3. OP!Sound(stream')
    BY <2>2, SameStreams
  <2> QED
    BY <1>5, <2>3 DEF Waiting, OP!Optimizing, OP!Kept, OP!nil, nil
<1> QED
  BY <1>4, <1>5, <1>6, <1>7 DEF Whole, InOrder, Waiting

-----------------------------------------------------------------------------
(* It is optimized *)

LEMMA OptimizeKeeps ==
  ASSUME Whole, Optimize
  PROVE  Whole'
<1>1. /\ parsed = "ok" /\ parsed' = "ok" /\ Optimizer!Optimize
      /\ UNCHANGED interpreterVars
  BY DEF Optimize, parserVars
<1>2. OP!Optimizing /\ status = "idle" /\ pc = nil
  BY <1>1, SameOptimizer DEF Whole, InOrder
<1>3. OP!Optimizing'
  BY <1>1, <1>2, SameOptimizer, Assumed, OP!OptimizerKeeps
<1>4. HeapTyped' /\ pc' = nil /\ status' = "idle"
  BY <1>1, <1>2 DEF Whole, HeapTyped, interpreterVars
<1> QED
  BY <1>1, <1>3, <1>4 DEF Whole, InOrder

-----------------------------------------------------------------------------
(* It is executed *)

\* Whatever jumps and moves: the next operation is one of the stream.
LEMMA NextIsLive ==
  ASSUME NEW s, NEW it, NEW n
  PROVE  Interpreter!Plus(s, it, n) \in Addresses(s) \cup {nil}
BY DEF Interpreter!Plus, Interpreter!AddressAt, Interpreter!nil, Addresses, nil

LEMMA ExecutedIsOperation ==
  ASSUME NEW s \in Seq(Operations), Distinct(s), NEW it \in Addresses(s)
  PROVE  Interpreter!OpAt(s, it) \in Operations
<1>1. PICK q \in DOMAIN s : s[q].id = it
  BY DEF Addresses
<1>2. Position(s, it) = q
  BY <1>1, PositionOfAddress
<1> QED
  BY <1>1, <1>2 DEF Interpreter!OpAt, Interpreter!Position, Position

CellsTyped == cells \in [0..(HeapSize - 1) -> 0..(ByteSize - 1)]

LEMMA CellsStayBytes ==
  ASSUME CellsTyped, NEW off, NEW value \in Int, Interpreter!SetCell(off, value)
  PROVE  CellsTyped'
<1>1. value % ByteSize \in 0..(ByteSize - 1)
  BY ByteSizeAssumption
<1> QED
  BY <1>1 DEF CellsTyped, Interpreter!SetCell

LEMMA CellIsNumber ==
  ASSUME CellsTyped, NEW off, dp + off \in DOMAIN cells
  PROVE  Interpreter!GetCell(off) \in Int
BY ByteSizeAssumption DEF CellsTyped, Interpreter!GetCell

LEMMA TouchedCells ==
  ASSUME NEW op
  PROVE  /\ op.code \in Interpreter!CellCodes => Interpreter!Touched(op) = {op.op2}
         /\ op.code \in Interpreter!MulCodes  => Interpreter!Touched(op) = {0, op.op2}
         /\ op.code \in {"READ", "WRITE"}     => Interpreter!Touched(op) = {op.op2}
         /\ op.code \in {"JZ", "JNZ"}         => Interpreter!Touched(op) = {0}
BY DEF Interpreter!Touched, Interpreter!CellCodes, Interpreter!MulCodes, Interpreter!IOCodes,
       Interpreter!JumpCodes, Interpreter!FindCodes

\* What an operation does to heap and input.
LEMMA ExecuteKeepsHeap ==
  ASSUME HeapTyped, NEW op \in Operations, status = "running",
         \/ Interpreter!AdjustCell(op) \/ Interpreter!MultiplyCell(op) \/ Interpreter!StoreCell(op)
         \/ Interpreter!MovePtr(op) \/ Interpreter!Read(op) \/ Interpreter!Write(op)
         \/ Interpreter!CutOff(op) \/ Interpreter!Jump(op) \/ Interpreter!FindCell(op)
         \/ Interpreter!Skip(op) \/ Interpreter!Trap(op)
  PROVE  HeapTyped' /\ status' # "idle"
<1> DEFINE Typed == /\ CellsTyped' /\ dp' \in Int /\ input' \in Seq(0..(ByteSize - 1))
                    /\ eof' = eof
                    /\ status' \in {"running", "cut", "trapped", "stray"}
<1> SUFFICES Typed
  BY DEF HeapTyped, CellsTyped
<1>1. op.op1 \in Int /\ op.op2 \in Int
  BY DEF Operations
<1>2. CellsTyped /\ dp \in Int /\ input \in Seq(0..(ByteSize - 1))
  BY DEF HeapTyped, CellsTyped
<1>3. \A amount \in Int : Interpreter!Signed(op, amount) \in Int
  BY DEF Interpreter!Signed
<1>4. Interpreter!Signed(op, op.op1) \in Int /\ Interpreter!Signed(op, op.op2) \in Int
  BY <1>1, <1>3
<1>5. CASE Interpreter!AdjustCell(op)
  <2>1. dp + op.op2 \in DOMAIN cells
    BY <1>5, TouchedCells DEF Interpreter!AdjustCell, Interpreter!Executing, Interpreter!OnHeap
  <2>2. Interpreter!GetCell(op.op2) + Interpreter!Signed(op, op.op1) \in Int
    <3>1. Interpreter!GetCell(op.op2) \in Int
      BY <1>2, <2>1, CellIsNumber
    <3> QED
      BY <1>4, <3>1
  <2>3. CellsTyped'
    BY <1>2, <1>5, <2>2, CellsStayBytes DEF Interpreter!AdjustCell
  <2> QED
    BY <1>2, <1>5, <2>3 DEF Interpreter!AdjustCell, Interpreter!Continue, Interpreter!world
<1>6. CASE Interpreter!MultiplyCell(op)
  <2>1. dp + op.op2 \in DOMAIN cells /\ dp + 0 \in DOMAIN cells
    BY <1>6, TouchedCells DEF Interpreter!MultiplyCell, Interpreter!Executing, Interpreter!OnHeap
  <2>2. Interpreter!GetCell(op.op2) \in Int /\ Interpreter!GetCell(0) \in Int
    BY <1>2, <2>1, CellIsNumber
  <2>3. Interpreter!GetCell(0) * op.op1 \in Int
    BY <1>1, <2>2
  <2>4. Interpreter!GetCell(op.op2) + Interpreter!Signed(op, Interpreter!GetCell(0) * op.op1) \in Int
    BY <1>3, <2>2, <2>3
  <2>5. CellsTyped'
    BY <1>2, <1>6, <2>4, CellsStayBytes DEF Interpreter!MultiplyCell
  <2> QED
    BY <1>2, <1>6, <2>5 DEF Interpreter!MultiplyCell, Interpreter!Continue, Interpreter!world
<1>7. CASE Interpreter!StoreCell(op)
  <2>1. CellsTyped'
    BY <1>1, <1>2, <1>7, CellsStayBytes DEF Interpreter!StoreCell
  <2> QED
    BY <1>2, <1>7, <2>1 DEF Interpreter!StoreCell, Interpreter!Continue, Interpreter!world
<1>8. CASE Interpreter!MovePtr(op)
  <2>1. dp' \in Int
    BY <1>2, <1>4, <1>8 DEF Interpreter!MovePtr
  <2> QED
    BY <1>2, <1>8, <2>1 DEF Interpreter!MovePtr, Interpreter!Continue, Interpreter!world, CellsTyped
<1>9. CASE Interpreter!Read(op)
  <2>1. Interpreter!ByteRead(eof, 0) \in Int
    <3>1. input # <<>> => Head(input) \in Int
      BY <1>2, ByteSizeAssumption
    <3>2. eof \in {"keep", "0", "-1"}
      BY DEF HeapTyped, EOFModes
    <3> QED
      BY <3>1, <3>2, ByteSizeAssumption DEF Interpreter!ByteRead
  <2>2. CellsTyped'
    BY <1>2, <1>9, <2>1, CellsStayBytes DEF Interpreter!Read
  <2>3. input' \in Seq(0..(ByteSize - 1))
    <3>1. input' = IF input = <<>> THEN input ELSE Tail(input)
      BY <1>9 DEF Interpreter!Read, Interpreter!InputRead
    <3>2. input # <<>> => Tail(input) \in Seq(0..(ByteSize - 1))
      BY <1>2
    <3> QED
      BY <1>2, <3>1, <3>2
  <2> QED
    BY <1>2, <1>9, <2>2, <2>3 DEF Interpreter!Read, Interpreter!Continue
<1>10. CASE Interpreter!Write(op)
  BY <1>2, <1>10 DEF Interpreter!Write, Interpreter!Continue, Interpreter!heap, CellsTyped
<1>11. CASE Interpreter!CutOff(op)
  BY <1>2, <1>11 DEF Interpreter!CutOff, Interpreter!heap, Interpreter!world, CellsTyped
<1>12. CASE Interpreter!Jump(op)
  BY <1>2, <1>12 DEF Interpreter!Jump, Interpreter!heap, Interpreter!world, CellsTyped
<1>13. CASE Interpreter!FindCell(op)
  <2>1. dp' \in Int
    BY <1>2, <1>4, <1>13 DEF Interpreter!FindCell
  <2> QED
    BY <1>2, <1>13, <2>1 DEF Interpreter!FindCell, Interpreter!Continue, Interpreter!world, CellsTyped
<1>14. CASE Interpreter!Skip(op)
  BY <1>2, <1>14 DEF Interpreter!Skip, Interpreter!Continue, Interpreter!heap, Interpreter!world, CellsTyped
<1>15. CASE Interpreter!Trap(op)
  BY <1>2, <1>15 DEF Interpreter!Trap, Interpreter!Outcomes, Interpreter!heap, Interpreter!world, CellsTyped
<1> QED
  BY <1>5, <1>6, <1>7, <1>8, <1>9, <1>10, <1>11, <1>12, <1>13, <1>14, <1>15

\* And to the stream and the place in it.
LEMMA ExecuteKeepsPlace ==
  ASSUME pc \in Addresses(stream) \cup {nil}, NEW op,
         \/ Interpreter!AdjustCell(op) \/ Interpreter!MultiplyCell(op) \/ Interpreter!StoreCell(op)
         \/ Interpreter!MovePtr(op) \/ Interpreter!Read(op) \/ Interpreter!Write(op)
         \/ Interpreter!CutOff(op) \/ Interpreter!Jump(op) \/ Interpreter!FindCell(op)
         \/ Interpreter!Skip(op) \/ Interpreter!Trap(op)
  PROVE  stream' = stream /\ pc' \in Addresses(stream) \cup {nil}
<1>1. /\ Interpreter!Plus(stream, pc, 1) \in Addresses(stream) \cup {nil}
      /\ Interpreter!Plus(stream, IF Interpreter!Taken(op) THEN op.op1 ELSE pc, 1)
           \in Addresses(stream) \cup {nil}
  BY NextIsLive
<1> QED
  BY <1>1 DEF Interpreter!AdjustCell, Interpreter!MultiplyCell, Interpreter!StoreCell,
     Interpreter!MovePtr, Interpreter!Read, Interpreter!Write, Interpreter!CutOff, Interpreter!Jump,
     Interpreter!FindCell, Interpreter!Skip, Interpreter!Trap, Interpreter!Continue

LEMMA RunKeeps ==
  ASSUME Whole, Run
  PROVE  Whole'
<1>1. /\ parsed = "ok" /\ parsed' = "ok" /\ Optimizer!Finished
      /\ Interpreter!Interpret /\ UNCHANGED optimizerVars
  BY DEF Run, parserVars
<1>2. /\ HeapTyped /\ OP!Optimizing /\ pc \in Addresses(stream) \cup {nil}
      /\ status = "idle" => pc = nil
  BY <1>1 DEF Whole, InOrder
<1>3. stream \in Seq(Operations) /\ Distinct(stream)
  BY <1>2, SameStreams DEF OP!Optimizing, OP!Kept, Sound
<1>4. HeapTyped' /\ stream' = stream /\ pc' \in Addresses(stream) \cup {nil} /\ status' # "idle"
  <2>1. CASE Interpreter!Start
    <3>1. Interpreter!Begin(stream) \in Addresses(stream) \cup {nil}
      BY DEF Interpreter!Begin, Interpreter!AddressAt, Interpreter!nil, Addresses, nil
    <3> QED
      BY <1>2, <2>1, <3>1 DEF Interpreter!Start, Interpreter!heap, Interpreter!world, HeapTyped
  <2>2. CASE Interpreter!Halt
    BY <1>2, <2>2 DEF Interpreter!Halt, Interpreter!heap, Interpreter!world, HeapTyped
  <2>3. CASE Interpreter!Execute
    <3>1. status = "running" /\ pc # nil /\ pc \in Addresses(stream)
      BY <1>2, <2>3 DEF Interpreter!Execute, Interpreter!nil, nil
    <3> DEFINE op == Interpreter!OpAt(stream, pc)
    <3>2. op \in Operations
      BY <1>3, <3>1, ExecutedIsOperation
    <3>3. \/ Interpreter!AdjustCell(op) \/ Interpreter!MultiplyCell(op) \/ Interpreter!StoreCell(op)
          \/ Interpreter!MovePtr(op) \/ Interpreter!Read(op) \/ Interpreter!Write(op)
          \/ Interpreter!CutOff(op) \/ Interpreter!Jump(op) \/ Interpreter!FindCell(op)
          \/ Interpreter!Skip(op) \/ Interpreter!Trap(op)
      BY <2>3 DEF Interpreter!Execute
    <3> HIDE DEF op
    <3>4. HeapTyped' /\ status' # "idle"
      BY <1>2, <3>1, <3>2, <3>3, ExecuteKeepsHeap
    <3>5. stream' = stream /\ pc' \in Addresses(stream) \cup {nil}
      BY <1>2, <3>3, ExecuteKeepsPlace
    <3> QED
      BY <3>4, <3>5
  <2> QED
    BY <1>1, <2>1, <2>2, <2>3 DEF Interpreter!Interpret
<1>5. OP!Optimizing' /\ Optimizer!Finished'
  BY <1>1, <1>2, <1>4 DEF OP!Optimizing, OP!Kept, Optimizer!Finished, optimizerVars
<1> QED
  BY <1>1, <1>4, <1>5 DEF Whole, InOrder
-----------------------------------------------------------------------------
(* Every run *)

LEMMA NextKeepsWhole ==
  ASSUME Whole, [Next]_vars
  PROVE  Whole'
<1>1. CASE Parse
  BY <1>1, ParseKeeps
<1>2. CASE Optimize
  BY <1>2, OptimizeKeeps
<1>3. CASE Run
  BY <1>3, RunKeeps
<1>4. CASE UNCHANGED vars
  <2>1. UNCHANGED <<program, at, stack, parsed, stream>> /\ UNCHANGED <<iter, offset, stage>>
        /\ UNCHANGED interpreterVars
    BY <1>4 DEF vars, parserVars, optimizerVars
  <2>2. PP!Progress => PP!Progress'
    <3>1. UNCHANGED PP!vars
      BY <2>1 DEF PP!vars
    <3> QED
      BY <3>1, Assumed, PP!NextKeeps
  <2>3. OP!Optimizing => OP!Optimizing'
    BY <2>1 DEF OP!Optimizing, OP!Kept
  <2> QED
    BY <2>1, <2>2, <2>3 DEF Whole, InOrder, HeapTyped, Waiting, interpreterVars,
       Optimizer!Finished
<1> QED
  BY <1>1, <1>2, <1>3, <1>4 DEF Next

\* A run goes from parser to optimizer to interpreter, each of which finds
\* what it needs and leaves what the next one needs.
THEOREM RunInOrder == Spec => []Whole
<1>1. Init => Whole
  BY WholeAtStart
<1>2. Whole /\ [Next]_vars => Whole'
  BY NextKeepsWhole
<1> QED
  BY <1>1, <1>2, PTL DEF Spec

LEMMA WholeStream ==
  ASSUME Whole
  PROVE  /\ stream \in Seq(Operations) /\ Distinct(stream)
         /\ parsed = "ok" => Sound(stream)
<1>1. CASE parsed = "ok"
  BY <1>1, SameStreams DEF Whole, InOrder, OP!Optimizing, OP!Kept, Sound
<1>2. CASE parsed # "ok"
  BY <1>2, SameStreams, SameOperations DEF Whole, InOrder, PP!Progress, PP!Shape
<1> QED
  BY <1>1, <1>2

\* The stream is a stream, whoever works on it; all cells are bytes.
THEOREM RunTypeCorrect == Spec => []TypeOK
<1>1. Whole => TypeOK
  <2> SUFFICES ASSUME Whole PROVE TypeOK
    OBVIOUS
  <2>1. IsStream(stream)
    BY WholeStream, StreamTyped
  <2>2. offset \in Int /\ stage \in 0..9
    BY DEF Whole, InOrder, Waiting, OP!Optimizing
  <2> QED
    BY <2>1, <2>2 DEF TypeOK, Whole, HeapTyped
<1> QED
  BY <1>1, RunInOrder, PTL

\* However a program was optimized, every jump has its label and every label
\* its one jump, between any two steps of any pass.
THEOREM RunJumpsJoined == Spec => []JumpsJoined
<1>1. Whole => JumpsJoined
  BY WholeStream DEF JumpsJoined, Sound
<1> QED
  BY <1>1, RunInOrder, PTL

\* No pass leaves its iterator on an operation it has deleted, and neither is
\* the interpreter ever on one.
THEOREM RunIteratorsLive == Spec => []IteratorsLive
<1>1. Whole => IteratorsLive
  BY SameStreams DEF Whole, InOrder, Waiting, OP!Optimizing, OP!Kept, OP!nil, nil, IteratorsLive
<1> QED
  BY <1>1, RunInOrder, PTL

-----------------------------------------------------------------------------
(* Unoptimized, the stream spells the text: Brainfuck and ParserProofs have *)
(* the same notions of texts.                                               *)

LEMMA SameTexts ==
  /\ \A p : PP!CommandsOf(p) = CommandsOf(p)
  /\ \A p, i, j : Source!Match(p, i, j) <=> PP!Match(p, i, j)
<1>1. \A p : PP!CommandsOf(p) = CommandsOf(p)
  BY DEF PP!CommandsOf, CommandsOf, PP!HowMany, HowMany, PP!Cardinality, Cardinality,
         PP!CommandChars, CommandChars, PP!Brackets, Brackets
<1>2. \A p, i : Source!Depth(p, i) = PP!Depth(p, i)
  BY DEF Source!Depth, PP!Depth, Source!HowMany, PP!HowMany, Source!Cardinality, PP!Cardinality
<1>3. \A p, i, j : Source!Match(p, i, j) <=> PP!Match(p, i, j)
  BY <1>2 DEF Source!Match, PP!Match, Source!OpenFrom, PP!OpenFrom
<1> QED
  BY <1>1, <1>3

LEMMA SameJoins ==
  ASSUME NEW s, NEW q, NEW l
  PROVE  PP!Joined(s, q, l) <=> Joined(s, q, l)
BY DEF PP!Joined, Joined, PP!IsJump, IsJump, PP!JumpCodes, JumpCodes

Unoptimized ==
  level = 0 =>
    /\ stage = 0 \/ Optimizer!Finished
    /\ parsed = "ok" => PP!Spells(stream, Commands) /\ PP!Simple(stream)

LEMMA SpelledAtStart ==
  ASSUME Init
  PROVE  Unoptimized
BY DEF Init, Unoptimized, Parser!Idle, Optimizer!Idle

LEMMA NextKeepsSpelling ==
  ASSUME Whole, Unoptimized, [Next]_vars
  PROVE  Unoptimized'
<1> SUFFICES ASSUME level' = 0 PROVE Unoptimized'
  BY DEF Unoptimized
<1>1. level' = level
  BY DEF Next, Parse, Optimize, Run, vars, optimizerVars, Optimizer!Optimize, Optimizer!NextStage,
     Optimizer!Rewriting, Optimizer!DelayingMoves
<1>2. /\ stage = 0 \/ Optimizer!Finished
      /\ parsed = "ok" => PP!Spells(stream, Commands) /\ PP!Simple(stream)
  BY <1>1 DEF Unoptimized
<1>3. CASE Parse
  <2>1. /\ Parser!Next /\ UNCHANGED optimizerVars
    BY <1>3 DEF Parse
  <2>2. parsed = "parsing"
    BY <2>1 DEF Parser!Next, Parser!Command, Parser!OpenLoop, Parser!CloseLoop,
                Parser!CloseUnopened, Parser!Comment, Parser!Finish, Parser!Reading
  <2>3. ASSUME parsed' = "ok" PROVE PP!Spells(stream', Commands') /\ PP!Simple(stream')
    <3>1. PP!Finish /\ PP!Progress
      BY <2>1, <2>2, <2>3, SameParser DEF Whole, InOrder
    <3>2. PP!Spells(stream', PP!CommandsOf(program')) /\ PP!Simple(stream')
      BY <2>3, <3>1, Assumed, PP!FinishedSpells
    <3> QED
      BY <3>2, SameTexts DEF Commands
  <2> QED
    BY <1>2, <2>1, <2>3 DEF Unoptimized, optimizerVars, Optimizer!Finished
<1>4. CASE Optimize
  <2>1. Optimizer!Optimize /\ UNCHANGED parserVars
    BY <1>4 DEF Optimize
  <2>2. stage = 0
    BY <1>2, <2>1, SameOptimizer
  <2>3. Optimizer!NextStage
    BY <2>1, <2>2 DEF Optimizer!Optimize, Optimizer!Rewriting, Optimizer!DelayingMoves
  <2>4. stage' = Optimizer!Min({9})
    <3>1. {t \in 1..8 : Optimizer!pipeline[t] <= 0} = {}
      BY DEF Optimizer!pipeline
    <3>2. Len(Optimizer!pipeline) = 8
      BY DEF Optimizer!pipeline
    <3>3. {t \in (0 + 1)..Len(Optimizer!pipeline) : Optimizer!pipeline[t] <= level}
            \cup {Len(Optimizer!pipeline) + 1} = {9}
      BY <1>1, <3>1, <3>2
    <3> QED
      BY <2>2, <2>3, <3>3 DEF Optimizer!NextStage, Optimizer!StageAfter
  <2>5. stage' = 9
    BY <2>4 DEF Optimizer!Min
  <2>6. Optimizer!Finished'
    BY <2>5 DEF Optimizer!Finished, Optimizer!pipeline
  <2>7. UNCHANGED <<stream, program, parsed>>
    BY <2>1, <2>3 DEF Optimizer!NextStage, parserVars
  <2> QED
    BY <1>2, <2>6, <2>7 DEF Unoptimized, Commands
<1>5. CASE Run \/ UNCHANGED vars
  <2>1. UNCHANGED <<parserVars, optimizerVars, stream>>
    BY <1>5 DEF Run, vars, Interpreter!Interpret, Interpreter!Start, Interpreter!Halt,
       Interpreter!Execute, Interpreter!AdjustCell, Interpreter!MultiplyCell,
       Interpreter!StoreCell, Interpreter!MovePtr, Interpreter!Read, Interpreter!Write,
       Interpreter!CutOff, Interpreter!Jump, Interpreter!FindCell, Interpreter!Skip,
       Interpreter!Trap, Interpreter!Continue
  <2> QED
    BY <1>2, <2>1 DEF Unoptimized, Commands, parserVars, optimizerVars, Optimizer!Finished
<1> QED
  BY <1>3, <1>4, <1>5 DEF Next

-----------------------------------------------------------------------------
(* Where the interpreter stands in the text *)

\* SourceAt for a stream and the address of an operation of it.
CommandAt(s, a) ==
  1 + Cardinality({i \in DOMAIN s : s[i].code # "LABEL" /\ (a = nil \/ i < Position(s, a))})

LEMMA CommandAtPlace ==
  ASSUME NEW s \in Seq(Operations), Distinct(s), NEW q \in 1..(Len(s) + 1)
  PROVE  CommandAt(s, AddressAt(s, q)) = PP!Before(s, q) + 1 /\ PP!Before(s, q) \in Nat
<1> DEFINE a == AddressAt(s, q)
           behind == {i \in DOMAIN s : s[i].code # "LABEL" /\ (a = nil \/ i < Position(s, a))}
           before == {i \in DOMAIN s : s[i].code # "LABEL" /\ i < q}
<1>1. DOMAIN s = 1..Len(s) /\ Len(s) \in Nat
  OBVIOUS
<1>2. behind = before
  <2>1. CASE q = Len(s) + 1
    <3>1. a = nil
      BY <1>1, <2>1 DEF AddressAt
    <3>2. \A i \in DOMAIN s : i < q
      BY <1>1, <2>1
    <3> QED
      BY <3>1, <3>2
  <2>2. CASE q # Len(s) + 1
    <3>1. q \in DOMAIN s
      BY <1>1, <2>2
    <3>2. a = s[q].id /\ a # nil
      BY <1>1, <3>1, Elements DEF AddressAt
    <3>3. Position(s, a) = q
      BY <3>1, <3>2, PositionOfAddress
    <3> QED
      BY <3>2, <3>3
  <2> QED
    BY <2>1, <2>2
<1>3. CommandAt(s, a) = 1 + Cardinality(before)
  BY <1>2 DEF CommandAt
<1>4. PP!Before(s, q) = Cardinality(before)
  BY DEF PP!Before, PP!Cardinality, Cardinality
<1>5. Cardinality(before) \in Nat
  <2>1. IsFiniteSet(1..Len(s)) /\ before \subseteq 1..Len(s)
    BY <1>1, FS_Interval
  <2> QED
    BY <2>1, FS_Subset, FS_CardinalityType
<1> HIDE DEF before
<1> QED
  BY <1>3, <1>4, <1>5

\* One operation on, and the label counts for nothing.
LEMMA CommandAtNext ==
  ASSUME NEW s \in Seq(Operations), Distinct(s), NEW q \in DOMAIN s
  PROVE  /\ CommandAt(s, s[q].id) = PP!Before(s, q) + 1
         /\ CommandAt(s, AddressAt(s, q + 1))
              = CommandAt(s, s[q].id) + (IF s[q].code = "LABEL" THEN 0 ELSE 1)
         /\ PP!Before(s, q) \in Nat
<1>1. q \in 1..(Len(s) + 1) /\ q + 1 \in 1..(Len(s) + 1) /\ AddressAt(s, q) = s[q].id
  BY DEF AddressAt
<1>2. /\ CommandAt(s, s[q].id) = PP!Before(s, q) + 1 /\ PP!Before(s, q) \in Nat
      /\ CommandAt(s, AddressAt(s, q + 1)) = PP!Before(s, q + 1) + 1
  BY <1>1, CommandAtPlace
<1>3. PP!Before(s, q + 1) = PP!Before(s, q) + (IF s[q].code = "LABEL" THEN 0 ELSE 1)
  BY SameOperations, Assumed, PP!BeforeNext
<1> QED
  BY <1>2, <1>3

LEMMA InterpreterNext ==
  ASSUME NEW s \in Seq(Operations), Distinct(s), NEW q \in DOMAIN s
  PROVE  /\ Interpreter!Plus(s, s[q].id, 1) = AddressAt(s, q + 1)
         /\ Interpreter!OpAt(s, s[q].id) = s[q]
<1>1. Interpreter!Position(s, s[q].id) = q
  BY PositionOfAddress DEF Interpreter!Position, Position
<1>2. s[q].id # Interpreter!nil
  BY Elements DEF nil, Interpreter!nil
<1> QED
  BY <1>1, <1>2 DEF Interpreter!Plus, Interpreter!AddressAt, AddressAt, Interpreter!OpAt,
     nil, Interpreter!nil

-----------------------------------------------------------------------------
(* What a command does to a machine *)

\* A machine that has not stopped.
Running(k, c, d, i, o) ==
  [at |-> k, cells |-> c, dp |-> d, input |-> i, output |-> o, status |-> "running"]

\* What EXCEPT makes of m, a machine with these fields, when it goes on at l.
GoesOn(m, l, c, d, i, o) ==
  /\ [m EXCEPT !.at = l] = Running(l, c, d, i, o)
  /\ \A x : [m EXCEPT !.at = l, !.dp = x] = Running(l, c, x, i, o)
  /\ \A x : [m EXCEPT !.at = l, !.cells = x] = Running(l, x, d, i, o)
  /\ \A x, y : [m EXCEPT !.at = l, !.cells = x, !.input = y] = Running(l, x, d, y, o)
  /\ \A x : [m EXCEPT !.at = l, !.output = x] = Running(l, c, d, i, x)

LEMMA RunningGoesOn ==
  ASSUME NEW k, NEW c, NEW d, NEW i, NEW o, NEW m, m = Running(k, c, d, i, o), NEW l
  PROVE  GoesOn(m, l, c, d, i, o)
<1> SUFFICES ASSUME NEW x, NEW y
             PROVE  /\ [m EXCEPT !.at = l] = Running(l, c, d, i, o)
                    /\ [m EXCEPT !.at = l, !.dp = x] = Running(l, c, x, i, o)
                    /\ [m EXCEPT !.at = l, !.cells = x] = Running(l, x, d, i, o)
                    /\ [m EXCEPT !.at = l, !.cells = x, !.input = y] = Running(l, x, d, y, o)
                    /\ [m EXCEPT !.at = l, !.output = x] = Running(l, c, d, i, x)
  BY DEF GoesOn
<1> DEFINE n == Running(l, c, d, i, o)
<1>1. [m EXCEPT !.at = l] = n
  BY DEF Running
<1>2. /\ [n EXCEPT !.dp = x] = Running(l, c, x, i, o)
      /\ [n EXCEPT !.cells = x] = Running(l, x, d, i, o)
      /\ [n EXCEPT !.output = x] = Running(l, c, d, i, x)
  BY DEF Running
<1>3. [Running(l, x, d, i, o) EXCEPT !.input = y] = Running(l, x, d, y, o)
  BY DEF Running
<1> HIDE DEF n
<1>4. /\ [m EXCEPT !.at = l, !.dp = x] = [[m EXCEPT !.at = l] EXCEPT !.dp = x]
      /\ [m EXCEPT !.at = l, !.cells = x] = [[m EXCEPT !.at = l] EXCEPT !.cells = x]
      /\ [m EXCEPT !.at = l, !.cells = x, !.input = y]
           = [[[m EXCEPT !.at = l] EXCEPT !.cells = x] EXCEPT !.input = y]
      /\ [m EXCEPT !.at = l, !.output = x] = [[m EXCEPT !.at = l] EXCEPT !.output = x]
  OBVIOUS
<1>5. [m EXCEPT !.at = l] = Running(l, c, d, i, o)
  BY <1>1 DEF n
<1>6. /\ [m EXCEPT !.at = l, !.dp = x] = Running(l, c, x, i, o)
      /\ [m EXCEPT !.at = l, !.cells = x] = Running(l, x, d, i, o)
      /\ [m EXCEPT !.at = l, !.cells = x, !.input = y] = Running(l, x, d, y, o)
      /\ [m EXCEPT !.at = l, !.output = x] = Running(l, c, d, i, x)
  BY <1>1, <1>2, <1>3, <1>4
<1> QED
  BY <1>5, <1>6

\* Brainfuck!After, command by command.
LEMMA AfterMove ==
  ASSUME NEW p, NEW mode, NEW k, NEW c, NEW d, NEW i, NEW o, ~(k > Len(p)),
         NEW m, m = Running(k, c, d, i, o), NEW after, after = Source!After(p, mode, m)
  PROVE  /\ p[k] = ">" => after = Running(k + 1, c, d + 1, i, o)
         /\ p[k] = "<" => after = Running(k + 1, c, d - 1, i, o)
         /\ p[k] \notin {">", "<"} /\ d \notin DOMAIN c => after = [m EXCEPT !.status = "trapped"]
<1>1. m.at = k /\ m.cells = c /\ m.dp = d /\ m.input = i /\ m.output = o
  BY DEF Running
<1>2. /\ p[k] = ">" => after = [m EXCEPT !.at = k + 1, !.dp = d + 1]
      /\ p[k] = "<" => after = [m EXCEPT !.at = k + 1, !.dp = d - 1]
      /\ p[k] \notin {">", "<"} /\ d \notin DOMAIN c => after = [m EXCEPT !.status = "trapped"]
  BY <1>1 DEF Source!After
<1>3. GoesOn(m, k + 1, c, d, i, o)
  BY RunningGoesOn
<1>4. \A x : [m EXCEPT !.at = k + 1, !.dp = x] = Running(k + 1, c, x, i, o)
  BY <1>3 DEF GoesOn
<1> QED
  BY <1>2, <1>4, Zenon

Put(c, d, value) == [c EXCEPT ![d] = value % ByteSize]

LEMMA AfterAdjust ==
  ASSUME NEW p, NEW mode, NEW k, NEW c, NEW d, NEW i, NEW o, ~(k > Len(p)), d \in DOMAIN c,
         NEW m, m = Running(k, c, d, i, o), NEW after, after = Source!After(p, mode, m)
  PROVE  /\ p[k] = "+" => after = Running(k + 1, Put(c, d, c[d] + 1), d, i, o)
         /\ p[k] = "-" => after = Running(k + 1, Put(c, d, c[d] - 1), d, i, o)
<1>1. m.at = k /\ m.cells = c /\ m.dp = d /\ m.input = i /\ m.output = o
  BY DEF Running
<1>2. /\ p[k] = "+" => after = [m EXCEPT !.at = k + 1, !.cells = Put(c, d, c[d] + 1)]
      /\ p[k] = "-" => after = [m EXCEPT !.at = k + 1, !.cells = Put(c, d, c[d] - 1)]
  BY <1>1 DEF Source!After, Put
<1>3. GoesOn(m, k + 1, c, d, i, o)
  BY RunningGoesOn
<1>4. \A x : [m EXCEPT !.at = k + 1, !.cells = x] = Running(k + 1, x, d, i, o)
  BY <1>3 DEF GoesOn
<1> QED
  BY <1>2, <1>4, Zenon

\* After is what becomes of m when it reads.
HasRead(mode, k, c, d, i, o, after) ==
  /\ i = <<>> => after = Running(k + 1, Put(c, d, Source!AtEOF(mode, c[d])), d, i, o)
  /\ i # <<>> => after = Running(k + 1, Put(c, d, Head(i)), d, Tail(i), o)

LEMMA AfterRead ==
  ASSUME NEW p, NEW mode, NEW k, NEW c, NEW d, NEW i, NEW o, ~(k > Len(p)), d \in DOMAIN c,
         NEW m, m = Running(k, c, d, i, o), p[k] = ","
  PROVE  HasRead(mode, k, c, d, i, o, Source!After(p, mode, m))
<1> DEFINE after == Source!After(p, mode, m)
<1>1. m.at = k /\ m.cells = c /\ m.dp = d /\ m.input = i /\ m.output = o
  BY DEF Running
<1>2. /\ i = <<>> => after =
           [m EXCEPT !.at = k + 1, !.cells = Put(c, d, Source!AtEOF(mode, c[d]))]
      /\ i # <<>> => after =
           [m EXCEPT !.at = k + 1, !.cells = Put(c, d, Head(i)), !.input = Tail(i)]
  BY <1>1 DEF Source!After, Put
<1> HIDE DEF after
<1>3. GoesOn(m, k + 1, c, d, i, o)
  BY RunningGoesOn
<1>4. /\ \A x : [m EXCEPT !.at = k + 1, !.cells = x] = Running(k + 1, x, d, i, o)
      /\ \A x, y : [m EXCEPT !.at = k + 1, !.cells = x, !.input = y] = Running(k + 1, x, d, y, o)
  BY <1>3 DEF GoesOn
<1>5. ASSUME i = <<>>
      PROVE  after = Running(k + 1, Put(c, d, Source!AtEOF(mode, c[d])), d, i, o)
  BY <1>2, <1>4, <1>5, Zenon
<1>6. ASSUME i # <<>>
      PROVE  after = Running(k + 1, Put(c, d, Head(i)), d, Tail(i), o)
  <2>1. after = [m EXCEPT !.at = k + 1, !.cells = Put(c, d, Head(i)),
                          !.input = Tail(i)]
    BY <1>2, <1>6
  <2> QED
    BY <1>4, <1>6, <2>1, Zenon
<1> QED
  BY <1>5, <1>6 DEF HasRead, after

LEMMA AfterWrite ==
  ASSUME NEW p, NEW mode, NEW k, NEW c, NEW d, NEW i, NEW o, ~(k > Len(p)), d \in DOMAIN c,
         NEW m, m = Running(k, c, d, i, o), NEW after, after = Source!After(p, mode, m), p[k] = "."
  PROVE  /\ Len(o) = MaxOutput => after = [m EXCEPT !.status = "cut"]
         /\ Len(o) # MaxOutput => after = Running(k + 1, c, d, i, Append(o, c[d]))
<1>1. m.at = k /\ m.cells = c /\ m.dp = d /\ m.input = i /\ m.output = o
  BY DEF Running
<1>2. /\ Len(o) = MaxOutput => after = [m EXCEPT !.status = "cut"]
      /\ Len(o) # MaxOutput => after = [m EXCEPT !.at = k + 1, !.output = Append(o, c[d])]
  BY <1>1 DEF Source!After
<1>3. GoesOn(m, k + 1, c, d, i, o)
  BY RunningGoesOn
<1>4. \A x : [m EXCEPT !.at = k + 1, !.output = x] = Running(k + 1, c, d, i, x)
  BY <1>3 DEF GoesOn
<1> QED
  BY <1>2, <1>4, Zenon

LEMMA AfterBracket ==
  ASSUME NEW p, NEW mode, NEW k, NEW c, NEW d, NEW i, NEW o, ~(k > Len(p)), d \in DOMAIN c,
         NEW m, m = Running(k, c, d, i, o), NEW after, after = Source!After(p, mode, m),
         NEW beyond, beyond = Source!Partner(p, k) + 1
  PROVE  /\ p[k] = "[" => after = Running(IF c[d] = 0 THEN beyond ELSE k + 1, c, d, i, o)
         /\ p[k] = "]" => after = Running(IF c[d] # 0 THEN beyond ELSE k + 1, c, d, i, o)
<1>1. m.at = k /\ m.cells = c /\ m.dp = d /\ m.input = i /\ m.output = o
  BY DEF Running
<1>2. /\ p[k] = "[" => after = [m EXCEPT !.at = IF c[d] = 0 THEN beyond ELSE k + 1]
      /\ p[k] = "]" => after = [m EXCEPT !.at = IF c[d] # 0 THEN beyond ELSE k + 1]
  BY <1>1 DEF Source!After
<1>3. ASSUME NEW l PROVE [m EXCEPT !.at = l] = Running(l, c, d, i, o)
  <2>1. GoesOn(m, l, c, d, i, o)
    BY RunningGoesOn
  <2> QED
    BY <2>1 DEF GoesOn
<1> QED
  BY <1>2, <1>3, Zenon

LEMMA AfterEnd ==
  ASSUME NEW p, NEW mode, NEW m, m.at > Len(p)
  PROVE  Source!After(p, mode, m) = [m EXCEPT !.status = "halted"]
BY DEF Source!After

-----------------------------------------------------------------------------
(* Each operation does what its command does *)

\* A command and the code of its operation.
Pairs == {<<"+", "INCR_CELL">>, <<"-", "DECR_CELL">>, <<">", "INCR_PTR">>, <<"<", "DECR_PTR">>,
          <<",", "READ">>, <<".", "WRITE">>, <<"[", "JZ">>, <<"]", "JNZ">>}

LEMMA CodesOfCommands ==
  ASSUME NEW c \in PP!CommandChars
  PROVE  <<c, PP!CodeFor(c)>> \in Pairs
BY DEF PP!CommandChars, PP!Brackets, PP!CodeFor, PP!Translated, Pairs

\* The interpreter runs and is at op, the operation of the command k.
AtCommand(op, k) ==
  /\ status = "running" /\ HeapTyped
  /\ op \in Operations /\ PP!ByOne(op)
  /\ k \in 1..Len(Commands) /\ <<Commands[k], op.code>> \in Pairs
  /\ machine = Running(k, cells, dp, input, output)

\* It goes on with the next command.
Continued(k) == machine' = Running(k + 1, cells', dp', input', output')


LEMMA AtCommandTyped ==
  ASSUME NEW op, NEW k, AtCommand(op, k)
  PROVE  /\ op.op1 \in Int /\ op.op2 \in Int /\ dp \in Int /\ dp + 0 = dp
         /\ ~(k > Len(Commands)) /\ machine = Running(k, cells, dp, input, output)
         /\ dp \in DOMAIN cells => cells[dp] \in Int
<1>1. op.op1 \in Int /\ op.op2 \in Int
  BY DEF AtCommand, Operations
<1>2. dp \in Int /\ cells \in [0..(HeapSize - 1) -> 0..(ByteSize - 1)]
  BY DEF AtCommand, HeapTyped
<1>3. ~(k > Len(Commands)) /\ machine = Running(k, cells, dp, input, output)
  BY DEF AtCommand
<1>4. dp \in DOMAIN cells => cells[dp] \in Int
  BY <1>2, ByteSizeAssumption
<1> QED
  BY <1>1, <1>2, <1>3, <1>4

LEMMA AdjustsAsCommand ==
  ASSUME NEW op, NEW k, AtCommand(op, k), Interpreter!AdjustCell(op), Continued(k)
  PROVE  machine' = Source!After(Commands, eof, machine)
<1>0. ~(k > Len(Commands)) /\ machine = Running(k, cells, dp, input, output)
  BY AtCommandTyped
<1>1. op.code \in {"INCR_CELL", "DECR_CELL"}
  BY DEF Interpreter!AdjustCell, Interpreter!Executing, Interpreter!CellCodes
<1>2. op.op1 = 1 /\ op.op2 = 0
  BY <1>1 DEF AtCommand, PP!ByOne, PP!CellCodes, PP!PtrCodes, PP!JumpCodes
<1>3. dp \in DOMAIN cells
  <2>1. dp + op.op2 \in DOMAIN cells
    BY TouchedCells DEF Interpreter!AdjustCell, Interpreter!Executing, Interpreter!OnHeap
  <2> QED
    BY <1>2, <2>1, AtCommandTyped
<1>4. cells' = Put(cells, dp, cells[dp] + Interpreter!Signed(op, 1))
      /\ dp' = dp /\ input' = input /\ output' = output
  BY <1>2, AtCommandTyped DEF Interpreter!AdjustCell, Interpreter!SetCell, Interpreter!GetCell,
     Interpreter!world, Put
<1>5. CASE op.code = "INCR_CELL"
  <2>1. Commands[k] = "+" /\ Interpreter!Signed(op, 1) = 1
    BY <1>5 DEF AtCommand, Pairs, Interpreter!Signed, Interpreter!Down
  <2>2. Source!After(Commands, eof, machine)
          = Running(k + 1, Put(cells, dp, cells[dp] + 1), dp, input, output)
    BY <1>0, <1>3, <2>1, AfterAdjust
  <2> QED
    BY <1>4, <2>1, <2>2 DEF Continued
<1>6. CASE op.code = "DECR_CELL"
  <2>1. Commands[k] = "-" /\ Interpreter!Signed(op, 1) = -1
    BY <1>6 DEF AtCommand, Pairs, Interpreter!Signed, Interpreter!Down
  <2>2. Source!After(Commands, eof, machine)
          = Running(k + 1, Put(cells, dp, cells[dp] - 1), dp, input, output)
    BY <1>0, <1>3, <2>1, AfterAdjust
  <2>3. cells[dp] + (-1) = cells[dp] - 1
    BY <1>3, AtCommandTyped
  <2> QED
    BY <1>4, <2>1, <2>2, <2>3 DEF Continued
<1> QED
  BY <1>1, <1>5, <1>6

LEMMA MovesAsCommand ==
  ASSUME NEW op, NEW k, AtCommand(op, k), Interpreter!MovePtr(op), Continued(k)
  PROVE  machine' = Source!After(Commands, eof, machine)
<1>0. ~(k > Len(Commands)) /\ machine = Running(k, cells, dp, input, output)
  BY AtCommandTyped
<1>1. op.code \in {"INCR_PTR", "DECR_PTR"}
  BY DEF Interpreter!MovePtr, Interpreter!Executing, Interpreter!PtrCodes
<1>2. op.op1 = 1
  BY <1>1 DEF AtCommand, PP!ByOne, PP!CellCodes, PP!PtrCodes, PP!JumpCodes
<1>3. dp' = dp + Interpreter!Signed(op, 1) /\ cells' = cells /\ input' = input /\ output' = output
  BY <1>2 DEF Interpreter!MovePtr, Interpreter!world
<1>4. CASE op.code = "INCR_PTR"
  <2>1. Commands[k] = ">" /\ Interpreter!Signed(op, 1) = 1
    BY <1>4 DEF AtCommand, Pairs, Interpreter!Signed, Interpreter!Down
  <2>2. Source!After(Commands, eof, machine) = Running(k + 1, cells, dp + 1, input, output)
    BY <1>0, <2>1, AfterMove
  <2> QED
    BY <1>3, <2>1, <2>2 DEF Continued
<1>5. CASE op.code = "DECR_PTR"
  <2>1. Commands[k] = "<" /\ Interpreter!Signed(op, 1) = -1
    BY <1>5 DEF AtCommand, Pairs, Interpreter!Signed, Interpreter!Down
  <2>2. Source!After(Commands, eof, machine) = Running(k + 1, cells, dp - 1, input, output)
    BY <1>0, <2>1, AfterMove
  <2>3. dp + (-1) = dp - 1
    BY AtCommandTyped
  <2> QED
    BY <1>3, <2>1, <2>2, <2>3 DEF Continued
<1> QED
  BY <1>1, <1>4, <1>5

\* Not in the mode "keep", where the interpreter does not do what README.md says.
LEMMA ReadsAsCommand ==
  ASSUME NEW op, NEW k, AtCommand(op, k), Interpreter!Read(op), Continued(k), eof # "keep"
  PROVE  machine' = Source!After(Commands, eof, machine)
<1>0. ~(k > Len(Commands)) /\ machine = Running(k, cells, dp, input, output)
  BY AtCommandTyped
<1>1. op.code = "READ"
  BY DEF Interpreter!Read, Interpreter!Executing
<1>2. op.op2 = 0 /\ Commands[k] = ","
  BY <1>1 DEF AtCommand, Pairs, PP!ByOne, PP!JumpCodes
<1>3. dp \in DOMAIN cells
  <2>1. dp + op.op2 \in DOMAIN cells
    BY <1>1, TouchedCells DEF Interpreter!Read, Interpreter!Executing, Interpreter!OnHeap
  <2> QED
    BY <1>2, <2>1, AtCommandTyped
<1>4. /\ cells' = Put(cells, dp, Interpreter!ByteRead(eof, 0))
      /\ input' = Interpreter!InputRead /\ dp' = dp /\ output' = output
  BY <1>2, AtCommandTyped DEF Interpreter!Read, Interpreter!SetCell, Put
<1> DEFINE after == Source!After(Commands, eof, machine)
<1>5. HasRead(eof, k, cells, dp, input, output, after)
  BY <1>0, <1>2, <1>3, AfterRead
<1>6. CASE input = <<>>
  <2>1. Interpreter!ByteRead(eof, 0) = Source!AtEOF(eof, cells[dp])
    BY <1>6 DEF Interpreter!ByteRead, Source!AtEOF, AtCommand, HeapTyped, EOFModes
  <2>2. Source!After(Commands, eof, machine)
          = Running(k + 1, Put(cells, dp, Source!AtEOF(eof, cells[dp])), dp, input, output)
    BY <1>5, <1>6 DEF HasRead
  <2>3. input' = input
    BY <1>4, <1>6 DEF Interpreter!InputRead
  <2> QED
    BY <1>4, <2>1, <2>2, <2>3 DEF Continued
<1>7. CASE input # <<>>
  <2>1. Interpreter!ByteRead(eof, 0) = Head(input) /\ input' = Tail(input)
    BY <1>4, <1>7 DEF Interpreter!ByteRead, Interpreter!InputRead
  <2>2. Source!After(Commands, eof, machine)
          = Running(k + 1, Put(cells, dp, Head(input)), dp, Tail(input), output)
    BY <1>5, <1>7 DEF HasRead
  <2> QED
    BY <1>4, <2>1, <2>2 DEF Continued
<1> QED
  BY <1>6, <1>7

LEMMA WritesAsCommand ==
  ASSUME NEW op, NEW k, AtCommand(op, k), Interpreter!Write(op), Continued(k)
  PROVE  machine' = Source!After(Commands, eof, machine)
<1>0. ~(k > Len(Commands)) /\ machine = Running(k, cells, dp, input, output)
  BY AtCommandTyped
<1>1. op.code = "WRITE"
  BY DEF Interpreter!Write, Interpreter!Executing
<1>2. op.op2 = 0 /\ Commands[k] = "."
  BY <1>1 DEF AtCommand, Pairs, PP!ByOne, PP!JumpCodes
<1>3. dp \in DOMAIN cells
  <2>1. dp + op.op2 \in DOMAIN cells
    BY <1>1, TouchedCells DEF Interpreter!Write, Interpreter!Executing, Interpreter!OnHeap
  <2> QED
    BY <1>2, <2>1, AtCommandTyped
<1>4. /\ output' = Append(output, cells[dp])
      /\ cells' = cells /\ input' = input /\ dp' = dp
  BY <1>2, AtCommandTyped DEF Interpreter!Write, Interpreter!GetCell, Interpreter!heap
<1>5. Len(output) # MaxOutput
  BY HeapAssumption DEF Interpreter!Write
<1>6. Source!After(Commands, eof, machine)
        = Running(k + 1, cells, dp, input, Append(output, cells[dp]))
  BY <1>0, <1>2, <1>3, <1>5, AfterWrite
<1> QED
  BY <1>4, <1>6 DEF Continued

\* The machine stops without having moved.
Stopped(k, how) == machine' = [Running(k, cells, dp, input, output) EXCEPT !.status = how]

LEMMA CutAsCommand ==
  ASSUME NEW op, NEW k, AtCommand(op, k), Interpreter!CutOff(op), Stopped(k, "cut")
  PROVE  machine' = Source!After(Commands, eof, machine)
<1>0. ~(k > Len(Commands)) /\ machine = Running(k, cells, dp, input, output)
  BY AtCommandTyped
<1>1. op.code = "WRITE" /\ Len(output) = MaxOutput
  BY DEF Interpreter!CutOff, Interpreter!Executing
<1>2. op.op2 = 0 /\ Commands[k] = "."
  BY <1>1 DEF AtCommand, Pairs, PP!ByOne, PP!JumpCodes
<1>3. dp \in DOMAIN cells
  <2>1. dp + op.op2 \in DOMAIN cells
    BY <1>1, TouchedCells DEF Interpreter!CutOff, Interpreter!Executing, Interpreter!OnHeap
  <2> QED
    BY <1>2, <2>1, AtCommandTyped
<1>4. Source!After(Commands, eof, machine) = [machine EXCEPT !.status = "cut"]
  BY <1>0, <1>1, <1>2, <1>3, AfterWrite
<1> QED
  BY <1>0, <1>4 DEF Stopped

\* The only cell a command touches is the current one.
LEMMA TrapsAsCommand ==
  ASSUME NEW op, NEW k, AtCommand(op, k), Interpreter!Trap(op), Stopped(k, "trapped")
  PROVE  machine' = Source!After(Commands, eof, machine)
<1>0. ~(k > Len(Commands)) /\ machine = Running(k, cells, dp, input, output)
  BY AtCommandTyped
<1>1. PICK off \in Interpreter!Touched(op) : dp + off \notin DOMAIN cells
  BY DEF Interpreter!Trap, Interpreter!OnHeap
<1>2. op.code \in JumpCodes \/ op.op2 = 0
  BY DEF AtCommand, Pairs, PP!ByOne, PP!JumpCodes, JumpCodes
<1>3. off = 0 /\ Commands[k] \notin {">", "<"}
  BY <1>1, <1>2 DEF AtCommand, Pairs, Interpreter!Touched, Interpreter!CellCodes, Interpreter!IOCodes,
     Interpreter!MulCodes, Interpreter!JumpCodes, Interpreter!FindCodes, JumpCodes
<1>4. dp \notin DOMAIN cells
  BY <1>1, <1>3, AtCommandTyped
<1>5. Source!After(Commands, eof, machine) = [machine EXCEPT !.status = "trapped"]
  BY <1>0, <1>3, <1>4, AfterMove
<1> QED
  BY <1>0, <1>5 DEF Stopped

\* The label of a jump stands behind the partner of its bracket.
LEMMA JumpsAsCommand ==
  ASSUME NEW op, NEW k, AtCommand(op, k), Interpreter!Jump(op),
         machine' = Running(IF Interpreter!Taken(op) THEN Source!Partner(Commands, k) + 1 ELSE k + 1,
                            cells', dp', input', output')
  PROVE  machine' = Source!After(Commands, eof, machine)
<1>0. ~(k > Len(Commands)) /\ machine = Running(k, cells, dp, input, output)
  BY AtCommandTyped
<1>1. op.code \in {"JZ", "JNZ"}
  BY DEF Interpreter!Jump, Interpreter!Executing, Interpreter!JumpCodes
<1>2. dp \in DOMAIN cells
  <2>1. dp + 0 \in DOMAIN cells
    BY <1>1, TouchedCells DEF Interpreter!Jump, Interpreter!Executing, Interpreter!OnHeap
  <2> QED
    BY <2>1, AtCommandTyped
<1>3. Interpreter!GetCell(0) = cells[dp]
  BY AtCommandTyped DEF Interpreter!GetCell
<1>4. cells' = cells /\ dp' = dp /\ input' = input /\ output' = output
  BY DEF Interpreter!Jump, Interpreter!heap, Interpreter!world
<1> DEFINE beyond == Source!Partner(Commands, k) + 1
<1>5. CASE op.code = "JZ"
  <2>1. Commands[k] = "[" /\ (Interpreter!Taken(op) <=> cells[dp] = 0)
    BY <1>3, <1>5 DEF AtCommand, Pairs, Interpreter!Taken
  <2>2. Source!After(Commands, eof, machine)
          = Running(IF cells[dp] = 0 THEN beyond ELSE k + 1, cells, dp, input, output)
    BY <1>0, <1>2, <2>1, AfterBracket
  <2> QED
    BY <1>4, <2>1, <2>2
<1>6. CASE op.code = "JNZ"
  <2>1. Commands[k] = "]" /\ (Interpreter!Taken(op) <=> cells[dp] # 0)
    BY <1>3, <1>6 DEF AtCommand, Pairs, Interpreter!Taken
  <2>2. Source!After(Commands, eof, machine)
          = Running(IF cells[dp] # 0 THEN beyond ELSE k + 1, cells, dp, input, output)
    BY <1>0, <1>2, <2>1, AfterBracket
  <2> QED
    BY <1>4, <2>1, <2>2
<1> QED
  BY <1>1, <1>5, <1>6

-----------------------------------------------------------------------------
(* Unoptimized, each step is a step of the text or none *)

LEMMA MachineRuns ==
  /\ status = "running" => machine = Running(CommandAt(stream, pc), cells, dp, input, output)
  /\ status' = "running" =>
       machine' = Running(CommandAt(stream', pc'), cells', dp', input', output')
BY DEF machine, SourceAt, CommandAt, Running

LEMMA MachineIdle ==
  /\ status = "idle" => machine = Running(1, cells, dp, input, output)
  /\ status' = "idle" => machine' = Running(1, cells', dp', input', output')
BY DEF machine, Running

LEMMA MachineStops ==
  ASSUME NEW k, machine = Running(k, cells, dp, input, output), status = "running",
         status' \in {"cut", "trapped", "stray", "halted"},
         UNCHANGED <<stream, pc, cells, dp, input, output>>
  PROVE  Stopped(k, IF status' = "stray" THEN "trapped" ELSE status')
<1>1. CommandAt(stream, pc) = k
  <2>1. Running(CommandAt(stream, pc), cells, dp, input, output).at = Running(k, cells, dp, input, output).at
    BY MachineRuns
  <2> QED
    BY <2>1 DEF Running
<1>2. SourceAt' = k
  BY <1>1 DEF SourceAt, CommandAt
<1> QED
  BY <1>2 DEF machine, Stopped, Running

LEMMA StartsAtFirst ==
  ASSUME NEW s \in Seq(Operations), Distinct(s)
  PROVE  CommandAt(s, Interpreter!Begin(s)) = 1
<1>1. Interpreter!Begin(s) = AddressAt(s, 1) /\ 1 \in 1..(Len(s) + 1)
  BY DEF Interpreter!Begin, Interpreter!AddressAt, AddressAt, Interpreter!nil, nil
<1>2. PP!Before(s, 1) = 0
  <2>1. {r \in DOMAIN s : s[r].code # "LABEL" /\ r < 1} = {}
    OBVIOUS
  <2> QED
    BY <2>1, FS_EmptySet DEF PP!Before, PP!Cardinality, Cardinality
<1>3. CommandAt(s, AddressAt(s, 1)) = PP!Before(s, 1) + 1
  BY <1>1, CommandAtPlace
<1> QED
  BY <1>1, <1>2, <1>3

\* What is executed at level 0.
AsParsed ==
  /\ stream \in Seq(Operations) /\ Distinct(stream) /\ WellJoined(stream)
  /\ PP!Spells(stream, Commands) /\ PP!Simple(stream)

LEMMA ExecutedAsParsed ==
  ASSUME Whole, Unoptimized, level = 0, parsed = "ok"
  PROVE  AsParsed
BY WholeStream DEF AsParsed, Unoptimized, Sound

LEMMA LabelSkipped ==
  ASSUME AsParsed, NEW q \in DOMAIN stream, pc = stream[q].id, stream[q].code = "LABEL",
         Interpreter!Execute
  PROVE  UNCHANGED machine
<1> DEFINE op == Interpreter!OpAt(stream, pc)
<1>1. op = stream[q] /\ Interpreter!Plus(stream, pc, 1) = AddressAt(stream, q + 1)
  BY InterpreterNext DEF AsParsed
<1>2. op.code = "LABEL"
  BY <1>1
<1> HIDE DEF op
<1>3. Interpreter!OnHeap(op)
  BY <1>2 DEF Interpreter!OnHeap, Interpreter!Touched, Interpreter!CellCodes, Interpreter!IOCodes,
     Interpreter!MulCodes, Interpreter!JumpCodes, Interpreter!FindCodes
<1>4. Interpreter!Skip(op) /\ status = "running"
  <2>1. \/ Interpreter!AdjustCell(op) \/ Interpreter!MultiplyCell(op) \/ Interpreter!StoreCell(op)
        \/ Interpreter!MovePtr(op) \/ Interpreter!Read(op) \/ Interpreter!Write(op)
        \/ Interpreter!CutOff(op) \/ Interpreter!Jump(op) \/ Interpreter!FindCell(op)
        \/ Interpreter!Skip(op) \/ Interpreter!Trap(op)
    BY DEF Interpreter!Execute, op
  <2> QED
    BY <1>2, <1>3, <2>1 DEF Interpreter!Execute, Interpreter!AdjustCell, Interpreter!MultiplyCell,
       Interpreter!StoreCell, Interpreter!MovePtr, Interpreter!Read, Interpreter!Write,
       Interpreter!CutOff, Interpreter!Jump, Interpreter!FindCell, Interpreter!Trap,
       Interpreter!Executing, Interpreter!CellCodes, Interpreter!PtrCodes, Interpreter!MulCodes,
       Interpreter!JumpCodes, Interpreter!FindCodes
<1>5. /\ pc' = AddressAt(stream, q + 1) /\ stream' = stream /\ status' = "running"
      /\ UNCHANGED <<cells, dp, input, output>>
  BY <1>1, <1>4 DEF Interpreter!Skip, Interpreter!Continue, Interpreter!heap, Interpreter!world
<1>6. CommandAt(stream, AddressAt(stream, q + 1)) = CommandAt(stream, pc)
  <2>1. /\ CommandAt(stream, pc) = PP!Before(stream, q) + 1 /\ PP!Before(stream, q) \in Nat
        /\ CommandAt(stream, AddressAt(stream, q + 1)) = CommandAt(stream, pc) + 0
    BY CommandAtNext DEF AsParsed
  <2> QED
    BY <2>1
<1> QED
  BY <1>4, <1>5, <1>6, MachineRuns

\* A jump that is taken goes on behind the partner of its bracket.
LEMMA JumpGoesToPartner ==
  ASSUME AsParsed, NEW q \in DOMAIN stream, IsJump(stream[q])
  PROVE  CommandAt(stream, Interpreter!Plus(stream, stream[q].op1, 1))
           = Source!Partner(Commands, PP!Before(stream, q) + 1) + 1
<1>1. PICK l \in DOMAIN stream : Joined(stream, q, l)
  BY DEF AsParsed, WellJoined
<1>2. stream[q].op1 = stream[l].id /\ stream[l].code = "LABEL"
  BY <1>1 DEF Joined
<1> DEFINE k == PP!Before(stream, q) + 1
           j == PP!Before(stream, l)
<1>3. j \in 1..Len(Commands) /\ (PP!Match(Commands, k, j) \/ PP!Match(Commands, j, k))
  BY <1>1, SameJoins DEF AsParsed, PP!Spells, PP!LeadsTo
<1>4. k \in 1..Len(Commands) /\ Commands \in Seq(STRING) /\ Len(Commands) \in Nat
      /\ DOMAIN Commands = 1..Len(Commands)
  <2>1. stream[q].code # "LABEL"
    BY DEF IsJump, JumpCodes
  <2>2. Commands \in Seq(STRING)
    BY DEF AsParsed, PP!Spells
  <2>3. k \in 1..Len(Commands)
    BY <2>1 DEF AsParsed, PP!Spells, PP!Does
  <2> QED
    BY <2>2, <2>3
<1>5. CommandAt(stream, Interpreter!Plus(stream, stream[q].op1, 1)) = j + 1
  <2>1. Interpreter!Plus(stream, stream[l].id, 1) = AddressAt(stream, l + 1)
    BY InterpreterNext DEF AsParsed
  <2>2. /\ CommandAt(stream, stream[l].id) = j + 1 /\ j \in Nat
        /\ CommandAt(stream, AddressAt(stream, l + 1)) = CommandAt(stream, stream[l].id) + 0
    BY <1>2, CommandAtNext DEF AsParsed
  <2> QED
    BY <1>2, <2>1, <2>2
<1> HIDE DEF k, j
<1>6. Source!Partner(Commands, k) = j
  <2>1. Source!Match(Commands, k, j) \/ Source!Match(Commands, j, k)
    BY <1>3, SameTexts
  <2>2. \A x \in 1..Len(Commands) :
          PP!Match(Commands, k, x) \/ PP!Match(Commands, x, k) => x = j
    BY <1>3, <1>4, PP!PartnerOnce, Assumed
  <2>3. \A x \in DOMAIN Commands :
          Source!Match(Commands, k, x) \/ Source!Match(Commands, x, k) <=> x = j
    BY <1>3, <1>4, <2>1, <2>2, SameTexts
  <2> QED
    BY <1>3, <1>4, <2>3 DEF Source!Partner
<1> QED
  BY <1>5, <1>6 DEF k

LEMMA OperationAtCommand ==
  ASSUME AsParsed, HeapTyped, status = "running",
         NEW q \in DOMAIN stream, pc = stream[q].id, stream[q].code # "LABEL"
  PROVE  /\ AtCommand(stream[q], PP!Before(stream, q) + 1)
         /\ CommandAt(stream, AddressAt(stream, q + 1)) = (PP!Before(stream, q) + 1) + 1
<1> DEFINE k == PP!Before(stream, q) + 1
<1>1. /\ CommandAt(stream, pc) = k /\ PP!Before(stream, q) \in Nat
      /\ CommandAt(stream, AddressAt(stream, q + 1)) = CommandAt(stream, pc) + 1
  BY CommandAtNext DEF AsParsed
<1>2. /\ k \in 1..Len(Commands) /\ Commands[k] \in PP!CommandChars
      /\ stream[q].code = PP!CodeFor(Commands[k])
  BY DEF AsParsed, PP!Spells, PP!Does
<1>3. stream[q] \in Operations /\ PP!ByOne(stream[q])
  BY DEF AsParsed, PP!Simple
<1> HIDE DEF k
<1>4. <<Commands[k], stream[q].code>> \in Pairs
  BY <1>2, CodesOfCommands
<1>5. machine = Running(k, cells, dp, input, output)
  BY <1>1, MachineRuns
<1>6. AtCommand(stream[q], k)
  BY <1>2, <1>3, <1>4, <1>5 DEF AtCommand
<1> QED
  BY <1>1, <1>6 DEF k

LEMMA ExecutesAsCommand ==
  ASSUME AsParsed, HeapTyped, eof # "keep", Interpreter!Execute,
         NEW q \in DOMAIN stream, pc = stream[q].id, stream[q].code # "LABEL"
  PROVE  machine' = Source!After(Commands, eof, machine)
<1> DEFINE op == stream[q]
           k == PP!Before(stream, q) + 1
<1>1. Interpreter!OpAt(stream, pc) = op /\ Interpreter!Plus(stream, pc, 1) = AddressAt(stream, q + 1)
  BY InterpreterNext DEF AsParsed
<1>2. status = "running"
      /\ \/ Interpreter!AdjustCell(op) \/ Interpreter!MultiplyCell(op) \/ Interpreter!StoreCell(op)
         \/ Interpreter!MovePtr(op) \/ Interpreter!Read(op) \/ Interpreter!Write(op)
         \/ Interpreter!CutOff(op) \/ Interpreter!Jump(op) \/ Interpreter!FindCell(op)
         \/ Interpreter!Skip(op) \/ Interpreter!Trap(op)
  BY <1>1 DEF Interpreter!Execute
<1>3. AtCommand(op, k) /\ CommandAt(stream, Interpreter!Plus(stream, pc, 1)) = k + 1
  BY <1>1, <1>2, OperationAtCommand
<1>4. IsJump(op) => CommandAt(stream, Interpreter!Plus(stream, op.op1, 1)) = Source!Partner(Commands, k) + 1
  BY JumpGoesToPartner
<1> HIDE DEF op, k
<1>5. machine = Running(k, cells, dp, input, output)
  BY <1>3 DEF AtCommand
<1>6. Interpreter!Continue => Continued(k)
  BY <1>2, <1>3, MachineRuns DEF Interpreter!Continue, Continued
<1>7. CASE Interpreter!AdjustCell(op)
  BY <1>3, <1>6, <1>7, AdjustsAsCommand DEF Interpreter!AdjustCell
<1>8. CASE Interpreter!MovePtr(op)
  BY <1>3, <1>6, <1>8, MovesAsCommand DEF Interpreter!MovePtr
<1>9. CASE Interpreter!Read(op)
  BY <1>3, <1>6, <1>9, ReadsAsCommand DEF Interpreter!Read
<1>10. CASE Interpreter!Write(op)
  BY <1>3, <1>6, <1>10, WritesAsCommand DEF Interpreter!Write
<1>11. CASE Interpreter!CutOff(op)
  <2>1. status' = "cut" /\ UNCHANGED <<stream, pc, cells, dp, input, output>>
    BY <1>11 DEF Interpreter!CutOff, Interpreter!heap, Interpreter!world
  <2>2. Stopped(k, "cut")
    BY <1>2, <1>5, <2>1, MachineStops
  <2> QED
    BY <1>3, <1>11, <2>2, CutAsCommand
<1>12. CASE Interpreter!Trap(op)
  <2>1. status' \in {"trapped", "stray"} /\ UNCHANGED <<stream, pc, cells, dp, input, output>>
    BY <1>12 DEF Interpreter!Trap, Interpreter!Outcomes, Interpreter!heap, Interpreter!world
  <2>2. Stopped(k, "trapped")
    BY <1>2, <1>5, <2>1, MachineStops
  <2> QED
    BY <1>3, <1>12, <2>2, TrapsAsCommand
<1>13. CASE Interpreter!Jump(op)
  <2>1. op.code \in {"JZ", "JNZ"}
    BY <1>13 DEF Interpreter!Jump, Interpreter!Executing, Interpreter!JumpCodes
  <2>2. CommandAt(stream, Interpreter!Plus(stream, op.op1, 1)) = Source!Partner(Commands, k) + 1
    BY <1>4, <2>1 DEF IsJump, JumpCodes
  <2>3. /\ pc' = Interpreter!Plus(stream, IF Interpreter!Taken(op) THEN op.op1 ELSE pc, 1)
        /\ stream' = stream /\ status' = "running"
    BY <1>2, <1>13 DEF Interpreter!Jump
  <2>4. CommandAt(stream', pc')
          = IF Interpreter!Taken(op) THEN Source!Partner(Commands, k) + 1 ELSE k + 1
    BY <1>3, <2>2, <2>3
  <2>5. machine' = Running(IF Interpreter!Taken(op) THEN Source!Partner(Commands, k) + 1 ELSE k + 1,
                           cells', dp', input', output')
    BY <2>3, <2>4, MachineRuns
  <2> QED
    BY <1>3, <1>13, <2>5, JumpsAsCommand
<1>14. CASE \/ Interpreter!MultiplyCell(op) \/ Interpreter!StoreCell(op)
            \/ Interpreter!FindCell(op) \/ Interpreter!Skip(op)
  <2>1. op.code \in {"IMUL_CELL", "DMUL_CELL", "SET_CELL", "FIND_CELL_LOW", "FIND_CELL_HIGH",
                     "NOP", "LABEL"}
    BY <1>14 DEF Interpreter!MultiplyCell, Interpreter!StoreCell, Interpreter!FindCell,
       Interpreter!Skip, Interpreter!Executing, Interpreter!MulCodes, Interpreter!FindCodes
  <2> QED
    BY <1>3, <2>1 DEF AtCommand, Pairs
<1> QED
  BY <1>2, <1>7, <1>8, <1>9, <1>10, <1>11, <1>12, <1>13, <1>14

LEMMA HaltsAtEnd ==
  ASSUME AsParsed, Interpreter!Halt
  PROVE  machine' = Source!After(Commands, eof, machine)
<1> DEFINE k == CommandAt(stream, nil)
<1>1. /\ status = "running" /\ pc = nil /\ status' = "halted"
      /\ UNCHANGED <<stream, pc, cells, dp, input, output>>
  BY DEF Interpreter!Halt, Interpreter!heap, Interpreter!world, Interpreter!nil, nil
<1>2. k = Len(Commands) + 1 /\ Len(Commands) \in Nat
  <2>1. Len(stream) + 1 \in 1..(Len(stream) + 1) /\ AddressAt(stream, Len(stream) + 1) = nil
    <3>1. DOMAIN stream = 1..Len(stream) /\ Len(stream) \in Nat
      BY DEF AsParsed
    <3> QED
      BY <3>1 DEF AddressAt
  <2>2. k = PP!Before(stream, Len(stream) + 1) + 1
    BY <2>1, CommandAtPlace DEF AsParsed
  <2>3. PP!Before(stream, Len(stream) + 1) = Len(Commands) /\ Commands \in Seq(STRING)
    BY DEF AsParsed, PP!Spells
  <2> QED
    BY <2>2, <2>3
<1>3. machine = Running(k, cells, dp, input, output)
  BY <1>1, MachineRuns
<1> HIDE DEF k
<1>4. machine' = [machine EXCEPT !.status = "halted"]
  <2>1. Stopped(k, "halted")
    BY <1>1, <1>3, MachineStops
  <2> QED
    BY <1>3, <2>1 DEF Stopped
<1>5. machine.at > Len(Commands)
  <2>1. machine.at = k
    BY <1>3 DEF Running
  <2> QED
    BY <1>2, <2>1
<1> QED
  BY <1>4, <1>5, AfterEnd

LEMMA RunFollowsText ==
  ASSUME Whole, Unoptimized, eof # "keep", level = 0, Run
  PROVE  UNCHANGED machine \/ Source!Step
<1>1. parsed = "ok" /\ Interpreter!Interpret /\ UNCHANGED <<program, eof>>
  <2>1. UNCHANGED eof
    BY DEF Run, Interpreter!Interpret, Interpreter!Start, Interpreter!Halt,
       Interpreter!Execute, Interpreter!AdjustCell, Interpreter!MultiplyCell,
       Interpreter!StoreCell, Interpreter!MovePtr, Interpreter!Read, Interpreter!Write,
       Interpreter!CutOff, Interpreter!Jump, Interpreter!FindCell, Interpreter!Skip,
       Interpreter!Trap, Interpreter!Continue
  <2> QED
    BY <2>1 DEF Run, parserVars
<1>2. AsParsed /\ HeapTyped
  BY <1>1, ExecutedAsParsed DEF Whole
<1>3. ASSUME status = "running", machine' = Source!After(Commands, eof, machine)
      PROVE  Source!Step
  <2>1. machine.status = "running"
    BY <1>3, MachineRuns DEF Running
  <2>2. UNCHANGED <<Commands, eof>>
    BY <1>1 DEF Commands
  <2> QED
    BY <1>3, <2>1, <2>2 DEF Source!Step
<1>4. CASE Interpreter!Start
  <2>1. /\ status = "idle" /\ status' = "running" /\ pc' = Interpreter!Begin(stream)
        /\ UNCHANGED <<stream, cells, dp, input, output>>
    BY <1>4 DEF Interpreter!Start, Interpreter!heap, Interpreter!world
  <2>2. CommandAt(stream, Interpreter!Begin(stream)) = 1
    BY <1>2, StartsAtFirst DEF AsParsed
  <2> QED
    BY <2>1, <2>2, MachineIdle, MachineRuns
<1>5. CASE Interpreter!Halt
  BY <1>2, <1>3, <1>5, HaltsAtEnd DEF Interpreter!Halt
<1>6. CASE Interpreter!Execute
  <2>1. status = "running" /\ pc # nil
    BY <1>6 DEF Interpreter!Execute, Interpreter!nil, nil
  <2>2. PICK q \in DOMAIN stream : pc = stream[q].id
    BY <2>1 DEF Whole, InOrder, Addresses
  <2>3. CASE stream[q].code = "LABEL"
    BY <1>2, <1>6, <2>2, <2>3, LabelSkipped
  <2>4. CASE stream[q].code # "LABEL"
    <3>1. machine' = Source!After(Commands, eof, machine)
      BY <1>2, <1>6, <2>2, <2>4, ExecutesAsCommand
    <3> QED
      BY <1>3, <2>1, <3>1
  <2> QED
    BY <2>3, <2>4
<1> QED
  BY <1>1, <1>4, <1>5, <1>6 DEF Interpreter!Interpret

LEMMA NextFollowsText ==
  ASSUME Whole, Unoptimized, eof # "keep", [Next]_vars
  PROVE  (eof # "keep")' /\ [level = 0 => Source!Step]_machine
<1>1. CASE Parse \/ Optimize
  <2>1. UNCHANGED interpreterVars
    BY <1>1 DEF Parse, Optimize
  <2>2. status = "idle"
    <3>1. CASE Parse
      <4>1. parsed = "parsing"
        BY <3>1 DEF Parse, Parser!Next, Parser!Command, Parser!OpenLoop, Parser!CloseLoop,
                    Parser!CloseUnopened, Parser!Comment, Parser!Finish, Parser!Reading
      <4> QED
        BY <4>1 DEF Whole, InOrder, Waiting
    <3>2. CASE Optimize
      BY <3>2, SameOptimizer DEF Optimize, Whole, InOrder
    <3> QED
      BY <1>1, <3>1, <3>2
  <2>3. UNCHANGED machine
    BY <2>1, <2>2, MachineIdle DEF interpreterVars
  <2> QED
    BY <2>1, <2>3 DEF interpreterVars
<1>2. CASE Run
  <2>1. UNCHANGED eof
    BY <1>2 DEF Run, Interpreter!Interpret, Interpreter!Start, Interpreter!Halt,
       Interpreter!Execute, Interpreter!AdjustCell, Interpreter!MultiplyCell,
       Interpreter!StoreCell, Interpreter!MovePtr, Interpreter!Read, Interpreter!Write,
       Interpreter!CutOff, Interpreter!Jump, Interpreter!FindCell, Interpreter!Skip,
       Interpreter!Trap, Interpreter!Continue
  <2>2. level = 0 => UNCHANGED machine \/ Source!Step
    BY <1>2, RunFollowsText
  <2> QED
    BY <2>1, <2>2
<1>3. CASE UNCHANGED vars
  <2>1. UNCHANGED <<stream, interpreterVars>>
    BY <1>3 DEF vars
  <2>2. UNCHANGED machine
    BY <2>1 DEF machine, SourceAt, interpreterVars
  <2> QED
    BY <2>1, <2>2 DEF interpreterVars
<1> QED
  BY <1>1, <1>2, <1>3 DEF Next

\* Unoptimized, and in the EOF modes "0" and "-1", the interpreter executes the
\* text of the program command by command, whatever the text, heap and input.
THEOREM RunImplementsSource ==
  Spec /\ eof # "keep" => ImplementsSource
<1> DEFINE Followed == Whole /\ Unoptimized /\ eof # "keep"
<1>1. Init /\ eof # "keep" => Followed
  BY WholeAtStart, SpelledAtStart
<1>2. Followed /\ [Next]_vars => Followed'
  BY NextKeepsWhole, NextKeepsSpelling, NextFollowsText
<1>3. Followed /\ [Next]_vars => [level = 0 => Source!Step]_machine
  BY NextFollowsText
<1>4. Init => Source!Init
  BY MachineIdle DEF Init, Interpreter!Idle, Source!Init, Source!Booted, Running
<1> HIDE DEF Followed
<1> QED
  BY <1>1, <1>2, <1>3, <1>4, PTL DEF Spec, ImplementsSource

-----------------------------------------------------------------------------
(* What a program did in the end is what its text means *)

\* A machine goes on as long as it runs.
Onward(m) == IF m.status = "running" THEN Source!After(Commands, eof, m) ELSE m

\* The first so many machines of a run from m.
Stretch(run, m, n) == run[0] = m /\ \A k \in 1..n : run[k] = Onward(run[k - 1])

LEMMA StretchExists ==
  ASSUME NEW m
  PROVE  \E run : run = [k \in 0..Fuel |-> run[k]] /\ Stretch(run, m, Fuel)
<1> DEFINE S == {n \in 0..Fuel : \E run : run = [k \in 0..n |-> run[k]] /\ Stretch(run, m, n)}
<1>1. 0 \in S
  <2> DEFINE first == [k \in 0..0 |-> m]
  <2>1. first = [k \in 0..0 |-> first[k]] /\ Stretch(first, m, 0)
    BY DEF Stretch
  <2> HIDE DEF first
  <2> QED
    BY <2>1, HeapAssumption
<1>2. ASSUME NEW n \in 0..(Fuel - 1), n \in S PROVE n + 1 \in S
  <2>1. PICK run : Stretch(run, m, n)
    BY <1>2
  <2> DEFINE longer == [k \in 0..(n + 1) |-> IF k = n + 1 THEN Onward(run[n]) ELSE run[k]]
  <2>2. n \in Nat /\ n + 1 \in 0..Fuel /\ 0 # n + 1 /\ 0 \in 0..(n + 1)
    BY HeapAssumption
  <2>3. longer[0] = m
    BY <2>1, <2>2 DEF Stretch
  <2>4. ASSUME NEW k \in 1..(n + 1) PROVE longer[k] = Onward(longer[k - 1])
    <3>1. k \in 0..(n + 1) /\ k - 1 \in 0..(n + 1) /\ k - 1 # n + 1
      BY <2>2
    <3>2. CASE k = n + 1
      <4>1. k - 1 = n
        BY <2>2, <3>2
      <4> QED
        BY <3>1, <3>2, <4>1
    <3>3. CASE k # n + 1
      <4>1. k \in 1..n
        BY <2>2, <3>3
      <4> QED
        BY <2>1, <3>1, <3>3, <4>1 DEF Stretch
    <3> QED
      BY <3>2, <3>3
  <2>5. longer = [k \in 0..(n + 1) |-> longer[k]]
    OBVIOUS
  <2> HIDE DEF longer
  <2> QED
    BY <2>2, <2>3, <2>4, <2>5 DEF Stretch
<1>3. \A n \in 0..Fuel : n \in S
  <2> HIDE DEF S
  <2> QED
    BY <1>1, <1>2, HeapAssumption, OneByOne
<1>4. Fuel \in 0..Fuel
  BY HeapAssumption
<1> QED
  BY <1>3, <1>4

\* The meaning of a text is where its run has come to.
LEMMA OutcomeIsReached ==
  ASSUME NEW stdin
  PROVE  \E run : /\ Stretch(run, Source!Booted(stdin), Fuel)
                  /\ Source!Outcome(Commands, eof, stdin, Fuel) = run[Fuel]
<1> DEFINE Defined(run) ==
             [n \in 0..Fuel |->
                IF n = 0 THEN Source!Booted(stdin)
                ELSE CHOOSE m \in {IF before.status = "running"
                                   THEN Source!After(Commands, eof, before) ELSE before :
                                     before \in {run[n - 1]}} : TRUE]
<1>1. \A m : (CHOOSE after \in {IF before.status = "running"
                                THEN Source!After(Commands, eof, before) ELSE before :
                                  before \in {m}} : TRUE) = Onward(m)
  <2> SUFFICES ASSUME NEW m
               PROVE  (CHOOSE after \in {IF before.status = "running"
                                         THEN Source!After(Commands, eof, before) ELSE before :
                                           before \in {m}} : TRUE) = Onward(m)
    OBVIOUS
  <2>1. {IF before.status = "running" THEN Source!After(Commands, eof, before) ELSE before :
           before \in {m}} = {Onward(m)}
    BY DEF Onward
  <2> QED
    BY <2>1
<1>2. \A run : Defined(run) = [n \in 0..Fuel |->
                                   IF n = 0 THEN Source!Booted(stdin) ELSE Onward(run[n - 1])]
  BY <1>1
<1>3. \E run : run = Defined(run)
  <2>1. PICK run : /\ run = [n \in 0..Fuel |-> run[n]]
                   /\ Stretch(run, Source!Booted(stdin), Fuel)
    BY StretchExists
  <2>2. \A n \in 0..Fuel :
          run[n] = IF n = 0 THEN Source!Booted(stdin) ELSE Onward(run[n - 1])
    <3>1. \A n \in 0..Fuel : n # 0 => n \in 1..Fuel
      BY HeapAssumption
    <3>2. run[0] = Source!Booted(stdin) /\ \A n \in 1..Fuel : run[n] = Onward(run[n - 1])
      BY <2>1 DEF Stretch
    <3> QED
      BY <3>1, <3>2, Zenon
  <2>3. [n \in 0..Fuel |-> run[n]] = Defined(run)
    BY <1>2, <2>2
  <2> QED
    BY <2>1, <2>3
<1> DEFINE run == CHOOSE run : run = Defined(run)
<1>4. run = Defined(run)
  <2> HIDE DEF Defined
  <2> QED
    BY <1>3
<1>5. Source!Outcome(Commands, eof, stdin, Fuel) = run[Fuel]
  BY DEF Source!Outcome
<1> HIDE DEF run
<1>6. run = [n \in 0..Fuel |-> IF n = 0 THEN Source!Booted(stdin) ELSE Onward(run[n - 1])]
  BY <1>2, <1>4
<1>7. Stretch(run, Source!Booted(stdin), Fuel)
  BY <1>6, HeapAssumption DEF Stretch
<1> QED
  BY <1>5, <1>7

\* The meaning expected is followed as long as its run is.
Meant ==
  level = 0 =>
    \E run :
      /\ \A k \in 1..Fuel : run[k] = Onward(run[k - 1])
      /\ expected = run[Fuel]
      /\ expected.status = "running" \/ \E n \in 0..Fuel : machine = run[n]

LEMMA MeantAtStart ==
  ASSUME Init
  PROVE  Meant
<1>1. expected = Source!Outcome(Commands, eof, input, Fuel)
  BY DEF Init
<1>2. PICK run : Stretch(run, Source!Booted(input), Fuel) /\ expected = run[Fuel]
  BY <1>1, OutcomeIsReached
<1>3. machine = Source!Booted(input)
  BY MachineIdle DEF Init, Interpreter!Idle, Source!Booted, Running
<1>4. 0 \in 0..Fuel /\ machine = run[0]
  BY <1>2, <1>3, HeapAssumption DEF Stretch
<1> QED
  BY <1>2, <1>4 DEF Meant, Stretch

\* What a run is about does not change.
LEMMA NextKeepsText ==
  ASSUME [Next]_vars
  PROVE  UNCHANGED <<program, eof, level, expected>>
<1>1. ASSUME Parse PROVE UNCHANGED <<program, eof, level, expected>>
  BY <1>1 DEF Parse, optimizerVars, interpreterVars, Parser!Next, Parser!Command,
     Parser!OpenLoop, Parser!CloseLoop, Parser!CloseUnopened, Parser!Comment, Parser!Finish,
     Parser!Reading
<1>2. ASSUME Optimize PROVE UNCHANGED <<program, eof, level, expected>>
  BY <1>2 DEF Optimize, parserVars, interpreterVars, Optimizer!Optimize, Optimizer!NextStage,
     Optimizer!Rewriting, Optimizer!DelayingMoves
<1>3. ASSUME Run PROVE UNCHANGED <<program, eof, level, expected>>
  BY <1>3 DEF Run, parserVars, optimizerVars, Interpreter!Interpret, Interpreter!Start,
     Interpreter!Halt, Interpreter!Execute, Interpreter!AdjustCell, Interpreter!MultiplyCell,
     Interpreter!StoreCell, Interpreter!MovePtr, Interpreter!Read, Interpreter!Write,
     Interpreter!CutOff, Interpreter!Jump, Interpreter!FindCell, Interpreter!Skip,
     Interpreter!Trap, Interpreter!Continue
<1> QED
  BY <1>1, <1>2, <1>3 DEF Next, vars, parserVars, optimizerVars, interpreterVars

LEMMA NextKeepsMeant ==
  ASSUME Meant, [Next]_vars, [level = 0 => Source!Step]_machine
  PROVE  Meant'
<1> SUFFICES ASSUME level' = 0 PROVE Meant'
  BY DEF Meant
<1>1. UNCHANGED <<program, eof, level, expected>> /\ Commands' = Commands
  BY NextKeepsText DEF Commands
<1>2. PICK run : /\ \A k \in 1..Fuel : run[k] = Onward(run[k - 1])
                 /\ expected = run[Fuel]
                 /\ expected.status = "running" \/ \E n \in 0..Fuel : machine = run[n]
  BY <1>1 DEF Meant
<1>3. \A k \in 1..Fuel : run[k] = Onward(run[k - 1])'
  BY <1>1, <1>2 DEF Onward
<1>4. ASSUME NEW n \in 0..Fuel, machine = run[n], expected.status # "running"
      PROVE  \E l \in 0..Fuel : machine' = run[l]
  <2>1. CASE machine' = machine
    BY <1>4, <2>1
  <2>2. CASE Source!Step
    <3>1. machine' = Onward(machine) /\ machine.status = "running"
      BY <2>2 DEF Source!Step, Onward
    <3>2. n # Fuel
      BY <1>2, <1>4, <3>1
    <3>3. n + 1 \in 1..Fuel /\ (n + 1) - 1 = n /\ n + 1 \in 0..Fuel
      BY <3>2, HeapAssumption
    <3>4. run[n + 1] = Onward(run[n])
      BY <1>2, <3>3
    <3> QED
      BY <1>4, <3>1, <3>3, <3>4
  <2> QED
    BY <1>1, <2>1, <2>2
<1> QED
  BY <1>1, <1>2, <1>3, <1>4 DEF Meant

\* A run goes no further than to a machine that has stopped.
LEMMA StoppedForGood ==
  ASSUME NEW run, \A k \in 1..Fuel : run[k] = Onward(run[k - 1]),
         NEW n \in 0..Fuel, run[n].status # "running"
  PROVE  run[Fuel] = run[n]
<1> DEFINE S == {k \in 0..(Fuel - n) : run[n + k] = run[n]}
<1>1. n \in Nat /\ Fuel - n \in Nat /\ n + 0 = n /\ n + (Fuel - n) = Fuel
  BY HeapAssumption
<1>2. 0 \in S
  BY <1>1
<1>3. ASSUME NEW k \in 0..((Fuel - n) - 1), k \in S PROVE k + 1 \in S
  <2>1. n + (k + 1) \in 1..Fuel /\ (n + (k + 1)) - 1 = n + k /\ k + 1 \in 0..(Fuel - n)
    BY <1>1, HeapAssumption
  <2>2. run[n + (k + 1)] = Onward(run[n + k])
    BY <2>1
  <2>3. run[n + k] = run[n]
    BY <1>3
  <2> QED
    BY <2>1, <2>2, <2>3 DEF Onward
<1>4. \A k \in 0..(Fuel - n) : k \in S
  <2> HIDE DEF S
  <2> QED
    BY <1>1, <1>2, <1>3, OneByOne
<1>5. Fuel - n \in 0..(Fuel - n)
  BY <1>1
<1>6. run[n + (Fuel - n)] = run[n]
  BY <1>4, <1>5
<1> QED
  BY <1>1, <1>6

LEMMA MeantIsDone ==
  ASSUME Meant, level = 0, expected.status # "running"
  PROVE  MeansTheSame
<1>1. PICK run : /\ \A k \in 1..Fuel : run[k] = Onward(run[k - 1])
                 /\ expected = run[Fuel]
                 /\ \E n \in 0..Fuel : machine = run[n]
  BY DEF Meant
<1>2. machine.status # "running" => expected = machine
  BY <1>1, StoppedForGood
<1>3. /\ machine.status = CASE status = "idle" -> "running" [] status = "stray" -> "trapped"
                            [] OTHER -> status
      /\ machine.output = output /\ machine.cells = cells /\ machine.input = input
  BY DEF machine
<1>4. IsPrefix(output, output)
  BY DEF IsPrefix
<1>5. CASE status = "halted"
  <2>1. machine.status = "halted"
    BY <1>3, <1>5
  <2> QED
    BY <1>2, <1>3, <1>4, <1>5, <2>1 DEF MeansTheSame
<1>6. CASE status \in {"trapped", "stray", "cut"}
  <2>1. machine.status \in {"trapped", "cut"} /\ (status # "cut" => machine.status = "trapped")
    BY <1>3, <1>6
  <2> QED
    BY <1>2, <1>3, <1>4, <1>6, <2>1 DEF MeansTheSame
<1> QED
  BY <1>5, <1>6 DEF MeansTheSame, Interpreter!Ended

\* Unoptimized, and in the EOF modes "0" and "-1", a program that ends has done
\* what its text means, whatever text, heap and input, as far as the meaning
\* was followed to its end: the same output, the same heap, the same input read.
THEOREM RunMeansTheSame ==
  Spec /\ eof # "keep" => [](level = 0 /\ expected.status # "running" => MeansTheSame)
<1> DEFINE Followed == Whole /\ Unoptimized /\ eof # "keep" /\ Meant
<1>1. Init /\ eof # "keep" => Followed
  BY WholeAtStart, SpelledAtStart, MeantAtStart
<1>2. Followed /\ [Next]_vars => Followed'
  BY NextKeepsWhole, NextKeepsSpelling, NextFollowsText, NextKeepsMeant
<1>3. Followed => (level = 0 /\ expected.status # "running" => MeansTheSame)
  BY MeantIsDone
<1> HIDE DEF Followed
<1> QED
  BY <1>1, <1>2, <1>3, PTL DEF Spec
==============================================================================

---------------------------- MODULE CompiledProofs ----------------------------
(***************************************************************************)
(* Theorems about compiled programs, for both architectures, programs of   *)
(* any length and every level of optimization: what CompilerProofs says of *)
(* the compiler holds of the whole program, which hands it the stream that *)
(* parser and optimizer have made.                                         *)
(***************************************************************************)
EXTENDS Compiled, BfCcProofs

CP == INSTANCE CompilerProofs

-----------------------------------------------------------------------------
(* Compiled has an instance of Compiler, and CompilerProofs extends it; that *)
(* they agree is seen by expanding both.                                     *)

LEMMA SameTemplates ==
  /\ Compiler!Entry = CP!Entry /\ Compiler!Exit = CP!Exit
  /\ \A op : Compiler!Translation(op) = CP!Translation(op)
  /\ \A opcode, distance : Compiler!Jump(opcode, distance) = CP!Jump(opcode, distance)
<1> USE DEF Compiler!OnX86, CP!OnX86
<1>1. /\ Compiler!X86!EmitEntry = CP!X86!EmitEntry
      /\ Compiler!X86!EmitExit = CP!X86!EmitExit
  BY DEF Compiler!X86!EmitEntry, CP!X86!EmitEntry, Compiler!X86!EmitExit, CP!X86!EmitExit,
         Compiler!X86!Saved, CP!X86!Saved, Compiler!X86!Push, CP!X86!Push, Compiler!X86!Pop,
         CP!X86!Pop, Compiler!X86!RegLen, CP!X86!RegLen, Compiler!X86!Reverse, CP!X86!Reverse,
         Compiler!X86!Move, CP!X86!Move, Compiler!X86!AddImm, CP!X86!AddImm,
         Compiler!X86!Ret, CP!X86!Ret
<1>2. \A opcode, distance : Compiler!X86!Jump(opcode, distance) = CP!X86!Jump(opcode, distance)
  BY DEF Compiler!X86!Jump, CP!X86!Jump, Compiler!X86!Branch, CP!X86!Branch
<1>3. \A opcode, distance : Compiler!ARM!Jump(opcode, distance) = CP!ARM!Jump(opcode, distance)
  BY DEF Compiler!ARM!Jump, CP!ARM!Jump, Compiler!ARM!BCond, CP!ARM!BCond,
         Compiler!ARM!Branch, CP!ARM!Branch, Compiler!ARM!Narrow, CP!ARM!Narrow
<1>4. \A to, value : Compiler!ARM!LoadImmediate64(to, value) = CP!ARM!LoadImmediate64(to, value)
  BY DEF Compiler!ARM!LoadImmediate64, CP!ARM!LoadImmediate64, Compiler!ARM!Half, CP!ARM!Half,
         Compiler!ARM!Word, CP!ARM!Word, Compiler!ARM!MOVK, CP!ARM!MOVK, Compiler!ARM!MOVZ,
         CP!ARM!MOVZ, Compiler!ARM!Set, CP!ARM!Set
<1>5. /\ Compiler!ARM!EmitEntry = CP!ARM!EmitEntry
      /\ Compiler!ARM!EmitExit = CP!ARM!EmitExit
  BY <1>4 DEF Compiler!ARM!EmitEntry, CP!ARM!EmitEntry, Compiler!ARM!EmitExit, CP!ARM!EmitExit,
         Compiler!ARM!Push, CP!ARM!Push, Compiler!ARM!Pop, CP!ARM!Pop, Compiler!ARM!Move,
         CP!ARM!Move, Compiler!ARM!Ret, CP!ARM!Ret
<1>6. \A op, mode : Compiler!X86!Translation(op, mode) = CP!X86!Translation(op, mode)
  <2> USE DEF Compiler!X86!Short, CP!X86!Short, Compiler!X86!Encoded, CP!X86!Encoded,
        Compiler!X86!EncLen, CP!X86!EncLen, Compiler!X86!DispLen, CP!X86!DispLen,
        Compiler!X86!Narrow, CP!X86!Narrow
  <2>1. /\ Compiler!X86!EmitNop = CP!X86!EmitNop
        /\ Compiler!X86!EmitWrite = CP!X86!EmitWrite
        /\ \A mode : Compiler!X86!EmitRead(mode) = CP!X86!EmitRead(mode)
        /\ \A opcode : Compiler!X86!EmitJump(opcode) = CP!X86!EmitJump(opcode)
    BY <1>2 DEF Compiler!X86!EmitNop, CP!X86!EmitNop, Compiler!X86!Nop, CP!X86!Nop,
         Compiler!X86!EmitWrite, CP!X86!EmitWrite, Compiler!X86!EmitRead, CP!X86!EmitRead,
         Compiler!X86!SaveCell, CP!X86!SaveCell, Compiler!X86!RestoreCell, CP!X86!RestoreCell,
         Compiler!X86!Set, CP!X86!Set, Compiler!X86!Move, CP!X86!Move, Compiler!X86!Call,
         CP!X86!Call, Compiler!X86!ModeNumber, CP!X86!ModeNumber, Compiler!X86!Index,
         CP!X86!Index, Compiler!X86!EOFModes, CP!X86!EOFModes, Compiler!X86!EmitJump,
         CP!X86!EmitJump, Compiler!X86!Compare, CP!X86!Compare
  <2>2. \A amount, off :
          /\ Compiler!X86!EmitIncrCell(amount, off) = CP!X86!EmitIncrCell(amount, off)
          /\ Compiler!X86!EmitDecrCell(amount, off) = CP!X86!EmitDecrCell(amount, off)
          /\ Compiler!X86!EmitSetCell(amount, off) = CP!X86!EmitSetCell(amount, off)
    BY DEF Compiler!X86!EmitIncrCell, CP!X86!EmitIncrCell, Compiler!X86!EmitDecrCell,
         CP!X86!EmitDecrCell, Compiler!X86!EmitSetCell, CP!X86!EmitSetCell,
         Compiler!X86!AddByte, CP!X86!AddByte, Compiler!X86!MoveByte, CP!X86!MoveByte
  <2>3. \A amount, off :
          /\ Compiler!X86!EmitImullCell(amount, off) = CP!X86!EmitImullCell(amount, off)
          /\ Compiler!X86!EmitDmullCell(amount, off) = CP!X86!EmitDmullCell(amount, off)
    BY DEF Compiler!X86!EmitImullCell, CP!X86!EmitImullCell, Compiler!X86!EmitDmullCell,
         CP!X86!EmitDmullCell, Compiler!X86!AddLow, CP!X86!AddLow, Compiler!X86!Product,
         CP!X86!Product, Compiler!X86!LoadLow, CP!X86!LoadLow, Compiler!X86!Move, CP!X86!Move,
         Compiler!X86!Set, CP!X86!Set, Compiler!X86!Mul, CP!X86!Mul
  <2>4. \A amount : /\ Compiler!X86!EmitIncrPtr(amount) = CP!X86!EmitIncrPtr(amount)
                    /\ Compiler!X86!EmitDecrPtr(amount) = CP!X86!EmitDecrPtr(amount)
    BY DEF Compiler!X86!EmitIncrPtr, CP!X86!EmitIncrPtr, Compiler!X86!EmitDecrPtr,
         CP!X86!EmitDecrPtr, Compiler!X86!AddImm, CP!X86!AddImm
  <2>5. \A value, step : Compiler!X86!EmitFindCell(value, step) = CP!X86!EmitFindCell(value, step)
    BY DEF Compiler!X86!EmitFindCell, CP!X86!EmitFindCell, Compiler!X86!Compare,
         CP!X86!Compare, Compiler!X86!Branch, CP!X86!Branch, Compiler!X86!AddImm, CP!X86!AddImm
  <2> QED
    BY <2>1, <2>2, <2>3, <2>4, <2>5, Zenon DEF Compiler!X86!Translation, CP!X86!Translation,
       Compiler!X86!JumpCodes, CP!X86!JumpCodes
<1>7. \A op, mode : Compiler!ARM!Translation(op, mode) = CP!ARM!Translation(op, mode)
  <2> USE DEF Compiler!ARM!LDRB, CP!ARM!LDRB, Compiler!ARM!STRB, CP!ARM!STRB, Compiler!ARM!ADD,
        CP!ARM!ADD, Compiler!ARM!SUB, CP!ARM!SUB, Compiler!ARM!ADDI, CP!ARM!ADDI,
        Compiler!ARM!SUBI, CP!ARM!SUBI, Compiler!ARM!AddImm, CP!ARM!AddImm, Compiler!ARM!MOVZ,
        CP!ARM!MOVZ, Compiler!ARM!Set, CP!ARM!Set, Compiler!ARM!Near, CP!ARM!Near
  <2>1. /\ Compiler!ARM!EmitNop = CP!ARM!EmitNop
        /\ Compiler!ARM!EmitWrite = CP!ARM!EmitWrite
        /\ \A mode : Compiler!ARM!EmitRead(mode) = CP!ARM!EmitRead(mode)
        /\ \A opcode : Compiler!ARM!EmitJump(opcode) = CP!ARM!EmitJump(opcode)
    BY DEF Compiler!ARM!EmitNop, CP!ARM!EmitNop, Compiler!ARM!Nop, CP!ARM!Nop,
         Compiler!ARM!EmitWrite, CP!ARM!EmitWrite, Compiler!ARM!EmitRead, CP!ARM!EmitRead,
         Compiler!ARM!Move, CP!ARM!Move, Compiler!ARM!Call, CP!ARM!Call,
         Compiler!ARM!ModeNumber, CP!ARM!ModeNumber, Compiler!ARM!Index, CP!ARM!Index,
         Compiler!ARM!EOFModes, CP!ARM!EOFModes, Compiler!ARM!EmitJump, CP!ARM!EmitJump,
         Compiler!ARM!CMP, CP!ARM!CMP, Compiler!ARM!BRK, CP!ARM!BRK
  <2>2. \A amount, off :
          /\ Compiler!ARM!EmitIncrCell(amount, off) = CP!ARM!EmitIncrCell(amount, off)
          /\ Compiler!ARM!EmitDecrCell(amount, off) = CP!ARM!EmitDecrCell(amount, off)
    BY <1>4 DEF Compiler!ARM!EmitIncrCell, CP!ARM!EmitIncrCell, Compiler!ARM!EmitDecrCell,
         CP!ARM!EmitDecrCell, Compiler!ARM!EmitIncrDecrCell, CP!ARM!EmitIncrDecrCell
  <2>3. \A amount, off :
          /\ Compiler!ARM!EmitImullCell(amount, off) = CP!ARM!EmitImullCell(amount, off)
          /\ Compiler!ARM!EmitDmullCell(amount, off) = CP!ARM!EmitDmullCell(amount, off)
          /\ Compiler!ARM!EmitSetCell(amount, off) = CP!ARM!EmitSetCell(amount, off)
    BY <1>4 DEF Compiler!ARM!EmitImullCell, CP!ARM!EmitImullCell, Compiler!ARM!EmitDmullCell,
         CP!ARM!EmitDmullCell, Compiler!ARM!EmitSetCell, CP!ARM!EmitSetCell,
         Compiler!ARM!MADD, CP!ARM!MADD
  <2>4. \A amount : /\ Compiler!ARM!EmitIncrPtr(amount) = CP!ARM!EmitIncrPtr(amount)
                    /\ Compiler!ARM!EmitDecrPtr(amount) = CP!ARM!EmitDecrPtr(amount)
    BY <1>4 DEF Compiler!ARM!EmitIncrPtr, CP!ARM!EmitIncrPtr, Compiler!ARM!EmitDecrPtr,
         CP!ARM!EmitDecrPtr
  <2>5. \A value, step : Compiler!ARM!EmitFindCell(value, step) = CP!ARM!EmitFindCell(value, step)
    BY DEF Compiler!ARM!EmitFindCell, CP!ARM!EmitFindCell, Compiler!ARM!B, CP!ARM!B,
         Compiler!ARM!BCond, CP!ARM!BCond, Compiler!ARM!Branch, CP!ARM!Branch,
         Compiler!ARM!Narrow, CP!ARM!Narrow, Compiler!ARM!CMP, CP!ARM!CMP
  <2> QED
    BY <2>1, <2>2, <2>3, <2>4, <2>5, Zenon DEF Compiler!ARM!Translation, CP!ARM!Translation,
       Compiler!ARM!JumpCodes, CP!ARM!JumpCodes
<1> QED
  BY <1>1, <1>2, <1>3, <1>5, <1>6, <1>7 DEF Compiler!Entry, CP!Entry, Compiler!Exit, CP!Exit,
     Compiler!Translation, CP!Translation, Compiler!Jump, CP!Jump

LEMMA SameCompiler ==
  /\ Compiler!Idle => CP!Idle
  /\ Compiler!Compile => CP!Compile
  /\ Compiler!DistancesFit => CP!DistancesFit
  /\ CP!JumpsLand => Compiler!JumpsLand
<1>1. Compiler!Idle => CP!Idle
  BY DEF Compiler!Idle, CP!Idle, Compiler!Init, CP!Init, Compiler!Pages,
     CP!Pages
<1>2. \A length : /\ Compiler!EmitData(length) => CP!EmitData(length)
                  /\ Compiler!EmitFails(length) => CP!EmitFails(length)
  BY DEF Compiler!EmitData, CP!EmitData, Compiler!EmitFails, CP!EmitFails, Compiler!Store,
     CP!Store, Compiler!Ignore, CP!Ignore, Compiler!PagesAfter, CP!PagesAfter,
     Compiler!PagesFor, CP!PagesFor, Compiler!Protect, CP!Protect, Compiler!areaVars,
     CP!areaVars, Compiler!bookkeeping, CP!bookkeeping
<1>3. \A template, after : Compiler!Emit(template, after) => CP!Emit(template, after)
  BY <1>2 DEF Compiler!Emit, CP!Emit, Compiler!CodeLength, CP!CodeLength, Compiler!Ends,
     CP!Ends, Compiler!Placed, CP!Placed, Compiler!Over, CP!Over
<1>4. Compiler!TranslateEntry => CP!TranslateEntry
  BY <1>3, SameTemplates DEF Compiler!TranslateEntry, CP!TranslateEntry, Compiler!lists, CP!lists
<1>5. Compiler!TranslateOp => CP!TranslateOp
  BY <1>3, SameTemplates DEF Compiler!TranslateOp, CP!TranslateOp, Compiler!IsJump, CP!IsJump,
     Compiler!JumpCodes, CP!JumpCodes
<1>6. Compiler!AllTranslated => CP!AllTranslated
  BY DEF Compiler!AllTranslated, CP!AllTranslated, Compiler!areaVars, CP!areaVars,
     Compiler!bookkeeping, CP!bookkeeping
<1>7. Compiler!PatchJump => CP!PatchJump
  BY SameTemplates DEF Compiler!PatchJump, CP!PatchJump, Compiler!PatchCode, CP!PatchCode,
     Compiler!LabelOf, CP!LabelOf, Compiler!Min, CP!Min, Compiler!areaVars, CP!areaVars,
     Compiler!bookkeeping, CP!bookkeeping
<1>8. Compiler!TranslateExit => CP!TranslateExit
  BY <1>3, SameTemplates DEF Compiler!TranslateExit, CP!TranslateExit, Compiler!lists, CP!lists
<1>9. Compiler!Seal => CP!Seal
  BY DEF Compiler!Seal, CP!Seal, Compiler!lists, CP!lists, Compiler!MakeExecutable,
     CP!MakeExecutable, Compiler!MakeExecutableFails, CP!MakeExecutableFails,
     Compiler!Protect, CP!Protect, Compiler!bookkeeping, CP!bookkeeping
<1>10. /\ Compiler!DistancesFit => CP!DistancesFit
       /\ CP!JumpsLand => Compiler!JumpsLand
  BY DEF Compiler!DistancesFit, CP!DistancesFit, Compiler!JumpsLand, CP!JumpsLand,
     Compiler!Patched, CP!Patched, Compiler!BranchesOf, CP!BranchesOf, Compiler!IsJump,
     CP!IsJump, Compiler!JumpCodes, CP!JumpCodes, Compiler!Position, CP!Position
<1> QED
  BY <1>1, <1>4, <1>5, <1>6, <1>7, <1>8, <1>9, <1>10 DEF Compiler!Compile, CP!Compile

LEMMA SameSoundness == ASSUME NEW s, Sound(s) PROVE CP!Sound(s)
<1>1. CP!Operations = Operations
  BY DEF CP!Operations, Operations, CP!nil, nil, CP!Codes, Codes, CP!CellCodes, CellCodes,
     CP!PtrCodes, PtrCodes, CP!MulCodes, MulCodes, CP!FindCodes, FindCodes, CP!IOCodes, IOCodes,
     CP!JumpCodes, JumpCodes
<1>2. CP!Distinct(s)
  BY DEF Sound, Distinct, CP!Distinct
<1>3. CP!WellJoined(s)
  BY DEF Sound, WellJoined, CP!WellJoined, CP!Joined, Joined, CP!IsJump, IsJump, CP!JumpCodes,
     JumpCodes
<1>4. CP!LoopsNest(s)
  BY DEF Sound, LoopsNest, CP!LoopsNest, CP!Inside, Inside, CP!Joined, Joined, CP!IsJump, IsJump,
     CP!JumpCodes, JumpCodes
<1> QED
  BY <1>1, <1>2, <1>3, <1>4 DEF Sound, CP!Sound

\* The assumptions CompilerProofs makes are made of Compiled.
LEMMA AssumedOfCode ==
  CP!ByteSizeAssumption /\ CP!CodeAssumption /\ CP!AreaAssumption
<1>1. CP!ByteSizeAssumption
  BY ByteSizeAssumption DEF CP!ByteSizeAssumption
<1>2. CP!CodeAssumption
  <2>1. CP!Word = Word
    BY DEF CP!Word, Word
  <2> QED
    BY <2>1, CodeAssumption DEF CP!CodeAssumption
<1>3. CP!AreaAssumption
  BY CompiledAssumption DEF CP!AreaAssumption
<1> QED
  BY <1>1, <1>2, <1>3

-----------------------------------------------------------------------------
(* Every run *)

\* The compiler waits for the end of the optimizer, and the processor for that
\* of the compiler.
InTurn ==
  /\ phase = "entry" => Whole
  /\ phase # "entry" => parsed = "ok" /\ Optimizer!Finished
  /\ phase # "compiled" => status = "idle"

Ready == InTurn /\ CP!Ready

LEMMA ReadyAtStart ==
  ASSUME CompiledInit
  PROVE  Ready
<1>1. Init /\ target \in Targets /\ Compiler!Idle /\ phase = "entry"
  BY DEF CompiledInit, Compiler!Idle
<1>2. Whole /\ status = "idle"
  BY <1>1, WholeAtStart DEF Init, Interpreter!Idle
<1>3. target \in {"x86-64", "aarch64"}
  BY <1>1, CompiledAssumption
<1>4. CP!Ready
  BY <1>1, <1>3, SameCompiler, AssumedOfCode, CP!IdleIsReady
<1> QED
  BY <1>1, <1>2, <1>4 DEF Ready, InTurn

\* Parsing and optimizing come first.
LEMMA MakingKeepsReady ==
  ASSUME Ready, ParseAndOptimize
  PROVE  Ready'
<1>1. UNCHANGED <<target, phase, translated, jumps, labels, starts, code, size, err>>
  BY DEF ParseAndOptimize, compilerVars
<1>2. phase = "entry" => CP!Ready'
  BY <1>1, AssumedOfCode, CP!ReadyStays DEF Ready
<1>3. CASE Parse
  <2>1. parsed = "parsing" /\ status' = status
    BY <1>3 DEF Parse, interpreterVars, Parser!Next, Parser!Command, Parser!OpenLoop,
       Parser!CloseLoop, Parser!CloseUnopened, Parser!Comment, Parser!Finish, Parser!Reading
  <2>2. phase = "entry" /\ Whole /\ status = "idle"
    BY <2>1 DEF Ready, InTurn
  <2>3. Whole'
    BY <1>3, <2>2, ParseKeeps
  <2> QED
    BY <1>1, <1>2, <2>1, <2>2, <2>3 DEF Ready, InTurn
<1>4. CASE Optimize
  <2>1. ~Optimizer!Finished /\ status' = status
    BY <1>4, SameOptimizer DEF Optimize, interpreterVars
  <2>2. phase = "entry" /\ Whole /\ status = "idle"
    BY <2>1 DEF Ready, InTurn
  <2>3. Whole'
    BY <1>4, <2>2, OptimizeKeeps
  <2> QED
    BY <1>1, <1>2, <2>1, <2>2, <2>3 DEF Ready, InTurn
<1> QED
  BY <1>3, <1>4 DEF ParseAndOptimize

LEMMA CompileKeepsReady ==
  ASSUME Ready, Compile
  PROVE  Ready'
<1>1. /\ parsed = "ok" /\ parsed' = "ok" /\ Optimizer!Finished /\ Optimizer!Finished'
      /\ status' = status /\ Compiler!Compile
  BY DEF Compile, vars, parserVars, optimizerVars, interpreterVars, Optimizer!Finished,
         Optimizer!pipeline
<1>2. phase # "compiled" /\ phase' # "entry"
  BY <1>1 DEF Compiler!Compile, Compiler!TranslateEntry, Compiler!TranslateOp, Compiler!Emit,
     Compiler!AllTranslated, Compiler!PatchJump, Compiler!TranslateExit, Compiler!Seal
<1>3. CP!Sound(stream)
  <2>1. CASE phase = "entry"
    BY <1>1, <2>1, WholeStream, SameSoundness DEF Ready, InTurn
  <2>2. CASE phase # "entry"
    BY <2>2 DEF Ready, CP!Ready
  <2> QED
    BY <2>1, <2>2
<1>4. CP!Ready'
  BY <1>1, <1>3, SameCompiler, AssumedOfCode, CP!CompileKeepsReady DEF Ready
<1> QED
  BY <1>1, <1>2, <1>4 DEF Ready, InTurn

LEMMA NextKeepsReady ==
  ASSUME Ready, [CompiledNext]_compiledVars
  PROVE  Ready'
<1>1. CASE RunCode
  <2>1. /\ phase = "compiled"
        /\ UNCHANGED <<phase, target, stream, translated, jumps, labels, starts, code, size, err>>
        /\ UNCHANGED <<parsed, stage, level>>
    BY <1>1 DEF RunCode, compilerVars, parserVars, optimizerVars
  <2>2. CP!Ready'
    BY <2>1, AssumedOfCode, CP!ReadyStays DEF Ready
  <2> QED
    BY <2>1, <2>2 DEF Ready, InTurn, Optimizer!Finished, Optimizer!pipeline
<1>2. CASE UNCHANGED compiledVars
  <2>1. /\ UNCHANGED vars
        /\ UNCHANGED <<target, phase, translated, jumps, labels, starts, code, size, err>>
    BY <1>2 DEF compiledVars, compilerVars
  <2>2. UNCHANGED <<stream, parsed, stage, level, status>>
    BY <2>1 DEF vars, parserVars, optimizerVars, interpreterVars
  <2>3. CP!Ready'
    BY <2>1, <2>2, AssumedOfCode, CP!ReadyStays DEF Ready
  <2>4. phase = "entry" => Whole'
    BY <2>1, NextKeepsWhole DEF Ready, InTurn
  <2> QED
    BY <2>1, <2>2, <2>3, <2>4 DEF Ready, InTurn, Optimizer!Finished, Optimizer!pipeline
<1> QED
  BY <1>1, <1>2, MakingKeepsReady, CompileKeepsReady DEF CompiledNext

\* The stream is sound when it is compiled, and as long as the compiler has room
\* its code lies in the area one operation behind the other, no two instructions
\* overlapping; what was noted of jumps and labels is where they came to lie.
THEOREM CompiledReady == CompiledSpec => []Ready
<1>1. CompiledInit => Ready
  BY ReadyAtStart
<1>2. Ready /\ [CompiledNext]_compiledVars => Ready'
  BY NextKeepsReady
<1> QED
  BY <1>1, <1>2, PTL DEF CompiledSpec

\* Wherever the code of a jump and that of its label came to lie, the branch
\* leads from the one to the other, unless a branch of AArch64 is too short
\* for the distance.
THEOREM CompiledJumpsLand == CompiledSpec => [](DistancesFit => JumpsLand)
<1>1. Ready => (DistancesFit => JumpsLand)
  BY SameCompiler, AssumedOfCode, CP!JumpsLandOnceReady DEF Ready, DistancesFit, JumpsLand
<1> QED
  BY <1>1, CompiledReady, PTL
===============================================================================

------------------------------- MODULE Compiler -------------------------------
(***************************************************************************)
(* Compiler::Compile of src/src/compiler.cc: the stream is translated into *)
(* a code area, one operation per step; the jumps are patched one by one   *)
(* when all labels are known; the exit follows, and the area is sealed.    *)
(* A template goes into the area at once: the pieces the assemblers cut it *)
(* into differ only in what is left unwritten once the area is full.       *)
(***************************************************************************)
EXTENDS Code, CodeArea

VARIABLES target,      \* what the program was built for
          stream, eof, \* what is compiled, never changed
          phase,       \* where Compile is, and how it ended
          translated,  \* how many operations were translated
          jumps,       \* jump_list: the jumps to patch, with the offset behind each
          labels,      \* label_list: the labels with their offsets
          code,        \* the instructions in the area, by offset
          starts       \* where the code of each operation starts, and the exit;
                       \* only looked at by the properties

X86 == INSTANCE X86_64
ARM == INSTANCE AArch64

lists == <<translated, jumps, labels, starts>>
compilerVars == <<target, stream, eof, phase, lists, code, areaVars>>

OnX86 == target = "x86-64"
Entry == IF OnX86 THEN X86!EmitEntry ELSE ARM!EmitEntry
Exit  == IF OnX86 THEN X86!EmitExit ELSE ARM!EmitExit
Translation(op) == IF OnX86 THEN X86!Translation(op, eof) ELSE ARM!Translation(op, eof)
Jump(opcode, distance) ==
  IF OnX86 THEN X86!Jump(opcode, distance) ELSE ARM!Jump(opcode, distance)

\* The area is created, and nothing is in it.
Idle ==
  /\ phase = "entry" /\ translated = 0 /\ code = <<>>
  /\ jumps = <<>> /\ labels = <<>> /\ starts = <<>>
  /\ Init

\* The process ends in the middle if a page cannot be made accessible.
Emit(template, after) ==
  \E instrs \in {template} :
    \/ /\ EmitData(CodeLength(instrs))
       /\ code' = IF err THEN code ELSE Over(code, Placed(size, instrs))
       /\ phase' = IF err' THEN "out_of_memory" ELSE after
    \/ /\ EmitFails(CodeLength(instrs))
       /\ phase' = "exited" /\ UNCHANGED code

TranslateEntry ==
  /\ phase = "entry"
  /\ Emit(Entry, "operations")
  /\ UNCHANGED <<target, stream, eof, lists>>

TranslateOp ==
  /\ phase = "operations" /\ translated < Len(stream)
  /\ \E op \in {stream[translated + 1]} :
       /\ Emit(Translation(op), "operations")
       /\ jumps' = IF IsJump(op) THEN Append(jumps, [op |-> op, behind |-> size']) ELSE jumps
       /\ labels' = IF op.code = "LABEL"
                    THEN Append(labels, [id |-> op.id, at |-> size']) ELSE labels
  /\ translated' = translated + 1 /\ starts' = Append(starts, size)
  /\ UNCHANGED <<target, stream, eof>>

AllTranslated ==
  /\ phase = "operations" /\ translated = Len(stream)
  /\ phase' = "jumps" /\ starts' = Append(starts, size)
  /\ UNCHANGED <<target, stream, eof, translated, jumps, labels, code, areaVars>>

\* The first label a jump refers to; JumpsJoined says that there is one.
LabelOf(jump) ==
  labels[Min({n \in DOMAIN labels : labels[n].id = jump.op.op1})]

\* The branch a jump ends in gets its distance.
PatchCode(jump, distance) ==
  \E branch \in {Jump(jump.op.code, distance)} :
    code' = [code EXCEPT ![jump.behind - branch.len] = branch]

\* @mutant: the distance is taken from the start of the branch.
PatchJumpFromStart ==
  /\ phase = "jumps" /\ jumps # <<>>
  /\ LET jump == Head(jumps)
         start == jump.behind - Jump(jump.op.code, 0).len
     IN  PatchCode(jump, LabelOf(jump).at - start)
  /\ jumps' = Tail(jumps)
  /\ UNCHANGED <<target, stream, eof, phase, translated, labels, starts, areaVars>>

PatchJump ==
  /\ phase = "jumps" /\ jumps # <<>>
  /\ PatchCode(Head(jumps), LabelOf(Head(jumps)).at - Head(jumps).behind)
  /\ jumps' = Tail(jumps)
  /\ UNCHANGED <<target, stream, eof, phase, translated, labels, starts, areaVars>>

TranslateExit ==
  /\ phase = "jumps" /\ jumps = <<>>
  /\ Emit(Exit, "sealing")
  /\ UNCHANGED <<target, stream, eof, lists>>

Seal ==
  /\ phase = "sealing"
  /\ \/ MakeExecutable /\ phase' = "compiled"
     \/ MakeExecutableFails /\ phase' = "exited"
  /\ UNCHANGED <<target, stream, eof, lists, code>>

Failed == phase \in {"exited", "out_of_memory"}

Compile ==
  \/ TranslateEntry \/ TranslateOp \/ AllTranslated
  \/ PatchJump \/ TranslateExit \/ Seal

-----------------------------------------------------------------------------
(* Properties *)

Patched == phase \in {"sealing", "compiled"}

BranchesOf(i) == {b \in DOMAIN code : b + code[b].len = starts[i + 1] /\ code[b].do = "branch"}

\* Once patched, the branch a jump was translated into goes to the code of the
\* operation behind the jump's label, wherever in the area both came to lie.
JumpsLand ==
  Patched =>
    \A i \in DOMAIN stream : IsJump(stream[i]) =>
      /\ BranchesOf(i) # {}
      /\ \A b \in BranchesOf(i) :
           starts[i + 1] + code[b].distance = starts[Position(stream, stream[i].op1)]

\* assembler_aarch64.cc:492: ASSERT(signed_offset <= 0x3ffff && signed_offset
\* >= -0x3ffff, "check"), of every jump that is patched.
DistancesFit ==
  target = "aarch64" /\ Patched =>
    \A i \in DOMAIN stream : IsJump(stream[i]) =>
      LET distance == (starts[Position(stream, stream[i].op1)] - starts[i + 1]) \div 4 + 1
      IN  distance < BranchSize \div 2 /\ distance > -(BranchSize \div 2)
===============================================================================

------------------------------- MODULE Compiled -------------------------------
(***************************************************************************)
(* main of src/src/bf.cc without -i: the program is parsed and optimized   *)
(* as in BfCc, compiled for one of the two architectures, and the code is  *)
(* called on the heap.                                                     *)
(***************************************************************************)
EXTENDS BfCc, Code

CONSTANTS PageSize, Reserved, MaxPiece, Behind,  \* see CodeArea
          HeapBase,  \* see Machine
          Targets    \* the architectures considered

ASSUME CompiledAssumption ==
  /\ PageSize \in Nat /\ MaxPiece \in Nat /\ MaxPiece < PageSize
  /\ Reserved \in Nat \ {0} /\ Behind \subseteq {"unmapped", "foreign"}
  /\ Targets \subseteq {"x86-64", "aarch64"}

VARIABLES target, phase, translated, jumps, labels, starts, code,  \* Compiler
          size, allocated, err, prot, area,                       \* CodeArea
          ip, regs, slots, flag,                                  \* Machine
          shown  \* what the code of an unoptimized program has done so far,
                 \* between two operations; only looked at by the properties

compilerVars == <<target, phase, translated, jumps, labels, starts, code,
                  size, allocated, err, prot, area>>
machineVars == <<ip, regs, slots, flag, shown>>
compiledVars == <<vars, compilerVars, machineVars>>

Compiler == INSTANCE Compiler
Machine  == INSTANCE Machine
Shown    == INSTANCE Brainfuck WITH commands <- Commands, machine <- shown

CompiledInit ==
  /\ Init /\ target \in Targets
  /\ Compiler!Idle /\ Machine!Off
  /\ shown = machine

ParseAndOptimize == (Parse \/ Optimize) /\ UNCHANGED <<compilerVars, machineVars>>

Compile ==
  /\ parsed = "ok" /\ Optimizer!Finished
  /\ Compiler!Compile
  /\ UNCHANGED <<vars, machineVars>>

CellRegister == IF target = "x86-64" THEN "rdx" ELSE "x19"

\* The place in the text of an unoptimized program where a place in the
\* code is: labels are no commands.
TextAt(place) ==
  1 + Cardinality({i \in DOMAIN stream : stream[i].code # "LABEL" /\ starts[i] < place})

Show ==
  shown' =
    IF level # 0 \/ status = "idle" THEN shown
    ELSE IF status' = "stray" THEN [shown EXCEPT !.status = "trapped"]
    ELSE IF status' # "running" THEN [shown EXCEPT !.status = status']
    ELSE IF ip' \in ToSet(starts)
         THEN [at |-> TextAt(ip'), cells |-> cells', dp |-> regs'[CellRegister] - HeapBase,
               input |-> input', output |-> output', status |-> "running"]
    ELSE shown

RunCode ==
  /\ phase = "compiled"
  /\ Machine!RunCode /\ Show
  /\ UNCHANGED <<parserVars, stream, optimizerVars, pc, expected, compilerVars>>

CompiledEnded == Ended \/ Compiler!Failed

CompiledNext ==
  \/ ParseAndOptimize \/ Compile \/ RunCode
  \/ CompiledEnded /\ UNCHANGED compiledVars

CompiledSpec == CompiledInit /\ [][CompiledNext]_compiledVars /\ WF_compiledVars(CompiledNext)

-----------------------------------------------------------------------------
(* Properties; MeansTheSame is that of BfCc *)

\* Wherever the code of a jump and that of its label came to lie, the branch
\* leads from the one to the other.
JumpsLand == Compiler!JumpsLand

\* Compiled code returns with the registers its caller relies on, the stack
\* pointer among them, as the calling convention demands.
ReturnsAsCalled ==
  status = "halted" =>
    \A r \in DOMAIN regs \ (Machine!Volatile \cup {"x30"}) : regs[r] = Machine!CallerRegs[r]

\* Unoptimized, the code executes the text command by command.
CodeImplementsSource == Shown!Init /\ [][level = 0 => Shown!Step]_shown

\* A program whose text halts also halts compiled, unless there was no memory
\* for its code.
HaltsOrFails == expected.status = "halted" => <>(status = "halted" \/ Compiler!Failed)

\* assembler_x86_64.cc:35, 66-67 and 80: "push ALL registers", "allocate some
\* space on the stack for saving rdx across calls", "pop all saved registers":
\* every register comes back as the code was called with it, the argument
\* included, the stack pointer above the address it returned to.
AllRegistersRestored ==
  status = "halted" =>
    regs = [Machine!Called(HeapBase).regs EXCEPT ![Machine!SP] = Machine!StackBase]

\* assembler_aarch64.cc:492: ASSERT(signed_offset <= 0x3ffff && signed_offset
\* >= -0x3ffff, "check"), of every jump that is patched.
DistancesFit == Compiler!DistancesFit
===============================================================================

-------------------------------- MODULE Machine --------------------------------
(***************************************************************************)
(* Compiled code at work: Compiler::RunCode of src/src/compiler.h calls    *)
(* it, and a processor executes it, one instruction per step, with bf_read *)
(* and bf_write of src/src/platform_linux.cc as single steps.  What an     *)
(* instruction does is the processor's; which ones there are is what the   *)
(* templates of X86_64 and AArch64 use.                                    *)
(***************************************************************************)
EXTENDS Heap, Code

CONSTANTS PageSize,  \* see CodeArea
          HeapBase   \* the address of the first cell

VARIABLES target,  \* what the program was built for
          code, prot,  \* the code by offset, and the protection of its pages
          ip,      \* the offset of the instruction to execute
          regs,    \* the registers; the stack pointer counts slots of 8 bytes
          slots,   \* what was pushed onto the stack, by slot
          flag     \* the outcome of the last comparison, or "unknown"

X86 == INSTANCE X86_64
ARM == INSTANCE AArch64

machineVars == <<target, code, prot, ip, regs, slots, flag, eof, heap, world, status>>

OnX86     == target = "x86-64"
Registers == IF OnX86 THEN X86!Registers ELSE ARM!Registers
Arguments == IF OnX86 THEN X86!Arguments ELSE ARM!Arguments
Volatile  == IF OnX86 THEN X86!Volatile ELSE ARM!Volatile
SP        == IF OnX86 THEN "rsp" ELSE "sp"

StackBase == Word \div 2  \* the stack pointer of the caller
ReturnTo  == 0            \* where the code returns to: no offset of it
Junk      == Word - 9     \* what a register holds that someone else used

\* Values of the caller: all different, and none an address the code uses.
CallerRegs ==
  [r \in ToSet(Registers) |->
     IF r = SP THEN StackBase ELSE StackBase + Index(Registers, r)]

\* Registers and slots once code was called with one argument.
Called(argument) ==
  [regs |-> IF OnX86 THEN [CallerRegs EXCEPT ![Arguments[1]] = argument, ![SP] = @ - 1]
            ELSE [CallerRegs EXCEPT ![Arguments[1]] = argument, !["x30"] = ReturnTo],
   slots |-> IF OnX86 THEN [k \in {StackBase - 1} |-> ReturnTo] ELSE <<>>]

Off == ip = 0 /\ regs = <<>> /\ slots = <<>> /\ flag = "unknown"

\* RunCode: the entry is where the area's code starts.
Start ==
  /\ status = "idle" /\ status' = "running"
  /\ ip' = PageSize
  /\ \E called \in {Called(HeapBase)} : regs' = called.regs /\ slots' = called.slots
  /\ UNCHANGED <<target, code, prot, flag, eof, heap, world>>

-----------------------------------------------------------------------------
(* Instructions *)

\* All bytes of an instruction are on pages that can be executed.
Executable(at) ==
  /\ at \in DOMAIN code
  /\ \A p \in (at \div PageSize)..((at + code[at].len - 1) \div PageSize) : prot[p] = "rx"

Address(i) == (regs[i.base] + i.off) % Word
CellOf(i)  == Address(i) - HeapBase

Touched(i) ==
  IF i.do \in {"addbyte", "storeimm", "addlow", "loadlow", "cmpbyte", "load", "store"}
  THEN {CellOf(i)}
  ELSE IF i.do = "call" THEN {regs[Arguments[1]] - HeapBase} ELSE {}

\* The value of the low byte of a register, and a word with another one.
Low(word) == word % ByteSize
WithLow(word, byte) == word - Low(word) + byte

Product(i) == regs["rax"] * regs[i.by]

RegsAfter(i) ==
  LET Put(value) == [regs EXCEPT ![i.to] = value % Word]
  IN  CASE i.do = "move"    -> Put(regs[i.from])
        [] i.do = "set"     -> Put(i.value)
        [] i.do = "movk"    -> Put(regs[i.to] + (i.value - ARM!Half(regs[i.to], i.hw)) * Halfword^i.hw)
        [] i.do = "addimm"  -> Put(regs[i.from] + i.value)
        [] i.do = "add"     -> Put(regs[i.left] + i.sign * regs[i.right])
        [] i.do = "madd"    -> Put(regs[i.acc] + i.sign * regs[i.left] * regs[i.right])
        [] i.do = "mul"     -> [regs EXCEPT !["rax"] = Product(i) % Word, !["rdx"] = Product(i) \div Word]
        [] i.do = "load"    -> Put(cells[CellOf(i)])
        [] i.do = "loadlow" -> Put(WithLow(regs[i.to], cells[CellOf(i)]))
        [] i.do = "restore" -> Put(slots[regs[i.base]])
        [] OTHER -> regs

CellsAfter(i) ==
  LET Put(value) == [cells EXCEPT ![CellOf(i)] = value % ByteSize]
  IN  CASE i.do = "addbyte"  -> Put(cells[CellOf(i)] + i.value)
        [] i.do = "addlow"   -> Put(cells[CellOf(i)] + i.sign * Low(regs[i.from]))
        [] i.do = "storeimm" -> Put(i.value)
        [] i.do = "store"    -> Put(Low(regs[i.from]))
        [] OTHER -> cells

FlagAfter(i) ==
  LET Is(value) == IF value = i.value THEN "zero" ELSE "nonzero"
  IN  CASE i.do = "cmpbyte" -> Is(cells[CellOf(i)])
        [] i.do = "cmp"     -> Is(regs[i.reg])
        [] OnX86 /\ i.do \in {"addbyte", "addlow", "addimm", "mul"} -> "unknown"
        [] OTHER -> flag

Fixed == UNCHANGED <<target, code, prot, eof>>
GoOn(i) == ip' = ip + i.len /\ UNCHANGED status

Compute(i) ==
  /\ i.do \notin {"push", "pop", "branch", "call", "ret", "brk"}
  /\ regs' = RegsAfter(i) /\ cells' = CellsAfter(i) /\ flag' = FlagAfter(i)
  /\ slots' = IF i.do = "save" THEN [slots EXCEPT ![regs[i.base]] = regs[i.from]] ELSE slots
  /\ GoOn(i) /\ UNCHANGED <<dp, world>>

PushAll(i) ==
  /\ i.do = "push"
  /\ slots' = Over([k \in {regs[SP] - n : n \in DOMAIN i.regs} |-> regs[i.regs[regs[SP] - k]]], slots)
  /\ regs' = [regs EXCEPT ![SP] = @ - Len(i.regs)]
  /\ GoOn(i) /\ UNCHANGED <<flag, heap, world>>

\* A stack pointer that is popped replaces the one that was moved.
PopAll(i) ==
  /\ i.do = "pop"
  /\ LET Popped(r) == slots[regs[SP] + Index(i.regs, r) - 1]
     IN  regs' = Over([r \in ToSet(i.regs) |-> Popped(r)], [regs EXCEPT ![SP] = @ + Len(i.regs)])
  /\ GoOn(i) /\ UNCHANGED <<slots, flag, heap, world>>

BranchTo(i) ==
  /\ i.do = "branch"
  /\ \E taken \in IF i.when = "always" THEN {TRUE}
                  ELSE IF flag = "unknown" THEN BOOLEAN ELSE {flag = i.when} :
       ip' = ip + i.len + (IF taken THEN i.distance ELSE 0)
  /\ UNCHANGED <<regs, slots, flag, heap, world, status>>

\* The called function has used the registers that are its own to use.
AfterCall(i) ==
  /\ regs' = [r \in DOMAIN regs |->
                IF r \in Volatile THEN Junk ELSE IF r = "x30" THEN ip + i.len ELSE regs[r]]
  /\ flag' = "unknown"
  /\ GoOn(i) /\ UNCHANGED <<slots, dp>>

Buffer == regs[Arguments[1]] - HeapBase

CallRead(i) ==
  /\ i.do = "call" /\ regs[i.fn] = ReadAddr
  /\ cells' = [cells EXCEPT ![Buffer] = ByteRead(EOFModes[regs[Arguments[2]]], @)]
  /\ input' = InputRead
  /\ AfterCall(i) /\ UNCHANGED output

CallWrite(i) ==
  /\ i.do = "call" /\ regs[i.fn] = WriteAddr
  /\ Len(output) < MaxOutput
  /\ output' = Append(output, cells[Buffer])
  /\ AfterCall(i) /\ UNCHANGED <<cells, input>>

\* The bound on the output, as in Interpreter.
CutOff(i) ==
  /\ i.do = "call" /\ regs[i.fn] = WriteAddr
  /\ Len(output) = MaxOutput
  /\ status' = "cut" /\ UNCHANGED <<ip, regs, slots, flag, heap, world>>

Return(i) ==
  /\ i.do = "ret"
  /\ ip' = (IF OnX86 THEN slots[regs[SP]] ELSE regs["x30"])
  /\ regs' = (IF OnX86 THEN [regs EXCEPT ![SP] = @ + 1] ELSE regs)
  /\ status' = IF ip' = ReturnTo THEN "halted" ELSE status
  /\ UNCHANGED <<slots, flag, heap, world>>

\* The program touches a cell that is not there.
OffHeap(i) ==
  /\ status' \in Outcomes(Touched(i))
  /\ UNCHANGED <<ip, regs, slots, flag, heap, world>>

\* The program executes what is no code.
OffCode ==
  /\ ~Executable(ip)
  /\ status' \in {"trapped", "stray"}
  /\ UNCHANGED <<ip, regs, slots, flag, heap, world>>

Execute ==
  /\ status = "running" /\ Fixed
  /\ \/ OffCode
     \/ /\ Executable(ip)
        /\ \E i \in {code[ip]} :
             IF Touched(i) \subseteq DOMAIN cells
             THEN \/ Compute(i) \/ PushAll(i) \/ PopAll(i) \/ BranchTo(i) \/ Return(i)
                  \/ CallRead(i) \/ CallWrite(i) \/ CutOff(i)
             ELSE OffHeap(i)

RunCode == Start \/ Execute
================================================================================

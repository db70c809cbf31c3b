-------------------------------- MODULE Heap --------------------------------
(***************************************************************************)
(* The heap of a running program (Heap of src/src/mem.h and mem.cc) and    *)
(* its standard input and output (bf_read and bf_write of                  *)
(* src/src/platform_linux.cc), as the interpreter and compiled code use    *)
(* them.                                                                   *)
(***************************************************************************)
EXTENDS Instr

CONSTANTS HeapSize,   \* the cells of the heap
          GuardCells, \* the cells of the guard pages on each side: mem.h defines
                      \* BF_HEAP_GUARD_PAGES as 0 and no build of the repository
                      \* defines it otherwise
          MaxOutput   \* runs are followed up to this many bytes of output

VARIABLES eof,            \* the EOF mode, never changed
          cells, dp,      \* the heap and its data pointer
          input, output,  \* what is left of stdin, what went to stdout
          status          \* "idle", "running", "halted", "trapped", "stray" or "cut"

world == <<input, output>>
heap  == <<cells, dp>>

\* A fresh heap and nothing written yet.
Idle ==
  /\ status = "idle"
  /\ cells = [c \in 0..(HeapSize - 1) |-> 0] /\ dp = 0
  /\ output = <<>>

\* What becomes of a program that touches cells outside the heap: a guard page
\* kills it.  Behind the guard pages is whatever the process has mapped there:
\* the program is killed, or it goes astray in memory that is not its own.
Outcomes(touched) ==
  IF touched \subseteq -GuardCells..(HeapSize + GuardCells - 1)
  THEN {"trapped"} ELSE {"trapped", "stray"}

\* The program goes on no further.
Ended == status \in {"halted", "trapped", "stray", "cut"}

\* bf_read: what ends up in the buffer, which held the given byte before.
ByteRead(mode, buffer) ==
  IF input # <<>> THEN Head(input)
  ELSE CASE mode = "keep" -> buffer
         [] mode = "0"    -> 0
         [] mode = "-1"   -> ByteSize - 1

\* What is left of stdin after a read.
InputRead == IF input = <<>> THEN input ELSE Tail(input)
=============================================================================

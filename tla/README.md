# A verification project for bf-cc

bf-cc translates a brainfuck program into a small intermediate representation
(IR), optimizes it, and either interprets it or compiles it to machine code.
This directory holds TLA+ modules that model the program, TLC configurations
that check them on small instances, and theorems the TLA+ proof system (TLAPS)
checks for instances of any size. `PROJECT.json` lists components, runs, the
source lines of every definition, mutants, hazards, findings and theorems.

Paths below are relative to the repository; the implementation is in `src/`.

## The system

The program is one sequential process. `main` (`src/bf.cc:152-188`) reads the
file, parses it into an operation stream, runs the optimizer over the stream,
allocates a heap, and hands stream and heap to the interpreter or the compiler.
Nothing runs concurrently and nothing is persisted; what is hard here is a
linked list rewritten while iterators stand in it, raw addresses used as jump
targets, six passes each relying on what the others leave, byte and pointer
arithmetic at its boundaries, machine code whose jumps are patched and whose
encodings differ in length, registers that calls overwrite, loops that must end,
resources at their limit, and a file that changes while it is read.

| Component | State | Operations | Used by / uses | Correct when |
|---|---|---|---|---|
| Operation stream (`instr.h`, `instr.cc`) | `head`, `tail`; per operation `next`, `prev`, op code, two operands | `Append`, `Prepend`, `InsertBefore`, `Unlink`, `Delete`, `Swap`, iterators, `Verify`, `LookingAt` | shared by all below | always a well-linked list that behaves like a sequence; no iterator on a freed operation |
| Parser (`parse.cc`) | stream so far, `jump_stack` | one character at a time | makes the stream | exactly the matching brackets are joined; unbalanced texts are refused; it ends |
| Optimizer (`optimize.cc`, `opt_*.cc`) | the stream, the iterators of a pass, a held-back offset | six passes, selected by level | rewrites the stream | the meaning is kept, `Verify` holds, jumps and labels stay pairs, every pass ends |
| Interpreter (`interp.cc`) | iterator, heap, stdin, stdout | one case per op code | reads the stream | does what the text means |
| Heap (`mem.h`, `mem.cc`) | cells, data pointer | cell and pointer arithmetic, `Create`, destructor | interpreter, compiled code | it has the cells asked for; a program that stays inside its text's cells never leaves it |
| Standard I/O (`platform_linux.cc`) | stdin | `bf_read` with an EOF mode, `bf_write` | interpreter, compiled code | the EOF mode decides at the end of stdin |
| Code area (`mem.h`, `mem.cc`) | size, allocated, reserved, error flag, protection | `EmitData`, `PatchData`, `MakeExecutable`, destructor | compiler | code is written inside, then only executed; running out is reported |
| Compiler (`compiler.cc`) | jump list, label list | a template per operation, patching, sealing | reads the stream, fills the code area | every jump goes to its label; errors are reported, not run into |
| Code templates (`assembler_x86_64.cc`, `assembler_aarch64.cc`) | registers by convention | `Emit...`, `Patch...` | compiler | compiled code does what the text means and returns as it was called |
| File reading (`platform_linux.cc:45-67`) | size, bytes read, the string | `read` loop | `main` | the whole file or an error, and an end |
| Command line, dump flags (`bf.cc`, `debug.cc`) | options, flags | `parse_opts`, `IsDumpEnabled` | `main` | each option has its documented effect |
| Errors (`error.h`, `error.cc`) | code, errno | message and exit | all | - |
| Dumps, Windows platform, build, tests | | | | - |

## The modules

| Module | Models |
|---|---|
| `OpSequence` | what the operation stream promises: a sequence of distinct operations and an iterator in it |
| `OperationStream` | the doubly linked list: every case of insertion and removal, `Swap`, the iterator |
| `OperationStreamProofs` | theorems about the list |
| `Instr` | operations as values: a stream is the sequence of its operations, each with its address, code and operands |
| `Text` | program texts and matching brackets, by depth; used by properties only |
| `Parser` | `Parse`, one character per step |
| `Pass` | what the passes share: stream, iterator, moving on |
| `OptCommentLoop`, `OptFusionOp`, `OptPeep`, `OptDelayPtr`, `OptMultiplyLoop`, `OptDoubleGuard` | one pass each, one round of its main loop per step |
| `Optimizer` | the pipeline; the three loops of the peephole pass are stages of their own |
| `Heap` | cells, data pointer, `bf_read` and `bf_write`, and what is outside the heap |
| `Interpreter` | `Interpreter::Run` on the heap, one operation per step |
| `Brainfuck` | the abstract specification: the text executed command by command; none of it is in the code |
| `BfCc` | `main` with `-i`: parser, then optimizer, then interpreter, with the properties of the whole |
| `CodeArea` | the reservation code is emitted into, page by page |
| `Code` | machine code as data: instructions with length and effect, templates laid out in memory |
| `X86_64`, `AArch64` | the templates of the two assemblers, with the encodings they choose |
| `Compiler` | `Compiler::Compile`, one operation or patched jump per step, into the `CodeArea` it extends |
| `Machine` | `RunCode` and a processor: one instruction per step, a stack, the calling convention |
| `Compiled` | `main` without `-i`: what `BfCc` has, then `Compiler`, then `Machine` |
| `CommandLine` | `parse_opts`, one argument per step, and `IsDumpEnabled` |
| `SourceFile` | `ReadWholeFile`, one `read` per step, and others who change the file |
| `Driver` | `main` as the order of its stages, with every error and dump |
| `CompilerProofs` | theorems about `CodeArea` and `Compiler` |
| `ParserProofs`, `OptimizerProofs`, `BfCcProofs`, `CompiledProofs`, `DriverProofs` | theorems about `Parser`, `Optimizer`, `BfCc`, `Compiled` and `Driver` |
| `StreamFacts` | facts about operation streams, and about numbers, that these cite |
| `MCOperationStream`, `MCParser`, `MCBfCc`, `MCCodeArea`, `MCCompiled`, `MCDriver` | instances for TLC |

How they fit together: `OperationStream` is about links and has operations
without content. Its theorem `ListImplementsSequence` says that clients may
think of the list as a sequence; `Instr` is that sequence with content, and
parser, passes and interpreter are written over it. `BfCc` composes the three by
INSTANCE over one variable `stream`. Addresses stay in the model: jumps and
labels refer to each other by address, and an address freed by a deletion is
handed out again by the next insertion (`Instr!Fresh` takes the lowest free
address, so that reuse happens as early as it can).

A step of a pass is a whole round of its main loop, with everything it deletes,
inserts and overwrites. No round can be observed half-way, since the program is
sequential; the hazards of deletions inside a round (`Delete(iter++)`) are those
`OperationStream` is about. What iterators a round leaves behind for the next is
in `iter`, computed in the stream before or after the round as the code does.

Nothing checks the data pointer, and `GUARD_PAGES` is 0 in every build of the
repository (`mem.h:7-11`): a cell outside the heap is whatever the process has
mapped there. The model lets such a program be killed ("trapped") or go astray
("stray") at the access; pointer moves alone do neither. `GuardCells` gives a
heap guard pages all the same: an access that stays within them always kills. A
read at the end of stdin follows `bf_read` and the buffer it is given: a local
variable of the interpreter, the cell itself in compiled code. Where the program
has undefined behaviour (a `]` too many) the parser's status becomes
"undefined", and nothing is claimed about what follows.

**Compiled code.** An instruction is a record of what the processor does and how
many bytes it has; `Placed` lays a template out, so that distances, page
boundaries and the two encodings of x86-64 are real, while opcodes and register
numbers are not spelled bit by bit. A field too narrow for its value is modelled
by the value read back from it (`Narrow`, `% ShortImm`, `Half`). `Machine` runs
the code: the registers of the caller are all different, a called function
overwrites every register the convention lets it (`Volatile`), flags a compare
did not set are unknown, and code is executed only on pages that are executable.
A template is emitted in one step and in one piece, where the assemblers make
several calls; these differ only in what is left in the area once it is full,
and code that did not fit is never executed. In `compiled` pages are a little
larger than the longest template, which holds in the code as well.

**From the command line to the exit.** `Driver` abstracts from what the program
means; parsing, compiling and running succeed or fail. An argument is a record
of its option and value, a dump flag the name it starts with and what follows
it. A byte of the file is its position, so that a byte put in the wrong place of
the string is seen. Everything up to the exit of `main` is in it, with the file
changing at any moment between two reads.

## What is checked

**operation_stream** (`MCOperationStream.cfg`): five addresses, every history of
operations. `Linked`: links agree in both directions, ends are ends, none leads
to a freed node. `NoDanglingIterator`: an iterator used like the passes use
theirs stays on a live node. `ImplementsSequence`: each operation on the links
is that operation on the sequence, `Swap` of neighbours included. With five
nodes there are first, last and two kinds of inner nodes, adjacent and distant
pairs for `Swap`, and addresses to reuse. `Swap` belongs to the class although
nothing in the repository calls it.

**parser** (`MCParser.cfg`): all texts of up to seven characters over both
brackets, a command and a comment: all nestings of three loops, all ways of
being unbalanced. `JumpsFollowBrackets` holds at every moment of the parse, not
only in the end: matched brackets are joined both ways and the stack holds the
open ones. Matching is defined by depth in `Text`, independently of the stack.
`Terminates` assumes weak fairness.

**bfcc** (`MCBfCc.cfg`): whole runs at the four levels. The texts are all
balanced ones of up to three characters over the eight commands, and those made
of three phrases out of thirteen, started in the middle of the heap on a cell read
from stdin. The phrases are what the passes look for: runs that wrap, `[-]`, a
loop adding an even amount, multiplication loops with and without wrap, open and
closed brackets to nest them in. `MeansTheSame` compares the end of the run with
`Brainfuck!Outcome`, the text executed directly: same output, same cells, same
input consumed, no halt where the text does not halt. `HaltsIfTextHalts` is the
other direction. At level 0 the comparison is step by step (`ImplementsSource`,
a refinement with the text position computed from the stream). `JumpsJoined`,
`VerifyHolds` and `IteratorsLive` hold between any two rounds of any pass.

Bounds: `ByteSize` 4 instead of 256 (cells and amounts wrap within a phrase;
parity and the modulus are what the passes depend on); `HeapSize` 3 (a pointer
leaves the heap on either side); `MaxOutput` 3 bytes, after which a run is not
followed; `Fuel` 60 commands for the meaning of a text, enough for every text
considered that halts - `MeansTheSame` would fail on a text that needs more.
Texts with a run of `ByteSize` or more moves are left out of this run (operator
`ShortMoves`), because the code treats them wrongly; the run `far_move` is about
them. The EOF mode `keep` is the subject of `eof_keep`.

What a text *means* where it leaves the heap: the optimizer may drop, delay or
merge accesses, so a text that is killed may, optimized, be killed later or not
at all. `MeansTheSame` demands that it is killed only if the text is, and after
all output the text makes before that. Where the data pointer ends is not
compared: moves held back to the end of the program are dropped.

**code_area** (`MCCodeArea.cfg`): pieces of 1 to 7 bytes into five pages of 8,
in every order, until after the error; what comes behind the reservation is
nothing or another mapping. `WrittenIsBacked`: every page with code in it was
made accessible first. `SealedForGood`: what is executed is all there, within
the reservation, and not writable. `ErrMeansFull`: no error while there is
room. Pieces are shorter than a page, as in the code (at most the 34 bytes of the
x86-64 entry), and every position of an end of code relative to a page is reached.

**compiled** (`MCCompiled.cfg`): as `bfcc`, through the compiler, for both
architectures, at levels 0 and 3. The texts are all balanced ones of up to two
characters, the cat program of the README in every EOF mode, and texts of three
phrases that the templates treat differently: moves and offsets over the limit
of the short encodings in both directions, products with amounts 1 and more,
searches, and loops around all of it. `MeansTheSame` is the property of `bfcc`,
now of machine code. `CodeImplementsSource` compares it with the text step by
step at level 0, between any two operations. `JumpsLand`: after patching, every
branch goes to where the code of its label starts. `ReturnsAsCalled`: the
registers a caller relies on, stack pointer included, come back.
`HaltsOrFails`: a text that halts also halts compiled, unless a page could not
be had. Scaled down: `ByteSize` 4 puts the limit of short displacements at 2
instead of 128, `ShortImm` 4 that of 12-bit immediates; `Halfword` 8 makes
addresses of four halfwords, with zero and non-zero ones among them; heap and
functions have the addresses in the configuration. `BranchSize` is that of the
code. `GuardCells` 1 and `HeapSize` 6 have accesses on, in and beyond a guard
page.

**driver** (`MCDriver.cfg`): command lines of up to three out of 21 arguments,
files of up to three bytes, heaps up to 31 cells in pages of 4. `LastOneCounts`:
after any mixture of options the settings are those of the last argument of each
kind. `ContentIsFile` and `TypeOK`: however reads divide the file, and whatever
is appended meanwhile, the string has its bytes in their places, a '\0' behind
them, and nothing is written past its end. `DoesWhatIsAsked` compares what was
done with what the command line asks for, computed from it directly: success
means all of it and nothing else, an error that no part of the program has run.
`HeapHolds`: no cell too few. `GetsThere`: `main` gets to the program or to an
exit unless the file was truncated. Three arguments are enough for an option
repeated around another and for two dump flags in either order with a program.

Six runs show disagreements between the code and what it says of itself:

* **eof_keep**: with the default EOF mode the interpreter stores 0 at the end of
  stdin (`interp.cc:44-46`); the README says the cell is kept and that `,[.,]`
  loops forever.
* **far_move**: `opt_fusion_op.cc:39-40` reduces pointer moves modulo 256 and
  leaves `INCR_PTR 0`, which `Verify` refuses (`instr.cc:188`); the program then
  works on the wrong cell. Run with the byte size of the code.
* **unmatched**: `parse.cc:42-45` pops an empty stack for a `]` too many, where
  the program has an error for unmatched jumps (`error.cc:32`).
* **code_area_end**: when the reservation is used up `mem.cc:115-121` sets the
  error but goes on to protect the page behind it, counts it and writes into it;
  if that page cannot be protected the process ends with another error than the
  one `compiler.cc:19-21` prepares.
* **branch_range**: the distance of a jump on AArch64 is cut to 19 bits
  (`assembler_aarch64.cc:267-279`); only debug builds check it (line 492), and the
  checks in `BEQ` and `BNE` join both sides with `||`. The run scales the reach
  down to 7 instructions; in the code a loop needs 1 MiB of code to exceed it.
* **saved_registers**: `EmitEntry` sets rbp to the slot of the saved rax and
  reserves 80 bytes below it; `EmitRead` and `EmitWrite` then save rdx at `[rbp]`
  itself, and the exit pops it into rax. Comments at
  `assembler_x86_64.cc:35, 66-67, 80` say otherwise. `AllRegistersRestored` compares
  with the registers as the code was called, the argument in rdi included: a
  program that reads loses rax, one that neither reads nor writes loses nothing.
  Nothing depends on it: rax is the caller's to lose (`ReturnsAsCalled`).

Each property of a passing run has a mutant in `PROJECT.json`: a definition of
the model changed the way a plausible bug in the code would, for which TLC finds
the property violated. Mutated definitions stand before the right ones and are
marked `@mutant`.

**Fairness.** `WF(Next)` in `Parser`, `BfCc` and `Compiled`: the process is
sequential and is never kept from its next step, so it takes one as long as
there is one. In `Driver` only `main` is fair: neither the program it runs, nor
those who change the file, nor an error of `read` has to do anything.
`OperationStream` and `CodeArea` state no liveness and need none.

**Deadlock** is checked except in the runs of the parser, the code area and the
driver, which really end. `BfCc` and `Compiled` stutter only when the program has
ended, so that a pass or a compilation that stopped half-way would be reported.

## What is proved

The theorems about `OperationStream` hold for any set `Op` of addresses, finite
or not, and any `Null` outside it (`NullAssumption`).

* `TypeCorrect`: `Spec => []TypeOK`.
* `AlwaysLinked`: `Spec => []Linked`. `Linked` is not inductive: it looks at
  neighbours only, and a ring besides the list would satisfy it. The inductive
  invariant `IInv` says that some sequence `o` without repetition spells the
  list: the live nodes are its elements, `head` and `tail` its ends, and the
  links follow its order (`Spells(o)`). Each operation is shown to turn a list
  spelled by `o` into one spelled by the sequence with the operation inserted,
  removed or exchanged; a lemma per case of the code.
* `IteratorSafe`: `Spec => []NoDanglingIterator`, from the same invariant: a
  neighbour of a live node is live, and `Delete(iter++)` moves on before it
  deletes.
* `ListImplementsSequence`: with a history variable that records the order, the
  list implements `OpSequence`: initial states map to initial states and each
  step to the step of the same name. TLC checks the same refinement with the
  order computed by following the links (`Traversal`), without the history
  variable.

The theorems about `CodeArea` hold for pages, reservations and pieces of any
size, as long as a piece is shorter than a page (`AreaAssumption`; the longest is
the x86-64 entry of 34 bytes), and whatever is behind the reservation. They are in
`CompilerProofs`, as `Compiler` extends `CodeArea` by what the compiler keeps.

* `AreaShape`: `Spec => [](TypeOK /\ Shape)`. None of the three properties is
  inductive: each needs to know which pages are accessible and where the code
  ends in them. `Shape` says so: the accessible pages are the first ones with the
  protection of the state of the area, one more than the reservation exactly
  after an error, and the code ends in the last of them (or has not begun).
* `AreaTypeCorrect`, `AllWrittenIsBacked`, `SealingIsForGood`, `ErrorsAreFull`: the
  invariants of the run `code_area`, each from `Shape` with arithmetic of pages
  (`FilledPages`, `PagesGrow`).

The theorems about `Parser` hold for any set of texts (`ProgramsAssumption`:
sequences of characters, of any length and nesting). `JumpsFollowBrackets` says
nothing of which characters the operations came from. The invariant `Progress`
does: an operation stands where `Place` says, which counts the commands and
brackets before its character (`InPlace`); no bracket is closed that was not open
(`Nested`); brackets that match by depth are joined by address both ways
(`MatchesJoined`); and the stack holds the open ones, innermost last, jump and
label each (`StackIsOpen`). A `]` matches the last open bracket because depth
changes by one per bracket, so that nothing in between can have the depth of
the two (`PairsApart`, `PairsAcross`).

* `ParserTypeCorrect`, `ParserAcceptsBalanced`, `ParserJumpsFollowBrackets`,
  `ParserWellJoined`: the safety properties of the run `parser`.
* `FinishedSound` (a lemma): a stream handed on is `Sound`: jumps and labels are
  joined in pairs and the pairs nest.
* `FinishedSpells` (a lemma): it also spells the text without its comments
  (`Spells`). Labels left out, the k-th operation is that of the k-th command, and
  the label of a jump stands behind the operation of the partner of its bracket;
  amounts are 1 and offsets 0 (`Simple`). The text without comments is given by
  counting: its k-th command is the character that brings the count to k. Counting
  in it agrees with counting in the text (`CountsKept`), and counting operations
  along the stream with both (`BeforePlace`). These are the only inductions the
  proofs need, over an interval and from the well-ordering of the numbers
  (`OneByOne` in `StreamFacts`); matching by depth carries over (`MatchKept`).

The theorem about `Optimizer`, `OptimizerKeeps`, holds for streams of any length and
any even number of cell values (`ByteSizeAssumption`). What a pass needs is that
a round leaves jumps and labels in pairs. Some rounds delete a whole range
(`CommentLoop` a loop with all that is in it, the peephole pass one and the
labels around it): what is left is joined only if no loop reaches across the end
of the range. So the invariant, `Kept`, has the loops nest (`LoopsNest`) besides
being joined, and the iterator on an operation of the stream. `StreamFacts`
reduces a round to a few ways of rewriting a stream (`Rewritten`: operations
are deleted, changed in what links nothing, or inserted as plain ones) and shows
that each keeps a stream sound whenever the deleted addresses are `JoinsClosed`,
that is, contain with a jump its label and with a label its jump
(`RewrittenSound`). The proofs about the passes then show which addresses a
round deletes. `FusionOp` is the one pass whose amounts need arithmetic.

The theorems about `BfCc` hold for any programs, levels, EOF modes and inputs
(`CasesAssumption`), any heap and guard pages and any bounds of the model
(`HeapAssumption`). The invariant `Whole` puts the parts in order: the parser's
invariant holds until it has accepted, the optimizer's from then on, the
interpreter starts when the optimizer has finished and changes no stream; the
cells are bytes all the time. TLC found it an invariant on a small instance
before it was proved. `BfCc` and the modules of proofs each have an instance of
`Parser` and of `Optimizer`; `SameParser`, `SameOptimizer` and `SameStreams` show by
expanding both that they say the same.

* `RunInOrder`: `Spec => []Whole`.
* `RunTypeCorrect`, `RunJumpsJoined`, `RunIteratorsLive`: three of the invariants of
  the run `bfcc`. The second is what every pass and the interpreter rely on when
  they follow the raw address in a jump, the third that none of them follows one
  into a deleted operation.
* `RunImplementsSource`: `Spec /\ eof # "keep" => ImplementsSource`, the refinement at
  level 0. Until the program has started the optimizer has nothing to do and the
  stream still spells the text (`Unoptimized`, inductive together with `Whole`).
  The interpreter's place in the text is the number of operations before it that
  are no labels, plus one (`CommandAt`); a label is a step of the stream but none of
  the text, a jump that is taken lands behind its label and so behind the
  partner of its bracket, which is the only one (`PartnerOnce`), and each other
  operation does to cells, pointer, input and output what `Brainfuck!After` says
  (`AdjustsAsCommand` to `JumpsAsCommand`, a lemma each). The mode "keep" is
  excluded because there the code does not do what README.md says (the run
  `eof_keep`).
* `RunMeansTheSame`: `MeansTheSame` at level 0, from that refinement. `Outcome` is the
  end of a sequence of configurations of the text, one for each command followed
  (`OutcomeIsReached`); if the text ends within it, the run of the program is always
  at one of them (`Meant`, which a step of the refinement moves on by one), and one
  that has stopped equals all that follow (`StoppedForGood`).

The theorems about compiled programs hold for streams and templates of any length, both
architectures, and any page, reservation and encoding limits the assumptions
allow (`CodeAssumption`: a halfword has at least 4 values and a branch of AArch64
at least 8, so that the templates' own jumps fit; `CompiledAssumption`: a page is
longer than a piece, and the architectures are the two). Which branches
there are follows from the code alone, where it lies from the history of the
compilation. So the invariant of the compiler, `Ready` in `CompilerProofs`, says that
the stream is sound and that the code is in `Layout`: the templates lie one behind the other
(`BoundsInOrder`), no two instructions overlap (`CodeInOrder`), what lies between
entry and exit leaves the stack alone and leads nowhere else (`BodyHarmless`),
the places noted of jumps and labels are theirs (`Noted`), and each translated
jump waits for its distance or has got it (`JumpsSlotted`). On AArch64 distances
count instructions, so all templates begin at multiples of 4 (`Aligned`). For each
template a lemma says what it is made of (`PlainTemplatesX86` to `TranslationFits`);
`StoredInOrder` is what emitting one does to the code, and `CompileKeepsReady` has a
step for each action of `Compile`. `CompiledProofs` puts this into the whole
program: the compiler waits for the end of the optimizer, whose stream `Whole`
says is sound, and the code is called when it is complete (`InTurn`). As in
`BfCcProofs` the instances are shown to agree (`SameTemplates`, `SameCompiler`,
`SameSoundness`).

* `CompiledReady`: `CompiledSpec => []Ready`, where `Ready` is `InTurn` and the
  invariant of the compiler.
* `CompiledJumpsLand`: `CompiledSpec => [](DistancesFit => JumpsLand)`: the branch of a
  jump is the only one that ends where its code ends (`OneBranch`), and its
  distance survives the encoding (`DistanceOf`), so the invariant implies it
  (`JumpsLandOnceReady`). Without `DistancesFit` it does not
  hold (the run `branch_range`).

The theorems about `Driver` hold for any arguments (`ArgumentsAssumption`), any
bounds on how many there are and on the length of the file, any page size and
any default heap (`DriverAssumption`); the file may change at any moment between
two reads. The invariant, again called `Progress`, says of each stage of `main` what has been
decided and done when it is reached, that the settings are those of the last
argument of each kind *so far*, and that the string holds the bytes read so far
in their places with room for those measured. `DoesWhatIsAsked` looks for the flag
given last on the command line, where the code prepends to a list and finds the
first: `FlagsCount` relates the two.

* `DriverTypeCorrect`, `DriverLastOneCounts`, `DriverContentIsFile`,
  `DriverDoesWhatIsAsked`, `DriverHeapHolds`: all safety properties of the run
  `driver`.

Only model-checked:

* All liveness (`Terminates`, `HaltsIfTextHalts`, `HaltsOrFails`, `GetsThere`), which
  the prover does not do.
* `MeansTheSame` above level 0 and of compiled code, and `CodeImplementsSource`. That
  a pass keeps the meaning of a program is an induction over its runs.
* `VerifyHolds`. For all texts it is false (the run `far_move`); for those with
  fewer than `ByteSize` moves in a row there is only the run `bfcc`.
* `ReturnsAsCalled` of compiled code.
* `Traversal` of the list, which follows the links recursively; the proof has a
  history variable instead.

## Not modelled

* `Dump`, `Dump2` and `Heap::Dump` produce text for a person. That a `heap` flag
  without a range prints nothing (`mem.cc:49-51`) is part of that.
* The Windows platform provides the functions of the Linux one, and its calling
  convention differs in which registers arguments come in.
* `OperationStream`'s `length` (never read), moving streams, `From`. Moving and
  destroying `Heap`: the program makes one and ends with it. Move assignment of
  `Heap` and `CodeArea` would leave both objects with the mapping; nothing uses it.
* Failure of `operator new` ends the process with a message.
* Debug assertions end the program; the properties state what they state. The
  checks of x86-64 templates that release builds make as well, of an offset that
  is not 0 (`assembler_x86_64.cc:138, 167`) and of sizes that fit 32 bits (lines 334
  to 384), are left out: no stream the passes make, and no area of 512 MiB, has
  them fail.
* `read` answering `EAGAIN`: the loop would add -1 to the bytes read
  (`platform_linux.cc:61-64`), but only pipes and the like answer it, which fail
  at `lseek` before. So does the program `-` when stdin is a pipe.
* When the file is truncated while it is read, `read` answers 0 and the loop
  never ends; `GetsThere` excludes it.
* The alignment of the stack in x86-64 code: return address, 16 registers and 80
  bytes are 27 slots, so that `bf_read` and `bf_write` are called with rsp not
  aligned to 16 as the System V convention demands. Whether that matters depends
  on the instructions of the C library.
* The bits of an encoding. `Encoder::NOP` (`assembler_aarch64.cc:64`) has its bytes
  in the order they have in memory, unlike the others, so that what is emitted is
  another instruction, which works on floating point registers only; the model
  has it do nothing.
* Wording. Usage and README disagree on `-e` (`README.md:20` has 1 for -1), the
  comment on r20 and r21 (`assembler_aarch64.cc:294-295`) has them swapped, the
  first page of the code area is "clean as guard page" (`mem.cc:86`) but
  `EmitData` makes it accessible like any other.

## Plan

1. *(done)* `OperationStream` with its proofs, `Parser`, the passes,
   `Interpreter`, `BfCc`.
2. *(done)* `CodeArea` with its proofs, `Compiler`, the templates of both
   architectures and `Machine`, composed in `Compiled`.
3. *(done)* `CommandLine`, `SourceFile` and `Driver`.
4. *(done)* Proofs about `Parser`, `Optimizer`, `BfCc` and `Driver`, that the
   unoptimized program implements the text, and that compiled jumps land.
5. Proofs not made: `ReturnsAsCalled`, from `Layout` and an invariant of the stack
   for each place of entry, body and exit; `CodeImplementsSource`; `VerifyHolds` for
   texts whose runs of moves stay below `ByteSize`.

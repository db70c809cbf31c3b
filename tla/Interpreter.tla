----------------------------- MODULE Interpreter -----------------------------
(***************************************************************************)
(* Interpreter::Run of src/src/interp.cc: one operation per step, one step *)
(* of the search per step for FIND_CELL.                                   *)
(***************************************************************************)
EXTENDS Heap

VARIABLES stream,  \* the operations, never changed
          pc       \* the address of the operation to execute, nil at the end

Start ==
  /\ status = "idle" /\ status' = "running"
  /\ pc' = Begin(stream)
  /\ UNCHANGED <<stream, eof, heap, world>>

\* The offsets of the cells an operation reads or writes.
Touched(op) ==
  CASE op.code \in CellCodes \cup IOCodes \cup {"SET_CELL"} -> {op.op2}
    [] op.code \in MulCodes -> {0, op.op2}
    [] op.code \in JumpCodes \cup FindCodes -> {0}
    [] OTHER -> {}

OnHeap(op) == \A off \in Touched(op) : dp + off \in DOMAIN cells

\* op is to be executed next, has one of the codes, and all its cells exist.
Executing(op, codes) == op.code \in codes /\ OnHeap(op)

Continue == pc' = Plus(stream, pc, 1) /\ UNCHANGED <<stream, eof, status>>

\* @mutant: cells do not wrap.
SetCellUnwrapped(off, value) == cells' = [cells EXCEPT ![dp + off] = value]

\* uint8_t arithmetic wraps.
SetCell(off, value) == cells' = [cells EXCEPT ![dp + off] = value % ByteSize]
GetCell(off) == cells[dp + off]

Down(op) == op.code \in {"DECR_CELL", "DMUL_CELL", "DECR_PTR", "FIND_CELL_LOW"}
Signed(op, amount) == IF Down(op) THEN -amount ELSE amount

AdjustCell(op) ==
  /\ Executing(op, CellCodes)
  /\ SetCell(op.op2, GetCell(op.op2) + Signed(op, op.op1))
  /\ Continue /\ UNCHANGED <<dp, world>>

MultiplyCell(op) ==
  /\ Executing(op, MulCodes)
  /\ SetCell(op.op2, GetCell(op.op2) + Signed(op, GetCell(0) * op.op1))
  /\ Continue /\ UNCHANGED <<dp, world>>

StoreCell(op) ==
  /\ Executing(op, {"SET_CELL"})
  /\ SetCell(op.op2, op.op1)
  /\ Continue /\ UNCHANGED <<dp, world>>

MovePtr(op) ==
  /\ Executing(op, PtrCodes)
  /\ dp' = dp + Signed(op, op.op1)
  /\ Continue /\ UNCHANGED <<cells, world>>

\* The interpreter reads into a local variable, initialized to zero.
Read(op) ==
  /\ Executing(op, {"READ"})
  /\ SetCell(op.op2, ByteRead(eof, 0))
  /\ input' = InputRead
  /\ Continue /\ UNCHANGED <<dp, output>>

Write(op) ==
  /\ Executing(op, {"WRITE"})
  /\ Len(output) < MaxOutput
  /\ output' = Append(output, GetCell(op.op2))
  /\ Continue /\ UNCHANGED <<heap, input>>

\* The bound on the output: what would come after it is not followed.
CutOff(op) ==
  /\ Executing(op, {"WRITE"})
  /\ Len(output) = MaxOutput
  /\ status' = "cut"
  /\ UNCHANGED <<stream, eof, pc, heap, world>>

\* @mutant: the backward jump is taken whatever the cell.
TakenAlways(op) == IF op.code = "JZ" THEN GetCell(0) = 0 ELSE TRUE

Taken(op) == IF op.code = "JZ" THEN GetCell(0) = 0 ELSE GetCell(0) # 0

\* @mutant: a jump lands on the operation behind the one after its label.
JumpTooFar(op) ==
  /\ Executing(op, JumpCodes)
  /\ pc' = IF Taken(op) THEN Plus(stream, op.op1, 2) ELSE Plus(stream, pc, 1)
  /\ UNCHANGED <<stream, eof, heap, world, status>>

\* JumpTo(label), and the ++iter that follows every operation.
Jump(op) ==
  /\ Executing(op, JumpCodes)
  /\ pc' = Plus(stream, IF Taken(op) THEN op.op1 ELSE pc, 1)
  /\ UNCHANGED <<stream, eof, heap, world, status>>

FindCell(op) ==
  /\ Executing(op, FindCodes)
  /\ \/ GetCell(0) # op.op1 /\ dp' = dp + Signed(op, op.op2)
        /\ UNCHANGED <<stream, eof, pc, status>>
     \/ GetCell(0) = op.op1 /\ Continue /\ UNCHANGED dp
  /\ UNCHANGED <<cells, world>>

Skip(op) == Executing(op, {"NOP", "LABEL"}) /\ Continue /\ UNCHANGED <<heap, world>>

Trap(op) ==
  /\ ~OnHeap(op)
  /\ status' \in Outcomes({dp + off : off \in Touched(op)})
  /\ UNCHANGED <<stream, eof, pc, heap, world>>

Halt ==
  /\ status = "running" /\ pc = nil
  /\ status' = "halted"
  /\ UNCHANGED <<stream, eof, pc, heap, world>>

Execute ==
  /\ status = "running" /\ pc # nil
  /\ \E op \in {OpAt(stream, pc)} :
       \/ AdjustCell(op) \/ MultiplyCell(op) \/ StoreCell(op) \/ MovePtr(op)
       \/ Read(op) \/ Write(op) \/ CutOff(op)
       \/ Jump(op) \/ FindCell(op) \/ Skip(op)
       \/ Trap(op)

Interpret == Start \/ Execute \/ Halt
===============================================================================

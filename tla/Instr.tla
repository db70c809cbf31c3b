-------------------------------- MODULE Instr --------------------------------
(***************************************************************************)
(* Operations and operation streams as values (src/src/instr.h, instr.cc). *)
(* A stream is the sequence of its operations in link order, which is what *)
(* OperationStream is shown to implement; each operation carries its       *)
(* address, the name under which jumps, labels and iterators refer to it.  *)
(* An address is free again once its operation was deleted.                *)
(***************************************************************************)
EXTENDS Integers, Sequences, FiniteSets, SequencesExt

CONSTANT ByteSize  \* 256 in the code: the values of a cell, the modulus of amounts

\* Cells wrap at a power of two; the passes rely on it being even.
ASSUME ByteSizeAssumption == ByteSize \in Nat \ {0} /\ ByteSize % 2 = 0

nil == 0  \* nullptr as a payload, and OperationStream::End()

CellCodes == {"INCR_CELL", "DECR_CELL"}
PtrCodes  == {"INCR_PTR", "DECR_PTR"}
MulCodes  == {"IMUL_CELL", "DMUL_CELL"}
FindCodes == {"FIND_CELL_LOW", "FIND_CELL_HIGH"}
IOCodes   == {"READ", "WRITE"}
JumpCodes == {"JZ", "JNZ"}
Codes == CellCodes \cup PtrCodes \cup MulCodes \cup FindCodes \cup IOCodes
           \cup JumpCodes \cup {"NOP", "SET_CELL", "LABEL"}

Operation(id, code, op1, op2) == [id |-> id, code |-> code, op1 |-> op1, op2 |-> op2]

\* EOFMode: the modes by number.
EOFModes == <<"keep", "0", "-1">>

IsJump(op) == op.code \in JumpCodes

Addresses(stream) == {stream[i].id : i \in DOMAIN stream}

\* What operator new returns: the lowest free address, so that addresses of
\* deleted operations come back as early as possible.
Fresh(stream) == Min((1..(Len(stream) + 1)) \ Addresses(stream))

Position(stream, id) == CHOOSE i \in DOMAIN stream : stream[i].id = id

OpAt(stream, id) == stream[Position(stream, id)]

AddressAt(stream, i) == IF i \in DOMAIN stream THEN stream[i].id ELSE nil

-----------------------------------------------------------------------------
(* Iterator *)

Begin(stream) == AddressAt(stream, 1)

\* iter + n and iter - n, which stay at End() once they are there.
Plus(stream, iter, n) ==
  IF iter = nil THEN nil ELSE AddressAt(stream, Position(stream, iter) + n)

\* The codes of the operations from the i-th on start with the pattern.
LookingAt(stream, i, pattern) ==
  \A k \in DOMAIN pattern :
    i + k - 1 \in DOMAIN stream /\ stream[i + k - 1].code = pattern[k]

-----------------------------------------------------------------------------
(* OperationStream *)

AppendOp(stream, code, op1, op2) ==
  Append(stream, Operation(Fresh(stream), code, op1, op2))

InsertBefore(stream, id, code, op1, op2) ==
  InsertAt(stream, Position(stream, id), Operation(Fresh(stream), code, op1, op2))

Delete(stream, id) == RemoveAt(stream, Position(stream, id))

\* The operations from one position to another are deleted.
DeleteRange(stream, from, to) ==
  SubSeq(stream, 1, from - 1) \o SubSeq(stream, to + 1, Len(stream))

SetOperand1(stream, id, value) == [stream EXCEPT ![Position(stream, id)].op1 = value]

\* What Verify guarantees after each pass of a debug build.
Verified(stream) ==
  \A i \in DOMAIN stream :
    LET op == stream[i]
    IN  /\ op.code \in CellCodes \cup PtrCodes \cup MulCodes => op.op1 > 0
        /\ op.code = "SET_CELL" => op.op1 \in 0..(ByteSize - 1)

-----------------------------------------------------------------------------
(* Notions the properties of the parser and the optimizer share *)

\* A jump and a label that point at each other, JZ forwards and JNZ backwards.
Joined(stream, jump, label) ==
  /\ IsJump(stream[jump]) /\ stream[label].code = "LABEL"
  /\ stream[jump].op1 = stream[label].id /\ stream[label].op1 = stream[jump].id
  /\ stream[jump].code = "JZ"  => jump < label
  /\ stream[jump].code = "JNZ" => label < jump

\* README.md, "IR": each jump has its label and each label its one jump.
WellJoined(stream) ==
  \A i \in DOMAIN stream :
    /\ IsJump(stream[i]) => \E l \in DOMAIN stream : Joined(stream, i, l)
    /\ stream[i].code = "LABEL" => \E j \in DOMAIN stream : Joined(stream, j, i)

IsStream(stream) ==
  /\ \A i \in DOMAIN stream :
       /\ stream[i].id \in Nat \ {nil} /\ stream[i].code \in Codes
       /\ stream[i].op1 \in Int /\ stream[i].op2 \in Int
  /\ Cardinality(Addresses(stream)) = Len(stream)
=============================================================================

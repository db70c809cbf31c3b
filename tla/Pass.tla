--------------------------------- MODULE Pass ---------------------------------
(***************************************************************************)
(* What the optimizer passes share (src/src/optimize.h): the stream they   *)
(* rewrite and the iterator their main loop runs on.  A step of a pass is  *)
(* one round of that loop; the loop ends with the iterator at End().       *)
(***************************************************************************)
EXTENDS Instr

VARIABLES stream,  \* the stream being rewritten
          iter     \* the iterator of the pass, nil at End()

\* The position of the iterator: none at End().
Here == {i \in DOMAIN stream : stream[i].id = iter}

\* The same, when its operation has one of the codes.
HereAt(codes) == {i \in Here : stream[i].code \in codes}

\* iter += n from the position at, whatever has become of the operations that
\* the iterator moves over.
StepBeyond(at, n, newStream) == stream' = newStream /\ iter' = AddressAt(stream, at + n)

PassOver(at) == StepBeyond(at, 1, stream)

\* ++iter in the stream as it is after this step.
StepOver(newStream) == stream' = newStream /\ iter' = Plus(stream', iter, 1)
===============================================================================

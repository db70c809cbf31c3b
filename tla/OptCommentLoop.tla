---------------------------- MODULE OptCommentLoop ----------------------------
(***************************************************************************)
(* src/src/opt_comment_loop.cc: loops at the beginning of the program are  *)
(* never entered, for all cells are still zero.                            *)
(***************************************************************************)
EXTENDS Pass

\* The operation found after skipping NOPs, 0 when there is none.
SkippingNops(at) == SelectInSubSeq(stream, at, Len(stream), LAMBDA op : op.code # "NOP")

\* Where the loop that starts at from ends: the label its JZ leads to.
LoopEnd(from) == Position(stream, stream[from].op1)

\* @mutant: the label that ends the loop is left behind.
DropButLabel(from, to) ==
  stream' = DeleteRange(stream, from, to - 1) /\ iter' = AddressAt(stream, to + 1)

Drop(from, to) ==
  stream' = DeleteRange(stream, from, to) /\ iter' = AddressAt(stream, to + 1)

\* Every loop at the beginning goes; the first other operation ends the pass.
CommentLoop ==
  \E at \in Here : \E from \in {SkippingNops(at)} :
    \/ /\ from # 0 /\ stream[from].code = "JZ"
       /\ \E to \in {LoopEnd(from)} : Drop(from, to)
    \/ /\ from = 0 \/ stream[from].code # "JZ"
       /\ iter' = nil /\ UNCHANGED stream
===============================================================================

-------------------------- MODULE MCOperationStream --------------------------
(* OperationStream with a handful of addresses. *)
EXTENDS OperationStream
=============================================================================

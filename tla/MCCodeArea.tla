------------------------------ MODULE MCCodeArea ------------------------------
(* CodeArea with pages of a few bytes. *)
EXTENDS CodeArea
===============================================================================

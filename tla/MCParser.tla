------------------------------- MODULE MCParser -------------------------------
(* Every text of up to MaxLength characters over a small alphabet. *)
EXTENDS Parser

CONSTANTS Alphabet, MaxLength

Texts == UNION {[1..n -> Alphabet] : n \in 0..MaxLength}
===============================================================================

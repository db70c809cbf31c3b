--------------------------------- MODULE Text ---------------------------------
(***************************************************************************)
(* Program texts: sequences of characters, eight of which are commands.    *)
(***************************************************************************)
EXTENDS Integers, Sequences, FiniteSets

Brackets == {"[", "]"}
CommandChars == {"+", "-", ">", "<", ",", "."} \cup Brackets

\* How many of the first i characters are among these.
HowMany(p, chars, i) == Cardinality({k \in 1..i : p[k] \in chars})

\* The text without its comments: the k-th command is the one that makes k.
CommandsOf(p) ==
  [k \in 1..HowMany(p, CommandChars, Len(p)) |->
     p[CHOOSE i \in DOMAIN p : p[i] \in CommandChars /\ HowMany(p, CommandChars, i) = k]]

\* How many loops are open behind the i-th character.
Depth(p, i) == HowMany(p, {"["}, i) - HowMany(p, {"]"}, i)

Balanced(p) == Depth(p, Len(p)) = 0 /\ \A i \in DOMAIN p : Depth(p, i) >= 0

\* The loop opened at i is not closed up to the n-th character.
OpenFrom(p, i, n) == p[i] = "[" /\ \A k \in i..n : Depth(p, k) >= Depth(p, i)

\* The brackets at i and j match: back at the old depth for the first time.
Match(p, i, j) ==
  /\ i < j /\ p[j] = "]" /\ Depth(p, j) = Depth(p, i) - 1
  /\ OpenFrom(p, i, j - 1)
===============================================================================

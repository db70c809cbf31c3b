-------------------------------- MODULE MCBfCc --------------------------------
(* Short texts, and longer ones put together from what the passes look for. *)
EXTENDS BfCc

CONSTANTS Alphabet, MaxLength,  \* of the short texts
          Phrases               \* how many phrases make a long text

\* Pointer runs stay shorter than ByteSize.
ShortMoves(p) ==
  \A i \in 1..(Len(p) - ByteSize + 1) :
    \E k \in 0..(ByteSize - 1) : p[i + k] # p[i] \/ p[i] \notin {">", "<"}

Considered(texts) == {p \in texts : Balanced(p) /\ ShortMoves(p)}

ShortTexts == Considered(UNION {[1..n -> Alphabet] : n \in 0..MaxLength})

Phrase == {<<"-">>, <<",">>, <<".">>, <<">">>, <<"<">>, <<"[">>, <<"]">>,
           <<"+", "+", "+", "+">>, <<"+", "+", "+", "+", "+">>,
           <<"[", "-", "]">>, <<"[", "+", "+", "]">>,
           <<"[", "-", ">", "+", "<", "]">>,
           <<"[", ">", "-", "<", "<", "+", "+", ">", "-", "]">>}

\* Started in the middle of the heap on a cell read from stdin, and with
\* something to show in the end.
LongTexts ==
  Considered({<<">", ",">> \o FlattenSeq(phrases) \o <<".">> :
                phrases \in [1..Phrases -> Phrase]})

Case(p, mode, stdin) == [program |-> p, eof |-> mode, input |-> stdin]

\* Where stdin ends the mode decides; -1 and 0 are taken as documented.
EveryCase ==
  {Case(p, mode, <<2>>) : p \in ShortTexts, mode \in {"0", "-1"}}
    \cup {Case(p, "-1", <<2>>) : p \in LongTexts}

\* README.md, "EOF for read operations": the cat program, which "results in an
\* endless loop" with the default mode.
CatCase == {Case(<<",", "[", ".", ",", "]">>, "keep", <<1>>)}

\* As many moves to the right as a cell has values.
FarMove == {Case([i \in 1..256 |-> ">"] \o <<"+">>, "keep", <<>>)}
===============================================================================

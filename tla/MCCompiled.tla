------------------------------ MODULE MCCompiled ------------------------------
(* Compiled on short texts, and on longer ones of what the templates differ in. *)
EXTENDS Compiled, MCBfCc

\* Moves that add up to more than a short displacement and a short immediate,
\* multiplications in both directions, searches, and jumps across them.
CodePhrase == {<<"-">>, <<">">>, <<"[">>, <<"]">>,
               <<"[", ">", "]">>, <<"[", "<", "<", "]">>,
               <<"[", "-", ">", "+", "+", "<", "]">>,
               <<"[", ">", "-", "<", "<", "+", "+", ">", "-", "]">>}

CodeTexts ==
  Considered({<<">", ",">> \o FlattenSeq(phrases) \o <<".">> :
                phrases \in [1..Phrases -> CodePhrase]})

\* The cat program of README.md, which runs for ever in mode keep.
Cat == <<",", "[", ".", ",", "]">>

CodeCases ==
  {Case(p, "keep", <<2>>) : p \in ShortTexts} \cup {Case(p, "-1", <<2>>) : p \in CodeTexts}
    \cup {Case(Cat, mode, <<1>>) : mode \in ToSet(EOFModes)}

\* A read, and a loop of four operations.
ReadCase == {Case(<<",">>, "keep", <<>>)}
LoopCase == {Case(<<"+", "[", ">", "+", ">", "-", "]">>, "keep", <<>>)}
===============================================================================

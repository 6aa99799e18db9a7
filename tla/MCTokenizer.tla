---------------------------- MODULE MCTokenizer ----------------------------
(***************************************************************************)
(* All command lines of a few short arguments over '-', '=' and one other  *)
(* character.                                                              *)
(***************************************************************************)
EXTENDS Tokenizer, FiniteSets, SequencesExt

MCChars == {"-", "=", "x"}

Arguments(n) == BoundedSeq(MCChars, n)

\* One long argument, or up to three short ones.
MCCommandLines ==
  {<<arg>> : arg \in Arguments(7)} \cup {<<>>}
    \cup {<<a, b>> : a, b \in Arguments(3)}
    \cup {<<a, b, c>> : a, b, c \in Arguments(2) \ Arguments(1)}

\* Command lines with an empty argument before another one.
MCEmptyArguments == {<< <<>>, arg >> : arg \in Arguments(2)}

=============================================================================

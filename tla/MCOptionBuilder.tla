-------------------------- MODULE MCOptionBuilder --------------------------
(***************************************************************************)
(* Up to five calls on builders, and one text for the option that results. *)
(* long long has 5 bits, the narrow types have 3 (char: 4).                *)
(***************************************************************************)
EXTENDS OptionBuilder

MCLowerCase == [c \in {"T", "R", "N"} |->
                  CASE c = "T" -> "t" [] c = "R" -> "r" [] c = "N" -> "n"]

Codes == <<" ", "+", "-", "0", "1", "3", "x", "t", "r", "u", "e", "n", "o",
           "T", "R", "N">>
MCCodeOf == [c \in Range(Codes) |-> (CHOOSE i \in DOMAIN Codes : Codes[i] = c) - 9]

\* enum { on = 1, no = -1, NO = 3 }: the last is found by its value only.
MCEnumerators ==
  [name \in {<<"o", "n">>, <<"n", "o">>, <<"N", "o">>} |->
     CASE name = <<"o", "n">> -> 1 [] name = <<"n", "o">> -> -1
       [] name = <<"N", "o">> -> 3]

MCTypes == {[kind |-> "bool", bits |-> 1], [kind |-> "char", bits |-> 4],
            [kind |-> "enum", bits |-> 3], [kind |-> "string", bits |-> 1]}
             \cup {Integral(signed, bits) : signed \in BOOLEAN, bits \in {3, 5}}

\* All short texts over characters of numbers, longer ones with a sign and two
\* digits, and words.
MCTexts ==
  BoundedSeq({" ", "-", "+", "0", "1", "3", "x"}, 2)
    \cup {<<s, d, e>> : s \in {"-", "+", " ", "3"}, d \in {"1", "3", "0"},
                        e \in {"1", "3", "0", "x", " "}}
    \cup {<<" ", s, d, e>> : s \in {"-", "+"}, d \in {"1", "3"},
                             e \in {"0", "1", "3"}}
    \cup { <<"t">>, <<"N">>, <<"T", "R", "u", "e">>, <<"t", "r", "u", "e">>,
           <<"o", "n">>, <<"o", "N">>, <<"N", "o">>, <<"n", "o">>,
           <<"n", "o", "t">>, <<"1", "t">> }

=============================================================================

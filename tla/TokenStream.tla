---------------------------- MODULE TokenStream ----------------------------
(***************************************************************************)
(* What the tokenizer promises to the parser: the tokens of the arguments  *)
(* one after the other, then the end of input.  CmdLineParser takes its    *)
(* tokens from a sequence on the strength of this promise; Tokenizer is    *)
(* the program that has to keep it.                                        *)
(*                                                                         *)
(* Split says in one go what an argument is split into; an argument        *)
(* without characters gives no token, and ends the stream.                 *)
(***************************************************************************)
EXTENDS Naturals, Sequences

CONSTANTS Chars, Dash, Equals

VARIABLES args, returned

TokenTypes == {"ShortOption", "LongOption", "LoneDash", "DashDash", "Value",
               "EqualSign", "EndOfInput"}

Tokens == [type : TokenTypes, text : Seq(Chars)]

Token(type, text) == [type |-> type, text |-> text]

EndOfInput == Token("EndOfInput", <<>>)

-----------------------------------------------------------------------------
(* What an argument should be split into *)

\* Positions of '=' in a long option, from the second character of its name.
EqualSigns(arg) == {i \in 4..Len(arg) : arg[i] = Equals}

\* Position of the last of the '=' that follow each other at position i.
LastOfRun(arg, i) ==
  CHOOSE j \in i..Len(arg) :
    /\ \A k \in i..j : arg[k] = Equals
    /\ j = Len(arg) \/ arg[j + 1] # Equals

\* The pair of option and '=' sign, n times.
Pairs(option, n) ==
  [k \in 1..(2 * n) |->
     IF k % 2 = 1 THEN option ELSE Token("EqualSign", <<Equals>>)]

\* "--name=value", with the '=' sign at positions i to j: the pair of option
\* and '=' sign once for every sign, then the value, or once more the option
\* when there is none.
SplitLong(arg, i, j) ==
  LET name == Token("LongOption", SubSeq(arg, 3, i - 1))
  IN  Append(Pairs(name, j - i + 1),
             IF j = Len(arg) THEN name
                             ELSE Token("Value", SubSeq(arg, j + 1, Len(arg))))

Split(arg) ==
  CASE arg = <<>>           -> <<>>
    [] arg = <<Dash>>       -> << Token("LoneDash", arg) >>
    [] arg = <<Dash, Dash>> -> << Token("DashDash", arg) >>
    [] arg # <<>> /\ arg[1] # Dash -> << Token("Value", arg) >>
    [] Len(arg) >= 2 /\ arg[1] = Dash /\ arg[2] # Dash ->
         [k \in 1..(Len(arg) - 1) |-> Token("ShortOption", <<arg[k + 1]>>)]
    [] Len(arg) >= 3 /\ arg[1] = Dash /\ arg[2] = Dash ->
         IF EqualSigns(arg) = {}
           THEN << Token("LongOption", SubSeq(arg, 3, Len(arg))) >>
           ELSE LET i == CHOOSE e \in EqualSigns(arg) :
                           \A f \in EqualSigns(arg) : e <= f
                IN  SplitLong(arg, i, LastOfRun(arg, i))

\* The tokens of the first n arguments.
SplitAll[n \in Nat] == IF n = 0 THEN <<>> ELSE SplitAll[n - 1] \o Split(args[n])

\* The number of arguments before the first empty one.
Readable ==
  CHOOSE n \in 0..Len(args) :
    /\ \A i \in 1..n : args[i] # <<>>
    /\ n = Len(args) \/ args[n + 1] = <<>>

Stream == Append(SplitAll[Readable], EndOfInput)

-----------------------------------------------------------------------------
(* The stream *)

Init == args \in Seq(Seq(Chars)) /\ returned = <<>>

ReturnToken ==
  /\ Len(returned) < Len(Stream)
  /\ returned' = Append(returned, Stream[Len(returned) + 1])
  /\ UNCHANGED args

\* What the stream may do, and that it goes on.
Safety == Init /\ [][ReturnToken]_<<args, returned>>
Spec == Safety /\ WF_<<args, returned>>(ReturnToken)

=============================================================================

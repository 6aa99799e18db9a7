----------------------------- MODULE Tokenizer -----------------------------
(***************************************************************************)
(* The tokenizer (clap/src/parser/tokenizer.h and tokenizer.cpp): command  *)
(* line arguments go in, one at a time and only when a token is asked for; *)
(* a machine that reads one character after the other splits an argument   *)
(* into tokens, which wait in a queue.                                     *)
(*                                                                         *)
(* A call of NextToken() that finds the queue empty spans several steps:   *)
(* NextArgument, one step for every character, one for the end of the      *)
(* argument, and Return. Nothing else runs meanwhile. A text is a sequence *)
(* of characters; only '-' and '=' matter to the machine.                  *)
(***************************************************************************)
EXTENDS Naturals, Sequences

CONSTANTS
  Chars,      \* characters
  Dash,       \* '-'
  Equals,     \* '='
  CommandLines  \* the argument lists a Tokenizer may be constructed with

ASSUME CharsAssumption == Dash \in Chars /\ Equals \in Chars /\ Dash # Equals

ASSUME CommandLinesAssumption == CommandLines \subseteq Seq(Seq(Chars))

TokenTypes == {"ShortOption", "LongOption", "LoneDash", "DashDash", "Value",
               "EqualSign", "EndOfInput"}

Tokens == [type : TokenTypes, text : Seq(Chars)]

MachineStates == {"InitialState", "ValueState", "OptionState",
                  "ShortOptionState", "DashDashState", "LongOptionState",
                  "FinalState"}

VARIABLES
  args,             \* args_
  cursor,           \* cursor_; Len(args) + 1 is end()
  tokens,           \* tokens_, the queue
  machine,          \* state of the machine in Tokenize(), "none" outside it
  rest,             \* characters of the argument that are still to be read
  token_,           \* token_ of ValueState and of LongOptionState
  after_equal_sign, \* member of LongOptionState
  returned          \* the tokens returned so far

vars == <<args, cursor, tokens, machine, rest, token_, after_equal_sign,
          returned>>

EndOfInput == [type |-> "EndOfInput", text |-> <<>>]

NoTokens == [s \in {"ValueState", "LongOptionState"} |-> <<>>]

Init ==
  /\ args \in CommandLines
  /\ cursor = 1
  /\ tokens = <<>>
  /\ machine = "none"
  /\ rest = <<>>
  /\ token_ = NoTokens
  /\ after_equal_sign = FALSE
  /\ returned = <<>>

-----------------------------------------------------------------------------
(* NextToken *)

\* Mutation: only the queue is looked at.
HasQueuedTokens == tokens # <<>>

HasMoreTokens == tokens # <<>> \/ cursor <= Len(args)

\* The parser asks for no token after the end of input.
EndReturned == returned # <<>> /\ returned[Len(returned)] = EndOfInput

PopFront ==
  /\ returned' = Append(returned, Head(tokens))
  /\ tokens' = Tail(tokens)

NextToken_Queued ==
  /\ machine = "none" /\ ~EndReturned
  /\ tokens # <<>>
  /\ PopFront
  /\ UNCHANGED <<args, cursor, machine, rest, token_, after_equal_sign>>

\* Mutation: an argument is skipped.
AdvanceTwice == cursor + 2

\* *cursor_++
Advance == cursor + 1

\* Tokenize() begins, with a machine of its own.
NextToken_Argument ==
  /\ machine = "none" /\ ~EndReturned
  /\ tokens = <<>> /\ cursor <= Len(args)
  /\ machine' = "InitialState"
  /\ rest' = args[cursor]
  /\ cursor' = Advance
  /\ token_' = NoTokens
  /\ after_equal_sign' = FALSE
  /\ UNCHANGED <<args, tokens, returned>>

\* Tokenize() has returned. An argument may have given no token at all.
NextToken_Return ==
  /\ machine = "FinalState"
  /\ machine' = "none"
  /\ IF tokens # <<>> THEN PopFront
                      ELSE /\ returned' = Append(returned, EndOfInput)
                           /\ UNCHANGED tokens
  /\ UNCHANGED <<args, cursor, rest, token_, after_equal_sign>>

NextToken_EndOfInput ==
  /\ machine = "none" /\ ~EndReturned
  /\ ~HasMoreTokens
  /\ returned' = Append(returned, EndOfInput)
  /\ UNCHANGED <<args, cursor, tokens, machine, rest, token_,
                 after_equal_sign>>

-----------------------------------------------------------------------------
(* Tokenize *)

\* InputChar(c) in state s, for a character c of the set.
Reading(s, set) ==
  /\ machine = s
  /\ rest # <<>> /\ Head(rest) \in set
  /\ rest' = Tail(rest)
  /\ UNCHANGED <<args, cursor, returned>>

\* InputEnd in state s; every state goes to FinalState.
Ending(s) ==
  /\ machine = s
  /\ rest = <<>>
  /\ machine' = "FinalState"
  /\ UNCHANGED <<args, cursor, returned, rest, token_, after_equal_sign>>

Enter(s) == machine' = s

Token(type, text) == [type |-> type, text |-> text]

\* consume_token
Emit(type, text) == tokens' = Append(tokens, Token(type, text))

\* push_back on the token_ of state s
PushBack(s) == token_' = [token_ EXCEPT ![s] = Append(@, Head(rest))]

Others == Chars \ {Dash}

Initial_Dash ==
  /\ Reading("InitialState", {Dash})
  /\ Enter("OptionState")
  /\ UNCHANGED <<tokens, token_, after_equal_sign>>

Initial_Other ==
  /\ Reading("InitialState", Others)
  /\ Enter("ValueState") /\ PushBack("ValueState")
  /\ UNCHANGED <<tokens, after_equal_sign>>

Initial_End ==
  /\ Ending("InitialState")
  /\ UNCHANGED tokens

Value_Char ==
  /\ Reading("ValueState", Chars)
  /\ PushBack("ValueState")
  /\ UNCHANGED <<machine, tokens, after_equal_sign>>

Value_End ==
  /\ Ending("ValueState")
  /\ Emit("Value", token_["ValueState"])

Option_Dash ==
  /\ Reading("OptionState", {Dash})
  /\ Enter("DashDashState")
  /\ UNCHANGED <<tokens, token_, after_equal_sign>>

\* ShortOptionState emits the character it is entered with.
Option_Other ==
  /\ Reading("OptionState", Others)
  /\ Enter("ShortOptionState") /\ Emit("ShortOption", <<Head(rest)>>)
  /\ UNCHANGED <<token_, after_equal_sign>>

Option_End ==
  /\ Ending("OptionState")
  /\ Emit("LoneDash", <<Dash>>)

ShortOption_Char ==
  /\ Reading("ShortOptionState", Chars)
  /\ Emit("ShortOption", <<Head(rest)>>)
  /\ UNCHANGED <<machine, token_, after_equal_sign>>

ShortOption_End ==
  /\ Ending("ShortOptionState")
  /\ UNCHANGED tokens

\* LongOptionState takes the character it is entered with, '=' included.
DashDash_Char ==
  /\ Reading("DashDashState", Chars)
  /\ Enter("LongOptionState") /\ PushBack("LongOptionState")
  /\ UNCHANGED <<tokens, after_equal_sign>>

DashDash_End ==
  /\ Ending("DashDashState")
  /\ Emit("DashDash", <<Dash, Dash>>)

LongOptionToken == Token("LongOption", token_["LongOptionState"])

\* Mutation: the option itself is not emitted before the '='.
EmitEqualSignOnly == tokens' = Append(tokens, Token("EqualSign", <<Equals>>))

EmitOptionAndEqualSign ==
  tokens' = tokens \o <<LongOptionToken, Token("EqualSign", <<Equals>>)>>

LongOption_Equals ==
  /\ Reading("LongOptionState", {Equals})
  /\ EmitOptionAndEqualSign
  /\ after_equal_sign' = TRUE
  /\ UNCHANGED <<machine, token_>>

\* Mutation: the character that begins the value is not pushed.
EnterValueEmpty == Enter("ValueState") /\ UNCHANGED token_

EnterValue == Enter("ValueState") /\ PushBack("ValueState")

LongOption_Other ==
  /\ Reading("LongOptionState", Chars \ {Equals})
  /\ IF after_equal_sign
       THEN EnterValue /\ after_equal_sign' = FALSE
       ELSE /\ PushBack("LongOptionState")
            /\ UNCHANGED <<machine, after_equal_sign>>
  /\ UNCHANGED tokens

\* OnLeave(InputEnd) emits the option, whether or not it was emitted already.
LongOption_End ==
  /\ Ending("LongOptionState")
  /\ tokens' = Append(tokens, LongOptionToken)

-----------------------------------------------------------------------------
(* The tokenizer *)

NextToken ==
  \/ NextToken_Queued \/ NextToken_Argument
  \/ NextToken_Return \/ NextToken_EndOfInput

Tokenize ==
  \/ Initial_Dash      \/ Initial_Other   \/ Initial_End
  \/ Value_Char        \/ Value_End
  \/ Option_Dash       \/ Option_Other    \/ Option_End
  \/ ShortOption_Char  \/ ShortOption_End
  \/ DashDash_Char     \/ DashDash_End
  \/ LongOption_Equals \/ LongOption_Other \/ LongOption_End

\* The caller has been told that there is no more input.
Stopped == EndReturned /\ UNCHANGED vars

Next == NextToken \/ Tokenize \/ Stopped

\* Sequential code that keeps executing, and a caller that keeps asking.
Spec == Init /\ [][Next]_vars /\ WF_vars(NextToken \/ Tokenize)

-----------------------------------------------------------------------------
(* Properties *)

\* Type invariant: what the members of the tokenizer and of the machine in
\* Tokenize() may hold.
TypeOK ==
  /\ args \in Seq(Seq(Chars))
  /\ cursor \in 1..(Len(args) + 1)
  /\ tokens \in Seq(Tokens)
  /\ machine \in MachineStates \cup {"none"}
  /\ rest \in Seq(Chars)
  /\ token_ \in [{"ValueState", "LongOptionState"} -> Seq(Chars)]
  /\ after_equal_sign \in BOOLEAN
  /\ returned \in Seq(Tokens)

\* What the parser may assume of the tokens it is given.
Promised == INSTANCE TokenStream

\* The tokens produced so far: returned, and then waiting in the queue.
Produced ==
  (IF EndReturned THEN SubSeq(returned, 1, Len(returned) - 1) ELSE returned)
    \o tokens

\* Read one character after the other, the arguments give the tokens that
\* each of them should be split into: none is missing, changed or out of
\* order, and the queue mixes up no two arguments.
SplitsEveryArgument ==
  machine \in {"none", "FinalState"} =>
    Produced = Promised!SplitAll[cursor - 1]

\* The tokenizer implements TokenStream: whoever pulls tokens out of it, with
\* its queue and its cursor, sees the tokens of the arguments in order and
\* then the end of input, and gets there.
ImplementsTokenStream == Promised!Spec

\* The parser looks an option up by the text of its token, and has an active
\* option when it sees a '=' sign: no token but the last has an empty text,
\* and every '=' sign comes directly after an option's name.
ParserCanRelyOn ==
  \A i \in DOMAIN Produced :
    /\ Produced[i].text # <<>>
    /\ Produced[i].type = "EqualSign" =>
         i > 1 /\ Produced[i - 1].type = "LongOption"

\* All arguments become tokens before the end of input is reported ("Transform
\* a list of command line arguments into a stream of typed tokens",
\* tokenizer.h:60-61).
EndOfInputMeansDone ==
  EndReturned => tokens = <<>> /\ cursor = Len(args) + 1

=============================================================================

------------------------------ MODULE CliProofs ------------------------------
(***************************************************************************)
(* Proofs about Cli, for every list of commands, every way of splitting    *)
(* arguments and every sequence of calls: what the parser guarantees in    *)
(* each call, whatever the calls before it left in the Cli, that help is   *)
(* printed when it was asked for and only then, that a call answers as the *)
(* first one would, unless values of its command are left from before, and *)
(* that the documented forms of asking for help and for the version answer *)
(* as documented, whatever the other commands of the Cli are.              *)
(***************************************************************************)
EXTENDS Cli, ParseSpecProofs

-----------------------------------------------------------------------------
(* The tokens of a command line *)

\* FlattenSeq is computed by f, which holds what the first sequences make.
FlattenedBy(seqs, n, f) ==
  /\ FlattenSeq(seqs) = f[n]
  /\ \A i \in 1..n : f[i] = IF i = 1 THEN seqs[i] ELSE f[i - 1] \o seqs[i]

\* FlattenSeq puts one sequence behind the other, from the first one on.
LEMMA FlattenRecursion ==
  ASSUME NEW S, NEW n \in Nat \ {0}, NEW seqs, Len(seqs) = n, seqs[1] \in Seq(S)
  PROVE  \E f : FlattenedBy(seqs, n, f)
<1> DEFINE F(f) == f = [i \in 1..n |-> IF i = 1 THEN seqs[i]
                                       ELSE f[i - 1] \o seqs[i]]
           f == CHOOSE f : F(f)
<1>1. FlattenSeq(seqs) = f[n]
  BY DEF FlattenSeq
<1>2. F(f)
  <2>1. PICK h : h = [k \in Nat |-> IF k = 0 THEN <<>> ELSE h[k - 1] \o seqs[k]]
    BY PiecesDefined
  <2> DEFINE g == [i \in 1..n |-> h[i]]
             Next_(i) == IF i = 1 THEN seqs[i] ELSE g[i - 1] \o seqs[i]
  <2>2. h[0] = <<>> /\ \A k \in Nat \ {0} : h[k] = Joined(h[k - 1], seqs[k])
    BY <2>1 DEF Joined
  <2>3. ASSUME NEW i \in 1..n PROVE g[i] = Next_(i)
    <3>1. CASE i = 1
      <4>1. g[i] = Joined(<<>>, seqs[1])
        <5>1. 1 \in Nat \ {0} /\ 1 - 1 = 0
          OBVIOUS
        <5>2. h[1] = Joined(h[1 - 1], seqs[1])
          BY <2>2, <5>1
        <5>3. h[1] = Joined(h[0], seqs[1])
          BY <5>1, <5>2
        <5> QED
          BY <2>2, <3>1, <5>3
      <4>2. seqs[1] \in Seq(S)
        BY <3>1
      <4>3. Joined(<<>>, seqs[1]) = seqs[1]
        BY <4>2 DEF Joined
      <4> QED
        BY <3>1, <4>1, <4>3
    <3>2. CASE i # 1
      <4>1. i - 1 \in 1..n /\ i \in Nat \ {0}
        BY <3>2
      <4>2. g[i] = Joined(h[i - 1], seqs[i]) /\ g[i - 1] = h[i - 1]
        BY <2>2, <4>1
      <4> HIDE DEF g
      <4> QED
        BY <3>2, <4>2 DEF Joined
    <3> QED
      BY <3>1, <3>2
  <2>4. g = [i \in 1..n |-> g[i]]
    OBVIOUS
  <2>5. F(g)
    <3> HIDE DEF g
    <3> QED
      BY <2>3, <2>4
  <2> HIDE DEF g, F
  <2> QED
    BY <2>5
<1> HIDE DEF f
<1>3. \A i \in 1..n : f[i] = IF i = 1 THEN seqs[i] ELSE f[i - 1] \o seqs[i]
  BY <1>2
<1> QED
  BY <1>1, <1>3 DEF FlattenedBy

\* What it gives is a sequence of the same elements.
LEMMA FlattenTypes ==
  ASSUME NEW S, NEW n \in Nat, NEW seqs, seqs \in [1..n -> Seq(S)]
  PROVE  FlattenSeq(seqs) \in Seq(S)
<1>1. Len(seqs) = n /\ \A i \in 1..n : seqs[i] \in Seq(S)
  OBVIOUS
<1>2. CASE n = 0
  <2>1. seqs = <<>>
    BY <1>2
  <2> QED
    BY <1>1, <1>2, <2>1 DEF FlattenSeq
<1>3. CASE n # 0
  <2>2. PICK f : FlattenedBy(seqs, n, f)
    <3>1. n \in Nat \ {0} /\ Len(seqs) = n /\ seqs[1] \in Seq(S)
      <4>1. n \in Nat \ {0} /\ 1 \in 1..n
        BY <1>3
      <4> QED
        BY <1>1, <4>1
    <3> QED
      BY <3>1, FlattenRecursion
  <2>1. /\ FlattenSeq(seqs) = f[n]
        /\ \A i \in 1..n : f[i] = IF i = 1 THEN seqs[i] ELSE f[i - 1] \o seqs[i]
    BY <2>2 DEF FlattenedBy
  <2> DEFINE T == {k \in Nat : k \in 1..n => f[k] \in Seq(S)}
  <2>4. 0 \in T
    OBVIOUS
  <2>5. ASSUME NEW k \in Nat, k \in T PROVE k + 1 \in T
    <3> SUFFICES ASSUME k + 1 \in 1..n PROVE f[k + 1] \in Seq(S)
      OBVIOUS
    <3>1. seqs[k + 1] \in Seq(S)
      BY <1>1
    <3>2. CASE k = 0
      BY <2>1, <3>1, <3>2
    <3>3. CASE k # 0
      <4>1. k \in 1..n /\ (k + 1) - 1 = k /\ k + 1 # 1
        BY <3>3
      <4>2. f[k] \in Seq(S) /\ f[k + 1] = f[k] \o seqs[k + 1]
        BY <2>1, <2>5, <4>1
      <4> QED
        BY <3>1, <4>2
    <3> QED
      BY <3>2, <3>3
  <2> HIDE DEF T
  <2>6. n \in T
    BY <2>4, <2>5, Induction
  <2> QED
    BY <1>3, <2>1, <2>6 DEF T
<1> QED
  BY <1>2, <1>3

\* The arguments that Parse() hands to the tokenizer are all split.
LEMMA SimplifiedTypes ==
  ASSUME NEW l \in Lines
  PROVE  Simplified(l) \in Seq(DOMAIN TokensOf)
<1>1. l \in Seq(DOMAIN TokensOf)
  BY LinesAssumption
<1>2. CASE l = <<>>
  BY <1>1, <1>2 DEF Simplified
<1>3. CASE l # <<>>
  <2>1. 1 \in 1..Len(l) /\ l[1] \in DOMAIN TokensOf
    BY <1>1, <1>3
  <2>2. Unified(l[1]) \in DOMAIN TokensOf
    BY <2>1, LinesAssumption DEF Unified
  <2>3. Simplified(l) = [l EXCEPT ![1] = Unified(l[1])]
    BY <1>3 DEF Simplified
  <2> QED
    BY <1>1, <2>1, <2>2, <2>3, ExceptSeq
<1> QED
  BY <1>2, <1>3

\* The tokens of a command line are a line of tokens.
LEMMA TokenizedTypes ==
  ASSUME NEW l \in Seq(DOMAIN TokensOf)
  PROVE  Tokenized(l) \in TokenLines
<1> DEFINE empties == {i \in 1..Len(l) : TokensOf[l[i]] = <<>>}
           empty == IF empties # {} THEN Min(empties) ELSE 0
           length == IF empty = 0 THEN Len(l) ELSE empty - 1
           Real == {t \in Tokens : t.type # "EndOfInput"}
<1>1. Tokenized(l) = FlattenSeq([i \in 1..length |-> TokensOf[l[i]]])
  BY DEF Tokenized, SelectInSeq
<1>2. Len(l) \in Nat /\ \A i \in 1..Len(l) : l[i] \in DOMAIN TokensOf
  OBVIOUS
<1>3. length \in Nat /\ length <= Len(l)
  <2>0. empties \subseteq DOMAIN l
    BY <1>2
  <2>1. empties # {} => Min(empties) \in empties
    <3> HIDE DEF empties
    <3> QED
      BY <2>0, IndexInSequence
  <2>2. empty \in 0..Len(l)
    BY <1>2, <2>1
  <2> HIDE DEF empty
  <2> QED
    BY <1>2, <2>2
<1> HIDE DEF length
<1>4. \A a \in DOMAIN TokensOf : TokensOf[a] \in Seq(Real)
  BY LinesAssumption
<1> HIDE DEF Real
<1>5. \A i \in 1..length : TokensOf[l[i]] \in Seq(Real)
  BY <1>2, <1>3, <1>4
<1>6. [i \in 1..length |-> TokensOf[l[i]]] \in [1..length -> Seq(Real)]
  BY <1>5
<1>7. Tokenized(l) \in Seq(Real)
  BY <1>1, <1>3, <1>6, FlattenTypes
<1> QED
  BY <1>7 DEF TokenLines, Real

-----------------------------------------------------------------------------
(* Types *)

\* The inductive invariant of type correctness.
CliIInv == IInv /\ CliTypeOK

\* A call begins at the first token of its own command line.
LEMMA ParseReads ==
  ASSUME NEW l \in Lines, Parse(l)
  PROVE  Reading' /\ HandledCount' = 0
<1>1. (AtFirstToken => Reading /\ HandledCount = 0)'
  BY ReadingBegins, PTL
<1>2. args' \in TokenLines
  <2>1. args' = Tokenized(Simplified(l))
    BY DEF Parse, NewTokenizer
  <2> QED
    BY <2>1, SimplifiedTypes, TokenizedTypes
<1>3. AtFirstToken'
  BY <1>2 DEF Parse, NewTokenizer, AtFirstToken
<1> QED
  BY <1>1, <1>3

\* Whatever an earlier call left, the parser of a call starts well typed.
LEMMA ParseTypes ==
  ASSUME CliIInv, NEW l \in Lines, Parse(l)
  PROVE  CliIInv'
<1>1. IInv /\ TypeOK /\ CliTypeOK
  BY DEF CliIInv, CliTypeOK
<1>2. /\ UNCHANGED <<commands, ovm>>
      /\ NewTokenizer /\ NewContext /\ NewMachine
  BY DEF Parse
<1>3. LoopTypeOK'
  <2>1. args' \in Seq(Tokens)
    <3>1. args' \in TokenLines
      BY ParseReads DEF Reading
    <3> QED
      BY <3>1, InputTypes
  <2>2. EndOfInput \in Tokens
    BY DEF EndOfInput, Tokens, TokenTypes
  <2>3. token' \in Tokens /\ input' \in Seq(Tokens)
    BY <1>2, <2>1, <2>2 DEF NewTokenizer
  <2> QED
    BY <1>2, <2>1, <2>3 DEF NewMachine, LoopTypeOK, MachineStates, Statuses, Errors
<1>4. ContextTypeOK'
  <2>1. commands \in Seq(CommandRecords) /\ DefaultCommands(commands) \subseteq DOMAIN commands
    BY <1>1, CommandTypes DEF TypeOK, DefaultCommands
  <2>2. FirstIndex(DefaultCommands(commands)) \in {0} \cup DOMAIN commands
    BY <2>1, IndexInSequence
  <2>3. active_command' \in {0} \cup DOMAIN commands
    BY <1>1, <1>2, <2>2 DEF NewMachine, TypeOK, ContextTypeOK
  <2>4. /\ active_option' = 0 /\ positional_tokens' = <<>>
        /\ commands' \in CLIs /\ DOMAIN commands' = DOMAIN commands
        /\ ovm' \in [Keys -> Seq(OptionValues)]
    BY <1>1, <1>2 DEF NewContext, TypeOK, ContextTypeOK
  <2> QED
    BY <2>3, <2>4 DEF ContextTypeOK
<1>5. IdentifyTypeOK' /\ OptionTypeOK' /\ FinalTypeOK'
  <2>1. IdentifyTypeOK'
    BY <1>2 DEF NewMachine, IdentifyTypeOK
  <2>2. OptionTypeOK'
    BY <1>2, Zenon DEF NewMachine, OptionTypeOK
  <2>3. next_positional' = 1 /\ rest_option' = 0 /\ options_checked' \in BOOLEAN
    BY <1>2 DEF NewMachine
  <2>4. FinalTypeOK'
    BY <2>3 DEF FinalTypeOK
  <2> QED
    BY <2>1, <2>2, <2>4
<1>6. AssertionsHold' /\ NothingParsed'
  BY <1>2 DEF NewMachine, NewContext, AssertionsHold, NothingParsed,
     CommandKnown, OptionStates
<1>7. /\ phase' \in {"idle", "parsing"}
      /\ line' \in Lines \cup {<<>>}
      /\ printed'.command \in {0} \cup DOMAIN commands'
      /\ ovm_before' \in [Keys -> Seq(OptionValues)]
      /\ command_before' \in {0} \cup DOMAIN commands'
  BY <1>1, <1>2 DEF Parse, Nothing, Printed, TypeOK, ContextTypeOK
<1>8. calls' \in 0..MaxCalls
  BY <1>1, MaxCallsAssumption DEF Parse, CliTypeOK
<1> QED
  BY <1>3, <1>4, <1>5, <1>6, <1>7, <1>8 DEF CliIInv, IInv, TypeOK, CliTypeOK

\* What is printed is about a command of the Cli.
LEMMA OutputTypes ==
  ASSUME CliIInv
  PROVE  HelpOutput.command \in {0} \cup DOMAIN commands
<1> DEFINE Asked == {c \in DOMAIN commands : Path(c) = RequestedPath}
<1>1. TypeOK /\ commands \in Seq(CommandRecords)
  BY CommandTypes DEF CliIInv, IInv, TypeOK
<1>2. active_command \in {0} \cup DOMAIN commands
  BY <1>1 DEF TypeOK, ContextTypeOK
<1>3. FirstIndex(Asked) \in {0} \cup DOMAIN commands
  <2>1. Asked \subseteq DOMAIN commands
    OBVIOUS
  <2> HIDE DEF Asked
  <2> QED
    BY <1>1, <2>1, IndexInSequence
<1>4. \/ HelpOutput = CommandHelp(active_command)
      \/ HelpOutput = CommandHelp(FirstIndex(Asked))
      \/ HelpOutput \in {Overview, UnknownPath}
  BY Zenon DEF HelpOutput
<1>5. /\ \A c : CommandHelp(c).command = c
      /\ Overview.command = 0 /\ UnknownPath.command = 0
  BY DEF CommandHelp, Overview, UnknownPath, Printed
<1> HIDE DEF Asked
<1> QED
  BY <1>2, <1>3, <1>4, <1>5

\* A call that returns leaves the parser as it is.
LEMMA ReturnTypes ==
  ASSUME CliIInv, Return_Help \/ Return_Version \/ Return_Context \/ Return_Throw
  PROVE  CliIInv'
<1>1. /\ UNCHANGED <<vars, calls, line, ovm_before, command_before>>
      /\ phase' = "idle"
      /\ printed' \in {HelpOutput, VersionInfo, Nothing, TryHelp}
  BY DEF Return_Help, Return_Version, Return_Context, Return_Throw, Return
<1>2. printed'.command \in {0} \cup DOMAIN commands
  <2>1. VersionInfo.command = 0 /\ Nothing.command = 0 /\ TryHelp.command = 0
    BY DEF VersionInfo, Nothing, TryHelp, Printed
  <2> QED
    BY <1>1, <2>1, OutputTypes
<1>3. IInv'
  BY <1>1, NextTypes DEF CliIInv
<1>4. commands' = commands
  BY <1>1 DEF vars, fixedVars
<1> QED
  BY <1>1, <1>2, <1>3, <1>4 DEF CliIInv, CliTypeOK, IInv

\* A step of the parser inside a call.
LEMMA ParserStepTypes ==
  ASSUME CliIInv, ParserStep
  PROVE  CliIInv'
<1>1. Next /\ UNCHANGED callVars
  BY DEF ParserStep, Next
<1>2. IInv'
  BY <1>1, NextTypes DEF CliIInv
<1>3. commands' = commands
  BY <1>1, TokenMoves
<1> QED
  BY <1>1, <1>2, <1>3 DEF CliIInv, CliTypeOK, IInv, callVars

\* No step.
LEMMA StutterTypes ==
  ASSUME CliIInv, UNCHANGED cliVars
  PROVE  CliIInv'
<1>1. UNCHANGED vars /\ UNCHANGED callVars
  BY DEF cliVars
<1>2. IInv'
  BY <1>1, NextTypes DEF CliIInv
<1>3. commands' = commands
  BY <1>1 DEF vars, fixedVars
<1> QED
  BY <1>1, <1>2, <1>3 DEF CliIInv, CliTypeOK, IInv, callVars

\* Before the first call.
LEMMA CliInitTypes == CliInit => CliIInv
<1> SUFFICES ASSUME CliInit PROVE CliIInv
  OBVIOUS
<1>1. IInv /\ TypeOK
  BY InitTypes DEF CliInit, IInv
<1>2. /\ phase \in {"idle", "parsing"} /\ calls \in 0..MaxCalls
      /\ line \in Lines \cup {<<>>}
  BY MaxCallsAssumption DEF CliInit
<1>3. /\ printed.command \in {0} \cup DOMAIN commands
      /\ command_before \in {0} \cup DOMAIN commands
  BY DEF CliInit, Nothing, Printed
<1>4. ovm_before \in [Keys -> Seq(OptionValues)]
  BY <1>1 DEF CliInit, TypeOK, ContextTypeOK
<1> QED
  BY <1>1, <1>2, <1>3, <1>4 DEF CliIInv, CliTypeOK

\* Every step keeps the types.
LEMMA CliNextTypes == CliIInv /\ [CliNext]_cliVars => CliIInv'
BY ParseTypes, ReturnTypes, ParserStepTypes, StutterTypes
DEF CliNext, CallStep, Finished

\* The types hold in every sequence of calls.
LEMMA CliInvariant == CliSpec => []CliIInv
BY CliInitTypes, CliNextTypes, PTL DEF CliSpec

\* In every sequence of calls all members of the parser, of its context and of
\* the Cli hold what they may hold, however the calls before ended; and what is
\* printed is about no command or about one of this Cli.
THEOREM CliTypeCorrect == CliSpec => []CliTypeOK
<1>1. CliIInv => CliTypeOK
  BY DEF CliIInv
<1> QED
  BY <1>1, CliInvariant, PTL

\* The contracts written in the states hold in every call, and not only in the
\* first one, which finds a context without a command or values.
THEOREM CliContractsOfStates == CliSpec => []AssertionsHold
<1>1. CliIInv => AssertionsHold
  BY DEF CliIInv, IInv
<1> QED
  BY <1>1, CliInvariant, PTL

-----------------------------------------------------------------------------
(* An accepted call is complete *)

\* KInv holds anew when a call begins.
LEMMA ParseCompletes ==
  ASSUME NEW l \in Lines, Parse(l)
  PROVE  KInv'
BY DEF Parse, NewMachine, KInv, OptionsChecked, AcceptedIsComplete

\* Every call that is accepted leaves a value for each option and argument that
\* is required or has a default, and no positional token: what earlier calls
\* stored is never taken away, and no check is skipped because an earlier call
\* made it.
THEOREM EveryCallComplete == CliSpec => []AcceptedIsComplete
<1>1. CliInit => KInv
  BY DEF CliInit, Init, KInv, OptionsChecked, AcceptedIsComplete
<1>2. CliIInv /\ KInv /\ CliIInv' /\ [CliNext]_cliVars => KInv'
  <2> SUFFICES ASSUME CliIInv, KInv, CliIInv', [CliNext]_cliVars PROVE KInv'
    OBVIOUS
  <2>1. (\E l \in Lines : Parse(l)) \/ [Next]_vars
    BY DEF CliNext, CallStep, ParserStep, Next, Finished, cliVars, Return_Help,
       Return_Version, Return_Context, Return_Throw, Return
  <2> QED
    BY <2>1, ParseCompletes, NextCompletes DEF CliIInv
<1>3. KInv => AcceptedIsComplete
  BY DEF KInv
<1> QED
  BY <1>1, <1>2, <1>3, CliInvariant, PTL DEF CliSpec

-----------------------------------------------------------------------------
(* Help is printed when it was asked for *)

\* Nothing but an occurrence of the help option stores a value for it: it has
\* no default, as the builder makes it, and no positional argument has its key.
HelpAsBuilt ==
  \A c \in DOMAIN commands :
    /\ \A o \in DOMAIN commands[c].options :
         commands[c].options[o].key = HELP => ~commands[c].options[o].default
    /\ \A p \in DOMAIN commands[c].positionals :
         commands[c].positionals[p].key # HELP

\* The help option is named at position i, by a token handled before, and by
\* the current token.
HelpNamedAt(i) ==
  \E o \in DOMAIN CommandOptions : NamesOption(i, o) /\ CommandOptions[o].key = HELP
HelpNamedBefore == \E i \in 1..HandledCount : HelpNamedAt(i)
HelpNamedNow ==
  \E o \in DOMAIN CommandOptions : TokenNames(o) /\ CommandOptions[o].key = HELP

\* The help option has a value, or is about to get one.
HelpGiven ==
  \/ ovm[HELP] # <<>>
  \/ machine \in OptionStates /\ ~value_[machine] /\ ActiveOption.key = HELP

\* Until the command is known no option is read, and from then on the help
\* option has a value if it had one before or was named.
HelpFollowed ==
  /\ machine \notin CommandKnown =>
       /\ ovm[HELP] = ovm_before[HELP]
       /\ \A i \in 1..HandledCount : args[i].type = "Value"
  /\ machine \in CommandKnown /\ machine # "DashDashState" =>
       (HelpGiven <=> ovm_before[HELP] # <<>> \/ HelpNamedBefore)

\* FinalState is entered at the end of the command line, and nothing is
\* accepted elsewhere.
EndOfLine ==
  /\ machine = "FinalState" => token.type = "EndOfInput"
  /\ status = "accepted" => machine = "FinalState"

\* What the last call printed depends on what it left.
PrintedIsLeft ==
  Returned /\ status = "accepted" /\ Path(active_command) # <<HELP>> =>
    (printed = CommandHelp(active_command) <=> ovm[HELP] # <<>>)

\* The inductive invariant of asking for help.
HelpInv == Reading /\ ValueFlags /\ EndOfLine /\ PrintedIsLeft
             /\ (HelpAsBuilt => HelpFollowed)

\* Values are stored for the key of the help option.
LEMMA HelpIsKey == HELP \in Keys
BY KeysOfCliAssumption

\* What something was appended to is not empty.
LEMMA AppendNotEmpty ==
  ASSUME NEW S, NEW s \in Seq(S), NEW v
  PROVE  Append(s, v) # <<>>
<1>1. Len(Append(s, v)) = Len(s) + 1 /\ Len(s) \in Nat
  OBVIOUS
<1>2. Len(<<>>) = 0
  OBVIOUS
<1> QED
  BY <1>1, <1>2

\* What names an option at a position.
LEMMA SameHelpNames ==
  ASSUME UNCHANGED <<commands, args, active_command>>
  PROVE  \A i : HelpNamedAt(i)' <=> HelpNamedAt(i)
<1>1. CommandOptions' = CommandOptions
  BY DEF CommandOptions
<1>2. \A name : /\ FindShortOption(name)' = FindShortOption(name)
                /\ FindLongOption(name)' = FindLongOption(name)
  BY <1>1 DEF FindShortOption, FindLongOption
<1>3. \A i, o : NamesOption(i, o)' <=> NamesOption(i, o)
  BY <1>2 DEF NamesOption
<1> QED
  BY <1>1, <1>3 DEF HelpNamedAt

\* Where no token is handled, no help option is named.
LEMMA SameHelpNamed ==
  ASSUME UNCHANGED <<commands, args, active_command, input, token>>
  PROVE  HelpNamedBefore' <=> HelpNamedBefore
BY SameHelpNames, NoTokenRead DEF HelpNamedBefore

\* The token handled may name the help option.
LEMMA NextHelpNamed ==
  ASSUME Reading, NextToken, token.type # "EndOfInput",
         UNCHANGED <<commands, args, active_command>>
  PROVE  HelpNamedBefore' <=> HelpNamedBefore \/ HelpNamedNow
<1>1. HandledCount \in Nat /\ token = args[HandledCount + 1]
  BY PositionOfToken
<1>2. HandledCount' = HandledCount + 1
  BY NextTokenReads
<1>3. HelpNamedAt(HandledCount + 1) <=> HelpNamedNow
  BY <1>1 DEF HelpNamedAt, HelpNamedNow, NamesOption, TokenNames
<1>4. \A i : i \in 1..(HandledCount + 1) <=> i \in 1..HandledCount \/ i = HandledCount + 1
  BY <1>1
<1>5. HelpNamedBefore' <=> \E i \in 1..(HandledCount + 1) : HelpNamedAt(i)
  BY <1>2, SameHelpNames DEF HelpNamedBefore
<1> QED
  BY <1>3, <1>4, <1>5 DEF HelpNamedBefore

\* Values do not name options.
LEMMA NoHelpInValues ==
  (\A i \in 1..HandledCount : args[i].type = "Value") => ~HelpNamedBefore
BY DEF HelpNamedBefore, HelpNamedAt, NamesOption

\* The same in the next state.
LEMMA NoHelpInValuesLater ==
  ((\A i \in 1..HandledCount : args[i].type = "Value") => ~HelpNamedBefore)'
BY NoHelpInValues, PTL

\* Steps that find the command read no option.
LEMMA IdentifyHelp ==
  ASSUME CliIInv, HelpInv, HelpFollowed, ovm_before' = ovm_before,
         \/ InitialState_Value    \/ InitialState_Other
         \/ IdentifyCommand_Value \/ IdentifyCommand_Other
  PROVE  HelpFollowed'
<1>1. machine \notin CommandKnown
  BY DEF InitialState_Value, InitialState_Other, IdentifyCommand_Value,
     IdentifyCommand_Other, Handling, CommandKnown
<1>2. /\ UNCHANGED <<commands, args, ovm, value_>>
      /\ \/ UNCHANGED <<input, token>>
         \/ token.type = "Value" /\ NextToken
         \/ machine' = "DashDashState"
      /\ machine' \notin OptionStates
  BY IdentifyReads
<1>4. /\ ovm[HELP] = ovm_before[HELP]
      /\ \A i \in 1..HandledCount : args[i].type = "Value"
  BY <1>1 DEF HelpFollowed
<1>5. CASE machine' = "DashDashState"
  BY <1>5 DEF HelpFollowed, CommandKnown, MachineStates
<1>6. CASE machine' # "DashDashState"
  <2>1. \A i \in 1..HandledCount' : args'[i].type = "Value"
    <3>1. CASE UNCHANGED <<input, token>>
      BY <1>2, <1>4, <3>1, NoTokenRead
    <3>2. CASE token.type = "Value" /\ NextToken
      <4>1. HandledCount' = HandledCount + 1
        BY <1>2, <3>2, NextTokenReads DEF HelpInv
      <4>2. args[HandledCount + 1].type = "Value" /\ HandledCount \in Nat
        BY <3>2, PositionOfToken DEF HelpInv
      <4>3. \A i \in 1..HandledCount + 1 : i \in 1..HandledCount \/ i = HandledCount + 1
        BY <4>2
      <4> QED
        BY <1>2, <1>4, <4>1, <4>2, <4>3
    <3> QED
      BY <1>2, <1>6, <3>1, <3>2
  <2>2. ~HelpNamedBefore'
    BY <2>1, NoHelpInValuesLater
  <2>3. HelpGiven' <=> ovm_before'[HELP] # <<>>
    BY <1>2, <1>4 DEF HelpGiven
  <2> QED
    BY <1>2, <1>4, <2>1, <2>2, <2>3 DEF HelpFollowed
<1> QED
  BY <1>5, <1>6

\* While options are parsed the token that names the help option begins its
\* wait for a value.
LEMMA ParseOptionsHelp ==
  ASSUME CliIInv, HelpInv, HelpFollowed, ovm_before' = ovm_before,
         \/ ParseOptions_Value    \/ ParseOptions_EndOfInput
         \/ ParseOptions_DashDash \/ ParseOptions_EqualSign
         \/ ParseOptions_ShortOption \/ ParseOptions_LongOption
         \/ DashDash_Any
  PROVE  HelpFollowed'
<1>1. /\ machine \in {"ParseOptionsState", "DashDashState"}
      /\ UNCHANGED <<commands, args, active_command, ovm, value_>>
  BY DEF ParseOptions_Value, ParseOptions_EndOfInput, ParseOptions_DashDash,
     ParseOptions_EqualSign, ParseOptions_ShortOption, ParseOptions_LongOption,
     DashDash_Any, Handling, fixedVars, contextVars, optionVars
<1>2. \A s \in OptionStates : ~value_[s]
  BY <1>1 DEF HelpInv, ValueFlags, OptionStates
<1>3. CASE machine' = "DashDashState"
  BY <1>3 DEF HelpFollowed, CommandKnown, MachineStates
<1>4. ASSUME machine' \in CommandKnown, machine = "ParseOptionsState",
             HelpGiven' <=> ovm_before[HELP] # <<>> \/ HelpNamedBefore'
      PROVE  HelpFollowed'
  BY <1>4 DEF HelpFollowed
<1>5. machine = "ParseOptionsState" =>
        (ovm[HELP] # <<>> <=> ovm_before[HELP] # <<>> \/ HelpNamedBefore)
  BY DEF HelpFollowed, HelpGiven, CommandKnown, MachineStates, OptionStates
<1>6. ASSUME machine = "ParseOptionsState", UNCHANGED <<input, token>>,
             machine' \in {"ParseOptionsState", "FinalState"}
      PROVE  HelpFollowed'
  <2>1. HelpNamedBefore' <=> HelpNamedBefore
    BY <1>1, <1>6, SameHelpNamed
  <2>2. HelpGiven' <=> ovm[HELP] # <<>>
    BY <1>1, <1>6 DEF HelpGiven, OptionStates
  <2> QED
    BY <1>4, <1>5, <1>6, <2>1, <2>2 DEF CommandKnown, MachineStates
<1>7. CASE ParseOptions_Value
  <2>1. NextToken /\ token.type = "Value" /\ machine' = "ParseOptionsState"
          /\ machine = "ParseOptionsState"
    BY <1>7 DEF ParseOptions_Value, Handling, Proceed
  <2>2. ~HelpNamedNow
    BY <2>1 DEF HelpNamedNow, TokenNames
  <2>3. HelpNamedBefore' <=> HelpNamedBefore
    BY <1>1, <2>1, <2>2, NextHelpNamed DEF HelpInv
  <2>4. HelpGiven' <=> ovm[HELP] # <<>>
    BY <1>1, <2>1 DEF HelpGiven, OptionStates
  <2> QED
    BY <1>4, <1>5, <2>1, <2>3, <2>4 DEF CommandKnown, MachineStates
<1>8. CASE ParseOptions_EndOfInput \/ ParseOptions_EqualSign
  <2>1. /\ UNCHANGED <<input, token>> /\ machine = "ParseOptionsState"
        /\ machine' \in {"ParseOptionsState", "FinalState"}
    BY <1>8 DEF ParseOptions_EndOfInput, ParseOptions_EqualSign, Handling,
       EnterFinal, Reissue, Undefined, ReportError
  <2> QED
    BY <1>6, <2>1
<1>9. CASE ParseOptions_DashDash \/ DashDash_Any
  <2>1. machine' = "DashDashState"
    BY <1>9 DEF ParseOptions_DashDash, DashDash_Any, Proceed, Abort
  <2> QED
    BY <1>3, <2>1
<1>10. ASSUME NEW s \in OptionStates,
              NEW found \in {0} \cup DOMAIN CommandOptions, EnterOption(s, found),
              machine = "ParseOptionsState", token.type # "EndOfInput",
              \A o \in DOMAIN CommandOptions : TokenNames(o) <=> o = found
       PROVE  HelpFollowed'
  <2>1. CASE \E e \in Errors : ReportError(e)
    <3>1. UNCHANGED <<machine, input, token>>
      BY <2>1 DEF ReportError
    <3> QED
      BY <1>6, <1>10, <3>1
  <2>2. CASE found # 0 /\ active_option' = found /\ Proceed(s)
    <3>1. NextToken /\ machine' = s
      BY <1>10, <2>2 DEF Proceed
    <3>2. found \in DOMAIN CommandOptions /\ CommandOptions' = CommandOptions
      BY <1>1, <1>10, <2>2 DEF CommandOptions
    <3>3. ActiveOption' = CommandOptions[found]
      BY <2>2, <3>2 DEF ActiveOption
    <3>4. HelpNamedNow <=> CommandOptions[found].key = HELP
      BY <1>10, <3>2 DEF HelpNamedNow
    <3>5. HelpNamedBefore' <=> HelpNamedBefore \/ CommandOptions[found].key = HELP
      BY <1>1, <1>10, <3>1, <3>4, NextHelpNamed DEF HelpInv
    <3>6. HelpGiven' <=> ovm[HELP] # <<>> \/ CommandOptions[found].key = HELP
      BY <1>1, <1>2, <1>10, <3>1, <3>3 DEF HelpGiven
    <3>7. machine' \in CommandKnown
      BY <1>10, <3>1 DEF CommandKnown, MachineStates, OptionStates
    <3> QED
      BY <1>4, <1>5, <1>10, <3>5, <3>6, <3>7
  <2> QED
    BY <1>10, <2>1, <2>2 DEF EnterOption, Errors
<1>11. machine = "ParseOptionsState" =>
         \A name : /\ FindShortOption(name) \in {0} \cup DOMAIN CommandOptions
                   /\ FindLongOption(name) \in {0} \cup DOMAIN CommandOptions
  BY FindTypes, ContextTypesOpened DEF CliIInv, CommandKnown, MachineStates
<1>12. CASE ParseOptions_ShortOption
  <2>1. /\ EnterOption("ParseShortOptionState", FindShortOption(token.text))
        /\ machine = "ParseOptionsState" /\ token.type # "EndOfInput"
        /\ \A o \in DOMAIN CommandOptions :
             TokenNames(o) <=> o = FindShortOption(token.text)
    BY <1>12 DEF ParseOptions_ShortOption, Handling, TokenNames
  <2>2. FindShortOption(token.text) \in {0} \cup DOMAIN CommandOptions
          /\ "ParseShortOptionState" \in OptionStates
    BY <1>11, <2>1 DEF OptionStates
  <2> QED
    BY <1>10, <2>1, <2>2, Zenon
<1>13. CASE ParseOptions_LongOption
  <2>1. /\ EnterOption("ParseLongOptionState", FindLongOption(token.text))
        /\ machine = "ParseOptionsState" /\ token.type # "EndOfInput"
        /\ \A o \in DOMAIN CommandOptions :
             TokenNames(o) <=> o = FindLongOption(token.text)
    BY <1>13 DEF ParseOptions_LongOption, Handling, TokenNames
  <2>2. FindLongOption(token.text) \in {0} \cup DOMAIN CommandOptions
          /\ "ParseLongOptionState" \in OptionStates
    BY <1>11, <2>1 DEF OptionStates
  <2> QED
    BY <1>10, <2>1, <2>2, Zenon
<1> QED
  BY <1>7, <1>8, <1>9, <1>12, <1>13

\* An option state that stores a value ends the wait; for another option the
\* help option is left as it was.
LEMMA OptionStateHelp ==
  ASSUME CliIInv, HelpInv, HelpFollowed, ovm_before' = ovm_before,
         \/ ParseShortOption_Value   \/ ParseShortOption_Other
         \/ ParseLongOption_EqualSign
         \/ ParseLongOption_Value    \/ ParseLongOption_Other
  PROVE  HelpFollowed'
<1>1. /\ machine \in OptionStates /\ machine \in CommandKnown
      /\ machine # "DashDashState"
      /\ UNCHANGED <<commands, args, active_command, active_option>>
  BY OptionStateSteps DEF CliIInv, OptionStates, CommandKnown, MachineStates
<1>2. value_ \in [OptionStates -> BOOLEAN]
  BY ContextTypesOpened DEF CliIInv, OptionTypeOK
<1>3. /\ HelpGiven <=> ovm_before[HELP] # <<>> \/ HelpNamedBefore
      /\ ActiveOption' = ActiveOption /\ ActiveOption.key \in Keys
      /\ ovm \in [Keys -> Seq(OptionValues)] /\ Reading
  BY <1>1, ContextTypesOpened
  DEF CliIInv, HelpInv, HelpFollowed, ActiveOption, CommandOptions
<1>4. ASSUME UNCHANGED <<input, token>>
      PROVE  HelpNamedBefore' <=> HelpNamedBefore
  BY <1>1, <1>4, SameHelpNamed
<1>5. ASSUME NextToken, token.type \in {"Value", "EqualSign"}
      PROVE  HelpNamedBefore' <=> HelpNamedBefore
  <2>1. ~HelpNamedNow
    BY <1>5 DEF HelpNamedNow, TokenNames
  <2> QED
    BY <1>1, <1>3, <1>5, <2>1, NextHelpNamed
<1>6. ASSUME HelpNamedBefore' <=> HelpNamedBefore, HelpGiven' <=> HelpGiven,
             machine' \in CommandKnown
      PROVE  HelpFollowed'
  BY <1>3, <1>6 DEF HelpFollowed
<1>7. machine' \in {machine, "ParseOptionsState"} => machine' \in CommandKnown
  BY <1>1 DEF CommandKnown, MachineStates
<1>9. ASSUME ~value_[machine], NEW v, StoreValue(ActiveOption.key, v),
             HelpGiven' <=> ovm'[HELP] # <<>>
      PROVE  HelpGiven' <=> HelpGiven
  <2>1. /\ ovm'[ActiveOption.key] = Append(ovm[ActiveOption.key], v)
        /\ \A k \in Keys : k # ActiveOption.key => ovm'[k] = ovm[k]
    BY <1>3, <1>9, StoredIs
  <2>2. CASE ActiveOption.key = HELP
    <3>1. Append(ovm[HELP], v) # <<>>
      BY <1>3, HelpIsKey, AppendNotEmpty
    <3> QED
      BY <1>1, <1>9, <2>1, <2>2, <3>1 DEF HelpGiven
  <2>3. CASE ActiveOption.key # HELP
    BY <1>9, <2>1, <2>3, HelpIsKey DEF HelpGiven
  <2> QED
    BY <2>2, <2>3
<1>10. CASE /\ UNCHANGED <<machine, ovm, value_>>
            /\ \/ UNCHANGED <<input, token>>
               \/ NextToken /\ token.type = "EqualSign"
  <2>1. HelpGiven' <=> HelpGiven
    BY <1>3, <1>10 DEF HelpGiven
  <2> QED
    BY <1>4, <1>5, <1>6, <1>7, <1>10, <2>1
<1>11. CASE /\ value_[machine] /\ UNCHANGED <<ovm, input, token>>
            /\ machine' = "ParseOptionsState"
            /\ value_' = [value_ EXCEPT ![machine] = FALSE]
  <2>1. HelpGiven' <=> HelpGiven
    BY <1>11 DEF HelpGiven, OptionStates
  <2> QED
    BY <1>4, <1>6, <1>7, <1>11, <2>1
<1>12. CASE /\ ~value_[machine] /\ UNCHANGED <<input, token>>
            /\ StoreValue(ActiveOption.key, ImplicitValue)
            /\ machine' = "ParseOptionsState"
            /\ value_' = [value_ EXCEPT ![machine] = FALSE]
  <2>1. HelpGiven' <=> ovm'[HELP] # <<>>
    BY <1>12 DEF HelpGiven, OptionStates
  <2> QED
    BY <1>4, <1>6, <1>7, <1>9, <1>12, <2>1
<1>13. CASE /\ ~value_[machine] /\ NextToken /\ token.type = "Value"
            /\ StoreValue(ActiveOption.key, TokenValue(token.text))
            /\ machine' = machine
            /\ value_' = [value_ EXCEPT ![machine] = TRUE]
  <2>1. value_'[machine] = TRUE
    BY <1>1, <1>2, <1>13
  <2>2. HelpGiven' <=> ovm'[HELP] # <<>>
    BY <1>13, <2>1 DEF HelpGiven
  <2> QED
    BY <1>5, <1>6, <1>7, <1>9, <1>13, <2>2
<1> QED
  BY <1>10, <1>11, <1>12, <1>13, OptionStateSteps DEF CliIInv

\* What FinalState stores is not for the help option.
LEMMA FinalHelp ==
  ASSUME CliIInv, HelpInv, HelpFollowed, HelpAsBuilt, ovm_before' = ovm_before,
         \/ Final_RestDeclared  \/ Final_Positional
         \/ Final_Leftover
         \/ Final_CheckOptions  \/ Final_CheckPositionals
  PROVE  HelpFollowed'
<1>1. /\ UNCHANGED <<commands, args, active_command, input, token, value_>>
      /\ machine = "FinalState" /\ machine' = "FinalState"
  BY DEF Final_RestDeclared, Final_Positional, Final_Leftover,
     Final_CheckOptions, Final_CheckPositionals, CheckRequiredOptions,
     Finishing, Handling, Undefined, ReportError, loopVars, fixedVars,
     contextVars, optionVars
<1>3. /\ IInv /\ ovm \in [Keys -> Seq(OptionValues)]
      /\ active_command # 0 /\ active_command \in DOMAIN commands
  BY <1>1, ContextTypesOpened
  DEF CliIInv, CommandKnown, MachineStates, ContextTypeOK
<1>4. /\ \A o \in DOMAIN CommandOptions :
           CommandOptions[o].key = HELP => ~CommandOptions[o].default
      /\ \A p \in DOMAIN Positionals : Positionals[p].key # HELP
  BY <1>3 DEF HelpAsBuilt, CommandOptions, Positionals
<1>5. ovm'[HELP] = ovm[HELP]
  <2>1. CASE StoresPositional
    <3>1. PICK p \in DOMAIN Positionals, text \in Segments :
            StorePositional(Positionals[p], text)
      BY <2>1 DEF StoresPositional
    <3>2. Positionals[p].key # HELP /\ Positionals[p].key \in Keys
      BY <1>3, <1>4, OptionOfCommand
    <3>3. \/ ovm' = ovm
          \/ StoreValue(Positionals[p].key, PositionalValue(text))
      BY <3>1 DEF StorePositional
    <3> QED
      BY <1>3, <3>2, <3>3, StoredIs, HelpIsKey
  <2>2. CASE FillsIn
    <3>1. PICK opts \in {CommandOptions, Positionals} : ApplyDefaults(opts)
      BY <2>2 DEF FillsIn
    <3> DEFINE stop == IF Missing(opts) = {} THEN Len(opts) + 1 ELSE Min(Missing(opts))
               K == {opts[i].key : i \in Defaulted(opts, stop)}
    <3>2. ovm' = [k \in Keys |-> IF k \in K THEN <<DefaultValue>> ELSE ovm[k]]
      BY <3>1, Zenon DEF ApplyDefaults
    <3>3. HELP \notin K
      BY <1>4 DEF Defaulted
    <3> HIDE DEF K
    <3> QED
      BY <3>2, <3>3, HelpIsKey
  <2> QED
    BY <1>3, <2>1, <2>2, FinalStateStores
<1>6. HelpGiven' <=> HelpGiven
  BY <1>1, <1>5 DEF HelpGiven, OptionStates
<1>7. HelpNamedBefore' <=> HelpNamedBefore
  BY <1>1, SameHelpNamed
<1>8. machine \in CommandKnown /\ machine # "DashDashState"
  BY <1>1 DEF CommandKnown, MachineStates
<1>9. HelpGiven <=> ovm_before[HELP] # <<>> \/ HelpNamedBefore
  BY <1>8 DEF HelpFollowed
<1> QED
  BY <1>1, <1>6, <1>7, <1>8, <1>9 DEF HelpFollowed

\* ValueFlags does not depend on what the options are.
LEMMA FlagsKept ==
  ASSUME IInv, ValueFlags, Step
  PROVE  ValueFlags'
<1>1. CASE \/ InitialState_Value    \/ InitialState_Other
           \/ IdentifyCommand_Value \/ IdentifyCommand_Other
           \/ ParseOptions_Value    \/ ParseOptions_EndOfInput
           \/ ParseOptions_DashDash \/ ParseOptions_EqualSign
           \/ ParseOptions_ShortOption \/ ParseOptions_LongOption
           \/ DashDash_Any
           \/ Final_RestDeclared  \/ Final_Positional
           \/ Final_Leftover
           \/ Final_CheckOptions  \/ Final_CheckPositionals
  <2>1. machine \notin OptionStates /\ value_' = value_
    BY <1>1 DEF InitialState_Value, InitialState_Other, IdentifyCommand_Value,
       IdentifyCommand_Other, ParseOptions_Value, ParseOptions_EndOfInput,
       ParseOptions_DashDash, ParseOptions_EqualSign, ParseOptions_ShortOption,
       ParseOptions_LongOption, DashDash_Any, Final_RestDeclared,
       Final_Positional, Final_Leftover, Final_CheckOptions,
       Final_CheckPositionals, CheckRequiredOptions, Finishing, Handling,
       optionVars, OptionStates
  <2> QED
    BY <2>1 DEF ValueFlags
<1>2. CASE \/ ParseShortOption_Value   \/ ParseShortOption_Other
           \/ ParseLongOption_EqualSign
           \/ ParseLongOption_Value    \/ ParseLongOption_Other
  <2>1. /\ machine \in OptionStates
        /\ \/ UNCHANGED <<machine, value_>>
           \/ value_' = [value_ EXCEPT ![machine] = FALSE]
           \/ machine' = machine /\ value_' = [value_ EXCEPT ![machine] = TRUE]
    BY <1>2, OptionStateSteps
  <2>2. value_ \in [OptionStates -> BOOLEAN]
    BY ContextTypesOpened DEF OptionTypeOK
  <2> QED
    BY <2>1, <2>2 DEF ValueFlags
<1> QED
  BY <1>1, <1>2 DEF Step

\* FinalState is entered with the end of input and keeps it; only its last
\* step accepts.
LEMMA EndOfLineKept ==
  ASSUME IInv, EndOfLine, Step
  PROVE  EndOfLine'
<1>1. CASE \/ Final_RestDeclared  \/ Final_Positional
           \/ Final_Leftover
           \/ Final_CheckOptions  \/ Final_CheckPositionals
  <2>1. UNCHANGED token /\ machine = "FinalState" /\ machine' = "FinalState"
    BY <1>1 DEF Final_RestDeclared, Final_Positional, Final_Leftover,
       Final_CheckOptions, Final_CheckPositionals, CheckRequiredOptions,
       Finishing, Handling, Undefined, ReportError, loopVars
  <2> QED
    BY <2>1 DEF EndOfLine
<1>2. CASE InitialState_Value \/ InitialState_Other
  <2>1. \/ \E s \in MachineStates \ {"FinalState"} : Proceed(s)
        \/ EnterParseOptions
        \/ token.type = "EndOfInput" /\ Reissue("FinalState")
        \/ machine = "InitialState" /\ \E e \in Errors : ReportError(e)
    BY <1>2 DEF InitialState_Value, InitialState_Other, Handling,
       EnterIdentifyCommand, EnterFinal, MachineStates, Errors
  <2>2. status = "running"
    BY <1>2 DEF InitialState_Value, InitialState_Other, Handling
  <2> QED
    BY <2>1, <2>2 DEF Proceed, EnterParseOptions, Abort, Reissue, ReportError,
       EndOfLine
<1>3. CASE IdentifyCommand_Value \/ IdentifyCommand_Other
  <2>1. \/ \E s \in MachineStates \ {"FinalState"} : Proceed(s)
        \/ EnterParseOptions
        \/ token.type = "EndOfInput" /\ Reissue("FinalState")
        \/ machine = "IdentifyCommandState" /\ \E e \in Errors : ReportError(e)
    BY <1>3 DEF IdentifyCommand_Value, IdentifyCommand_Other, Handling,
       FallBackToDefault, EnterFinal, MachineStates, Errors
  <2>2. status = "running"
    BY <1>3 DEF IdentifyCommand_Value, IdentifyCommand_Other, Handling
  <2> QED
    BY <2>1, <2>2 DEF Proceed, EnterParseOptions, Abort, Reissue, ReportError,
       EndOfLine
<1>4. CASE \/ ParseOptions_Value    \/ ParseOptions_EndOfInput
           \/ ParseOptions_DashDash \/ ParseOptions_EqualSign
           \/ ParseOptions_ShortOption \/ ParseOptions_LongOption
           \/ DashDash_Any
  <2>1. \/ \E s \in MachineStates \ {"FinalState"} : Proceed(s)
        \/ token.type = "EndOfInput" /\ Reissue("FinalState")
        \/ machine = "ParseOptionsState" /\ Undefined
        \/ machine = "ParseOptionsState" /\ \E e \in Errors : ReportError(e)
    BY <1>4 DEF ParseOptions_Value, ParseOptions_EndOfInput,
       ParseOptions_DashDash, ParseOptions_EqualSign, ParseOptions_ShortOption,
       ParseOptions_LongOption, DashDash_Any, Handling, EnterOption, EnterFinal,
       MachineStates, Errors
  <2>2. status = "running"
    BY <1>4 DEF ParseOptions_Value, ParseOptions_EndOfInput,
       ParseOptions_DashDash, ParseOptions_EqualSign, ParseOptions_ShortOption,
       ParseOptions_LongOption, DashDash_Any, Handling
  <2> QED
    BY <2>1, <2>2 DEF Proceed, Abort, Reissue, ReportError, Undefined, EndOfLine
<1>5. CASE \/ ParseShortOption_Value   \/ ParseShortOption_Other
           \/ ParseLongOption_EqualSign
           \/ ParseLongOption_Value    \/ ParseLongOption_Other
  <2>1. machine \in OptionStates /\ machine' \in {machine, "ParseOptionsState"}
    BY <1>5, OptionStateSteps
  <2>2. status' # "accepted"
    BY <1>5, NotYetChecked
    DEF Final_CheckOptions, Final_CheckPositionals, CheckRequiredOptions,
        Finishing, Handling, ParseShortOption_Value, ParseShortOption_Other,
        ParseLongOption_EqualSign, ParseLongOption_Value, ParseLongOption_Other
  <2> QED
    BY <2>1, <2>2 DEF EndOfLine, OptionStates
<1> QED
  BY <1>1, <1>2, <1>3, <1>4, <1>5 DEF Step

\* A step of the parser keeps HelpInv.
LEMMA StepHelp ==
  ASSUME CliIInv, HelpInv, ParserStep
  PROVE  HelpInv'
<1>1. Step /\ UNCHANGED callVars /\ phase = "parsing"
  BY DEF ParserStep
<1>2. Reading' /\ ValueFlags' /\ EndOfLine'
  BY <1>1, ReadingKept, FlagsKept, EndOfLineKept DEF CliIInv, HelpInv, Next
<1>3. PrintedIsLeft'
  BY <1>1 DEF PrintedIsLeft, Returned, callVars
<1>4. ASSUME HelpAsBuilt' PROVE HelpFollowed'
  <2>1. commands' = commands /\ ovm_before' = ovm_before
    BY <1>1, TokenMoves DEF Next, callVars
  <2>2. HelpAsBuilt /\ HelpFollowed
    BY <1>4, <2>1 DEF HelpAsBuilt, HelpInv
  <2> QED
    BY <1>1, <2>1, <2>2, IdentifyHelp, ParseOptionsHelp,
       OptionStateHelp, FinalHelp DEF Step
<1> QED
  BY <1>2, <1>3, <1>4 DEF HelpInv

\* HelpInv holds anew when a call begins.
LEMMA ParseHelp ==
  ASSUME NEW l \in Lines, Parse(l)
  PROVE  HelpInv'
<1>1. Reading' /\ HandledCount' = 0
  BY ParseReads
<1>2. /\ machine' = "InitialState" /\ status' = "running" /\ phase' = "parsing"
      /\ \A s \in OptionStates : ~value_'[s]
      /\ ovm_before' = ovm /\ ovm' = ovm
  BY DEF Parse, NewMachine
<1>3. ValueFlags' /\ EndOfLine' /\ PrintedIsLeft'
  BY <1>2 DEF ValueFlags, EndOfLine, PrintedIsLeft, Returned
<1>4. HelpFollowed'
  <2>1. 1..0 = {}
    OBVIOUS
  <2> QED
    BY <1>1, <1>2, <2>1 DEF HelpFollowed, CommandKnown
<1> QED
  BY <1>1, <1>3, <1>4 DEF HelpInv

\* What does not touch the parser keeps what is known of it.
LEMMA SameHelp ==
  ASSUME HelpInv, UNCHANGED <<vars, ovm_before>>
  PROVE  Reading' /\ ValueFlags' /\ EndOfLine' /\ (HelpAsBuilt' => HelpFollowed')
<1>1. UNCHANGED <<commands, args, input, token, machine, status, active_command,
                  active_option, ovm, value_, ovm_before>>
  BY DEF vars, fixedVars, loopVars, contextVars, optionVars
<1>2. Reading' /\ HandledCount' = HandledCount
  BY <1>1, NoTokenRead DEF HelpInv
<1>3. ValueFlags' /\ EndOfLine'
  BY <1>1 DEF HelpInv, ValueFlags, EndOfLine
<1>4. HelpNamedBefore' <=> HelpNamedBefore
  BY <1>1, SameHelpNamed
<1>5. HelpGiven' <=> HelpGiven
  BY <1>1 DEF HelpGiven, ActiveOption, CommandOptions
<1>6. HelpAsBuilt' => HelpFollowed'
  BY <1>1, <1>2, <1>4, <1>5 DEF HelpInv, HelpAsBuilt, HelpFollowed
<1> QED
  BY <1>2, <1>3, <1>6

\* After the parser, help for the active command is printed if the help option
\* has a value, and nothing that could be taken for it otherwise.
LEMMA ReturnHelp ==
  ASSUME HelpInv, Return_Help \/ Return_Version \/ Return_Context \/ Return_Throw
  PROVE  HelpInv'
<1>1. UNCHANGED <<vars, ovm_before>>
  BY DEF Return_Help, Return_Version, Return_Context, Return_Throw, Return
<1>2. UNCHANGED <<commands, status, active_command, ovm>>
  BY <1>1 DEF vars, fixedVars, loopVars, contextVars
<1>3. PrintedIsLeft'
  <2> SUFFICES ASSUME status = "accepted", Path(active_command) # <<HELP>>
               PROVE  printed' = CommandHelp(active_command) <=> ovm[HELP] # <<>>
    BY <1>2 DEF PrintedIsLeft, Path, CommandHelp
  <2>1. CASE Return_Help
    <3>1. ovm[HELP] # <<>> /\ printed' = HelpOutput
      BY <2>1 DEF Return_Help, HelpAsked, Return
    <3> QED
      BY <3>1 DEF HelpOutput
  <2>2. CASE Return_Version \/ Return_Context
    <3>1. ovm[HELP] = <<>> /\ printed' \in {VersionInfo, Nothing}
      BY <2>2 DEF Return_Version, Return_Context, HelpAsked, Return
    <3>2. /\ VersionInfo.kind = "version" /\ Nothing.kind = "nothing"
          /\ CommandHelp(active_command).kind = "help"
      BY DEF VersionInfo, Nothing, CommandHelp, Printed
    <3>3. VersionInfo.kind # "help" /\ Nothing.kind # "help"
      BY <3>2
    <3> QED
      BY <3>1, <3>2, <3>3, Zenon
  <2>3. ~Return_Throw
    BY DEF Return_Throw, Answered
  <2> QED
    BY <2>1, <2>2, <2>3
<1> QED
  BY <1>1, <1>3, SameHelp DEF HelpInv

\* HelpInv without a step.
LEMMA StutterHelp ==
  ASSUME HelpInv, UNCHANGED cliVars
  PROVE  HelpInv'
<1>1. /\ UNCHANGED <<vars, ovm_before, phase, calls, printed>>
      /\ UNCHANGED <<commands, status, active_command, ovm>>
  BY DEF cliVars, callVars, vars, fixedVars, loopVars, contextVars
<1>2. PrintedIsLeft'
  BY <1>1 DEF HelpInv, PrintedIsLeft, Returned, Path, CommandHelp
<1> QED
  BY <1>1, <1>2, SameHelp DEF HelpInv

\* HelpInv holds before the first call.
LEMMA InitHelp == CliInit => HelpInv
<1> SUFFICES ASSUME CliInit PROVE HelpInv
  OBVIOUS
<1>1. Init /\ ovm_before = ovm /\ calls = 0
  BY DEF CliInit
<1>2. Reading /\ HandledCount = 0
  BY <1>1, InitReads
<1>3. ValueFlags /\ EndOfLine /\ PrintedIsLeft
  BY <1>1 DEF Init, ValueFlags, EndOfLine, PrintedIsLeft, Returned
<1>4. HelpFollowed
  <2>1. 1..0 = {} /\ machine = "InitialState"
    BY <1>1 DEF Init
  <2> QED
    BY <1>1, <1>2, <2>1 DEF HelpFollowed, CommandKnown
<1> QED
  BY <1>2, <1>3, <1>4 DEF HelpInv

\* Every step keeps HelpInv.
LEMMA NextHelp == CliIInv /\ HelpInv /\ [CliNext]_cliVars => HelpInv'
BY ParseHelp, StepHelp, ReturnHelp, StutterHelp
DEF CliNext, CallStep, Finished

\* An accepted line has been read to its end.
LEMMA AllRead ==
  ASSUME CliIInv, HelpInv, status = "accepted"
  PROVE  /\ HelpNamedBefore <=> HelpNamed
         /\ machine = "FinalState"
<1>1. machine = "FinalState" /\ HandledCount = Len(args)
  BY PositionOfToken DEF HelpInv, EndOfLine
<1>2. DOMAIN args = 1..Len(args)
  BY DEF CliIInv, CliTypeOK, TypeOK, LoopTypeOK
<1> QED
  BY <1>1, <1>2 DEF HelpNamedBefore, HelpNamedAt, HelpNamed

\* In every sequence of calls an accepted call prints help for the command of
\* its line exactly when the help option is on that line or has a value from an
\* earlier call: wherever on the line the option stands, under both its names,
\* and whatever other options and values stand around it. No value of another
\* option, no positional argument and no default is taken for it.
THEOREM HelpWhenAsked == CliSpec => [](HelpAsBuilt => CommandHelpWhenAsked)
<1>1. CliIInv /\ HelpInv => (HelpAsBuilt => CommandHelpWhenAsked)
  <2> SUFFICES ASSUME CliIInv, HelpInv, HelpAsBuilt, Returned,
                      status = "accepted", Path(active_command) # <<HELP>>
               PROVE  printed = CommandHelp(active_command)
                        <=> HelpNamed \/ ovm_before[HELP] # <<>>
    BY DEF CommandHelpWhenAsked
  <2>1. printed = CommandHelp(active_command) <=> ovm[HELP] # <<>>
    BY DEF HelpInv, PrintedIsLeft
  <2>2. machine = "FinalState" /\ (HelpNamedBefore <=> HelpNamed)
    BY AllRead
  <2>3. HelpGiven <=> ovm_before[HELP] # <<>> \/ HelpNamedBefore
    BY <2>2 DEF HelpInv, HelpFollowed, CommandKnown, MachineStates
  <2>4. HelpGiven <=> ovm[HELP] # <<>>
    BY <2>2 DEF HelpGiven, OptionStates
  <2> QED
    BY <2>1, <2>2, <2>3, <2>4
<1>2. CliSpec => []HelpInv
  BY CliInvariant, InitHelp, NextHelp, PTL DEF CliSpec
<1> QED
  BY <1>1, <1>2, CliInvariant, PTL

-----------------------------------------------------------------------------
(* What tells a call from the first one *)

\* At the beginning of a call nothing but the values is there from before.
LEMMA BeginningFollows ==
  machine = "InitialState" /\ status = "running" /\ after_equal_sign = FALSE
    /\ positional_tokens = <<>>
    /\ next_positional = 1 /\ rest_option = 0 /\ options_checked = FALSE
  => \A stored : ovm = stored => Follows(stored)
<1>1. "InitialState" \notin OptionStates
  BY DEF OptionStates
<1> QED
  BY <1>1 DEF Follows

\* The same in the next state.
LEMMA BeginningFollowsLater ==
  (machine = "InitialState" /\ status = "running" /\ after_equal_sign = FALSE
     /\ positional_tokens = <<>>
     /\ next_positional = 1 /\ rest_option = 0 /\ options_checked = FALSE
   => \A stored : ovm = stored => Follows(stored))'
BY BeginningFollows, PTL

\* The command of the line is found, whatever command was active before,
\* unless the line is about no command.
CommandFollowed == ~NoCommand => CInv

\* What the call has come to so far follows from its command line and the
\* values that were there before.
LineFollowed ==
  NoGaps /\ PromiseApplies /\ ~NoCommand => Follows(ovm_before)

\* A call returns when the parser has.
ReturnedIsAnswered == Returned => status \in {"accepted", "rejected"}

\* The inductive invariant of what a call depends on.
CallInv == CommandFollowed /\ LineFollowed /\ ReturnedIsAnswered

\* A call that begins.
LEMMA ParseInCall ==
  ASSUME CliIInv, NEW l \in Lines, Parse(l)
  PROVE  CallInv'
<1>1. Reading' /\ HandledCount' = 0
  BY ParseReads
<1>2. /\ machine' = "InitialState" /\ status' = "running" /\ error' = "none"
      /\ path_segments' = <<>> /\ positional_tokens' = <<>>
      /\ after_equal_sign' = FALSE
      /\ next_positional' = 1 /\ rest_option' = 0 /\ options_checked' = FALSE
      /\ UNCHANGED <<commands, ovm>> /\ ovm_before' = ovm /\ phase' = "parsing"
      /\ DefaultCommands(commands) # {} =>
           active_command' = FirstIndex(DefaultCommands(commands))
  BY DEF Parse, NewMachine, NewContext
<1>3. DefaultCommands(commands)' = DefaultCommands(commands)
  BY <1>2 DEF DefaultCommands
<1>4. ASSUME ~NoCommand' PROVE CInv'
  <2>1. AtTheStart'
    BY <1>1, <1>2, <1>3, <1>4 DEF AtTheStart, NoCommand
  <2>2. Identifying' /\ CommandResolution'
    BY <1>2 DEF Identifying, CommandResolution, CommandKnown
  <2> QED
    BY <1>1, <2>1, <2>2 DEF CInv
<1>5. Follows(ovm_before)'
  <2>1. PICK stored : stored = ovm_before'
    OBVIOUS
  <2>2. Follows(stored)'
    BY <1>2, <2>1, BeginningFollowsLater
  <2> QED
    BY <2>1, <2>2, Zenon
<1> QED
  BY <1>2, <1>4, <1>5 DEF CallInv, CommandFollowed, LineFollowed,
     ReturnedIsAnswered, Returned

\* A step of the parser inside a call.
LEMMA StepInCall ==
  ASSUME CliIInv, CliIInv', HelpInv, CallInv, ParserStep
  PROVE  CallInv'
<1>1. Step /\ ovm_before' = ovm_before /\ phase' = "parsing"
        /\ UNCHANGED <<commands, args>>
  BY StepKeepsLine DEF ParserStep, callVars
<1>2. (NoCommand' <=> NoCommand) /\ (PromiseApplies' <=> PromiseApplies)
  BY <1>1, SameQuestion, AppliesLater DEF NoCommand
<1>3. IInv /\ IInv' /\ ValueFlags
  BY DEF CliIInv, HelpInv
<1>4. CommandFollowed'
  BY <1>1, <1>2, <1>3, NextResolves DEF CallInv, CommandFollowed, Next
<1>5. LineFollowed'
  <2> SUFFICES ASSUME NoGaps, PromiseApplies, ~NoCommand
               PROVE  Follows(ovm_before)'
    BY <1>2 DEF LineFollowed
  <2>1. PICK stored \in [Keys -> Seq(OptionValues)] : stored = ovm_before
    BY DEF CliIInv, CliTypeOK
  <2>2. Follows(stored)
    BY <2>1, Zenon DEF CallInv, LineFollowed
  <2>3. CInv
    BY DEF CallInv, CommandFollowed
  <2>4. Follows(stored)'
    BY <1>1, <1>3, <2>2, <2>3, StepFollows
  <2> QED
    BY <1>1, <2>1, <2>4, Zenon
<1> QED
  BY <1>1, <1>4, <1>5 DEF CallInv, ReturnedIsAnswered, Returned

\* What does not touch the parser keeps what is known of the call.
LEMMA SameCall ==
  ASSUME CallInv, UNCHANGED <<vars, ovm_before>>
  PROVE  CommandFollowed' /\ LineFollowed'
<1>1. UNCHANGED <<commands, args>>
  BY DEF vars, fixedVars
<1>2. (NoCommand' <=> NoCommand) /\ (PromiseApplies' <=> PromiseApplies)
  BY <1>1, SameQuestion, AppliesLater DEF NoCommand
<1>3. CommandFollowed'
  BY <1>2, StoppedKeeps DEF CallInv, CommandFollowed
<1>4. LineFollowed'
  <2> SUFFICES ASSUME NoGaps, PromiseApplies, ~NoCommand
               PROVE  Follows(ovm_before)'
    BY <1>2 DEF LineFollowed
  <2>1. PICK stored : stored = ovm_before
    OBVIOUS
  <2>2. Follows(stored)
    BY <2>1, Zenon DEF CallInv, LineFollowed
  <2>3. Follows(stored)'
    BY <2>2, FollowsKept
  <2> QED
    BY <2>1, <2>3, Zenon
<1> QED
  BY <1>3, <1>4

\* A call that returns.
LEMMA ReturnInCall ==
  ASSUME CallInv, Return_Help \/ Return_Version \/ Return_Context \/ Return_Throw
  PROVE  CallInv'
<1>1. UNCHANGED <<vars, ovm_before>> /\ status \in {"accepted", "rejected"}
  BY DEF Return_Help, Return_Version, Return_Context, Return_Throw, Return, Answered
<1>2. status' = status
  BY <1>1 DEF vars, loopVars
<1> QED
  BY <1>1, <1>2, SameCall DEF CallInv, ReturnedIsAnswered

\* No step.
LEMMA StutterInCall ==
  ASSUME CallInv, UNCHANGED cliVars
  PROVE  CallInv'
<1>1. UNCHANGED <<vars, ovm_before, phase, calls, status>>
  BY DEF cliVars, callVars, vars, loopVars
<1> QED
  BY <1>1, SameCall DEF CallInv, ReturnedIsAnswered, Returned

\* Before the first call.
LEMMA InitInCall == CliInit => CallInv
<1> SUFFICES ASSUME CliInit PROVE CallInv
  OBVIOUS
<1>1. Init /\ ovm_before = ovm /\ calls = 0
  BY DEF CliInit
<1>2. Follows(ovm_before)
  BY <1>1, BeginningFollows DEF Init
<1> QED
  BY <1>1, <1>2, InitResolves DEF CallInv, CommandFollowed, LineFollowed,
     ReturnedIsAnswered, Returned

\* It holds in every sequence of calls.
LEMMA CallInvariant == CliSpec => []CallInv
<1>1. CliIInv /\ HelpInv /\ CliIInv' /\ CallInv /\ [CliNext]_cliVars => CallInv'
  BY ParseInCall, StepInCall, ReturnInCall, StutterInCall
  DEF CliNext, CallStep, Finished
<1>2. CliSpec => []HelpInv
  BY CliInvariant, InitHelp, NextHelp, PTL DEF CliSpec
<1> QED
  BY <1>1, <1>2, CliInvariant, InitInCall, PTL DEF CliSpec

\* In every call, whatever command the calls before it left active: the command
\* that becomes active is the one with the longest path that begins the command
\* line, or the default command, unless the line is about no command at all.
THEOREM EveryCommandResolved == CliSpec => [](~NoCommand => CommandResolution)
<1>1. CallInv => (~NoCommand => CommandResolution)
  BY DEF CallInv, CommandFollowed, CInv
<1> QED
  BY <1>1, CallInvariant, PTL

\* The keys of a command are keys of the values.
LEMMA KeysOfTypes ==
  ASSUME IInv, NEW c \in DOMAIN commands
  PROVE  /\ KeysOf(c) \subseteq Keys
         /\ \A o \in DOMAIN commands[c].options :
              commands[c].options[o].key \in KeysOf(c)
         /\ \A a \in Promised!Arguments(c) : a.key \in KeysOf(c)
<1>1. commands[c].options \in Seq(Options) /\ commands[c].positionals \in Seq(Options)
  BY ContextTypesOpened, CommandTypes
<1>2. /\ \A o \in DOMAIN commands[c].options : commands[c].options[o].key \in Keys
      /\ \A p \in DOMAIN commands[c].positionals :
           commands[c].positionals[p].key \in Keys
  <2>1. ASSUME NEW list \in Seq(Options), NEW i \in DOMAIN list
        PROVE  list[i].key \in Keys
    <3>1. list[i] \in Options
      BY <2>1
    <3> QED
      BY <3>1 DEF Options
  <2> QED
    BY <1>1, <2>1
<1> QED
  BY <1>2 DEF KeysOf, Promised!Arguments, Promised!Declared

\* Two outcomes that cannot be told apart by the values of command c.
Alike(c, old, new) ==
  /\ old.status = new.status /\ old.command = new.command
  /\ \A k \in KeysOf(c) : old.values[k] = new.values[k]

\* What is promised for a command does not depend on the values of others.
LEMMA OutcomesAlike ==
  ASSUME IInv, Reading, NEW c \in DOMAIN commands,
         NEW stored \in [Keys -> Seq(OptionValues)],
         NEW fresh \in [Keys -> Seq(OptionValues)],
         \A k \in KeysOf(c) : stored[k] = fresh[k]
  PROVE  Alike(c, StoredOutcome(c, stored), StoredOutcome(c, fresh))
<1>1. /\ KeysOf(c) \subseteq Keys
      /\ \A o \in DOMAIN commands[c].options :
           commands[c].options[o].key \in KeysOf(c)
      /\ \A a \in Promised!Arguments(c) : a.key \in KeysOf(c)
  BY KeysOfTypes
<1>2. Promised!WrongOption(c, stored) <=> Promised!WrongOption(c, fresh)
  <2>1. ASSUME NEW i \in DOMAIN args, Promised!OptionsNamed(c, i) # {}
        PROVE  Promised!GivenBefore(c, i, stored) <=> Promised!GivenBefore(c, i, fresh)
    <3>1. PICK o \in DOMAIN commands[c].options :
            Promised!OptionAt(c, i) = commands[c].options[o]
      BY <2>1, OptionFound
    <3>2. stored[Promised!OptionAt(c, i).key] = fresh[Promised!OptionAt(c, i).key]
      BY <1>1, <3>1
    <3> QED
      BY <3>2, Zenon DEF Promised!GivenBefore
  <2>2. Promised!NamesAfterPath(c) \subseteq DOMAIN args
    BY DEF Promised!NamesAfterPath
  <2> QED
    BY <2>1, <2>2, Zenon DEF Promised!WrongOption
<1> DEFINE Old == StoredGiven(c, stored)
           New == StoredGiven(c, fresh)
           OldValues == StoredWithDefaults(c, Old)
           NewValues == StoredWithDefaults(c, New)
<1>3. \A k \in KeysOf(c) : Old[k] = New[k]
  BY <1>1 DEF StoredGiven
<1> HIDE DEF Old, New
<1>4. \A k \in KeysOf(c) : OldValues[k] = NewValues[k]
  BY <1>1, <1>3 DEF StoredWithDefaults
<1> HIDE DEF OldValues, NewValues
<1>5. Promised!Complete(c, OldValues) <=> Promised!Complete(c, NewValues)
  BY <1>1, <1>4 DEF Promised!Complete
<1>6. /\ StoredOutcome(c, stored) =
           IF Promised!WrongOption(c, stored) THEN Promised!Rejected
           ELSE IF Promised!TooFewTokens(c) THEN Promised!Undefined
           ELSE IF Promised!TooManyTokens(c) \/ ~Promised!Complete(c, OldValues)
             THEN Promised!Rejected
           ELSE Promised!Outcome("accepted", c, OldValues)
      /\ StoredOutcome(c, fresh) =
           IF Promised!WrongOption(c, fresh) THEN Promised!Rejected
           ELSE IF Promised!TooFewTokens(c) THEN Promised!Undefined
           ELSE IF Promised!TooManyTokens(c) \/ ~Promised!Complete(c, NewValues)
             THEN Promised!Rejected
           ELSE Promised!Outcome("accepted", c, NewValues)
  BY Zenon DEF StoredOutcome, OldValues, NewValues, Old, New
<1>7. Alike(c, Promised!Outcome("accepted", c, OldValues),
               Promised!Outcome("accepted", c, NewValues))
  BY <1>4 DEF Alike, Promised!Outcome
<1>8. \A x : Alike(c, x, x)
  BY DEF Alike
<1> QED
  BY <1>2, <1>5, <1>6, <1>7, <1>8, Zenon

\* In every sequence of calls, whatever the calls before stored, and whether
\* they were accepted or rejected half-way: a call that the promise is made for
\* answers as the first call on a fresh Cli would, with the same command and
\* the same values for it, unless there are values of that command from before.
\* No position in a list, no flag of an option state, no positional token, no
\* path segment and no active command of an earlier call is ever seen again.
THEOREM LeftoversTellCallsApart ==
  ASSUME NoGaps
  PROVE  CliSpec => [](PromiseApplies => OnlyLeftoversTellCallsApart)
<1>1. CliIInv /\ HelpInv /\ CallInv
        => (PromiseApplies => OnlyLeftoversTellCallsApart)
  <2> SUFFICES ASSUME CliIInv, HelpInv, CallInv, PromiseApplies, Returned,
                      NothingLeftOver
               PROVE  \E fresh \in Promised!Outcomes([k \in Keys |-> <<>>]) :
                        /\ status = fresh.status
                        /\ status = "accepted" =>
                             /\ active_command = fresh.command
                             /\ \A k \in KeysOf(active_command) :
                                  Seen(ovm)[k] = fresh.values[k]
    BY DEF OnlyLeftoversTellCallsApart
  <2>1. IInv /\ Reading /\ status \in {"accepted", "rejected"}
    BY DEF CliIInv, HelpInv, CallInv, ReturnedIsAnswered
  <2>2. PICK stored \in [Keys -> Seq(OptionValues)] : stored = ovm_before
    BY DEF CliIInv, CliTypeOK
  <2>3. PICK fresh \in [Keys -> Seq(OptionValues)] : fresh = [k \in Keys |-> <<>>]
    BY NoValuesBefore
  <2>4. Promised!Candidates # {} /\ ~NoCommand
    BY <2>1, CandidatePromised DEF NothingLeftOver
  <2>5. Follows(stored)
    BY <2>2, <2>4, Zenon DEF CallInv, LineFollowed
  <2>6. OutcomeNow \in StoredOutcomes(stored)
    BY <2>1, <2>5 DEF Follows
  <2>7. PICK c \in Promised!Candidates : OutcomeNow = StoredOutcome(c, stored)
    BY <2>4, <2>6, Zenon DEF StoredOutcomes
  <2>8. StoredOutcome(c, fresh) \in StoredOutcomes(fresh)
    BY <2>4, <2>7, Zenon DEF StoredOutcomes
  <2>9. c \in DOMAIN commands
    BY <2>7 DEF Promised!Candidates, Promised!Deepest, Promised!Named
  <2>10. \A k \in KeysOf(c) : stored[k] = fresh[k]
    BY <2>1, <2>2, <2>3, <2>7, <2>9, KeysOfTypes DEF NothingLeftOver
  <2>11. PICK old, new : /\ old = StoredOutcome(c, stored)
                         /\ new = StoredOutcome(c, fresh)
    OBVIOUS
  <2>12. Alike(c, old, new)
    BY <2>1, <2>9, <2>10, <2>11, OutcomesAlike
  <2>13. old.status = "accepted" => old.command = c
    BY <2>11, Zenon
    DEF StoredOutcome, Promised!Rejected, Promised!Undefined,
        Promised!Outcome
  <2>14. old = OutcomeNow
    BY <2>7, <2>11
  <2>15. PICK seen : seen = SeenOutcome(new)
    OBVIOUS
  <2>16. seen \in Promised!Outcomes([k \in Keys |-> <<>>])
    <3>1. Seen(fresh) = fresh
      BY <2>3, NothingSeen DEF Promised!NoValues
    <3>2. SeenOutcome(new) \in Promised!Outcomes(Seen(fresh))
      BY <2>1, <2>8, <2>11, SeenOutcomes
    <3> QED
      BY <2>3, <2>15, <3>1, <3>2, Zenon
  <2>17. /\ seen.status = new.status /\ seen.command = new.command
         /\ seen.values = Seen(new.values)
    BY <2>15 DEF SeenOutcome, Promised!Outcome
  <2>18. status = seen.status
    BY <2>12, <2>14, <2>17 DEF Alike, OutcomeNow
  <2>19. ASSUME status = "accepted"
         PROVE  /\ active_command = seen.command
                /\ \A k \in KeysOf(active_command) : Seen(ovm)[k] = seen.values[k]
    <3>1. old.status = "accepted" /\ old.command = active_command /\ old.values = ovm
      BY <2>14, <2>19 DEF OutcomeNow
    <3>2. active_command = c /\ active_command = seen.command
      BY <2>12, <2>13, <2>17, <3>1 DEF Alike
    <3>3. ASSUME NEW k \in KeysOf(c) PROVE Seen(ovm)[k] = seen.values[k]
      <4>1. k \in Keys
        BY <2>1, <2>9, <3>3, KeysOfTypes
      <4>2. ovm[k] = new.values[k]
        BY <2>12, <3>1, <3>3, Zenon DEF Alike
      <4> QED
        BY <2>17, <4>1, <4>2, Zenon DEF Seen
    <3> QED
      BY <3>2, <3>3
  <2> QED
    BY <2>16, <2>18, <2>19, Zenon
<1>2. CliSpec => []HelpInv
  BY CliInvariant, InitHelp, NextHelp, PTL DEF CliSpec
<1>3. CliSpec => []CallInv
  BY CallInvariant
<1> QED
  BY <1>1, <1>2, <1>3, CliInvariant, PTL


\* One token for each argument.
WordToken(t) == [type |-> "Value", text |-> t]

\* Sequences of one element each, put one behind the other.
LEMMA FlattenSingles ==
  ASSUME NEW S, NEW n \in Nat, NEW f \in [1..n -> S]
  PROVE  FlattenSeq([i \in 1..n |-> <<f[i]>>]) = f
<1> DEFINE seqs == [i \in 1..n |-> <<f[i]>>]
           upto(k) == [i \in 1..k |-> f[i]]
<1>1. Len(seqs) = n /\ \A i \in 1..n : seqs[i] = <<f[i]>>
  OBVIOUS
<1>2. CASE n = 0
  BY <1>1, <1>2 DEF FlattenSeq
<1>3. CASE n # 0
  <2> HIDE DEF seqs
  <2>0. n \in Nat \ {0} /\ Len(seqs) = n /\ seqs[1] \in Seq(S)
    <3>1. n \in Nat \ {0} /\ 1 \in 1..n
      BY <1>3
    <3>2. seqs[1] = <<f[1]>> /\ f[1] \in S
      BY <1>1, <3>1
    <3>3. <<f[1]>> \in Seq(S)
      BY <3>2
    <3> QED
      BY <1>1, <3>1, <3>2, <3>3
  <2>5. PICK g : FlattenedBy(seqs, n, g)
    BY <2>0, FlattenRecursion
  <2>1. /\ FlattenSeq(seqs) = g[n]
        /\ \A i \in 1..n : g[i] = IF i = 1 THEN seqs[i] ELSE g[i - 1] \o seqs[i]
    BY <2>5 DEF FlattenedBy
  <2> DEFINE T == {k \in Nat : k \in 1..n => g[k] = upto(k)}
  <2>2. 0 \in T
    OBVIOUS
  <2>3. ASSUME NEW k \in Nat, k \in T PROVE k + 1 \in T
    <3> SUFFICES ASSUME k + 1 \in 1..n PROVE g[k + 1] = upto(k + 1)
      OBVIOUS
    <3>1. seqs[k + 1] = <<f[k + 1]>> /\ f[k + 1] \in S
      BY <1>1
    <3>2. CASE k = 0
      <4>1. g[1] = <<f[1]>>
        BY <2>1, <3>1, <3>2
      <4>2. <<f[1]>> = upto(1)
        OBVIOUS
      <4> QED
        BY <3>2, <4>1, <4>2
    <3>3. CASE k # 0
      <4>1. k \in 1..n /\ (k + 1) - 1 = k /\ k + 1 # 1
        BY <3>3
      <4>2. g[k] = upto(k) /\ g[k + 1] = g[k] \o seqs[k + 1]
        BY <2>1, <2>3, <4>1
      <4>3. upto(k) \o <<f[k + 1]>> = upto(k + 1)
        <5>1. upto(k) \in Seq(S) /\ Len(upto(k)) = k
          BY <4>1
        <5> QED
          BY <3>1, <5>1
      <4> QED
        BY <3>1, <4>2, <4>3
    <3> QED
      BY <3>2, <3>3
  <2> HIDE DEF T
  <2>4. n \in T
    BY <2>2, <2>3, Induction
  <2>6. upto(n) = f
    OBVIOUS
  <2> QED
    BY <1>3, <2>1, <2>4, <2>6 DEF T, seqs
<1> QED
  BY <1>2, <1>3

\* Arguments that are values of one word are split into those values.
LEMMA TokenizedWords ==
  ASSUME NEW w \in Seq(DOMAIN TokensOf),
         \A i \in DOMAIN w : TokensOf[w[i]] = << WordToken(w[i]) >>
  PROVE  Tokenized(w) = [i \in 1..Len(w) |-> WordToken(w[i])]
<1> DEFINE empties == {i \in 1..Len(w) : TokensOf[w[i]] = <<>>}
           empty == IF empties # {} THEN Min(empties) ELSE 0
           length == IF empty = 0 THEN Len(w) ELSE empty - 1
           f == [i \in 1..Len(w) |-> WordToken(w[i])]
<1>1. Tokenized(w) = FlattenSeq([i \in 1..length |-> TokensOf[w[i]]])
  BY DEF Tokenized, SelectInSeq
<1>2. Len(w) \in Nat /\ DOMAIN w = 1..Len(w)
  OBVIOUS
<1>3. empties = {}
  <2>1. \A t : <<WordToken(t)>> # <<>>
    OBVIOUS
  <2>2. ASSUME NEW i \in 1..Len(w) PROVE TokensOf[w[i]] # <<>>
    <3>1. i \in DOMAIN w
      BY <1>2
    <3> QED
      BY <2>1, <3>1, Zenon
  <2> QED
    BY <2>2
<1>4. length = Len(w)
  BY <1>3
<1> HIDE DEF length
<1>5. [i \in 1..Len(w) |-> TokensOf[w[i]]] = [i \in 1..Len(w) |-> <<f[i]>>]
  <2>1. \A i \in 1..Len(w) : f[i] = WordToken(w[i])
    OBVIOUS
  <2>2. ASSUME NEW i \in 1..Len(w) PROVE TokensOf[w[i]] = << WordToken(w[i]) >>
    <3>1. i \in DOMAIN w
      BY <1>2
    <3> QED
      BY <3>1, Zenon
  <2> HIDE DEF f
  <2>3. \A i \in 1..Len(w) : TokensOf[w[i]] = <<f[i]>>
    BY <2>1, <2>2
  <2> QED
    BY <2>3
<1>6. f \in [1..Len(w) -> {WordToken(w[i]) : i \in 1..Len(w)}]
  OBVIOUS
<1> HIDE DEF f
<1>7. FlattenSeq([i \in 1..Len(w) |-> <<f[i]>>]) = f
  BY <1>2, <1>6, FlattenSingles
<1> QED
  BY <1>1, <1>4, <1>5, <1>7 DEF f
-----------------------------------------------------------------------------
(* The documented forms of asking for help and for the version *)

\* What an accepted call has printed when it returns.
AnswerPrinted ==
  Returned /\ status = "accepted" =>
    printed = IF HelpAsked THEN HelpOutput
              ELSE IF Path(active_command) = <<VERSION>> THEN VersionInfo
              ELSE Nothing

\* The first call finds no values.
NoCallBefore ==
  /\ calls = 0 => phase = "idle" /\ \A k \in Keys : ovm[k] = <<>>
  /\ calls = 1 => \A k \in Keys : ovm_before[k] = <<>>

\* The tokens are those of the command line of the last call.
LineIsRead == calls # 0 => args = Tokenized(Simplified(line))

\* The inductive invariant of the first call.
FormsInv == AnswerPrinted /\ NoCallBefore /\ LineIsRead

\* What is printed depends on commands, active command and values.
LEMMA SameAnswer ==
  ASSUME UNCHANGED <<commands, active_command, ovm>>
  PROVE  /\ HelpAsked' <=> HelpAsked
         /\ HelpOutput' = HelpOutput
         /\ (Path(active_command) = <<VERSION>>)' <=> Path(active_command) = <<VERSION>>
BY DEF HelpAsked, HelpOutput, Path, CommandHelp, Overview, UnknownPath, Printed,
       RequestedPath, FirstIndex

\* Before the first call.
LEMMA InitForms == CliInit => FormsInv
BY DEF CliInit, Init, FormsInv, AnswerPrinted, NoCallBefore, LineIsRead, Returned

\* A call that begins.
LEMMA ParseForms ==
  ASSUME CliIInv, FormsInv, NEW l \in Lines, Parse(l)
  PROVE  FormsInv'
<1>1. calls \in Nat
  BY MaxCallsAssumption DEF CliIInv, CliTypeOK
<1>2. /\ phase' = "parsing" /\ calls' = calls + 1 /\ line' = l
      /\ commands' = commands /\ ovm_before' = ovm
      /\ args' = Tokenized(Simplified(line'))
  BY DEF Parse, NewTokenizer
<1>4. args' = Tokenized(Simplified(line)')
  <2>1. args' = Tokenized(Simplified(l))
    BY <1>2 DEF Parse, NewTokenizer
  <2>2. Simplified(line)' = Simplified(l)
    BY <1>2 DEF Simplified, Unified, HasHelpCommand, HasVersionCommand, Path
  <2> QED
    BY <2>1, <2>2
<1>5. LineIsRead'
  BY <1>4 DEF LineIsRead
<1> QED
  BY <1>1, <1>2, <1>5 DEF FormsInv, AnswerPrinted, NoCallBefore, Returned

\* Nothing but the parser's own variables changes in a step of the parser.
LEMMA StepForms ==
  ASSUME CliIInv, FormsInv, ParserStep
  PROVE  FormsInv'
<1>1. /\ Step /\ phase = "parsing"
      /\ UNCHANGED <<commands, args, phase, calls, line, ovm_before>>
  BY StepKeepsLine DEF ParserStep, callVars
<1>2. calls # 0
  BY <1>1 DEF FormsInv, NoCallBefore
<1>3. LineIsRead'
  <2>2. Simplified(line)' = Simplified(line)
    BY <1>1 DEF Simplified, Unified, HasHelpCommand,
       HasVersionCommand, Path
  <2> QED
    BY <1>1, <1>2, <2>2 DEF FormsInv, LineIsRead
<1> QED
  BY <1>1, <1>2, <1>3 DEF FormsInv, AnswerPrinted, NoCallBefore, Returned

\* What leaves the parser and the line alone keeps the rest.
LEMMA SameForms ==
  ASSUME FormsInv, UNCHANGED <<vars, calls, line, ovm_before>>
  PROVE  LineIsRead' /\ (phase' = phase \/ calls # 0 => NoCallBefore')
<1>1. UNCHANGED <<commands, args, ovm>>
  BY DEF vars, fixedVars, contextVars
<1>2. Simplified(line)' = Simplified(line)
  BY <1>1 DEF Simplified, Unified, HasHelpCommand, HasVersionCommand, Path
<1> QED
  BY <1>1, <1>2 DEF FormsInv, LineIsRead, NoCallBefore

\* A call that returns.
LEMMA ReturnForms ==
  ASSUME FormsInv, Return_Help \/ Return_Version \/ Return_Context \/ Return_Throw
  PROVE  FormsInv'
<1>1. /\ phase = "parsing" /\ UNCHANGED <<vars, calls, line, ovm_before>>
      /\ status = "accepted" =>
           printed' = IF HelpAsked THEN HelpOutput
                      ELSE IF Path(active_command) = <<VERSION>> THEN VersionInfo
                      ELSE Nothing
  BY DEF Return_Help, Return_Version, Return_Context, Return_Throw, Return, Answered
<1>2. calls # 0
  BY <1>1 DEF FormsInv, NoCallBefore
<1>3. UNCHANGED <<commands, active_command, ovm, status>>
  BY <1>1 DEF vars, fixedVars, contextVars, loopVars
<1>4. Nothing' = Nothing /\ VersionInfo' = VersionInfo
  BY DEF Nothing, VersionInfo, Printed
<1>5. AnswerPrinted'
  BY <1>1, <1>3, <1>4, SameAnswer, Zenon DEF AnswerPrinted
<1> QED
  BY <1>1, <1>2, <1>5, SameForms DEF FormsInv

\* No step.
LEMMA StutterForms ==
  ASSUME FormsInv, UNCHANGED cliVars
  PROVE  FormsInv'
<1>1. UNCHANGED <<vars, calls, line, ovm_before, phase, printed>>
  BY DEF cliVars, callVars
<1>2. UNCHANGED <<commands, active_command, ovm, status>>
  BY <1>1 DEF vars, fixedVars, contextVars, loopVars
<1>3. Nothing' = Nothing /\ VersionInfo' = VersionInfo
  BY DEF Nothing, VersionInfo, Printed
<1>4. Returned' <=> Returned
  BY <1>1 DEF Returned
<1>5. AnswerPrinted'
  BY <1>1, <1>2, <1>3, <1>4, SameAnswer, Zenon DEF AnswerPrinted, FormsInv
<1> QED
  BY <1>1, <1>5, SameForms DEF FormsInv

\* It holds in every sequence of calls.
LEMMA FormsInvariant == CliSpec => []FormsInv
<1>1. CliIInv /\ FormsInv /\ [CliNext]_cliVars => FormsInv'
  BY ParseForms, StepForms, ReturnForms, StutterForms DEF CliNext, CallStep, Finished
<1> QED
  BY <1>1, CliInvariant, InitForms, PTL DEF CliSpec
-----------------------------------------------------------------------------

\* An argument that the tokenizer makes one value of.
IsWord(a) == a \in DOMAIN TokensOf /\ TokensOf[a] = << WordToken(a) >>

\* The help and version commands are as Cli makes them: no option of them is
\* required or has a default, and help takes the path of a command as its rest.
\* No other command has the path of a command, or one that begins with help,
\* and the names of commands are words.
FormsAsBuilt ==
  /\ \A c, d \in DOMAIN commands : Path(c) = Path(d) => c = d
  /\ \A c \in DOMAIN commands : Path(c)[1] = HELP => Len(Path(c)) = 1
  /\ \A c \in DOMAIN commands : Path(c) \in {<<HELP>>, <<VERSION>>} =>
       \A o \in DOMAIN commands[c].options :
         ~commands[c].options[o].required /\ ~commands[c].options[o].default
  /\ \A c \in DOMAIN commands : Path(c) = <<VERSION>> =>
       commands[c].positionals = <<>>
  /\ \A c \in DOMAIN commands : Path(c) = <<HELP>> =>
       LET declared == commands[c].positionals
       IN  /\ Len(declared) = 1 /\ declared[1].key = key_rest
           /\ ~declared[1].required /\ ~declared[1].default
           /\ \A d \in DOMAIN commands : ~IsDefault(commands[d]) =>
                \A i \in DOMAIN Path(d) : Path(d)[i] \in declared[1].accepts
  /\ IsWord(HELP) /\ IsWord(VERSION)
  /\ \A d \in DOMAIN commands : ~IsDefault(commands[d]) =>
       \A i \in DOMAIN Path(d) : IsWord(Path(d)[i])

\* The command line is n words w, the first of which is the name of command h,
\* the help or the version command.
AboutCommand(h, w, n) ==
  /\ n \in Nat \ {0} /\ args = [i \in 1..n |-> WordToken(w[i])]
  /\ h \in DOMAIN commands /\ Path(h) = <<w[1]>>
  /\ w[1] = HELP \/ (w[1] = VERSION /\ n = 1)

\* The line is about that command and no other, and its words are positional.
LEMMA WordsPromised ==
  ASSUME IInv, Reading, FormsAsBuilt, NEW h, NEW w, NEW n, AboutCommand(h, w, n)
  PROVE  /\ Promised!Candidates = {h} /\ Promised!NamesAfterPath(h) = {}
         /\ Promised!Positional(h) = 2..n
         /\ TokensFit
<1>1. /\ n \in Nat \ {0} /\ h \in DOMAIN commands
      /\ w[1] = HELP \/ (w[1] = VERSION /\ n = 1)
      /\ Path(h) = <<w[1]>> /\ commands[h].path = <<w[1]>>
  BY DEF AboutCommand, Path
<1>2. /\ DOMAIN args = 1..n
      /\ \A i \in 1..n : args[i].type = "Value" /\ args[i].text = w[i]
  BY DEF AboutCommand, WordToken
<1>3. /\ Promised!Named = {c \in DOMAIN commands : ~IsDefault(commands[c])}
  BY CommandsPromised
<1>4. h \in Promised!Named
  <2>1. commands[h].path # <<"">>
    <3>1. w[1] # ""
      BY <1>1 DEF HELP, VERSION
    <3>2. \A t : <<t>> = <<"">> => t = ""
      OBVIOUS
    <3> QED
      BY <1>1, <3>1, <3>2, Zenon
  <2> QED
    BY <1>1, <2>1 DEF Promised!Named
<1>5. Promised!Begins(h)
  BY <1>1, <1>2 DEF Promised!Begins, Promised!IsValueAt
<1>6. ASSUME NEW d \in Promised!Named, Promised!Begins(d) PROVE d = h
  <2>1. d \in DOMAIN commands
    BY <1>3
  <2>2. /\ Path(d) = commands[d].path /\ Len(Path(d)) \in Nat \ {0}
        /\ DOMAIN Path(d) = 1..Len(Path(d))
    BY <2>1, PathTypes DEF Path
  <2>3. \A i \in 1..Len(Path(d)) : i \in 1..n /\ args[i].text = Path(d)[i]
    BY <1>2, <1>6, <2>2 DEF Promised!Begins, Promised!IsValueAt
  <2>4. Path(d)[1] = w[1] /\ Len(Path(d)) <= n
    BY <1>1, <1>2, <2>2, <2>3
  <2>5. Len(Path(d)) = 1
    <3>1. Path(d)[1] = HELP => Len(Path(d)) = 1
      BY <2>1 DEF FormsAsBuilt
    <3>2. CASE w[1] = HELP
      BY <2>4, <3>1, <3>2
    <3>3. CASE n = 1
      <4>1. PICK m \in Nat \ {0} : m = Len(Path(d))
        BY <2>2
      <4>2. m <= 1
        BY <2>4, <3>3, <4>1
      <4>3. m = 1
        BY <4>2
      <4> QED
        BY <4>1, <4>3
    <3> QED
      BY <1>1, <3>2, <3>3
  <2>6. Path(d) = <<w[1]>>
    <3>1. PICK S : Path(d) \in Seq(S)
      BY <2>1, PathTypes
    <3> QED
      BY <2>2, <2>4, <2>5, <3>1
  <2> QED
    BY <1>1, <2>1, <2>6 DEF FormsAsBuilt
<1>7. Promised!Deepest = {h}
  <2>1. Len(commands[h].path) <= Len(commands[h].path)
    BY <1>1
  <2> QED
    BY <1>4, <1>5, <1>6, <2>1 DEF Promised!Deepest
<1>8. Promised!Start(h) = 1
  BY <1>1, <1>4 DEF Promised!Start
<1>9. Promised!NamesAfterPath(h) = {}
  BY <1>2 DEF Promised!NamesAfterPath, Promised!OptionNames
<1>10. Promised!Positional(h) = 2..n
  <2>1. {i \in DOMAIN args : i > 1 /\ Promised!IsValueAt(i)} = 2..n
    BY <1>1, <1>2 DEF Promised!IsValueAt
  <2> QED
    BY <1>8, <1>9, <2>1 DEF Promised!Positional
<1>11. TokensFit
  BY <1>1, <1>2 DEF TokensFit, HELP, VERSION
<1> QED
  BY <1>7, <1>9, <1>10, <1>11 DEF Promised!Candidates

\* No positions, none to go through in order.
LEMMA NothingInOrder == DOMAIN Promised!InOrder({}) = {}
BY InOrderIs, FS_EmptySet

\* A line of words for a command without names, needs and defaults is accepted,
\* and what is stored is what it gives by position.
LEMMA WordsAccepted ==
  ASSUME IInv, Reading, FormsAsBuilt, NEW h, NEW w, NEW n, AboutCommand(h, w, n),
         NEW stored \in [Keys -> Seq(OptionValues)], \A k \in Keys : stored[k] = <<>>,
         OutcomeNow \in StoredOutcomes(stored),
         ~Promised!TooFewTokens(h), ~Promised!TooManyTokens(h),
         \A a \in Promised!Arguments(h) : ~a.required /\ ~a.default
  PROVE  /\ status = "accepted" /\ active_command = h
         /\ \A k \in Keys : ovm[k] = StoredByPosition(h, k)
<1> DEFINE GivenHere == StoredGiven(h, stored)
           Values == StoredWithDefaults(h, GivenHere)
<1>1. /\ Promised!Candidates = {h} /\ Promised!NamesAfterPath(h) = {}
  BY WordsPromised
<1>2. OutcomeNow = StoredOutcome(h, stored)
  <2>1. Promised!Candidates # {}
    BY <1>1
  <2>2. PICK c \in Promised!Candidates : OutcomeNow = StoredOutcome(c, stored)
    BY <2>1, Zenon DEF StoredOutcomes
  <2>3. c = h
    BY <1>1
  <2> QED
    BY <2>2, <2>3, Zenon
<1>3. ~Promised!WrongOption(h, stored)
  BY <1>1 DEF Promised!WrongOption
<1>4. Promised!Complete(h, Values)
  BY DEF Promised!Complete
<1>5. OutcomeNow = Promised!Outcome("accepted", h, Values)
  BY <1>2, <1>3, <1>4, Zenon DEF StoredOutcome
<1>6. ASSUME NEW k \in Keys PROVE Values[k] = StoredByPosition(h, k)
  <2>1. StoredByName(h, k) = <<>>
    <3>1. NamesOfKey(h, k) = Promised!InOrder({})
      <4>1. {i \in Promised!NamesAfterPath(h) : Promised!OptionAt(h, i).key = k} = {}
        BY <1>1
      <4> QED
        BY <4>1 DEF NamesOfKey
    <3> QED
      BY <3>1, NothingInOrder DEF StoredByName
  <2>2. PICK S : StoredByPosition(h, k) \in Seq(S)
    <3>1. PICK m \in Nat : DOMAIN TokensOfKey(h, k) = 1..m
      <4>1. TakenFor(h, k) \in SUBSET (1..Total(h))
        BY TakenPositions
      <4>2. Total(h) \in Nat
        BY AllTexts
      <4> QED
        BY <4>1, <4>2, RankIsNatural, InOrderIs DEF TokensOfKey
    <3> DEFINE P == StoredByPosition(h, k)
    <3>2. P = [i \in 1..m |-> PositionStores(h, TokensOfKey(h, k)[i])]
      BY <3>1 DEF StoredByPosition
    <3> HIDE DEF P
    <3>3. P \in Seq({PositionStores(h, TokensOfKey(h, k)[i]) : i \in 1..m})
      BY <3>2
    <3> QED
      BY <3>3 DEF P
  <2>3. GivenHere[k] = stored[k] \o StoredByName(h, k)
                     \o StoredByPosition(h, k)
    BY DEF StoredGiven
  <2>4. GivenHere[k] = StoredByPosition(h, k)
    BY <2>1, <2>2, <2>3
  <2>5. Values[k] = GivenHere[k]
    BY DEF StoredWithDefaults
  <2> QED
    BY <2>4, <2>5
<1> HIDE DEF Values
<1> QED
  BY <1>5, <1>6 DEF OutcomeNow, Promised!Outcome

\* The version command has no value then.
LEMMA VersionAnswered ==
  ASSUME IInv, Reading, FormsAsBuilt, NEW h, NEW w, AboutCommand(h, w, 1),
         w[1] = VERSION,
         NEW stored \in [Keys -> Seq(OptionValues)], \A k \in Keys : stored[k] = <<>>,
         OutcomeNow \in StoredOutcomes(stored)
  PROVE  status = "accepted" /\ Path(active_command) = <<VERSION>> /\ ovm[HELP] = <<>>
<1>1. h \in DOMAIN commands /\ Path(h) = <<VERSION>>
  BY Zenon DEF AboutCommand
<1>2. commands[h].positionals = <<>>
  BY <1>1 DEF FormsAsBuilt
<1>3. Promised!Declared(h) = {}
  BY <1>2 DEF Promised!Declared
<1>4. Promised!Positional(h) = {}
  <2>1. Promised!Positional(h) = 2..1
    BY WordsPromised
  <2> QED
    BY <2>1
<1>5. ~Promised!TooFewTokens(h) /\ ~Promised!TooManyTokens(h)
  <2>1. Promised!Cardinality({}) = 0
    BY SameCardinality, FS_EmptySet
  <2>2. Promised!TakesRest(h) = {}
    BY <1>3 DEF Promised!TakesRest
  <2> QED
    BY <1>3, <1>4, <2>1, <2>2 DEF Promised!TooFewTokens, Promised!TooManyTokens
<1>6. \A a \in Promised!Arguments(h) : ~a.required /\ ~a.default
  <2>1. \A o \in DOMAIN commands[h].options :
          ~commands[h].options[o].required /\ ~commands[h].options[o].default
    BY <1>1 DEF FormsAsBuilt
  <2> QED
    BY <1>3, <2>1, Zenon DEF Promised!Arguments
<1>7. /\ status = "accepted" /\ active_command = h
      /\ \A k \in Keys : ovm[k] = StoredByPosition(h, k)
  BY <1>5, <1>6, WordsAccepted
<1>8. StoredByPosition(h, HELP) = <<>>
  <2>1. TokensOfKey(h, HELP) = Promised!InOrder({})
    BY <1>3 DEF TokensOfKey, TakenFor
  <2> QED
    BY <2>1, NothingInOrder DEF StoredByPosition
<1> QED
  BY <1>1, <1>7, <1>8, HelpIsKey

\* The positions from the second one on, in order.
LEMMA InOrderBehindFirst ==
  ASSUME NEW n \in Nat \ {0}
  PROVE  /\ DOMAIN Promised!InOrder(2..n) = 1..n - 1
         /\ \A i \in 1..n - 1 : Promised!InOrder(2..n)[i] = i + 1
<1>1. Cardinality(2..n) = n - 1
  BY FS_Interval
<1>2. ASSUME NEW i \in 1..n - 1 PROVE Promised!InOrder(2..n)[i] = i + 1
  <2>1. \A j \in 2..n : Rank(2..n, j) = j - 1
    <3> SUFFICES ASSUME NEW j \in 2..n PROVE Rank(2..n, j) = j - 1
      OBVIOUS
    <3>1. {m \in 2..n : m <= j} = 2..j
      OBVIOUS
    <3>2. Cardinality(2..j) = j - 1
      BY FS_Interval
    <3> QED
      BY <3>1, <3>2 DEF Rank
  <2>2. Promised!InOrder(2..n)[i] = CHOOSE j \in 2..n : Rank(2..n, j) = i
    BY <1>1, InOrderIs
  <2>3. \A j \in 2..n : Rank(2..n, j) = i <=> j = i + 1
    BY <2>1
  <2>4. i + 1 \in 2..n
    OBVIOUS
  <2> QED
    BY <2>2, <2>3, <2>4
<1> QED
  BY <1>1, <1>2, InOrderIs

\* The help command gets the other words, one by one, as its rest.
LEMMA HelpAnswered ==
  ASSUME IInv, Reading, FormsAsBuilt, NEW h, NEW w, NEW n, AboutCommand(h, w, n),
         w[1] = HELP, \A i \in 2..n : w[i] \in commands[h].positionals[1].accepts,
         NEW stored \in [Keys -> Seq(OptionValues)], \A k \in Keys : stored[k] = <<>>,
         OutcomeNow \in StoredOutcomes(stored)
  PROVE  /\ status = "accepted" /\ Path(active_command) = <<HELP>>
         /\ ovm[HELP] = <<>> /\ DOMAIN ovm[key_rest] = 1..n - 1
         /\ \A i \in 1..n - 1 : ovm[key_rest][i].text = w[i + 1]
<1>1. h \in DOMAIN commands /\ Path(h) = <<HELP>> /\ n \in Nat \ {0}
  BY Zenon DEF AboutCommand
<1>2. PICK declared : declared = commands[h].positionals
  OBVIOUS
<1>3. /\ Len(declared) = 1 /\ DOMAIN declared = {1} /\ declared[1].key = key_rest
      /\ ~declared[1].required /\ ~declared[1].default
  <2>1. declared \in Seq(Options)
    BY <1>1, <1>2, ContextTypesOpened, CommandTypes
  <2>2. Len(declared) = 1 /\ declared[1].key = key_rest
        /\ ~declared[1].required /\ ~declared[1].default
    BY <1>1, <1>2 DEF FormsAsBuilt
  <2> QED
    BY <2>1, <2>2
<1>4. Promised!Declared(h) = {1} /\ Promised!TakesRest(h) = {1}
  BY <1>2, <1>3 DEF Promised!Declared, Promised!TakesRest, key_rest
<1>5. Promised!Positional(h) = 2..n
  BY WordsPromised
<1>6. ~Promised!TooFewTokens(h) /\ ~Promised!TooManyTokens(h)
  <2>1. Promised!Cardinality({}) = 0 /\ Promised!Cardinality(2..n) \in Nat
    BY <1>1, SameCardinality, FS_EmptySet, FS_Interval
  <2>2. Promised!Declared(h) \ Promised!TakesRest(h) = {}
    BY <1>4
  <2>3. Promised!TooFewTokens(h) =>
          Promised!Cardinality(2..n) < Promised!Cardinality({})
    BY <1>5, <2>2, Zenon DEF Promised!TooFewTokens
  <2>4. ~Promised!TooManyTokens(h)
    BY <1>4 DEF Promised!TooManyTokens
  <2> QED
    BY <2>1, <2>3, <2>4
<1>7. \A a \in Promised!Arguments(h) : ~a.required /\ ~a.default
  <2>1. \A o \in DOMAIN commands[h].options :
          ~commands[h].options[o].required /\ ~commands[h].options[o].default
    BY <1>1 DEF FormsAsBuilt
  <2>2. \A p \in {1} : ~commands[h].positionals[p].required
                         /\ ~commands[h].positionals[p].default
    BY <1>2, <1>3
  <2> QED
    BY <1>4, <2>1, <2>2, Zenon DEF Promised!Arguments
<1>8. /\ status = "accepted" /\ active_command = h
      /\ \A k \in Keys : ovm[k] = StoredByPosition(h, k)
  BY <1>6, <1>7, WordsAccepted
<1>9. ovm[HELP] = <<>>
  <2>1. TakenFor(h, HELP) = {}
    BY <1>2, <1>3, <1>4 DEF TakenFor, HELP, key_rest
  <2>2. TokensOfKey(h, HELP) = Promised!InOrder({})
    BY <2>1 DEF TokensOfKey
  <2>3. StoredByPosition(h, HELP) = <<>>
    <3>1. PICK nothing : nothing = TokensOfKey(h, HELP)
      OBVIOUS
    <3>2. DOMAIN nothing = {}
      BY <2>2, <3>1, NothingInOrder, Zenon
    <3>3. StoredByPosition(h, HELP)
            = [i \in DOMAIN nothing |-> PositionStores(h, nothing[i])]
      BY <3>1, Zenon DEF StoredByPosition
    <3> QED
      BY <3>2, <3>3
  <2> QED
    BY <1>8, <2>3, HelpIsKey
<1> DEFINE at == Promised!InOrder(Promised!Positional(h))
<1>10. /\ DOMAIN at = 1..n - 1 /\ Len(at) = n - 1
       /\ \A i \in 1..n - 1 : at[i] = i + 1
  <2>1. Len(at) = Total(h) /\ DOMAIN at = 1..Total(h) /\ Total(h) \in Nat
    BY TakenPositions, AllTexts
  <2>2. DOMAIN at = 1..n - 1 /\ \A i \in 1..n - 1 : at[i] = i + 1
    BY <1>1, <1>5, InOrderBehindFirst
  <2> HIDE DEF at
  <2> QED
    BY <1>1, <2>1, <2>2
<1>11. \A i \in 1..n - 1 : args[i + 1].text = w[i + 1]
  BY <1>1 DEF AboutCommand, WordToken
<1>12. Promised!Share(h, 1, n - 1) = 1..n - 1
  <2>1. Promised!Cardinality({1}) = 1
    BY SameCardinality, FS_Singleton
  <2>2. Promised!First({1}) = 1
    BY DEF Promised!First
  <2> QED
    BY <1>1, <1>4, <2>1, <2>2 DEF Promised!Share
<1>13. TakenFor(h, key_rest) = 1..n - 1
  <2>1. TakenFor(h, key_rest) =
          {m \in DOMAIN at : \E p \in Promised!Declared(h) :
             /\ commands[h].positionals[p].key = key_rest
             /\ m \in Promised!Share(h, p, Len(at))
             /\ args[at[m]].text \in commands[h].positionals[p].accepts}
    BY DEF TakenFor
  <2> HIDE DEF at
  <2>2. \A m \in 1..n - 1 : args[at[m]].text \in declared[1].accepts
    <3> SUFFICES ASSUME NEW m \in 1..n - 1
                 PROVE  args[at[m]].text \in declared[1].accepts
      OBVIOUS
    <3>1. m + 1 \in 2..n /\ args[at[m]].text = w[m + 1]
      BY <1>1, <1>10, <1>11
    <3> QED
      BY <1>2, <3>1
  <2> QED
    BY <1>2, <1>3, <1>4, <1>10, <1>12, <2>1, <2>2
<1>14. TokensOfKey(h, key_rest) = Promised!InOrder(1..n - 1)
  BY <1>13 DEF TokensOfKey
<1>15. /\ DOMAIN Promised!InOrder(1..n - 1) = 1..n - 1
       /\ \A i \in 1..n - 1 : Promised!InOrder(1..n - 1)[i] = i
  <2>1. n - 1 \in Nat /\ Cardinality(1..n - 1) = n - 1
    BY <1>1, FS_Interval
  <2> QED
    BY <2>1, InOrderIs, InOrderInterval
<1>16. ovm[key_rest] =
         [i \in 1..n - 1 |->
            PositionStores(h, Promised!InOrder(1..n - 1)[i])]
  <2>1. ovm[key_rest] = StoredByPosition(h, key_rest)
    BY <1>8, KeysOfCliAssumption
  <2>2. StoredByPosition(h, key_rest) =
          [i \in DOMAIN TokensOfKey(h, key_rest) |->
             PositionStores(h, TokensOfKey(h, key_rest)[i])]
    BY Zenon DEF StoredByPosition
  <2> QED
    BY <1>14, <1>15, <2>1, <2>2
<1>17. ASSUME NEW i \in 1..n - 1
       PROVE  PositionStores(h, Promised!InOrder(1..n - 1)[i]).text = w[i + 1]
  <2>1. Promised!InOrder(1..n - 1)[i] = i
    BY <1>15
  <2>2. PositionStores(h, i).text = args[at[i]].text
    BY DEF PositionStores, PositionalValue
  <2> HIDE DEF at
  <2> QED
    BY <1>10, <1>11, <2>1, <2>2
<1> QED
  BY <1>1, <1>8, <1>9, <1>16, <1>17

\* What the first call comes to is what is promised for its line.
LEMMA FirstCallAnswered ==
  ASSUME NoGaps, CliIInv, Reading, CallInv, FormsInv, PositionalsDeclared,
         FormsAsBuilt, Returned, calls = 1,
         NEW h, NEW w, NEW n, AboutCommand(h, w, n)
  PROVE  \E stored \in [Keys -> Seq(OptionValues)] :
           /\ \A k \in Keys : stored[k] = <<>>
           /\ OutcomeNow \in StoredOutcomes(stored)
<1>1. IInv /\ status \in {"accepted", "rejected"}
  BY DEF CliIInv, CallInv, ReturnedIsAnswered
<1>2. Promised!Candidates = {h} /\ TokensFit
  BY <1>1, WordsPromised
<1>3. PromiseApplies /\ ~NoCommand
  BY <1>1, <1>2, CandidatePromised DEF PromiseApplies
<1>4. PICK stored \in [Keys -> Seq(OptionValues)] : stored = ovm_before
  BY DEF CliIInv, CliTypeOK
<1>5. Follows(stored)
  BY <1>3, <1>4, Zenon DEF CallInv, LineFollowed
<1>6. OutcomeNow \in StoredOutcomes(stored)
  BY <1>1, <1>5 DEF Follows
<1>7. \A k \in Keys : stored[k] = <<>>
  BY <1>4 DEF FormsInv, NoCallBefore
<1> QED
  BY <1>6, <1>7

\* The forms of help and version are read as the words help and version, and
\* what follows help as the words of a path.
LEMMA FormsAreWords ==
  ASSUME FormsInv, calls = 1, NEW S, NEW w \in Seq(S), \A i \in DOMAIN w : IsWord(w[i]),
         Simplified(line) = w
  PROVE  args = [i \in 1..Len(w) |-> WordToken(w[i])]
<1>1. w \in Seq(DOMAIN TokensOf)
  <2>1. \A i \in 1..Len(w) : w[i] \in DOMAIN TokensOf
    BY DEF IsWord
  <2> QED
    BY <2>1
<1>2. args = Tokenized(w)
  BY DEF FormsInv, LineIsRead
<1>3. \A i \in DOMAIN w : TokensOf[w[i]] = << WordToken(w[i]) >>
  BY DEF IsWord
<1> QED
  BY <1>1, <1>2, <1>3, TokenizedWords

\* The names of the commands are told from each other.
LEMMA NamesDiffer == <<HELP>> # <<VERSION>>
<1>1. \A s, t : <<s>> = <<t>> => s = t
  OBVIOUS
<1> QED
  BY <1>1 DEF HELP, VERSION

\* The forms of the version.
LEMMA VersionFormsAnswer ==
  ASSUME NoGaps, CliIInv, Reading, CallInv, FormsInv, PositionalsDeclared,
         FormsAsBuilt, Returned, calls = 1, HasVersionCommand,
         NEW f \in VersionForms \cup {VERSION}, line = <<f>>
  PROVE  printed = VersionInfo
<1>1. PICK h \in DOMAIN commands : Path(h) = <<VERSION>>
  BY DEF HasVersionCommand
<1>2. PICK w : w = <<VERSION>>
  OBVIOUS
<1>3. Unified(f) = VERSION
  BY DEF Unified, VersionForms, HelpForms, VERSION, HELP
<1>4. Simplified(line) = w
  <2>1. line # <<>> /\ line[1] = f
    OBVIOUS
  <2>2. Simplified(line) = [line EXCEPT ![1] = Unified(line[1])]
    BY <2>1 DEF Simplified
  <2> QED
    BY <1>2, <1>3, <2>1, <2>2
<1>5. w \in Seq({VERSION}) /\ Len(w) = 1 /\ w[1] = VERSION /\ DOMAIN w = {1}
  BY <1>2
<1>6. \A i \in DOMAIN w : IsWord(w[i])
  BY <1>5 DEF FormsAsBuilt
<1>7. args = [i \in 1..1 |-> WordToken(w[i])]
  BY <1>4, <1>5, <1>6, FormsAreWords
<1>8. AboutCommand(h, w, 1)
  BY <1>1, <1>5, <1>7 DEF AboutCommand
<1>9. PICK stored \in [Keys -> Seq(OptionValues)] :
        /\ \A k \in Keys : stored[k] = <<>>
        /\ OutcomeNow \in StoredOutcomes(stored)
  BY <1>8, FirstCallAnswered
<1>10. status = "accepted" /\ Path(active_command) = <<VERSION>> /\ ovm[HELP] = <<>>
  BY <1>5, <1>8, <1>9, VersionAnswered DEF CliIInv
<1> QED
  BY <1>10, NamesDiffer DEF FormsInv, AnswerPrinted, HelpAsked

\* What is known of a call of help for the path of n - 1 words.
HelpLine(w, n) ==
  /\ n \in Nat \ {0} /\ w[1] = HELP /\ args = [i \in 1..n |-> WordToken(w[i])]
  /\ \A i \in 2..n : \E d \in DOMAIN commands : ~IsDefault(commands[d]) /\
       \E j \in DOMAIN Path(d) : w[i] = Path(d)[j]

\* Such a call stores the path and prints the help that the path asks for.
LEMMA HelpLineAnswers ==
  ASSUME NoGaps, CliIInv, Reading, CallInv, FormsInv, PositionalsDeclared,
         FormsAsBuilt, Returned, calls = 1, HasHelpCommand,
         NEW w, NEW n, HelpLine(w, n)
  PROVE  /\ printed = HelpOutput /\ ovm[HELP] = <<>>
         /\ DOMAIN ovm[key_rest] = 1..n - 1
         /\ \A i \in 1..n - 1 : ovm[key_rest][i].text = w[i + 1]
<1>1. PICK h \in DOMAIN commands : Path(h) = <<HELP>>
  BY DEF HasHelpCommand
<1>2. AboutCommand(h, w, n)
  BY <1>1 DEF AboutCommand, HelpLine
<1>3. PICK stored \in [Keys -> Seq(OptionValues)] :
        /\ \A k \in Keys : stored[k] = <<>>
        /\ OutcomeNow \in StoredOutcomes(stored)
  BY <1>2, FirstCallAnswered
<1>4. \A i \in 2..n : w[i] \in commands[h].positionals[1].accepts
  <2>1. \A d \in DOMAIN commands : ~IsDefault(commands[d]) =>
          \A j \in DOMAIN Path(d) : Path(d)[j] \in commands[h].positionals[1].accepts
    BY <1>1 DEF FormsAsBuilt
  <2> QED
    BY <2>1 DEF HelpLine
<1>5. w[1] = HELP
  BY DEF HelpLine
<1>6. /\ status = "accepted" /\ Path(active_command) = <<HELP>>
      /\ ovm[HELP] = <<>> /\ DOMAIN ovm[key_rest] = 1..n - 1
      /\ \A i \in 1..n - 1 : ovm[key_rest][i].text = w[i + 1]
  BY <1>2, <1>3, <1>4, <1>5, HelpAnswered DEF CliIInv
<1> QED
  BY <1>6 DEF FormsInv, AnswerPrinted, HelpAsked

\* The forms of help for no command.
LEMMA HelpFormsAnswer ==
  ASSUME NoGaps, CliIInv, Reading, CallInv, FormsInv, PositionalsDeclared,
         FormsAsBuilt, Returned, calls = 1, HasHelpCommand,
         NEW f \in HelpForms \cup {HELP}, line = <<f>>
  PROVE  printed = Overview
<1>1. PICK w : w = <<HELP>>
  OBVIOUS
<1>2. Unified(f) = HELP
  BY DEF Unified, VersionForms, HelpForms, VERSION, HELP
<1>3. Simplified(line) = w
  <2>1. line # <<>> /\ line[1] = f
    OBVIOUS
  <2>2. Simplified(line) = [line EXCEPT ![1] = Unified(line[1])]
    BY <2>1 DEF Simplified
  <2> QED
    BY <1>1, <1>2, <2>1, <2>2
<1>4. w \in Seq({HELP}) /\ Len(w) = 1 /\ w[1] = HELP /\ DOMAIN w = {1}
  BY <1>1
<1>5. \A i \in DOMAIN w : IsWord(w[i])
  BY <1>4 DEF FormsAsBuilt
<1>6. args = [i \in 1..1 |-> WordToken(w[i])]
  BY <1>3, <1>4, <1>5, FormsAreWords
<1>7. HelpLine(w, 1)
  BY <1>4, <1>6 DEF HelpLine
<1>8. printed = HelpOutput /\ ovm[HELP] = <<>> /\ DOMAIN ovm[key_rest] = 1..1 - 1
  BY <1>7, HelpLineAnswers
<1>9. ovm[key_rest] = <<>>
  <2>1. ovm[key_rest] \in Seq(OptionValues)
    BY KeysOfCliAssumption DEF CliIInv, CliTypeOK, TypeOK, ContextTypeOK
  <2> QED
    BY <1>8, <2>1
<1> QED
  BY <1>8, <1>9 DEF HelpOutput

\* Help for a command, by its path.
LEMMA HelpOfPathAnswers ==
  ASSUME NoGaps, CliIInv, Reading, CallInv, FormsInv, PositionalsDeclared,
         FormsAsBuilt, Returned, calls = 1, HasHelpCommand,
         NEW c \in DOMAIN commands, ~IsDefault(commands[c]),
         line = <<HELP>> \o Path(c)
  PROVE  printed = CommandHelp(c)
<1>1. PICK path \in Seq(Segments) : path = Path(c) /\ Len(path) \in Nat \ {0}
  BY PathTypes DEF CliIInv
<1>2. PICK w : w = <<HELP>> \o path
  OBVIOUS
<1> DEFINE n == Len(path) + 1
<1>3. /\ w \in Seq(Segments \cup {HELP}) /\ Len(w) = n /\ n \in Nat \ {0}
      /\ w[1] = HELP /\ w # <<>>
      /\ \A i \in 1..n - 1 : w[i + 1] = path[i]
      /\ \A i \in 2..n : i - 1 \in DOMAIN path /\ w[i] = path[i - 1]
  <2>1. HELP \in Segments \cup {HELP} /\ path \in Seq(Segments \cup {HELP})
    BY <1>1
  <2> QED
    BY <1>1, <1>2, <2>1
<1>4. Simplified(line) = w
  <2>1. Unified(HELP) = HELP
    BY DEF Unified, VersionForms, HelpForms, VERSION, HELP
  <2>2. line = w
    BY <1>1, <1>2
  <2>3. Simplified(line) = [w EXCEPT ![1] = Unified(w[1])]
    BY <1>3, <2>2, Zenon DEF Simplified
  <2>4. [w EXCEPT ![1] = w[1]] = w
    BY <1>3
  <2> QED
    BY <1>3, <2>1, <2>3, <2>4
<1> HIDE DEF n
<1>5. \A i \in DOMAIN w : IsWord(w[i])
  <2>1. ASSUME NEW i \in 1..n PROVE IsWord(w[i])
    <3>1. CASE i = 1
      BY <1>3, <3>1 DEF FormsAsBuilt
    <3>2. CASE i # 1
      <4>1. i \in 2..n
        BY <1>3, <3>2
      <4>2. i - 1 \in DOMAIN Path(c) /\ w[i] = Path(c)[i - 1]
        BY <1>1, <1>3, <4>1
      <4>3. IsWord(Path(c)[i - 1])
        BY <4>2 DEF FormsAsBuilt
      <4> QED
        BY <4>2, <4>3
    <3> QED
      BY <3>1, <3>2
  <2>2. DOMAIN w = 1..n
    BY <1>3
  <2> QED
    BY <2>1, <2>2
<1>6. args = [i \in 1..n |-> WordToken(w[i])]
  BY <1>3, <1>4, <1>5, FormsAreWords
<1>7. HelpLine(w, n)
  BY <1>1, <1>3, <1>6 DEF HelpLine
<1>8. /\ printed = HelpOutput /\ ovm[HELP] = <<>>
      /\ DOMAIN ovm[key_rest] = 1..n - 1
      /\ \A i \in 1..n - 1 : ovm[key_rest][i].text = w[i + 1]
  BY <1>7, HelpLineAnswers
<1>9. RequestedPath = Path(c)
  <2>1. RequestedPath = [i \in 1..n - 1 |-> path[i]]
    BY <1>3, <1>8 DEF RequestedPath
  <2>2. [i \in 1..n - 1 |-> path[i]] = path
    BY <1>1 DEF n
  <2> QED
    BY <1>1, <2>1, <2>2
<1>10. {d \in DOMAIN commands : Path(d) = RequestedPath} = {c}
  BY <1>9 DEF FormsAsBuilt
<1>11. FirstIndex({c}) = c /\ c # 0
  <2>1. {c} \subseteq DOMAIN commands /\ c # 0
    BY PathTypes DEF CliIInv
  <2>2. Min({c}) \in {c}
    <3>1. commands \in Seq(CommandRecords)
      BY ContextTypesOpened, CommandTypes DEF CliIInv
    <3> QED
      BY <2>1, <3>1, IndexInSequence
  <2> QED
    BY <2>1, <2>2 DEF FirstIndex
<1>12. ovm[key_rest] # <<>>
  <2>1. 1 \in 1..n - 1
    BY <1>1 DEF n
  <2>2. 1 \in DOMAIN ovm[key_rest]
    BY <1>8, <2>1
  <2> QED
    BY <2>2
<1> QED
  BY <1>8, <1>10, <1>11, <1>12 DEF HelpOutput

\* For every list of commands and every tokenizer that leaves words as they
\* are: the first call with one of the documented forms prints the version, the
\* overview, or the help of the command whose path is given, whatever the other
\* commands and their options are, and however long the path is.
THEOREM FormsAnswer ==
  ASSUME NoGaps
  PROVE  CliSpec =>
           [](PositionalsDeclared /\ FormsAsBuilt => DocumentedFormsAnswer)
<1>1. CliIInv /\ HelpInv /\ CallInv /\ FormsInv
        => (PositionalsDeclared /\ FormsAsBuilt => DocumentedFormsAnswer)
  <2> SUFFICES ASSUME CliIInv, HelpInv, CallInv, FormsInv, PositionalsDeclared,
                      FormsAsBuilt, Returned, calls = 1,
                      HasHelpCommand, HasVersionCommand
               PROVE  /\ line \in {<<f>> : f \in VersionForms \cup {VERSION}}
                           => printed = VersionInfo
                      /\ line \in {<<f>> : f \in HelpForms \cup {HELP}}
                           => printed = Overview
                      /\ \A c \in DOMAIN commands :
                           ~IsDefault(commands[c]) /\ line = <<HELP>> \o Path(c)
                             => printed = CommandHelp(c)
    BY DEF DocumentedFormsAnswer
  <2>1. Reading
    BY DEF HelpInv
  <2> QED
    BY <2>1, VersionFormsAnswer, HelpFormsAnswer, HelpOfPathAnswers
<1>2. CliSpec => []HelpInv
  BY CliInvariant, InitHelp, NextHelp, PTL DEF CliSpec
<1> QED
  BY <1>1, <1>2, CliInvariant, CallInvariant, FormsInvariant, PTL
=============================================================================

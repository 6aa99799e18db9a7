------------------------ MODULE CmdLineParserProofs ------------------------
(***************************************************************************)
(* Proofs about CmdLineParser, for every list of commands, every token     *)
(* stream and both kinds of build: types and contracts; the command found, *)
(* which is the deepest one that begins the command line; and the two ways *)
(* in which a debug build dies.                                            *)
(***************************************************************************)
EXTENDS CmdLineParser, Lemmas

-----------------------------------------------------------------------------
(* The least and the greatest index of a set *)

\* FirstIndex and LastIndex of a set of positions of a sequence: 0 exactly
\* when the set is empty, else a member of it.
LEMMA IndexOfSet ==
  ASSUME NEW n \in Nat, NEW T \in SUBSET (1..n)
  PROVE  /\ FirstIndex(T) \in {0} \cup T
         /\ LastIndex(T) \in {0} \cup T
         /\ T # {} => FirstIndex(T) \in T /\ LastIndex(T) \in T
<1>1. CASE T = {}
  BY <1>1 DEF FirstIndex, LastIndex
<1>2. CASE T # {}
  <2>0. T \in SUBSET Nat /\ T \in SUBSET (0..n)
    OBVIOUS
  <2>1. \E x \in T : \A y \in T : x <= y
    BY <1>2, <2>0, LeastExists
  <2>2. \E x \in T : \A y \in T : x >= y
    BY <1>2, <2>0, GreatestExists
  <2>3. Min(T) \in T
    BY <2>1 DEF Min
  <2>4. Max(T) \in T
    BY <2>2 DEF Max
  <2> QED
    BY <1>2, <2>3, <2>4 DEF FirstIndex, LastIndex
<1> QED
  BY <1>1, <1>2


\* The same for positions of a given sequence.
LEMMA IndexInSequence ==
  ASSUME NEW S, NEW s \in Seq(S), NEW T, T \subseteq DOMAIN s
  PROVE  /\ FirstIndex(T) \in {0} \cup DOMAIN s
         /\ LastIndex(T) \in {0} \cup DOMAIN s
         /\ FirstIndex(T) # 0 => FirstIndex(T) \in T
         /\ LastIndex(T) # 0 => LastIndex(T) \in T
         /\ T # {} => Min(T) \in T /\ Max(T) \in T
<1>1. Len(s) \in Nat /\ DOMAIN s = 1..Len(s)
  OBVIOUS
<1>2. T \in SUBSET (1..Len(s))
  BY <1>1
<1>3. /\ FirstIndex(T) \in {0} \cup T
      /\ LastIndex(T) \in {0} \cup T
      /\ T # {} => FirstIndex(T) \in T /\ LastIndex(T) \in T
  BY <1>1, <1>2, IndexOfSet
<1>4. T # {} => Min(T) \in T /\ Max(T) \in T
  BY <1>3 DEF FirstIndex, LastIndex
<1> QED
  BY <1>1, <1>2, <1>3, <1>4

-----------------------------------------------------------------------------
(* Types *)

\* Before a command is known no option and no positional argument is looked at.
NothingParsed ==
  machine \notin CommandKnown =>
    active_option = 0 /\ rest_option = 0 /\ positional_tokens = <<>>

\* The inductive invariant of type correctness.
IInv == TypeOK /\ AssertionsHold /\ NothingParsed

\* What the definition of a CLI guarantees about the commands in it.
LEMMA CommandTypes ==
  ASSUME ContextTypeOK
  PROVE  /\ commands \in Seq(CommandRecords)
         /\ \A c \in DOMAIN commands :
              /\ Path(c) \in Seq(Texts \cup {""})
              /\ commands[c].options \in Seq(Options)
              /\ commands[c].positionals \in Seq(Options)
         /\ active_command # 0 => /\ active_command \in DOMAIN commands
                                  /\ CommandOptions \in Seq(Options)
                                  /\ Positionals \in Seq(Options)
         /\ active_option # 0 => ActiveOption \in Options
<1>1. commands \in Seq(CommandRecords)
  BY CLIsAssumption DEF ContextTypeOK
<1>2. \A c \in DOMAIN commands : commands[c] \in CommandRecords
  BY <1>1
<1>3. \A c \in DOMAIN commands :
        /\ commands[c].path \in Seq(Texts \cup {""})
        /\ commands[c].options \in Seq(Options)
        /\ commands[c].positionals \in Seq(Options)
  BY <1>2 DEF CommandRecords
<1>4. active_command # 0 => /\ active_command \in DOMAIN commands
                            /\ CommandOptions \in Seq(Options)
                            /\ Positionals \in Seq(Options)
  BY <1>3 DEF ContextTypeOK, CommandOptions, Positionals
<1>5. ASSUME active_option # 0 PROVE ActiveOption \in Options
  <2>1. CommandOptions \in Seq(Options) /\ active_option \in DOMAIN CommandOptions
    BY <1>4, <1>5 DEF ContextTypeOK
  <2>2. CommandOptions[active_option] \in Options
    BY <2>1
  <2> QED
    BY <2>2 DEF ActiveOption
<1> QED
  BY <1>1, <1>3, <1>4, <1>5 DEF Path

\* The answers of the machine keep the types of the loop.
LEMMA ProceedTypes ==
  ASSUME LoopTypeOK, status = "running", NEW s \in MachineStates, Proceed(s),
         args' = args
  PROVE  LoopTypeOK' /\ machine' = s
<1>1. CASE ContractsEnforced /\ token.type = "EndOfInput"
  BY <1>1 DEF Proceed, Abort, LoopTypeOK, Statuses
<1>2. CASE ~(ContractsEnforced /\ token.type = "EndOfInput")
  <2>1. machine' = s /\ NextToken /\ UNCHANGED <<status, error>>
    BY <1>2 DEF Proceed
  <2>2. EndOfInput \in Tokens
    BY DEF EndOfInput, Tokens, TokenTypes
  <2>3. token' \in Tokens /\ input' \in Seq(Tokens)
    BY <2>1, <2>2 DEF NextToken, LoopTypeOK
  <2> QED
    BY <2>1, <2>3 DEF LoopTypeOK
<1> QED
  BY <1>1, <1>2

LEMMA ReissueTypes ==
  ASSUME LoopTypeOK, NEW s \in MachineStates, Reissue(s), args' = args
  PROVE  LoopTypeOK' /\ machine' = s
BY DEF Reissue, LoopTypeOK

LEMMA EnterParseOptionsTypes ==
  ASSUME LoopTypeOK, status = "running", EnterParseOptions, args' = args
  PROVE  LoopTypeOK' /\ machine' = "ParseOptionsState"
BY DEF EnterParseOptions, Abort, Reissue, LoopTypeOK, Statuses, MachineStates

LEMMA ReportErrorTypes ==
  ASSUME LoopTypeOK, NEW e \in Errors, ReportError(e), args' = args
  PROVE  LoopTypeOK' /\ machine' = machine
BY DEF ReportError, LoopTypeOK, Statuses, Errors

LEMMA UndefinedTypes ==
  ASSUME LoopTypeOK, status = "running", Undefined, args' = args
  PROVE  LoopTypeOK' /\ machine' = machine
BY DEF Undefined, LoopTypeOK, Statuses

\* Storing a value of the right type keeps the map well typed.
LEMMA StoreTypes ==
  ASSUME ovm \in [Keys -> Seq(OptionValues)], NEW k \in Keys,
         NEW v \in OptionValues, StoreValue(k, v)
  PROVE  ovm' \in [Keys -> Seq(OptionValues)]
BY DEF StoreValue

LEMMA ValueTypes ==
  /\ ImplicitValue \in OptionValues
  /\ DefaultValue \in OptionValues
  /\ \A text \in Texts \cup {""} : /\ TokenValue(text) \in OptionValues
                                   /\ PositionalValue(text) \in OptionValues
BY DEF ImplicitValue, DefaultValue, TokenValue, PositionalValue, OptionValues

-----------------------------------------------------------------------------
(* Every step keeps the types *)

LEMMA InitTypes == Init => IInv
<1> SUFFICES ASSUME Init PROVE IInv
  OBVIOUS
<1>1. commands \in CLIs /\ args \in Inputs
  BY DEF Init
<1>2. commands \in Seq(CommandRecords)
  BY <1>1, CLIsAssumption
<1>3. args \in Seq(Tokens) /\ EndOfInput \in Tokens
  <2> DEFINE Kept_ == {t \in Tokens : t.type # "EndOfInput"}
  <2>1. args \in Seq(Kept_)
    BY <1>1, InputsAssumption
  <2>2. Kept_ \subseteq Tokens
    OBVIOUS
  <2>3. args \in Seq(Tokens)
    BY <2>1, <2>2, SeqMonotonic
  <2>4. EndOfInput \in Tokens
    BY DEF EndOfInput, Tokens, TokenTypes
  <2> QED
    BY <2>3, <2>4
<1>4. LoopTypeOK
  BY <1>3 DEF Init, LoopTypeOK, MachineStates, Statuses, Errors
<1>5. DefaultCommands(commands) \subseteq DOMAIN commands
  BY DEF DefaultCommands
<1>6. active_command \in {0} \cup DOMAIN commands
  <2>1. FirstIndex(DefaultCommands(commands)) \in {0} \cup DOMAIN commands
    BY <1>2, <1>5, IndexInSequence
  <2> QED
    BY <2>1 DEF Init
<1>7. ContextTypeOK
  BY <1>1, <1>6 DEF Init, ContextTypeOK
<1>8. IdentifyTypeOK /\ OptionTypeOK /\ FinalTypeOK
  <2>1. IdentifyTypeOK
    BY DEF Init, IdentifyTypeOK
  <2>2. OptionTypeOK
    BY Zenon DEF Init, OptionTypeOK
  <2>3. FinalTypeOK
    <3>1. options_checked \in BOOLEAN
      BY DEF Init
    <3>2. next_positional = 1 /\ rest_option = 0
      BY DEF Init
    <3> QED
      BY <3>1, <3>2 DEF FinalTypeOK
  <2> QED
    BY <2>1, <2>2, <2>3
<1>9. AssertionsHold /\ NothingParsed
  BY DEF Init, AssertionsHold, NothingParsed, CommandKnown, OptionStates
<1> QED
  BY <1>4, <1>7, <1>8, <1>9 DEF IInv, TypeOK

LEMMA InitialStateTypes ==
  ASSUME IInv, InitialState_Value \/ InitialState_Other
  PROVE  IInv'
<1> USE DEF IInv, TypeOK
<1>0. /\ status = "running" /\ machine = "InitialState" /\ args' = args
      /\ UNCHANGED <<commands, contextVars, optionVars, finalVars>>
  BY DEF InitialState_Value, InitialState_Other, Handling, fixedVars
<1>1. ContextTypeOK' /\ OptionTypeOK' /\ FinalTypeOK'
  BY <1>0 DEF contextVars, optionVars, finalVars, ContextTypeOK, OptionTypeOK,
     FinalTypeOK, CommandOptions, Positionals
<1>2. NothingParsed'
  BY <1>0 DEF contextVars, finalVars, NothingParsed, CommandKnown
<1>3. CASE InitialState_Value /\ MaybeCommand(token.text)
  <2>1. EnterIdentifyCommand
    BY <1>3 DEF InitialState_Value
  <2>2. LoopTypeOK' /\ machine' = "IdentifyCommandState"
    BY <2>1, <1>0, ProceedTypes DEF EnterIdentifyCommand, MachineStates
  <2>3. commands \in Seq(CommandRecords) /\ token.text \in Texts \cup {""}
    BY CommandTypes DEF LoopTypeOK, Tokens
  <2>4. /\ LastIndex(DefaultCommands(commands)) \in {0} \cup DOMAIN commands
        /\ LastIndex({c \in DOMAIN commands : Path(c) = <<token.text>>})
             \in {0} \cup DOMAIN commands
    <3> DEFINE Whole == {c \in DOMAIN commands : Path(c) = <<token.text>>}
    <3>1. /\ DefaultCommands(commands) \subseteq DOMAIN commands
          /\ Whole \subseteq DOMAIN commands
      BY DEF DefaultCommands
    <3> HIDE DEF Whole
    <3>2. LastIndex(Whole) \in {0} \cup DOMAIN commands
      BY <2>3, <3>1, IndexInSequence
    <3>3. LastIndex(DefaultCommands(commands)) \in {0} \cup DOMAIN commands
      BY <2>3, <3>1, IndexInSequence
    <3> QED
      BY <3>2, <3>3 DEF Whole
  <2>5. IdentifyTypeOK'
    <3>1. path_segments' \in Seq(Texts \cup {""})
      BY <2>1, <2>3, AppendProperties DEF EnterIdentifyCommand, IdentifyTypeOK
    <3> QED
      BY <2>1, <2>4, <3>1, <1>0 DEF EnterIdentifyCommand, IdentifyTypeOK
  <2>6. AssertionsHold'
    <3>1. path_segments' # <<>>
      <4>1. path_segments \in Seq(Texts \cup {""})
        BY DEF IdentifyTypeOK
      <4>2. Append(path_segments, token.text) # <<>>
        BY <4>1, <2>3, AppendProperties, ZenonT(30)
      <4> QED
        BY <2>1, <4>2 DEF EnterIdentifyCommand
    <3>2. filtered_commands' # {}
      BY <2>1, <1>3 DEF EnterIdentifyCommand, MaybeCommand
    <3>3. positional_tokens' = <<>>
      BY <1>0 DEF contextVars, NothingParsed, CommandKnown
    <3> QED
      BY <2>2, <3>1, <3>2, <3>3 DEF AssertionsHold, CommandKnown, OptionStates
  <2> QED
    BY <2>2, <2>5, <2>6, <1>1, <1>2
<1>4. CASE ~(InitialState_Value /\ MaybeCommand(token.text))
  <2>1. /\ UNCHANGED identifyVars
        /\ \/ active_command # 0 /\ EnterParseOptions
           \/ active_command # 0 /\ Reissue("FinalState")
           \/ active_command # 0 /\ Proceed("DashDashState")
           \/ ReportError("UnrecognizedCommand")
           \/ ReportError("MissingCommand")
    BY <1>4 DEF InitialState_Value, InitialState_Other, EnterFinal
  <2>2. IdentifyTypeOK'
    BY <2>1, <1>0 DEF identifyVars, IdentifyTypeOK
  <2>3. \/ /\ LoopTypeOK' /\ active_command # 0
           /\ machine' \in {"ParseOptionsState", "FinalState", "DashDashState"}
        \/ LoopTypeOK' /\ machine' = "InitialState"
    BY <2>1, <1>0, EnterParseOptionsTypes, ReissueTypes, ProceedTypes,
       ReportErrorTypes DEF MachineStates, Errors
  <2>4. AssertionsHold'
    BY <2>3, <1>0 DEF contextVars, AssertionsHold, CommandKnown, OptionStates,
       MachineStates
  <2> QED
    BY <2>2, <2>3, <2>4, <1>1, <1>2
<1> QED
  BY <1>3, <1>4

\* OnLeave empties the members of IdentifyCommandState.
LEMMA LeaveIdentifyTypes == LeaveIdentifyCommand => IdentifyTypeOK'
BY DEF LeaveIdentifyCommand, IdentifyTypeOK

LEMMA IdentifyCommandTypes ==
  ASSUME IInv, IdentifyCommand_Value \/ IdentifyCommand_Other
  PROVE  IInv'
<1> USE DEF IInv, TypeOK
<1>0. /\ status = "running" /\ machine = "IdentifyCommandState" /\ args' = args
      /\ UNCHANGED <<commands, active_option, ovm, optionVars, finalVars>>
  BY DEF IdentifyCommand_Value, IdentifyCommand_Other, Handling, fixedVars
<1>1. /\ active_option = 0 /\ rest_option = 0 /\ positional_tokens = <<>>
      /\ path_segments # <<>> /\ filtered_commands # {}
  BY <1>0 DEF NothingParsed, AssertionsHold, CommandKnown
<1>2. OptionTypeOK' /\ FinalTypeOK'
  BY <1>0, <1>1 DEF optionVars, finalVars, OptionTypeOK, FinalTypeOK
<1>3. ASSUME active_command' \in {0} \cup DOMAIN commands,
             positional_tokens' \in Seq(Texts \cup {""})
      PROVE  ContextTypeOK'
  BY <1>0, <1>1, <1>3 DEF ContextTypeOK
<1>4. CASE /\ path_segments' = Append(path_segments, token.text)
           /\ filtered_commands' \subseteq filtered_commands
           /\ filtered_commands' # {}
           /\ last_matched_command' \in {0} \cup DOMAIN commands
           /\ Proceed("IdentifyCommandState")
           /\ UNCHANGED <<default_command, active_command, positional_tokens>>
  <2>1. LoopTypeOK' /\ machine' = "IdentifyCommandState"
    BY <1>0, <1>4, ProceedTypes DEF MachineStates
  <2>2. token.text \in Texts \cup {""} /\ path_segments \in Seq(Texts \cup {""})
    BY DEF LoopTypeOK, Tokens, IdentifyTypeOK
  <2>3. path_segments' \in Seq(Texts \cup {""}) /\ path_segments' # <<>>
    BY <1>4, <2>2, AppendProperties, ZenonT(30)
  <2>4. IdentifyTypeOK'
    BY <1>0, <1>4, <2>3 DEF IdentifyTypeOK
  <2>5. ContextTypeOK'
    BY <1>3, <1>4 DEF ContextTypeOK
  <2>6. AssertionsHold' /\ NothingParsed'
    BY <1>0, <1>1, <1>4, <2>1, <2>3
    DEF AssertionsHold, NothingParsed, CommandKnown, OptionStates, finalVars
  <2> QED
    BY <1>2, <2>1, <2>4, <2>5, <2>6
<1>5. CASE /\ active_command' # 0
           /\ active_command' \in DOMAIN commands
           /\ positional_tokens' \in Seq(Texts \cup {""})
           /\ \/ EnterParseOptions
              \/ Reissue("FinalState")
              \/ Proceed("DashDashState")
           /\ LeaveIdentifyCommand
  <2>1. /\ LoopTypeOK'
        /\ machine' \in {"ParseOptionsState", "FinalState", "DashDashState"}
    BY <1>0, <1>5, EnterParseOptionsTypes, ReissueTypes, ProceedTypes
    DEF MachineStates
  <2>2. ContextTypeOK' /\ IdentifyTypeOK'
    BY <1>3, <1>5, LeaveIdentifyTypes
  <2>3. AssertionsHold' /\ NothingParsed'
    BY <1>5, <2>1 DEF AssertionsHold, NothingParsed, CommandKnown, OptionStates,
       MachineStates
  <2> QED
    BY <1>2, <2>1, <2>2, <2>3
<1>6. CASE /\ ReportError("UnrecognizedCommand")
           /\ UNCHANGED <<identifyVars, active_command, positional_tokens>>
  <2>1. LoopTypeOK' /\ machine' = machine
    BY <1>0, <1>6, ReportErrorTypes DEF Errors
  <2>2. ContextTypeOK'
    <3>1. /\ active_command' \in {0} \cup DOMAIN commands
          /\ positional_tokens' \in Seq(Texts \cup {""})
      BY <1>6 DEF ContextTypeOK
    <3> QED
      BY <3>1, <1>3
  <2>3. IdentifyTypeOK'
    BY <1>0, <1>6 DEF IdentifyTypeOK, identifyVars
  <2>4. AssertionsHold' /\ NothingParsed'
    BY <1>0, <1>1, <1>6, <2>1 DEF AssertionsHold, NothingParsed, CommandKnown,
       OptionStates, identifyVars, finalVars
  <2> QED
    BY <1>2, <2>1, <2>2, <2>3, <2>4
<1>7. /\ last_matched_command # 0 => last_matched_command \in DOMAIN commands
      /\ default_command # 0 => default_command \in DOMAIN commands
      /\ positional_tokens \in Seq(Texts \cup {""})
      /\ positional_tokens \o path_segments \in Seq(Texts \cup {""})
  BY ConcatProperties DEF IdentifyTypeOK, ContextTypeOK
<1>8. CASE IdentifyCommand_Value
  <2> DEFINE n       == Len(path_segments) + 1
             kept    == StillMatching(filtered_commands, token.text, n)
             matched == {c \in kept : Len(Path(c)) = n}
  <2>1. /\ kept \subseteq filtered_commands
        /\ kept \subseteq DOMAIN commands
        /\ matched \subseteq DOMAIN commands
    BY DEF StillMatching, IdentifyTypeOK
  <2>2. matched # {} => Max(matched) \in DOMAIN commands
    <3> HIDE DEF matched
    <3>1. matched # {} => Max(matched) \in matched
      BY <2>1, CommandTypes, IndexInSequence
    <3> QED
      BY <2>1, <3>1
  <2>3. \/ /\ kept # {}
           /\ path_segments' = Append(path_segments, token.text)
           /\ filtered_commands' = kept
           /\ last_matched_command' = IF matched = {} THEN last_matched_command
                                                      ELSE Max(matched)
           /\ Proceed("IdentifyCommandState")
           /\ UNCHANGED <<default_command, active_command, positional_tokens>>
        \/ /\ last_matched_command # 0
           /\ active_command' = last_matched_command
           /\ EnterParseOptions
           /\ LeaveIdentifyCommand
           /\ UNCHANGED positional_tokens
        \/ default_command # 0 /\ FallBackToDefault
        \/ /\ ReportError("UnrecognizedCommand")
           /\ UNCHANGED <<identifyVars, active_command, positional_tokens>>
    BY <1>8 DEF IdentifyCommand_Value
  <2> HIDE DEF n, kept, matched
  <2> QED
    BY <2>1, <2>2, <2>3, <1>4, <1>5, <1>6, <1>7
    DEF FallBackToDefault, IdentifyTypeOK
<1>9. CASE IdentifyCommand_Other
  <2>1. \/ /\ last_matched_command # 0
           /\ active_command' = last_matched_command
           /\ EnterParseOptions \/ Reissue("FinalState")
                \/ Proceed("DashDashState")
           /\ LeaveIdentifyCommand
           /\ UNCHANGED positional_tokens
        \/ default_command # 0 /\ FallBackToDefault
        \/ /\ ReportError("UnrecognizedCommand")
           /\ UNCHANGED <<identifyVars, active_command, positional_tokens>>
    BY <1>9 DEF IdentifyCommand_Other, EnterFinal
  <2> QED
    BY <2>1, <1>5, <1>6, <1>7 DEF FallBackToDefault
<1> QED
  BY <1>8, <1>9

LEMMA PositionsAreNaturals ==
  ASSUME NEW S, NEW s \in Seq(S)
  PROVE  DOMAIN s \subseteq Nat
OBVIOUS

\* Once a command is known the context keeps it: what is left to show for a
\* step of the other states.
LEMMA CommandKnownTypes ==
  ASSUME IInv, machine \in CommandKnown,
         UNCHANGED <<commands, active_command, identifyVars>>,
         LoopTypeOK', machine' \in CommandKnown,
         active_option' \in {0} \cup DOMAIN CommandOptions,
         machine' \in OptionStates => active_option' # 0,
         positional_tokens' \in Seq(Texts \cup {""}),
         ovm' \in [Keys -> Seq(OptionValues)],
         OptionTypeOK', FinalTypeOK'
  PROVE  IInv'
<1>1. active_command # 0
  BY DEF IInv, AssertionsHold
<1>2. CommandOptions' = CommandOptions
  BY DEF CommandOptions
<1>3. ContextTypeOK'
  <2>1. DOMAIN CommandOptions \subseteq Nat
    <3>1. CommandOptions \in Seq(Options)
      BY <1>1, CommandTypes DEF IInv, TypeOK
    <3> QED
      BY Zenon, <3>1, PositionsAreNaturals
  <2>2. commands \in CLIs /\ active_command \in {0} \cup DOMAIN commands
    BY DEF IInv, TypeOK, ContextTypeOK
  <2>3. active_option' \in Nat /\ commands' = commands
        /\ active_command' = active_command
    <3>1. 0 \in Nat
      OBVIOUS
    <3> QED
      BY Zenon, <2>1, <3>1
  <2>4. active_option' # 0 => active_option' \in DOMAIN CommandOptions'
    BY <1>2
  <2> QED
    BY Zenon, <1>1, <2>2, <2>3, <2>4 DEF ContextTypeOK
<1>4. IdentifyTypeOK'
  BY DEF IInv, TypeOK, IdentifyTypeOK, identifyVars
<1>5. AssertionsHold' /\ NothingParsed'
  BY <1>1 DEF AssertionsHold, NothingParsed, CommandKnown
<1> QED
  BY <1>3, <1>4, <1>5 DEF IInv, TypeOK

\* The option that FindShortOption or FindLongOption finds, if any, is one of
\* the active command.
LEMMA FindTypes ==
  ASSUME ContextTypeOK, active_command # 0, NEW name
  PROVE  /\ FindShortOption(name) \in {0} \cup DOMAIN CommandOptions
         /\ FindLongOption(name) \in {0} \cup DOMAIN CommandOptions
<1> DEFINE S == {i \in DOMAIN CommandOptions : CommandOptions[i].short = name}
           L == {i \in DOMAIN CommandOptions : CommandOptions[i].long = name}
<1>1. CommandOptions \in Seq(Options)
  BY CommandTypes
<1>2. S \subseteq DOMAIN CommandOptions /\ L \subseteq DOMAIN CommandOptions
  OBVIOUS
<1> HIDE DEF S, L
<1>3. FirstIndex(S) \in {0} \cup DOMAIN CommandOptions
  BY <1>1, <1>2, IndexInSequence
<1>4. FirstIndex(L) \in {0} \cup DOMAIN CommandOptions
  BY <1>1, <1>2, IndexInSequence
<1> QED
  BY <1>3, <1>4 DEF S, L, FindShortOption, FindLongOption

\* FinalTypeOK speaks of the positional arguments of the active command.
LEMMA FinalTypesKept ==
  ASSUME FinalTypeOK, UNCHANGED <<commands, active_command, finalVars>>
  PROVE  FinalTypeOK'
BY DEF FinalTypeOK, finalVars, Positionals

LEMMA OptionTypesKept ==
  ASSUME OptionTypeOK, UNCHANGED optionVars
  PROVE  OptionTypeOK'
BY DEF OptionTypeOK, optionVars

LEMMA ContextTypesOpened ==
  ASSUME IInv
  PROVE  /\ LoopTypeOK /\ ContextTypeOK /\ IdentifyTypeOK /\ OptionTypeOK
         /\ FinalTypeOK
         /\ positional_tokens \in Seq(Texts \cup {""})
         /\ ovm \in [Keys -> Seq(OptionValues)]
         /\ token.text \in Texts \cup {""}
         /\ active_option \in {0} \cup DOMAIN CommandOptions
         /\ machine \in CommandKnown => active_command # 0
         /\ machine \in OptionStates =>
              /\ active_option # 0
              /\ ActiveOption \in Options
              /\ ActiveOption.key \in Keys
<1>1. LoopTypeOK /\ ContextTypeOK /\ IdentifyTypeOK /\ OptionTypeOK /\ FinalTypeOK
  BY DEF IInv, TypeOK
<1>2. /\ positional_tokens \in Seq(Texts \cup {""})
      /\ ovm \in [Keys -> Seq(OptionValues)]
      /\ token.text \in Texts \cup {""}
      /\ active_option \in {0} \cup DOMAIN CommandOptions
  BY <1>1 DEF LoopTypeOK, ContextTypeOK, Tokens
<1>3. machine \in OptionStates =>
        /\ active_option # 0
        /\ ActiveOption \in Options
        /\ ActiveOption.key \in Keys
  BY <1>1, CommandTypes DEF IInv, AssertionsHold, Options
<1>4. machine \in CommandKnown => active_command # 0
  BY DEF IInv, AssertionsHold
<1> QED
  BY <1>1, <1>2, <1>3, <1>4

LEMMA ParseOptionsTypes ==
  ASSUME IInv,
         \/ ParseOptions_Value    \/ ParseOptions_EndOfInput
         \/ ParseOptions_DashDash \/ ParseOptions_EqualSign
         \/ ParseOptions_ShortOption \/ ParseOptions_LongOption
  PROVE  IInv'
<1>0. /\ status = "running" /\ machine = "ParseOptionsState" /\ args' = args
      /\ UNCHANGED <<commands, active_command, identifyVars, optionVars,
                     finalVars, ovm>>
  BY DEF ParseOptions_Value, ParseOptions_EndOfInput, ParseOptions_DashDash,
     ParseOptions_EqualSign, ParseOptions_ShortOption, ParseOptions_LongOption,
     Handling, fixedVars, contextVars
<1>1. machine \in CommandKnown
  BY <1>0 DEF CommandKnown, MachineStates
<1>2. OptionTypeOK' /\ FinalTypeOK' /\ ovm' \in [Keys -> Seq(OptionValues)]
  BY <1>0, ContextTypesOpened, FinalTypesKept, OptionTypesKept
<1>3. ASSUME LoopTypeOK', machine' \in CommandKnown,
             active_option' \in {0} \cup DOMAIN CommandOptions,
             machine' \in OptionStates => active_option' # 0,
             positional_tokens' \in Seq(Texts \cup {""})
      PROVE  IInv'
  BY <1>0, <1>1, <1>2, <1>3, CommandKnownTypes
<1>4. CASE ParseOptions_Value
  <2>1. LoopTypeOK' /\ machine' = "ParseOptionsState"
    BY <1>0, <1>4, ContextTypesOpened, ProceedTypes
    DEF ParseOptions_Value, MachineStates
  <2>2. positional_tokens' \in Seq(Texts \cup {""})
    BY <1>4, ContextTypesOpened, AppendProperties DEF ParseOptions_Value
  <2>3. active_option' = active_option
    BY <1>4 DEF ParseOptions_Value
  <2> QED
    BY <2>1, <2>2, <2>3, <1>3, ContextTypesOpened
    DEF CommandKnown, MachineStates, OptionStates
<1>5. CASE \/ ParseOptions_EndOfInput \/ ParseOptions_DashDash
           \/ ParseOptions_EqualSign
  <2>1. /\ UNCHANGED <<active_option, positional_tokens>>
        /\ \/ Reissue("FinalState")
           \/ Proceed("DashDashState")
           \/ Undefined
           \/ ReportError("OptionSyntaxError")
    BY <1>5 DEF ParseOptions_EndOfInput, ParseOptions_DashDash,
       ParseOptions_EqualSign, EnterFinal, contextVars
  <2>2. /\ LoopTypeOK'
        /\ machine' \in {"FinalState", "DashDashState", "ParseOptionsState"}
    BY <1>0, <2>1, ContextTypesOpened, ProceedTypes, ReissueTypes,
       ReportErrorTypes, UndefinedTypes DEF MachineStates, Errors
  <2> QED
    BY <2>1, <2>2, <1>3, ContextTypesOpened
    DEF CommandKnown, MachineStates, OptionStates
<1>6. ASSUME NEW s \in OptionStates,
             NEW found \in {0} \cup DOMAIN CommandOptions,
             EnterOption(s, found), UNCHANGED positional_tokens
      PROVE  IInv'
  <2>1. \/ /\ LoopTypeOK' /\ machine' = "ParseOptionsState"
           /\ active_option' \in {active_option, found}
        \/ LoopTypeOK' /\ machine' = s /\ active_option' = found /\ found # 0
    BY <1>0, <1>6, ContextTypesOpened, ProceedTypes, ReportErrorTypes
    DEF EnterOption, OptionStates, MachineStates, Errors
  <2> QED
    BY <2>1, <1>3, <1>6, ContextTypesOpened
    DEF CommandKnown, MachineStates, OptionStates
<1>7. CASE ParseOptions_ShortOption \/ ParseOptions_LongOption
  BY <1>1, <1>6, <1>7, ContextTypesOpened, FindTypes
  DEF ParseOptions_ShortOption, ParseOptions_LongOption, OptionStates
<1> QED
  BY <1>4, <1>5, <1>7

\* Leaving an option state and taking a value in it: the loop goes on in one
\* of three states, and the values and flags keep their types.
LEMMA OptionValueTypes ==
  ASSUME IInv, status = "running", machine \in OptionStates, args' = args,
         LeaveOption \/ TakeValue(TRUE) \/ TakeValue(~after_equal_sign)
  PROVE  /\ LoopTypeOK' /\ machine' \in {machine, "ParseOptionsState"}
         /\ ovm' \in [Keys -> Seq(OptionValues)]
         /\ OptionTypeOK'
<1>1. machine \in MachineStates
  BY DEF OptionStates, MachineStates
<1>2. \/ /\ ResetOption /\ Reissue("ParseOptionsState")
         /\ ovm' = ovm \/ StoreValue(ActiveOption.key, ImplicitValue)
      \/ /\ StoreValue(ActiveOption.key, TokenValue(token.text))
         /\ value_' = [value_ EXCEPT ![machine] = TRUE]
         /\ after_equal_sign' = after_equal_sign
         /\ Proceed(machine)
      \/ /\ ReportError("MissingValueForOption")
         /\ UNCHANGED <<ovm, optionVars>>
  BY DEF LeaveOption, TakeValue
<1>3. LoopTypeOK' /\ machine' \in {machine, "ParseOptionsState"}
  BY <1>1, <1>2, ContextTypesOpened, ReissueTypes, ProceedTypes, ReportErrorTypes
  DEF MachineStates, Errors
<1>4. ovm' \in [Keys -> Seq(OptionValues)]
  BY <1>2, ContextTypesOpened, StoreTypes, ValueTypes
<1>5. OptionTypeOK'
  <2>1. value_ \in [OptionStates -> BOOLEAN] /\ after_equal_sign \in BOOLEAN
    BY ContextTypesOpened DEF OptionTypeOK
  <2>2. CASE ResetOption
    <3>1. value_' \in [OptionStates -> BOOLEAN]
      BY Zenon, <2>1, <2>2 DEF ResetOption
    <3>2. after_equal_sign' \in BOOLEAN
      BY <2>1, <2>2 DEF ResetOption
    <3> QED
      BY <3>1, <3>2 DEF OptionTypeOK
  <2>3. CASE /\ value_' = [value_ EXCEPT ![machine] = TRUE]
             /\ after_equal_sign' = after_equal_sign
    BY Zenon, <2>1, <2>3 DEF OptionTypeOK
  <2>4. CASE UNCHANGED optionVars
    BY <2>4, ContextTypesOpened, OptionTypesKept
  <2> QED
    BY <1>2, <2>2, <2>3, <2>4
<1> QED
  BY <1>3, <1>4, <1>5

LEMMA ParseOptionTypes ==
  ASSUME IInv,
         \/ ParseShortOption_Value   \/ ParseShortOption_Other
         \/ ParseLongOption_EqualSign
         \/ ParseLongOption_Value    \/ ParseLongOption_Other
  PROVE  IInv'
<1>0. /\ status = "running" /\ machine \in OptionStates /\ args' = args
      /\ UNCHANGED <<commands, active_command, active_option,
                     positional_tokens, identifyVars, finalVars>>
  BY DEF ParseShortOption_Value, ParseShortOption_Other,
     ParseLongOption_EqualSign, ParseLongOption_Value, ParseLongOption_Other,
     Handling, fixedVars, contextVars, OptionStates
<1>1. machine \in CommandKnown
  BY <1>0 DEF CommandKnown, MachineStates, OptionStates
<1>2. /\ LoopTypeOK' /\ machine' \in {machine, "ParseOptionsState"}
      /\ ovm' \in [Keys -> Seq(OptionValues)]
      /\ OptionTypeOK'
  <2>1. CASE ParseLongOption_EqualSign
    <3>1. LoopTypeOK' /\ machine' = machine
      BY <1>0, <2>1, ContextTypesOpened, ProceedTypes
      DEF ParseLongOption_EqualSign, MachineStates, Handling
    <3>2. ovm' \in [Keys -> Seq(OptionValues)]
      BY <2>1, ContextTypesOpened DEF ParseLongOption_EqualSign, contextVars
    <3>3. OptionTypeOK'
      BY <2>1, ContextTypesOpened DEF ParseLongOption_EqualSign, OptionTypeOK
    <3> QED
      BY <3>1, <3>2, <3>3
  <2>2. CASE ~ParseLongOption_EqualSign
    <3>1. LeaveOption \/ TakeValue(TRUE) \/ TakeValue(~after_equal_sign)
      BY <2>2 DEF ParseShortOption_Value, ParseShortOption_Other,
         ParseLongOption_Value, ParseLongOption_Other
    <3> QED
      BY <1>0, <3>1, OptionValueTypes
  <2> QED
    BY <2>1, <2>2
<1>3. FinalTypeOK'
  BY <1>0, ContextTypesOpened, FinalTypesKept
<1>4. /\ machine' \in CommandKnown
      /\ machine' \in OptionStates => active_option' # 0
      /\ active_option' \in {0} \cup DOMAIN CommandOptions
      /\ positional_tokens' \in Seq(Texts \cup {""})
  BY <1>0, <1>1, <1>2, ContextTypesOpened DEF CommandKnown, MachineStates,
     OptionStates
<1> QED
  BY <1>0, <1>1, <1>2, <1>3, <1>4, CommandKnownTypes

LEMMA DashDashTypes ==
  ASSUME IInv, DashDash_Any
  PROVE  IInv'
<1>0. /\ status = "running" /\ machine = "DashDashState" /\ args' = args
      /\ UNCHANGED <<commands, active_command, active_option,
                     positional_tokens, ovm, identifyVars, optionVars, finalVars>>
      /\ Proceed("DashDashState")
  BY DEF DashDash_Any, Handling, fixedVars, contextVars
<1>1. /\ machine \in CommandKnown /\ "DashDashState" \in CommandKnown
      /\ "DashDashState" \in MachineStates /\ "DashDashState" \notin OptionStates
  BY <1>0 DEF CommandKnown, MachineStates, OptionStates
<1>2. LoopTypeOK' /\ machine' = "DashDashState"
  BY <1>0, <1>1, ContextTypesOpened, ProceedTypes
<1>3. /\ OptionTypeOK' /\ FinalTypeOK'
      /\ ovm' \in [Keys -> Seq(OptionValues)]
      /\ positional_tokens' \in Seq(Texts \cup {""})
      /\ active_option' \in {0} \cup DOMAIN CommandOptions
  BY <1>0, ContextTypesOpened, FinalTypesKept, OptionTypesKept
<1> QED
  BY <1>0, <1>1, <1>2, <1>3, CommandKnownTypes

\* The value a positional token gives, if it gives one, is well typed.
LEMMA StorePositionalTypes ==
  ASSUME ovm \in [Keys -> Seq(OptionValues)], NEW option \in Options,
         NEW text, StorePositional(option, text)
  PROVE  ovm' \in [Keys -> Seq(OptionValues)]
<1>1. option.key \in Keys /\ option.accepts \subseteq Texts
  BY DEF Options
<1>2. CASE text \in option.accepts
  <2>1. PositionalValue(text) \in OptionValues
    BY <1>1, <1>2, ValueTypes
  <2> QED
    BY <1>1, <1>2, <2>1, StoreTypes DEF StorePositional
<1>3. CASE text \notin option.accepts
  BY <1>3 DEF StorePositional
<1> QED
  BY <1>2, <1>3

\* A sequence without its first or without its last element.
LEMMA ShortenTypes ==
  ASSUME NEW S, NEW s \in Seq(S), s # <<>>
  PROVE  Tail(s) \in Seq(S) /\ SubSeq(s, 1, Len(s) - 1) \in Seq(S)
<1>1. Len(s) \in Nat /\ \A i \in 1..Len(s) - 1 : s[i] \in S
  OBVIOUS
<1>2. SubSeq(s, 1, Len(s) - 1) \in Seq(S)
  BY <1>1, SubSeqProperties
<1> QED
  BY <1>2, HeadTailProperties

LEMMA ApplyDefaultsTypes ==
  ASSUME ovm \in [Keys -> Seq(OptionValues)], NEW opts, ApplyDefaults(opts)
  PROVE  ovm' \in [Keys -> Seq(OptionValues)]
<1>1. <<DefaultValue>> \in Seq(OptionValues)
  <2>1. DefaultValue \in OptionValues
    BY ValueTypes
  <2> QED
    BY <2>1
<1>2. PICK K : ovm' = [k \in Keys |-> IF k \in K THEN <<DefaultValue>> ELSE ovm[k]]
  BY Zenon DEF ApplyDefaults
<1> QED
  BY <1>1, <1>2

LEMMA FinalStateTypes ==
  ASSUME IInv,
         \/ Final_RestDeclared  \/ Final_Positional
         \/ Final_Leftover
         \/ Final_CheckOptions  \/ Final_CheckPositionals
  PROVE  IInv'
<1>0. /\ status = "running" /\ machine = "FinalState" /\ args' = args
      /\ UNCHANGED <<commands, active_command, active_option, identifyVars,
                     optionVars>>
  BY DEF Final_RestDeclared, Final_Positional, Final_Leftover,
     Final_CheckOptions, Final_CheckPositionals, CheckRequiredOptions,
     Finishing, Handling, fixedVars, contextVars
<1>1. /\ machine \in CommandKnown /\ "FinalState" \in CommandKnown
      /\ "FinalState" \notin OptionStates
  BY <1>0 DEF CommandKnown, MachineStates, OptionStates
<1>2. OptionTypeOK' /\ active_option' \in {0} \cup DOMAIN CommandOptions
  BY <1>0, ContextTypesOpened, OptionTypesKept
<1>3. ASSUME LoopTypeOK', machine' = "FinalState",
             positional_tokens' \in Seq(Texts \cup {""}),
             ovm' \in [Keys -> Seq(OptionValues)], FinalTypeOK'
      PROVE  IInv'
  BY <1>0, <1>1, <1>2, <1>3, CommandKnownTypes
<1>4. ASSUME UNCHANGED loopVars PROVE LoopTypeOK' /\ machine' = "FinalState"
  BY <1>0, <1>4, ContextTypesOpened DEF loopVars, LoopTypeOK
<1>5. active_command # 0
  BY <1>1, ContextTypesOpened
<1>6. Positionals \in Seq(Options) /\ Positionals' = Positionals
  BY <1>0, <1>5, ContextTypesOpened, CommandTypes DEF Positionals
<1>7. /\ next_positional \in Nat \ {0} /\ rest_option \in Nat
      /\ options_checked \in BOOLEAN
      /\ rest_option # 0 => rest_option \in DOMAIN Positionals
  BY ContextTypesOpened DEF FinalTypeOK
<1>8. InPositionals => /\ next_positional \in DOMAIN Positionals
                       /\ Positionals[next_positional] \in Options
  BY <1>6, <1>7 DEF InPositionals
<1>9. ASSUME next_positional' \in {next_positional, next_positional + 1},
             rest_option' = rest_option, options_checked' \in BOOLEAN
      PROVE  FinalTypeOK'
  <2>1. next_positional' \in Nat \ {0} /\ rest_option' \in Nat
    BY <1>7, <1>9
  <2>2. rest_option' # 0 => rest_option' \in DOMAIN Positionals'
    BY <1>6, <1>7, <1>9
  <2>3. active_command' # 0
    BY <1>0, <1>5
  <2> QED
    BY Zenon, <1>9, <2>1, <2>2, <2>3 DEF FinalTypeOK
<1>10. CASE Final_RestDeclared
  <2>1. UNCHANGED loopVars /\ UNCHANGED <<positional_tokens, ovm>>
    BY <1>10 DEF Final_RestDeclared, contextVars
  <2>2. FinalTypeOK'
    <3>1. /\ rest_option' = next_positional
          /\ next_positional' = next_positional + 1
          /\ options_checked' = options_checked
          /\ next_positional \in DOMAIN Positionals
      BY <1>8, <1>10 DEF Final_RestDeclared
    <3>2. next_positional' \in Nat \ {0} /\ rest_option' \in Nat
      BY <1>7, <3>1
    <3>3. rest_option' \in DOMAIN Positionals' /\ active_command' # 0
      BY <1>0, <1>5, <1>6, <3>1
    <3> QED
      BY Zenon, <1>7, <3>1, <3>2, <3>3 DEF FinalTypeOK
  <2> QED
    BY <1>3, <1>4, <2>1, <2>2, ContextTypesOpened
<1>11. CASE Final_Positional
  <2>1. /\ UNCHANGED <<rest_option, options_checked>>
        /\ Positionals[next_positional] \in Options
        /\ \/ /\ Undefined
              /\ UNCHANGED <<ovm, positional_tokens, next_positional>>
           \/ /\ positional_tokens # <<>>
              /\ StorePositional(Positionals[next_positional],
                                 positional_tokens[PickedPosition])
              /\ positional_tokens' \in
                   {Tail(positional_tokens),
                    SubSeq(positional_tokens, 1, Len(positional_tokens) - 1)}
              /\ next_positional' = next_positional + 1
              /\ UNCHANGED loopVars
    BY <1>8, <1>11 DEF Final_Positional
  <2>2. FinalTypeOK'
    BY <1>7, <1>9, <2>1
  <2>3. LoopTypeOK' /\ machine' = "FinalState"
    BY <1>0, <1>4, <2>1, ContextTypesOpened, UndefinedTypes
  <2>4. ovm' \in [Keys -> Seq(OptionValues)]
    <3>1. CASE UNCHANGED ovm
      BY <3>1, ContextTypesOpened
    <3>2. CASE StorePositional(Positionals[next_positional],
                               positional_tokens[PickedPosition])
      BY <2>1, <3>2, ContextTypesOpened, StorePositionalTypes
    <3> QED
      BY <2>1, <3>1, <3>2
  <2>5. positional_tokens' \in Seq(Texts \cup {""})
    <3>1. positional_tokens \in Seq(Texts \cup {""})
      BY ContextTypesOpened
    <3>2. positional_tokens # <<>> =>
            /\ Tail(positional_tokens) \in Seq(Texts \cup {""})
            /\ SubSeq(positional_tokens, 1, Len(positional_tokens) - 1)
                 \in Seq(Texts \cup {""})
      BY <3>1, ShortenTypes
    <3> QED
      BY <2>1, <3>1, <3>2
  <2> QED
    BY <1>3, <2>2, <2>3, <2>4, <2>5
<1>12. CASE Final_Leftover
  <2>1. /\ UNCHANGED finalVars
        /\ \/ /\ rest_option # 0
              /\ StorePositional(Positionals[rest_option],
                                 Head(positional_tokens))
              /\ positional_tokens' = Tail(positional_tokens)
              /\ UNCHANGED loopVars
           \/ /\ ReportError("UnexpectedPositionalArguments")
              /\ UNCHANGED <<ovm, positional_tokens>>
        /\ positional_tokens # <<>>
    BY <1>12 DEF Final_Leftover
  <2>2. FinalTypeOK'
    BY <1>0, <2>1, ContextTypesOpened, FinalTypesKept
  <2>3. LoopTypeOK' /\ machine' = "FinalState"
    BY <1>0, <1>4, <2>1, ContextTypesOpened, ReportErrorTypes DEF Errors
  <2>4. ovm' \in [Keys -> Seq(OptionValues)]
    <3>1. rest_option # 0 => Positionals[rest_option] \in Options
      BY <1>6, <1>7
    <3> QED
      BY <2>1, <3>1, ContextTypesOpened, StorePositionalTypes
  <2>5. positional_tokens' \in Seq(Texts \cup {""})
    <3>1. positional_tokens \in Seq(Texts \cup {""})
      BY ContextTypesOpened
    <3>2. positional_tokens # <<>> => Tail(positional_tokens) \in Seq(Texts \cup {""})
      BY <3>1, ShortenTypes
    <3> QED
      BY <2>1, <3>1, <3>2
  <2> QED
    BY <1>3, <2>2, <2>3, <2>4, <2>5
<1>13. CASE Final_CheckOptions \/ Final_CheckPositionals
  <2>1. PICK opts : ApplyDefaults(opts)
    BY <1>13 DEF Final_CheckOptions, Final_CheckPositionals,
       CheckRequiredOptions
  <2>2. /\ UNCHANGED <<positional_tokens, next_positional, rest_option>>
        /\ options_checked' \in {TRUE, options_checked}
        /\ \/ UNCHANGED loopVars
           \/ ReportError("MissingRequiredOption")
           \/ status' = "accepted" /\ UNCHANGED <<machine, input, token, error>>
    BY <1>13 DEF Final_CheckOptions, Final_CheckPositionals,
       CheckRequiredOptions
  <2>3. FinalTypeOK'
    BY <1>7, <1>9, <2>2
  <2>4. LoopTypeOK' /\ machine' = "FinalState"
    <3>1. CASE status' = "accepted" /\ UNCHANGED <<machine, input, token, error>>
      BY <1>0, <3>1, ContextTypesOpened DEF LoopTypeOK, Statuses
    <3> QED
      BY <1>0, <1>4, <2>2, <3>1, ContextTypesOpened, ReportErrorTypes DEF Errors
  <2>5. ovm' \in [Keys -> Seq(OptionValues)]
    BY <2>1, ContextTypesOpened, ApplyDefaultsTypes
  <2> QED
    BY <1>3, <2>2, <2>3, <2>4, <2>5, ContextTypesOpened
<1> QED
  BY <1>10, <1>11, <1>12, <1>13

-----------------------------------------------------------------------------
(* The theorems *)

LEMMA NextTypes == IInv /\ [Next]_vars => IInv'
<1> SUFFICES ASSUME IInv, [Next]_vars PROVE IInv'
  OBVIOUS
<1>1. CASE Step
  BY <1>1, InitialStateTypes, IdentifyCommandTypes, ParseOptionsTypes,
     ParseOptionTypes, DashDashTypes, FinalStateTypes DEF Step
<1>2. CASE UNCHANGED vars
  <2>1. UNCHANGED <<commands, args, loopVars, contextVars, identifyVars,
                    optionVars, finalVars>>
    BY <1>2 DEF vars, fixedVars
  <2>2. LoopTypeOK' /\ ContextTypeOK' /\ IdentifyTypeOK' /\ OptionTypeOK'
          /\ FinalTypeOK'
    BY <2>1, ContextTypesOpened, OptionTypesKept, FinalTypesKept
    DEF loopVars, contextVars, identifyVars, LoopTypeOK, ContextTypeOK,
        IdentifyTypeOK, CommandOptions
  <2>3. AssertionsHold' /\ NothingParsed'
    BY <2>1 DEF IInv, loopVars, contextVars, identifyVars, finalVars,
       AssertionsHold, NothingParsed
  <2> QED
    BY <2>2, <2>3 DEF IInv, TypeOK
<1> QED
  BY <1>1, <1>2 DEF Next, Stopped

LEMMA InvariantHolds == Spec => []IInv
BY InitTypes, NextTypes, PTL DEF Spec

\* Whatever commands a program defines and whatever tokens it is given, the
\* members of the parser, of its context and of its states are of their types,
\* no index leaves the list it points into, and Parse() returns false exactly
\* when it has reported an error.
THEOREM TypeCorrect == Spec => []TypeOK
<1>1. IInv => TypeOK
  BY DEF IInv
<1> QED
  BY <1>1, InvariantHolds, PTL

\* The contracts of the states hold for every command line and every list of
\* commands: options are never parsed without an active command, values never
\* without an active option, and the path segments always keep a candidate.
THEOREM ContractsOfStates == Spec => []AssertionsHold
<1>1. IInv => AssertionsHold
  BY DEF IInv
<1> QED
  BY <1>1, InvariantHolds, PTL

-----------------------------------------------------------------------------
(* One value for an option that is not repeatable *)

\* Nothing is stored before the command is known.
NothingStored == machine \notin CommandKnown => \A k \in Keys : ovm[k] = <<>>

\* An occurrence that waits for its value has room for it: the check made when
\* the option was found still holds.
RoomForValue ==
  machine \in OptionStates /\ ~value_[machine] =>
    CheckMultipleOccurrence(ActiveOption)

SInv == NothingStored /\ RoomForValue /\ SingleOccurrence

\* The options of a command have keys of their own.
LEMMA KeysDiffer ==
  ASSUME ContextTypeOK, active_command # 0
  PROVE  /\ \A i, j \in DOMAIN CommandOptions :
              CommandOptions[i].key = CommandOptions[j].key => i = j
         /\ \A i \in DOMAIN CommandOptions : \A j \in DOMAIN Positionals :
              CommandOptions[i].key # Positionals[j].key
<1>1. commands \in CLIs /\ active_command \in DOMAIN commands
  BY DEF ContextTypeOK
<1> QED
  BY <1>1, KeysAssumption DEF CommandOptions, Positionals

\* A command of any list of commands has a list of options.
LEMMA OptionsInCLI ==
  ASSUME NEW cli \in CLIs, NEW c \in DOMAIN cli
  PROVE  cli[c].options \in Seq(Options)
<1>1. cli \in Seq(CommandRecords)
  BY CLIsAssumption
<1>2. cli[c] \in CommandRecords
  BY <1>1
<1> QED
  BY <1>2 DEF CommandRecords

LEMMA ElementTypes ==
  ASSUME NEW S, NEW s \in Seq(S), NEW i \in DOMAIN s
  PROVE  s[i] \in S
OBVIOUS

\* The options of the active command, wherever they are read.
LEMMA OptionOfCommand ==
  ASSUME IInv, active_command # 0
  PROVE  /\ \A o \in DOMAIN CommandOptions :
              /\ CommandOptions[o] \in Options
              /\ CommandOptions[o].key \in Keys
              /\ ovm[CommandOptions[o].key] \in Seq(OptionValues)
              /\ Len(ovm[CommandOptions[o].key]) \in Nat
         /\ \A p \in DOMAIN Positionals :
              Positionals[p] \in Options /\ Positionals[p].key \in Keys
<1>1. CommandOptions \in Seq(Options) /\ Positionals \in Seq(Options)
  BY ContextTypesOpened, CommandTypes
<1>2. /\ \A o \in DOMAIN CommandOptions : CommandOptions[o] \in Options
      /\ \A p \in DOMAIN Positionals : Positionals[p] \in Options
  BY <1>1
<1>3. \A option \in Options : option.key \in Keys
  BY DEF Options
<1>4. ovm \in [Keys -> Seq(OptionValues)]
  BY ContextTypesOpened
<1> QED
  BY <1>2, <1>3, <1>4

\* A step that stores nothing and keeps the command.
LEMMA NothingNewStored ==
  ASSUME SingleOccurrence, UNCHANGED <<commands, active_command, ovm>>
  PROVE  SingleOccurrence'
BY DEF SingleOccurrence, CommandOptions

LEMMA InitSingle == Init => SInv
<1> SUFFICES ASSUME Init PROVE SInv
  OBVIOUS
<1>1. IInv
  BY InitTypes
<1>2. \A k \in Keys : ovm[k] = <<>>
  BY DEF Init
<1>3. NothingStored /\ RoomForValue
  BY <1>2 DEF Init, NothingStored, RoomForValue, OptionStates
<1>4. SingleOccurrence
  <2>1. ASSUME active_command # 0, NEW o \in DOMAIN CommandOptions
        PROVE  Len(ovm[CommandOptions[o].key]) <= 1
    <3>1. ovm[CommandOptions[o].key] = <<>>
      BY <1>1, <1>2, <2>1, OptionOfCommand
    <3> QED
      BY <3>1
  <2> QED
    BY <2>1 DEF SingleOccurrence
<1> QED
  BY <1>3, <1>4 DEF SInv

\* Before the command is known and when it becomes known.
LEMMA IdentifySingle ==
  ASSUME IInv, SInv, IInv', machine \notin CommandKnown, Step
  PROVE  SInv'
<1>1. /\ ovm' = ovm
      /\ machine' \notin OptionStates
  <2>1. machine \in {"InitialState", "IdentifyCommandState"}
    BY ContextTypesOpened DEF LoopTypeOK, CommandKnown
  <2>2. \/ InitialState_Value   \/ InitialState_Other
        \/ IdentifyCommand_Value \/ IdentifyCommand_Other
    BY <2>1 DEF Step, Handling, ParseOptions_Value, ParseOptions_EndOfInput,
       ParseOptions_DashDash, ParseOptions_EqualSign, ParseOptions_ShortOption,
       ParseOptions_LongOption, ParseShortOption_Value, ParseShortOption_Other,
       ParseLongOption_EqualSign, ParseLongOption_Value, ParseLongOption_Other,
       DashDash_Any, Final_RestDeclared, Final_Positional, Final_Leftover,
       Final_CheckOptions, Final_CheckPositionals, CheckRequiredOptions,
       Finishing
  <2>3. ovm' = ovm
    BY <2>2 DEF InitialState_Value, InitialState_Other, IdentifyCommand_Value,
       IdentifyCommand_Other, contextVars
  <2>4. \/ EnterParseOptions
        \/ \E s \in {"IdentifyCommandState", "DashDashState"} : Proceed(s)
        \/ Reissue("FinalState")
        \/ \E e \in Errors : ReportError(e)
    BY <2>2 DEF InitialState_Value, InitialState_Other, IdentifyCommand_Value,
       IdentifyCommand_Other, EnterIdentifyCommand, EnterFinal,
       FallBackToDefault, Errors
  <2>5. machine' \in {machine, "IdentifyCommandState", "DashDashState",
                      "FinalState", "ParseOptionsState"}
    BY <2>4 DEF EnterParseOptions, Proceed, Reissue, ReportError, Abort
  <2> QED
    BY <2>1, <2>3, <2>5 DEF OptionStates
<1>2. \A k \in Keys : ovm'[k] = <<>>
  BY <1>1 DEF SInv, NothingStored
<1>3. NothingStored' /\ RoomForValue'
  BY <1>1, <1>2 DEF NothingStored, RoomForValue
<1>4. SingleOccurrence'
  <2>1. ASSUME active_command' # 0, NEW o \in DOMAIN CommandOptions'
        PROVE  Len(ovm'[CommandOptions'[o].key]) <= 1
    <3>1. CommandOptions'[o].key \in Keys
      <4>1. commands' \in CLIs /\ active_command' \in DOMAIN commands'
        BY <2>1 DEF IInv, TypeOK, ContextTypeOK
      <4>2. CommandOptions' \in Seq(Options)
        BY <4>1, OptionsInCLI DEF CommandOptions
      <4>3. CommandOptions'[o] \in Options
        BY Zenon, <4>2, ElementTypes
      <4> QED
        BY <4>3 DEF Options
    <3> QED
      BY <1>2, <3>1
  <2> QED
    BY <2>1 DEF SingleOccurrence
<1> QED
  BY <1>3, <1>4 DEF SInv

\* Finding an option stores nothing, and makes sure that there is room.
LEMMA ParseOptionsSingle ==
  ASSUME IInv, SInv,
         \/ ParseOptions_Value    \/ ParseOptions_EndOfInput
         \/ ParseOptions_DashDash \/ ParseOptions_EqualSign
         \/ ParseOptions_ShortOption \/ ParseOptions_LongOption
         \/ DashDash_Any
  PROVE  SInv'
<1>0. /\ machine \in {"ParseOptionsState", "DashDashState"}
      /\ UNCHANGED <<commands, active_command, ovm, value_>>
  BY DEF ParseOptions_Value, ParseOptions_EndOfInput, ParseOptions_DashDash,
     ParseOptions_EqualSign, ParseOptions_ShortOption, ParseOptions_LongOption,
     DashDash_Any, Handling, fixedVars, contextVars, optionVars
<1>1. SingleOccurrence'
  BY <1>0, NothingNewStored DEF SInv
<1>2. CASE \/ ParseOptions_Value    \/ ParseOptions_EndOfInput
           \/ ParseOptions_DashDash \/ ParseOptions_EqualSign
           \/ DashDash_Any
  <2>1. \/ \E s \in {"ParseOptionsState", "DashDashState"} : Proceed(s)
        \/ Reissue("FinalState")
        \/ Undefined
        \/ ReportError("OptionSyntaxError")
    BY <1>2 DEF ParseOptions_Value, ParseOptions_EndOfInput,
       ParseOptions_DashDash, ParseOptions_EqualSign, DashDash_Any, EnterFinal
  <2>2. machine' \in {"ParseOptionsState", "DashDashState", "FinalState"}
    BY <1>0, <2>1 DEF Proceed, Abort, Reissue, Undefined, ReportError
  <2> QED
    BY <1>1, <2>2 DEF SInv, NothingStored, RoomForValue, CommandKnown,
       MachineStates, OptionStates
<1>3. ASSUME NEW s \in OptionStates, NEW found, EnterOption(s, found)
      PROVE  SInv'
  <2>1. \/ machine' = machine
        \/ /\ machine' = s /\ active_option' = found
           /\ CheckMultipleOccurrence(CommandOptions[found])
    BY <1>3 DEF EnterOption, Proceed, Abort, ReportError
  <2>2. NothingStored'
    BY <1>0, <2>1 DEF NothingStored, CommandKnown, MachineStates, OptionStates
  <2>3. RoomForValue'
    BY <1>0, <2>1 DEF RoomForValue, CheckMultipleOccurrence, ActiveOption,
       CommandOptions, OptionStates
  <2> QED
    BY <1>1, <2>2, <2>3 DEF SInv
<1> QED
  BY <1>2, <1>3 DEF ParseOptions_ShortOption, ParseOptions_LongOption,
     OptionStates

\* Where there is room, one more value is still one value.
LEMMA StoreSingle ==
  ASSUME IInv, SInv, machine \in OptionStates, ~value_[machine],
         NEW v \in OptionValues, StoreValue(ActiveOption.key, v),
         UNCHANGED <<commands, active_command>>
  PROVE  SingleOccurrence'
<1>1. /\ active_command # 0 /\ active_option \in DOMAIN CommandOptions
      /\ ActiveOption = CommandOptions[active_option]
      /\ ActiveOption.key \in Keys
  BY ContextTypesOpened DEF CommandKnown, MachineStates, OptionStates,
     ActiveOption
<1>2. ovm[ActiveOption.key] = <<>> \/ ActiveOption.repeatable
  BY DEF SInv, RoomForValue, CheckMultipleOccurrence
<1>3. ovm' = [ovm EXCEPT ![ActiveOption.key] = Append(@, v)]
  BY DEF StoreValue
<1>4. ovm \in [Keys -> Seq(OptionValues)]
  BY ContextTypesOpened
<1>5. ASSUME NEW o \in DOMAIN CommandOptions
      PROVE  \/ CommandOptions[o].repeatable
             \/ Len(ovm'[CommandOptions[o].key]) <= 1
  <2>1. CommandOptions[o].key \in Keys
    BY <1>1, OptionOfCommand
  <2>2. CASE CommandOptions[o].key = ActiveOption.key
    <3>1. CommandOptions[o] = ActiveOption
      BY <1>1, <2>2, ContextTypesOpened, KeysDiffer
    <3>2. ASSUME ovm[ActiveOption.key] = <<>>
          PROVE  Len(ovm'[ActiveOption.key]) <= 1
      <4>1. ovm'[ActiveOption.key] = Append(<<>>, v)
        BY Zenon, <1>1, <1>3, <1>4, <3>2
      <4> QED
        BY <4>1
    <3> QED
      BY <1>2, <3>1, <3>2
  <2>3. CASE CommandOptions[o].key # ActiveOption.key
    <3>1. ovm'[CommandOptions[o].key] = ovm[CommandOptions[o].key]
      BY Zenon, <1>3, <1>4, <2>1, <2>3
    <3>2. \/ CommandOptions[o].repeatable
          \/ Len(ovm[CommandOptions[o].key]) <= 1
      BY <1>1 DEF SInv, SingleOccurrence
    <3> QED
      BY <3>1, <3>2
  <2> QED
    BY <2>2, <2>3
<1>6. CommandOptions' = CommandOptions
  BY DEF CommandOptions
<1> QED
  BY Zenon, <1>5, <1>6 DEF SingleOccurrence

\* The option states store a value only while one is missing.
LEMMA ParseOptionSingle ==
  ASSUME IInv, SInv,
         \/ ParseShortOption_Value   \/ ParseShortOption_Other
         \/ ParseLongOption_EqualSign
         \/ ParseLongOption_Value    \/ ParseLongOption_Other
  PROVE  SInv'
<1>0. /\ machine \in OptionStates
      /\ UNCHANGED <<commands, active_command, active_option>>
  BY DEF ParseShortOption_Value, ParseShortOption_Other,
     ParseLongOption_EqualSign, ParseLongOption_Value, ParseLongOption_Other,
     Handling, fixedVars, contextVars, OptionStates
<1>1. value_ \in [OptionStates -> BOOLEAN]
  BY ContextTypesOpened DEF OptionTypeOK
<1>2. ActiveOption' = ActiveOption
  BY <1>0 DEF ActiveOption, CommandOptions
<1>3. \/ /\ machine' = "ParseOptionsState" /\ ovm' = ovm
      \/ /\ machine' = machine /\ ovm' = ovm /\ value_' = value_
      \/ /\ ~value_[machine]
         /\ \/ machine' = "ParseOptionsState"
            \/ machine' = machine /\ value_' = [value_ EXCEPT ![machine] = TRUE]
         /\ \E v \in {ImplicitValue, TokenValue(token.text)} :
              StoreValue(ActiveOption.key, v)
  <2>1. CASE LeaveOption
    BY <2>1 DEF LeaveOption, Reissue, ReportError, optionVars
  <2>2. CASE ~value_[machine] /\ \E may_imply \in BOOLEAN : TakeValue(may_imply)
    BY <2>2 DEF TakeValue, Proceed, Abort, Reissue, ReportError, optionVars
  <2>3. CASE ParseLongOption_EqualSign
    <3>1. machine' = "ParseLongOptionState"
      BY <2>3 DEF ParseLongOption_EqualSign, Proceed, Abort
    <3> QED
      BY <2>3, <3>1 DEF ParseLongOption_EqualSign, Handling, contextVars
  <2>4. (~after_equal_sign) \in BOOLEAN
    OBVIOUS
  <2> QED
    BY Zenon, <2>1, <2>2, <2>3, <2>4
    DEF ParseShortOption_Value, ParseShortOption_Other, ParseLongOption_Value,
        ParseLongOption_Other
<1>4. NothingStored'
  BY <1>0, <1>3 DEF NothingStored, CommandKnown, MachineStates, OptionStates
<1>5. RoomForValue'
  <2>1. CASE machine' = "ParseOptionsState"
    BY <2>1 DEF RoomForValue, OptionStates
  <2>2. CASE machine' = machine /\ ovm' = ovm /\ value_' = value_
    BY <1>2, <2>2 DEF SInv, RoomForValue, CheckMultipleOccurrence
  <2>3. CASE machine' = machine /\ value_' = [value_ EXCEPT ![machine] = TRUE]
    <3>1. value_'[machine] = TRUE
      BY Zenon, <1>0, <1>1, <2>3
    <3> QED
      BY <2>3, <3>1 DEF RoomForValue
  <2> QED
    BY <1>3, <2>1, <2>2, <2>3
<1>6. SingleOccurrence'
  <2>1. CASE ovm' = ovm
    BY <1>0, <2>1, NothingNewStored DEF SInv
  <2>2. ASSUME ~value_[machine],
               NEW v \in {ImplicitValue, TokenValue(token.text)},
               StoreValue(ActiveOption.key, v)
        PROVE  SingleOccurrence'
    <3>1. v \in OptionValues
      BY ValueTypes, ContextTypesOpened
    <3> QED
      BY <1>0, <2>2, <3>1, StoreSingle
  <2> QED
    BY <1>3, <2>1, <2>2
<1> QED
  BY <1>4, <1>5, <1>6 DEF SInv

\* A map that differs, for the options of the command, only in values that
\* stand alone.
LEMMA OtherKeysSingle ==
  ASSUME IInv, SInv, UNCHANGED <<commands, active_command>>,
         active_command # 0 => \A o \in DOMAIN CommandOptions :
           \/ ovm'[CommandOptions[o].key] = ovm[CommandOptions[o].key]
           \/ ovm'[CommandOptions[o].key] = <<DefaultValue>>
  PROVE  SingleOccurrence'
<1>1. CommandOptions' = CommandOptions
  BY DEF CommandOptions
<1>2. Len(<<DefaultValue>>) <= 1
  OBVIOUS
<1>3. ASSUME active_command # 0, NEW o \in DOMAIN CommandOptions
      PROVE  \/ CommandOptions[o].repeatable
             \/ Len(ovm'[CommandOptions[o].key]) <= 1
  BY <1>2, <1>3 DEF SInv, SingleOccurrence
<1> QED
  BY Zenon, <1>1, <1>3 DEF SingleOccurrence

\* A positional value is stored under no key of an option.
LEMMA StorePositionalSingle ==
  ASSUME IInv, SInv, active_command # 0, NEW p \in DOMAIN Positionals,
         NEW text, StorePositional(Positionals[p], text),
         UNCHANGED <<commands, active_command>>
  PROVE  SingleOccurrence'
<1>1. ovm \in [Keys -> Seq(OptionValues)]
  BY ContextTypesOpened
<1>2. \/ ovm' = ovm
      \/ ovm' = [ovm EXCEPT ![Positionals[p].key] =
                              Append(@, PositionalValue(text))]
  BY DEF StorePositional, StoreValue
<1>3. ASSUME NEW o \in DOMAIN CommandOptions
      PROVE  ovm'[CommandOptions[o].key] = ovm[CommandOptions[o].key]
  <2>1. CommandOptions[o].key # Positionals[p].key
    BY ContextTypesOpened, KeysDiffer
  <2>2. CommandOptions[o].key \in Keys
    BY OptionOfCommand
  <2> QED
    BY Zenon, <1>1, <1>2, <2>1, <2>2
<1> QED
  BY <1>3, OtherKeysSingle

LEMMA ApplyDefaultsSingle ==
  ASSUME IInv, SInv, active_command # 0, NEW opts, ApplyDefaults(opts),
         UNCHANGED <<commands, active_command>>
  PROVE  SingleOccurrence'
<1>1. PICK K : ovm' = [k \in Keys |-> IF k \in K THEN <<DefaultValue>> ELSE ovm[k]]
  BY Zenon DEF ApplyDefaults
<1>2. ASSUME NEW o \in DOMAIN CommandOptions
      PROVE  \/ ovm'[CommandOptions[o].key] = ovm[CommandOptions[o].key]
             \/ ovm'[CommandOptions[o].key] = <<DefaultValue>>
  <2>1. CommandOptions[o].key \in Keys
    BY OptionOfCommand
  <2> QED
    BY <1>1, <2>1
<1> QED
  BY <1>2, OtherKeysSingle

LEMMA FinalStateSingle ==
  ASSUME IInv, SInv,
         \/ Final_RestDeclared  \/ Final_Positional
         \/ Final_Leftover
         \/ Final_CheckOptions  \/ Final_CheckPositionals
  PROVE  SInv'
<1>0. /\ machine = "FinalState" /\ active_command # 0
      /\ UNCHANGED <<commands, active_command>>
  <2>1. machine = "FinalState" /\ UNCHANGED <<commands, active_command>>
    BY DEF Final_RestDeclared, Final_Positional, Final_Leftover,
       Final_CheckOptions, Final_CheckPositionals, CheckRequiredOptions,
       Finishing, Handling, fixedVars, contextVars
  <2> QED
    BY <2>1, ContextTypesOpened DEF CommandKnown, MachineStates
<1>1. machine' = "FinalState"
  BY <1>0 DEF Final_RestDeclared, Final_Positional, Final_Leftover,
     Final_CheckOptions, Final_CheckPositionals, Undefined, ReportError, loopVars
<1>2. NothingStored' /\ RoomForValue'
  BY <1>1 DEF NothingStored, RoomForValue, CommandKnown, MachineStates,
     OptionStates
<1>3. CASE Final_RestDeclared
  BY <1>0, <1>2, <1>3, NothingNewStored DEF Final_RestDeclared, contextVars, SInv
<1>4. CASE Final_Positional
  <2>1. next_positional \in DOMAIN Positionals
    <3>1. Positionals \in Seq(Options)
      BY <1>0, ContextTypesOpened, CommandTypes
    <3>2. next_positional \in Nat \ {0} /\ next_positional <= Len(Positionals)
      BY <1>4, ContextTypesOpened DEF Final_Positional, InPositionals, FinalTypeOK
    <3> QED
      BY <3>1, <3>2
  <2>2. \/ ovm' = ovm
        \/ StorePositional(Positionals[next_positional],
                           positional_tokens[PickedPosition])
    BY <1>4 DEF Final_Positional
  <2> QED
    BY <1>0, <1>2, <2>1, <2>2, NothingNewStored, StorePositionalSingle DEF SInv
<1>5. CASE Final_Leftover
  <2>1. \/ ovm' = ovm
        \/ /\ rest_option \in DOMAIN Positionals
           /\ StorePositional(Positionals[rest_option], Head(positional_tokens))
    BY <1>5, ContextTypesOpened DEF Final_Leftover, FinalTypeOK
  <2> QED
    BY <1>0, <1>2, <2>1, NothingNewStored, StorePositionalSingle DEF SInv
<1>6. CASE Final_CheckOptions \/ Final_CheckPositionals
  <2>1. PICK opts : ApplyDefaults(opts)
    BY <1>6 DEF Final_CheckOptions, Final_CheckPositionals,
       CheckRequiredOptions
  <2> QED
    BY <1>0, <1>2, <2>1, ApplyDefaultsSingle DEF SInv
<1> QED
  BY <1>2, <1>3, <1>4, <1>5, <1>6 DEF SInv

LEMMA NextSingle == IInv /\ SInv /\ IInv' /\ [Next]_vars => SInv'
<1> SUFFICES ASSUME IInv, SInv, IInv', [Next]_vars PROVE SInv'
  OBVIOUS
<1>1. CASE Step /\ machine \notin CommandKnown
  BY <1>1, IdentifySingle
<1>2. CASE Step /\ machine \in CommandKnown
  <2>1. ~InitialState_Value /\ ~InitialState_Other
          /\ ~IdentifyCommand_Value /\ ~IdentifyCommand_Other
    BY <1>2 DEF InitialState_Value, InitialState_Other, IdentifyCommand_Value,
       IdentifyCommand_Other, Handling, CommandKnown
  <2> QED
    BY <1>2, <2>1, ParseOptionsSingle, ParseOptionSingle, FinalStateSingle
    DEF Step
<1>3. CASE UNCHANGED vars
  <2>1. UNCHANGED <<commands, machine, active_command, active_option, ovm,
                    value_>>
    BY <1>3 DEF vars, fixedVars, loopVars, contextVars, optionVars
  <2>2. SingleOccurrence'
    BY <2>1, NothingNewStored DEF SInv
  <2>3. NothingStored' /\ RoomForValue'
    BY <2>1 DEF SInv, NothingStored, RoomForValue, CheckMultipleOccurrence,
       ActiveOption, CommandOptions
  <2> QED
    BY <2>2, <2>3 DEF SInv
<1> QED
  BY <1>1, <1>2, <1>3 DEF Next, Stopped

\* Whatever the command line, an option that is not repeatable is never stored
\* with two values: the check made when the option is found is made before the
\* value is, and nothing in between can store a value under the same key.
THEOREM OneValueUnlessRepeatable == Spec => []SingleOccurrence
<1>1. SInv => SingleOccurrence
  BY DEF SInv
<1>2. Spec => []IInv
  BY InvariantHolds
<1> QED
  BY <1>1, <1>2, InitSingle, NextSingle, PTL DEF Spec

-----------------------------------------------------------------------------
(* Where the parser is in the token stream *)

\* Token streams without an end of input of their own.
TokenLines == Seq({t \in Tokens : t.type # "EndOfInput"})

\* The current token and what the tokenizer still holds are the rest of the
\* command line.
Reading ==
  /\ args \in TokenLines
  /\ IF token.type = "EndOfInput"
       THEN input = <<>>
       ELSE LET p == Len(args) - Len(input)
            IN  /\ p \in 1..Len(args)
                /\ token = args[p]
                /\ input = SubSeq(args, p + 1, Len(args))

\* No token of a command line is the end of input.
LEMMA InputTypes ==
  ASSUME NEW line \in TokenLines
  PROVE  /\ line \in Seq(Tokens) /\ Len(line) \in Nat
         /\ \A i \in 1..Len(line) :
              line[i] \in Tokens /\ line[i].type # "EndOfInput"
<1> DEFINE Real == {t \in Tokens : t.type # "EndOfInput"}
<1>1. line \in Seq(Real)
  BY DEF TokenLines
<1>2. Real \subseteq Tokens
  OBVIOUS
<1>3. \A t \in Real : t \in Tokens /\ t.type # "EndOfInput"
  OBVIOUS
<1> HIDE DEF Real
<1>4. line \in Seq(Tokens)
  BY <1>1, <1>2, SeqMonotonic
<1>5. \A i \in 1..Len(line) : line[i] \in Real
  BY <1>1
<1> QED
  BY <1>3, <1>4, <1>5

\* The tokens handled so far are those before the current one.
LEMMA PositionOfToken ==
  ASSUME Reading
  PROVE  /\ HandledCount \in 0..Len(args)
         /\ token.type # "EndOfInput" =>
              HandledCount + 1 \in 1..Len(args) /\ token = args[HandledCount + 1]
         /\ token.type = "EndOfInput" => HandledCount = Len(args)
<1>1. Len(args) \in Nat
  BY InputTypes DEF Reading
<1>2. CASE token.type = "EndOfInput"
  <2>1. Len(input) = 0
    BY <1>2 DEF Reading
  <2>2. HandledCount = Len(args) - Len(input) - 0
    BY <1>2 DEF HandledCount
  <2> QED
    BY <1>1, <1>2, <2>1, <2>2
<1>3. CASE token.type # "EndOfInput"
  <2> DEFINE p == Len(args) - Len(input)
  <2>1. p \in 1..Len(args) /\ token = args[p]
    BY <1>3 DEF Reading
  <2>2. HandledCount = p - 1
    BY <1>3 DEF HandledCount
  <2> HIDE DEF p
  <2>3. HandledCount \in 0..Len(args) /\ HandledCount + 1 = p
    BY <1>1, <2>1, <2>2
  <2> QED
    BY <1>3, <2>1, <2>3
<1> QED
  BY <1>2, <1>3

\* The first token is read, or there is none.
AtFirstToken ==
  /\ args \in TokenLines
  /\ token = (IF args = <<>> THEN EndOfInput ELSE Head(args))
  /\ input = (IF args = <<>> THEN <<>> ELSE Tail(args))

LEMMA ReadingBegins == AtFirstToken => Reading /\ HandledCount = 0
<1> SUFFICES ASSUME AtFirstToken PROVE Reading /\ HandledCount = 0
  OBVIOUS
<1>1. args \in TokenLines /\ args \in Seq(Tokens) /\ Len(args) \in Nat
  BY InputTypes DEF AtFirstToken
<1>2. CASE args = <<>>
  <2>1. token.type = "EndOfInput" /\ input = <<>>
    BY <1>2 DEF AtFirstToken, EndOfInput
  <2>2. Reading
    BY <1>1, <2>1 DEF Reading
  <2> QED
    BY <1>2, <2>1, <2>2, PositionOfToken
<1>3. CASE args # <<>>
  <2>1. 1 \in 1..Len(args) /\ Head(args) = args[1]
    BY <1>1, <1>3
  <2>2. token = args[1] /\ token.type # "EndOfInput"
    BY <1>1, <1>3, <2>1, InputTypes DEF AtFirstToken
  <2>3. /\ input = Tail(args) /\ Tail(args) = SubSeq(args, 2, Len(args))
        /\ Len(input) = Len(args) - 1
    BY <1>1, <1>3 DEF AtFirstToken
  <2> DEFINE p == Len(args) - Len(input)
  <2>4. p = 1
    BY <1>1, <2>3
  <2>5. HandledCount = p - 1
    BY <2>2 DEF HandledCount
  <2>6. p \in 1..Len(args) /\ token = args[p] /\ p + 1 = 2
    BY <2>1, <2>2, <2>4
  <2>7. input = SubSeq(args, p + 1, Len(args))
    BY <2>3, <2>6
  <2>8. Reading
    BY Zenon, <1>1, <2>2, <2>6, <2>7 DEF Reading
  <2> QED
    BY <2>4, <2>5, <2>8
<1> QED
  BY <1>2, <1>3

LEMMA InitReads == Init => Reading /\ HandledCount = 0
BY InputsAssumption, ReadingBegins DEF Init, AtFirstToken, TokenLines

\* Taking the next token moves one position on, unless there is none.
LEMMA NextTokenReads ==
  ASSUME Reading, NextToken, args' = args
  PROVE  /\ Reading'
         /\ token.type # "EndOfInput" => HandledCount' = HandledCount + 1
         /\ token.type = "EndOfInput" => HandledCount' = HandledCount
<1>1. args \in TokenLines /\ args \in Seq(Tokens) /\ Len(args) \in Nat
  BY InputTypes DEF Reading
<1>2. CASE input = <<>>
  <2>1. token'.type = "EndOfInput" /\ input' = <<>>
    BY <1>2 DEF NextToken, EndOfInput
  <2>2. Reading'
    BY <1>1, <2>1 DEF Reading
  <2>3. HandledCount' = Len(args)
    BY <1>1, <2>1 DEF HandledCount
  <2>4. HandledCount = Len(args) - (IF token.type = "EndOfInput" THEN 0 ELSE 1)
    BY <1>1, <1>2 DEF HandledCount
  <2> QED
    BY <1>1, <2>2, <2>3, <2>4
<1>3. CASE input # <<>>
  <2> DEFINE p == Len(args) - Len(input)
  <2>1. /\ p \in 1..Len(args) /\ token.type # "EndOfInput"
        /\ input = SubSeq(args, p + 1, Len(args))
    BY <1>3 DEF Reading
  <2> HIDE DEF p
  <2>2. /\ p \in 0..Len(args) /\ p < Len(args)
        /\ Len(input) = Len(args) - p /\ input \in Seq(Tokens)
        /\ Head(input) = args[p + 1]
        /\ Tail(input) = SubSeq(args, p + 2, Len(args))
    <3>1. p \in 0..Len(args)
      BY <1>1, <2>1
    <3>2. /\ input \in Seq(Tokens) /\ Len(input) = Len(args) - p
          /\ input = <<>> <=> p = Len(args)
          /\ p < Len(args) => /\ Head(input) = args[p + 1]
                              /\ Tail(input) = SubSeq(args, p + 2, Len(args))
      <4>1. LET rest == SubSeq(args, p + 1, Len(args))
            IN  /\ rest \in Seq(Tokens) /\ Len(rest) = Len(args) - p
                /\ rest = <<>> <=> p = Len(args)
                /\ p < Len(args) => /\ Head(rest) = args[p + 1]
                                    /\ Tail(rest) = SubSeq(args, p + 2, Len(args))
        BY Zenon, <1>1, <3>1, RestOfSequence
      <4> QED
        BY Zenon, <2>1, <4>1
    <3>3. p < Len(args)
      BY <1>1, <1>3, <3>1, <3>2
    <3> QED
      BY <3>1, <3>2, <3>3
  <2>3. token' = args[p + 1] /\ input' = SubSeq(args, p + 2, Len(args))
    BY <1>3, <2>2 DEF NextToken
  <2>4. p + 1 \in 0..Len(args) /\ p + 1 \in 1..Len(args)
    BY <1>1, <2>2
  <2>5. (p + 1) + 1 = p + 2
    BY <1>1, <2>2
  <2>6. Len(input') = Len(args) - (p + 1)
    BY <1>1, <2>3, <2>4, <2>5, RestOfSequence
  <2>7. Len(args) - Len(input') = p + 1
    BY <1>1, <2>4, <2>6
  <2>8. token'.type # "EndOfInput"
    BY <1>1, <2>3, <2>4, InputTypes
  <2>9. Reading'
    BY <1>1, <2>3, <2>4, <2>5, <2>7, <2>8 DEF Reading
  <2>10. HandledCount' = HandledCount + 1
    <3>1. HandledCount' = (p + 1) - 1
      BY <2>7, <2>8 DEF HandledCount
    <3>2. HandledCount = p - 1
      BY <2>1 DEF HandledCount, p
    <3> QED
      BY <1>1, <2>2, <3>1, <3>2
  <2> QED
    BY <2>1, <2>9, <2>10
<1> QED
  BY <1>2, <1>3

LEMMA NoTokenRead ==
  ASSUME UNCHANGED <<args, input, token>>
  PROVE  HandledCount' = HandledCount /\ (Reading => Reading')
BY DEF Reading, HandledCount

\* Every step offers the same token again or takes the next one.
LEMMA TokenMoves ==
  ASSUME Next
  PROVE  /\ UNCHANGED <<commands, args>>
         /\ UNCHANGED <<input, token>> \/ NextToken
<1>1. ASSUME InitialState_Value \/ InitialState_Other
      PROVE  /\ UNCHANGED <<commands, args>>
             /\ UNCHANGED <<input, token>> \/ NextToken
  BY <1>1 DEF InitialState_Value, InitialState_Other, EnterIdentifyCommand,
     EnterParseOptions, EnterFinal, Proceed, Reissue, Abort, ReportError,
     fixedVars
<1>2. ASSUME IdentifyCommand_Value \/ IdentifyCommand_Other
      PROVE  /\ UNCHANGED <<commands, args>>
             /\ UNCHANGED <<input, token>> \/ NextToken
  BY <1>2 DEF IdentifyCommand_Value, IdentifyCommand_Other, FallBackToDefault,
     EnterParseOptions, EnterFinal, Proceed, Reissue, Abort, ReportError,
     fixedVars
<1>3. ASSUME \/ ParseOptions_Value    \/ ParseOptions_EndOfInput
             \/ ParseOptions_DashDash \/ ParseOptions_EqualSign
             \/ ParseOptions_ShortOption \/ ParseOptions_LongOption
             \/ DashDash_Any
      PROVE  /\ UNCHANGED <<commands, args>>
             /\ UNCHANGED <<input, token>> \/ NextToken
  BY <1>3 DEF ParseOptions_Value, ParseOptions_EndOfInput,
     ParseOptions_DashDash, ParseOptions_EqualSign, ParseOptions_ShortOption,
     ParseOptions_LongOption, DashDash_Any, EnterOption, EnterFinal, Proceed,
     Reissue, Abort, ReportError, Undefined, fixedVars
<1>4. ASSUME \/ ParseShortOption_Value   \/ ParseShortOption_Other
             \/ ParseLongOption_EqualSign
             \/ ParseLongOption_Value    \/ ParseLongOption_Other
      PROVE  /\ UNCHANGED <<commands, args>>
             /\ UNCHANGED <<input, token>> \/ NextToken
  BY <1>4 DEF ParseShortOption_Value, ParseShortOption_Other,
     ParseLongOption_EqualSign, ParseLongOption_Value, ParseLongOption_Other,
     LeaveOption, TakeValue, Proceed, Reissue, Abort, ReportError, fixedVars
<1>5. ASSUME \/ Final_RestDeclared  \/ Final_Positional
             \/ Final_Leftover
             \/ Final_CheckOptions  \/ Final_CheckPositionals
      PROVE  UNCHANGED <<commands, args, input, token>>
  BY <1>5 DEF Final_RestDeclared, Final_Positional, Final_Leftover,
     Final_CheckOptions, Final_CheckPositionals, CheckRequiredOptions,
     Undefined, ReportError, loopVars, fixedVars
<1>6. Stopped => UNCHANGED <<commands, args, input, token>>
  BY DEF Stopped, vars, loopVars, fixedVars
<1> QED
  BY <1>1, <1>2, <1>3, <1>4, <1>5, <1>6 DEF Next, Step

LEMMA ReadingKept == Reading /\ [Next]_vars => Reading'
<1> SUFFICES ASSUME Reading, [Next]_vars PROVE Reading'
  OBVIOUS
<1>1. CASE Next
  BY <1>1, TokenMoves, NextTokenReads, NoTokenRead
<1>2. CASE UNCHANGED vars
  BY <1>2, NoTokenRead DEF vars, loopVars, fixedVars
<1> QED
  BY <1>1, <1>2

-----------------------------------------------------------------------------
(* Matching the path segment by segment *)

\* Commands whose path begins with the n segments of segs, and commands whose
\* whole path is among those n.
BegunBy(segs, n) ==
  {c \in DOMAIN commands : /\ Len(Path(c)) >= n
                           /\ \A i \in 1..n : Path(c)[i] = segs[i]}

EndedBy(segs, n) ==
  {c \in DOMAIN commands : /\ Len(Path(c)) <= n
                           /\ \A i \in 1..Len(Path(c)) : Path(c)[i] = segs[i]}

\* Of the commands whose whole path was read, the last one matched is none, or
\* is one with the longest path.
LastIsLongest(last, ended) ==
  /\ ended = {} => last = 0
  /\ ended # {} => /\ last \in ended
                   /\ \A c \in ended : Len(Path(c)) <= Len(Path(last))

\* Before the first token the default command is the active one. It need not
\* be when a command begins the command line: that command is found anyway.
AtTheStart ==
  machine = "InitialState" =>
    /\ HandledCount = 0
    /\ path_segments = <<>>
    /\ MatchingCommands = {} =>
         active_command = FirstIndex(DefaultCommands(commands))

\* The segments are the tokens handled so far.
SegmentsRead ==
  /\ HandledCount = Len(path_segments)
  /\ \A i \in DOMAIN path_segments : IsValue(i, path_segments[i])

SegmentsMatched ==
  /\ path_segments # <<>>
  /\ filtered_commands = BegunBy(path_segments, Len(path_segments))
  /\ LastIsLongest(last_matched_command,
                   EndedBy(path_segments, Len(path_segments)))
  /\ default_command = LastIndex(DefaultCommands(commands))

Identifying ==
  machine = "IdentifyCommandState" => SegmentsRead /\ SegmentsMatched

\* The inductive invariant of finding the command.
CInv == Reading /\ AtTheStart /\ Identifying /\ CommandResolution

\* What a segment may be, and the text of a token.
Segments == Texts \cup {""}

LEMMA PathTypes ==
  ASSUME IInv
  PROVE  \A c \in DOMAIN commands :
           /\ c \in Nat \ {0}
           /\ Path(c) \in Seq(Segments)
           /\ Len(Path(c)) \in Nat \ {0} /\ DOMAIN Path(c) = 1..Len(Path(c))
<1>1. commands \in CLIs /\ commands \in Seq(CommandRecords)
  BY CommandTypes, ContextTypesOpened DEF ContextTypeOK
<1> SUFFICES ASSUME NEW c \in DOMAIN commands
             PROVE  /\ c \in Nat \ {0}
                    /\ Path(c) \in Seq(Segments)
                    /\ Len(Path(c)) \in Nat \ {0}
                    /\ DOMAIN Path(c) = 1..Len(Path(c))
  OBVIOUS
<1>2. c \in Nat \ {0}
  BY <1>1
<1>3. Path(c) \in Seq(Segments)
  BY CommandTypes, ContextTypesOpened DEF Segments
<1>4. Path(c) # <<>>
  BY <1>1, PathsAssumption DEF Path
<1>5. Len(Path(c)) \in Nat \ {0} /\ DOMAIN Path(c) = 1..Len(Path(c))
  BY <1>3, <1>4, EmptySeq
<1> QED
  BY <1>2, <1>3, <1>5

\* The empty segment belongs to the default command, and only to it.
LEMMA OnlyDefaultIsEmpty ==
  ASSUME IInv, NEW c \in DOMAIN commands
  PROVE  /\ IsDefault(commands[c]) => Len(Path(c)) = 1 /\ Path(c)[1] = ""
         /\ Path(c)[1] = "" => IsDefault(commands[c])
<1>1. IsDefault(commands[c]) => Len(Path(c)) = 1 /\ Path(c)[1] = ""
  <2>1. IsDefault(commands[c]) => Path(c) = <<"">>
    BY DEF IsDefault, Path
  <2>2. \A segment : Len(<<segment>>) = 1 /\ <<segment>>[1] = segment
    OBVIOUS
  <2> QED
    BY <2>1, <2>2
<1>2. 1 \in DOMAIN commands[c].path
  <2>1. Len(Path(c)) \in Nat \ {0} /\ DOMAIN Path(c) = 1..Len(Path(c))
    BY PathTypes
  <2> QED
    BY <2>1 DEF Path
<1>3. Path(c)[1] = "" => IsDefault(commands[c])
  <2>1. commands \in CLIs
    BY ContextTypesOpened DEF ContextTypeOK
  <2>2. (\E i \in DOMAIN commands[c].path : commands[c].path[i] = "")
          => IsDefault(commands[c])
    BY <2>1, PathsAssumption
  <2> QED
    BY <1>2, <2>2 DEF Path
<1> QED
  BY <1>1, <1>3

\* One segment more: the commands that still begin with the segments are those
\* that StillMatching keeps, and those that end with it end at it.
LEMMA OneSegmentMore ==
  ASSUME IInv, NEW segs \in Seq(Segments), NEW n \in Nat, Len(segs) = n,
         NEW text \in Segments
  PROVE  LET more == Append(segs, text)
             kept == StillMatching(BegunBy(segs, n), text, n + 1)
         IN  /\ BegunBy(more, n + 1) = kept
             /\ EndedBy(more, n + 1) =
                  EndedBy(segs, n) \cup {c \in kept : Len(Path(c)) = n + 1}
<1> DEFINE more == Append(segs, text)
           kept == StillMatching(BegunBy(segs, n), text, n + 1)
<1>1. more[n + 1] = text /\ \A i \in 1..n : more[i] = segs[i]
  <2>1. Len(more) = n + 1 /\ n + 1 \in 1..n + 1 /\ n + 1 \notin 1..n
    OBVIOUS
  <2> QED
    BY <2>1
<1> HIDE DEF more
<1>2. BegunBy(more, n + 1) = kept
  <2>1. ASSUME NEW c \in DOMAIN commands
        PROVE  c \in BegunBy(more, n + 1) <=> c \in kept
    <3>1. Len(Path(c)) \in Nat
      BY PathTypes
    <3>2. (\A i \in 1..n + 1 : Path(c)[i] = more[i])
            <=> /\ \A i \in 1..n : Path(c)[i] = segs[i]
                /\ Path(c)[n + 1] = text
      BY <1>1
    <3>3. Len(Path(c)) >= n + 1 => Len(Path(c)) >= n
      BY <1>1, <3>1
    <3> QED
      BY <3>2, <3>3 DEF BegunBy, StillMatching
  <2> QED
    BY <2>1 DEF BegunBy, StillMatching
<1>3. EndedBy(more, n + 1) =
        EndedBy(segs, n) \cup {c \in kept : Len(Path(c)) = n + 1}
  <2>1. ASSUME NEW c \in DOMAIN commands
        PROVE  c \in EndedBy(more, n + 1) <=>
                 \/ c \in EndedBy(segs, n)
                 \/ c \in kept /\ Len(Path(c)) = n + 1
    <3>1. Len(Path(c)) \in Nat
      BY PathTypes
    <3>2. CASE Len(Path(c)) <= n
      <4>1. Len(Path(c)) <= n + 1 /\ Len(Path(c)) # n + 1
        BY <1>1, <3>1, <3>2
      <4>2. \A i \in 1..Len(Path(c)) : more[i] = segs[i]
        BY <1>1, <3>1, <3>2
      <4> QED
        BY <3>2, <4>1, <4>2 DEF EndedBy
    <3>3. CASE Len(Path(c)) = n + 1
      <4>1. ~(Len(Path(c)) <= n) /\ Len(Path(c)) >= n + 1
        BY <1>1, <3>1, <3>3
      <4>2. c \in kept <=> \A i \in 1..n + 1 : Path(c)[i] = more[i]
        BY <1>2, <4>1 DEF BegunBy
      <4> QED
        BY <1>1, <3>3, <4>1, <4>2 DEF EndedBy
    <3>4. CASE Len(Path(c)) > n + 1
      BY <1>1, <3>1, <3>4 DEF EndedBy
    <3> QED
      BY <1>1, <3>1, <3>2, <3>3, <3>4
  <2>2. kept \subseteq DOMAIN commands
    BY DEF BegunBy, StillMatching
  <2> QED
    BY <2>1, <2>2 DEF EndedBy
<1> QED
  BY <1>2, <1>3 DEF more

\* The commands that begin the command line, once no candidate goes on with
\* the next token: those whose path was read, the default command aside.
LEMMA MatchingIsEnded ==
  ASSUME IInv, Reading, SegmentsRead,
         \/ token.type # "Value"
         \/ StillMatching(BegunBy(path_segments, Len(path_segments)), token.text,
                          Len(path_segments) + 1) = {}
  PROVE  MatchingCommands =
           {c \in EndedBy(path_segments, Len(path_segments)) :
              ~IsDefault(commands[c])}
<1> DEFINE n == Len(path_segments)
<1>1. /\ n \in Nat /\ Len(args) \in Nat /\ n <= Len(args)
      /\ DOMAIN path_segments = 1..n
  <2>1. path_segments \in Seq(Segments)
    BY ContextTypesOpened DEF IdentifyTypeOK, Segments
  <2>2. n \in 0..Len(args) /\ Len(args) \in Nat
    BY PositionOfToken, InputTypes DEF SegmentsRead, Reading
  <2> QED
    BY <2>1, <2>2
<1>2. \A i \in 1..n : IsValue(i, path_segments[i])
  BY <1>1 DEF SegmentsRead
<1>3. n < Len(args) => token = args[n + 1]
  BY <1>1, PositionOfToken DEF SegmentsRead
<1>4. ASSUME NEW c \in DOMAIN commands
      PROVE  PathMatches(c) <=> c \in EndedBy(path_segments, n)
                                  /\ ~IsDefault(commands[c])
  <2>1. Len(Path(c)) \in Nat /\ DOMAIN Path(c) = 1..Len(Path(c))
    BY PathTypes
  <2>2. CASE Len(Path(c)) <= n
    <3>1. Len(Path(c)) <= Len(args) /\ \A i \in 1..Len(Path(c)) : i \in 1..n
      BY <1>1, <2>1, <2>2
    <3>2. \A i \in 1..Len(Path(c)) :
            IsValue(i, Path(c)[i]) <=> Path(c)[i] = path_segments[i]
      BY <1>2, <3>1 DEF IsValue
    <3> QED
      BY <2>1, <2>2, <3>1, <3>2 DEF PathMatches, EndedBy
  <2>3. CASE Len(Path(c)) > n
    <3>1. c \notin EndedBy(path_segments, n)
      BY <1>1, <2>1, <2>3 DEF EndedBy
    <3>2. ASSUME PathMatches(c) PROVE FALSE
      <4>1. /\ n < Len(args) /\ n + 1 \in 1..Len(Path(c))
            /\ \A i \in 1..n : i \in 1..Len(Path(c))
            /\ Len(Path(c)) >= n + 1 /\ Len(Path(c)) >= n
        BY <1>1, <2>1, <2>3, <3>2 DEF PathMatches
      <4>2. IsValue(n + 1, Path(c)[n + 1])
              /\ \A i \in 1..n : IsValue(i, Path(c)[i])
        BY <2>1, <3>2, <4>1 DEF PathMatches
      <4>3. token.type = "Value" /\ Path(c)[n + 1] = token.text
        BY <1>3, <4>1, <4>2 DEF IsValue
      <4>4. \A i \in 1..n : Path(c)[i] = path_segments[i]
        BY <1>2, <4>2 DEF IsValue
      <4>5. c \in StillMatching(BegunBy(path_segments, n), token.text, n + 1)
        BY <4>1, <4>3, <4>4 DEF StillMatching, BegunBy
      <4> QED
        BY <4>3, <4>5
    <3> QED
      BY <3>1, <3>2
  <2> QED
    BY <1>1, <2>1, <2>2, <2>3
<1> QED
  BY <1>4 DEF MatchingCommands, EndedBy

\* The last command matched is what CommandResolution asks for; without one,
\* no command begins the command line.
LEMMA LastMatchedResolves ==
  ASSUME IInv, Reading, SegmentsRead, SegmentsMatched,
         \/ token.type # "Value"
         \/ StillMatching(filtered_commands, token.text,
                          Len(path_segments) + 1) = {}
  PROVE  /\ last_matched_command # 0 =>
              last_matched_command \in
                IF MatchingCommands = {} THEN DefaultCommands(commands)
                                         ELSE DeepestCommands
         /\ last_matched_command = 0 => MatchingCommands = {}
<1> DEFINE Ended == EndedBy(path_segments, Len(path_segments))
           last == last_matched_command
<1>1. MatchingCommands = {c \in Ended : ~IsDefault(commands[c])}
  BY MatchingIsEnded DEF SegmentsMatched
<1>2. Ended \subseteq DOMAIN commands
  BY DEF EndedBy
<1>3. /\ Ended = {} => last = 0
      /\ Ended # {} => /\ last \in Ended
                       /\ \A c \in Ended : Len(Path(c)) <= Len(Path(last))
  BY DEF SegmentsMatched, LastIsLongest
<1>4. ASSUME NEW c \in Ended, NEW d \in Ended, IsDefault(commands[c])
      PROVE  IsDefault(commands[d])
  <2>1. 1 \in 1..Len(Path(c)) /\ 1 \in 1..Len(Path(d))
    BY <1>2, PathTypes
  <2>2. Path(c)[1] = path_segments[1] /\ Path(d)[1] = path_segments[1]
    BY <2>1 DEF EndedBy
  <2>3. Path(c)[1] = "" /\ (Path(d)[1] = "" => IsDefault(commands[d]))
    BY <1>2, <1>4, OnlyDefaultIsEmpty
  <2> QED
    BY <2>2, <2>3
<1>5. 0 \notin Ended
  BY <1>2, PathTypes
<1> HIDE DEF Ended
<1>6. CASE Ended = {}
  BY <1>1, <1>3, <1>6
<1>7. CASE Ended # {} /\ IsDefault(commands[last])
  <2>1. MatchingCommands = {}
    BY <1>1, <1>3, <1>4, <1>7
  <2>2. last \in DefaultCommands(commands)
    BY <1>2, <1>3, <1>7 DEF DefaultCommands
  <2> QED
    BY <2>1, <2>2
<1>8. CASE Ended # {} /\ ~IsDefault(commands[last])
  <2>1. last \in MatchingCommands
    BY <1>1, <1>3, <1>8
  <2>2. \A d \in MatchingCommands : Len(Path(d)) <= Len(Path(last))
    BY <1>1, <1>3, <1>8
  <2>3. last \in DeepestCommands
    BY <2>1, <2>2 DEF DeepestCommands
  <2> QED
    BY <1>3, <1>5, <1>8, <2>1, <2>3
<1> QED
  BY <1>6, <1>7, <1>8

-----------------------------------------------------------------------------
(* Every step keeps the invariant *)

\* The command that CommandResolution asks for, and when there is none.
Resolved(c) ==
  c \in IF MatchingCommands = {} THEN DefaultCommands(commands)
                                 ELSE DeepestCommands

NoCommand == MatchingCommands = {} /\ DefaultCommands(commands) = {}

CommandErrors == {"UnrecognizedCommand", "MissingCommand"}

LEMMA ResolutionIs ==
  CommandResolution <=> /\ machine \in CommandKnown => Resolved(active_command)
                        /\ error \in CommandErrors => NoCommand
BY DEF CommandResolution, Resolved, NoCommand, CommandErrors

\* What is asked for depends on the commands and the tokens alone.
LEMMA SameQuestion ==
  ASSUME UNCHANGED <<commands, args>>
  PROVE  /\ MatchingCommands' = MatchingCommands
         /\ DefaultCommands(commands)' = DefaultCommands(commands)
         /\ DeepestCommands' = DeepestCommands
         /\ \A c : Path(c)' = Path(c)
<1>1. \A c : Path(c)' = Path(c)
  BY DEF Path
<1>2. \A c : PathMatches(c)' <=> PathMatches(c)
  BY <1>1 DEF PathMatches, IsValue
<1>3. MatchingCommands' = MatchingCommands
  BY <1>2 DEF MatchingCommands
<1>4. DeepestCommands' = DeepestCommands
  BY <1>1, <1>3 DEF DeepestCommands
<1> QED
  BY <1>1, <1>3, <1>4 DEF DefaultCommands

\* The first and the last default command, if there is one.
LEMMA DefaultIndex ==
  ASSUME IInv
  PROVE  /\ FirstIndex(DefaultCommands(commands)) # 0
              => FirstIndex(DefaultCommands(commands)) \in DefaultCommands(commands)
         /\ LastIndex(DefaultCommands(commands)) # 0
              => LastIndex(DefaultCommands(commands)) \in DefaultCommands(commands)
         /\ \/ FirstIndex(DefaultCommands(commands)) = 0
            \/ LastIndex(DefaultCommands(commands)) = 0
            => DefaultCommands(commands) = {}
<1> DEFINE D == DefaultCommands(commands)
<1>1. commands \in Seq(CommandRecords) /\ D \subseteq DOMAIN commands
  BY CommandTypes, ContextTypesOpened DEF DefaultCommands
<1>2. D \subseteq 1..Len(commands) /\ Len(commands) \in Nat
  BY <1>1
<1> HIDE DEF D
<1>3. /\ FirstIndex(D) \in {0} \cup D /\ LastIndex(D) \in {0} \cup D
      /\ D # {} => FirstIndex(D) \in D /\ LastIndex(D) \in D
  BY <1>2, IndexOfSet
<1>4. 0 \notin D
  BY <1>2
<1> QED
  BY <1>3, <1>4 DEF D

\* The machine answers, and the command is known from then on.
LEMMA CommandFound ==
  ASSUME IInv, Reading, status = "running", UNCHANGED <<commands, args>>,
         Resolved(active_command'),
         \/ EnterParseOptions
         \/ Reissue("FinalState")
         \/ Proceed("DashDashState")
  PROVE  AtTheStart' /\ Identifying' /\ CommandResolution'
<1>1. machine' \in {"ParseOptionsState", "FinalState", "DashDashState"}
        /\ error' = error
  BY DEF EnterParseOptions, Reissue, Proceed, Abort
<1>2. error = "none"
  BY ContextTypesOpened DEF LoopTypeOK
<1>3. Resolved(active_command)'
  BY SameQuestion DEF Resolved
<1>4. AtTheStart' /\ Identifying'
  BY <1>1 DEF AtTheStart, Identifying
<1>5. error' \notin CommandErrors
  BY <1>1, <1>2 DEF CommandErrors
<1>6. CommandResolution'
  BY <1>3, <1>5 DEF CommandResolution, Resolved, CommandErrors
<1> QED
  BY <1>4, <1>6

\* There is no command, and the parse fails where it is.
LEMMA CommandMissing ==
  ASSUME IInv, CInv, machine \notin CommandKnown, NoCommand,
         ReportError("UnrecognizedCommand") \/ ReportError("MissingCommand"),
         UNCHANGED <<commands, args, identifyVars, active_command>>
  PROVE  AtTheStart' /\ Identifying' /\ CommandResolution'
<1>1. UNCHANGED <<machine, input, token>>
  BY DEF ReportError
<1>2. HandledCount' = HandledCount
  BY <1>1, NoTokenRead
<1>3. AtTheStart'
  BY <1>1, <1>2, SameQuestion DEF CInv, AtTheStart, identifyVars
<1>4. Identifying'
  <2>1. SegmentsRead => SegmentsRead'
    BY <1>2 DEF SegmentsRead, IsValue, identifyVars
  <2>2. SegmentsMatched => SegmentsMatched'
    <3>1. \A c : Path(c)' = Path(c)
      BY SameQuestion
    <3>2. /\ \A segs, n : BegunBy(segs, n)' = BegunBy(segs, n)
          /\ \A segs, n : EndedBy(segs, n)' = EndedBy(segs, n)
      BY DEF BegunBy, EndedBy, Path
    <3>3. UNCHANGED <<path_segments, filtered_commands, last_matched_command,
                      default_command>>
      BY DEF identifyVars
    <3>4. EndedBy(path_segments, Len(path_segments))'
            = EndedBy(path_segments, Len(path_segments))
      BY <3>3 DEF EndedBy, Path
    <3>5. BegunBy(path_segments, Len(path_segments))'
            = BegunBy(path_segments, Len(path_segments))
      BY <3>3 DEF BegunBy, Path
    <3> QED
      BY <3>1, <3>3, <3>4, <3>5, SameQuestion
      DEF SegmentsMatched, LastIsLongest
  <2> QED
    BY <1>1, <2>1, <2>2 DEF CInv, Identifying
<1>5. CommandResolution'
  BY <1>1, SameQuestion DEF CommandResolution, NoCommand, CommandKnown
<1> QED
  BY <1>3, <1>4, <1>5

\* The first token is the first segment of a path.
LEMMA PathBegins ==
  ASSUME IInv, Reading, HandledCount = 0, path_segments = <<>>,
         InitialState_Value, MaybeCommand(token.text)
  PROVE  Reading' /\ AtTheStart' /\ Identifying' /\ CommandResolution'
<1>1. /\ status = "running" /\ machine = "InitialState"
       /\ UNCHANGED <<commands, args>>
  BY DEF InitialState_Value, Handling, fixedVars
<1>2. Reading /\ HandledCount = 0 /\ path_segments = <<>>
  OBVIOUS
<1>3. token.type # "EndOfInput" => 1 \in 1..Len(args) /\ token = args[1]
  BY <1>2, PositionOfToken
<1> DEFINE text == token.text
<1>4. EnterIdentifyCommand /\ token.type = "Value"
  BY DEF InitialState_Value, Handling
<1>5. NextToken /\ machine' = "IdentifyCommandState" /\ error' = error
  BY <1>4 DEF EnterIdentifyCommand, Proceed
<1>6. Reading' /\ HandledCount' = 1
  BY <1>1, <1>2, <1>4, <1>5, NextTokenReads
<1>7. path_segments' = <<text>> /\ <<text>>[1] = text /\ Len(<<text>>) = 1
  BY <1>2, <1>4 DEF EnterIdentifyCommand
<1>8. SegmentsRead'
  <2>1. DOMAIN path_segments' = 1..1 /\ Len(path_segments') = 1
          /\ path_segments'[1] = text
    BY <1>7
  <2>2. args'[1].type = "Value" /\ args'[1].text = text
    BY <1>1, <1>3, <1>4
  <2>3. \A i \in 1..1 : i = 1
    OBVIOUS
  <2> QED
    BY <1>6, <2>1, <2>2, <2>3 DEF SegmentsRead, IsValue
<1>9. \A c \in DOMAIN commands :
        /\ c \in BegunBy(<<text>>, 1) <=> Path(c) # <<>> /\ Path(c)[1] = text
        /\ c \in EndedBy(<<text>>, 1) <=> Path(c) = <<text>>
  <2> SUFFICES ASSUME NEW c \in DOMAIN commands
               PROVE  /\ c \in BegunBy(<<text>>, 1)
                           <=> Path(c) # <<>> /\ Path(c)[1] = text
                      /\ c \in EndedBy(<<text>>, 1) <=> Path(c) = <<text>>
    OBVIOUS
  <2>1. Path(c) \in Seq(Segments) /\ Len(Path(c)) \in Nat \ {0}
    BY PathTypes
  <2>2. \A i \in 1..1 : i = 1
    OBVIOUS
  <2>3. 1 \in 1..1 /\ Len(Path(c)) >= 1 /\ Path(c) # <<>>
    <3>1. Len(Path(c)) >= 1 /\ Len(Path(c)) # 0
      BY <2>1
    <3> QED
      BY <3>1, EmptySeq
  <2>4. c \in BegunBy(<<text>>, 1) <=> Path(c)[1] = text
    BY <1>7, <2>2, <2>3 DEF BegunBy
  <2>5. ASSUME Len(Path(c)) = 1, Path(c)[1] = text PROVE Path(c) = <<text>>
    <3>1. \A s \in Seq(Segments) : Len(s) = 1 => s = <<s[1]>>
      OBVIOUS
    <3> QED
      BY <2>1, <2>5, <3>1
  <2>6. Len(Path(c)) <= 1 <=> Len(Path(c)) = 1
    <3>1. \A m \in Nat \ {0} : m <= 1 <=> m = 1
      OBVIOUS
    <3> QED
      BY <2>1, <3>1
  <2>7. c \in EndedBy(<<text>>, 1)
          <=> Len(Path(c)) = 1 /\ \A i \in 1..Len(Path(c)) : Path(c)[i] = <<text>>[i]
    BY <2>6 DEF EndedBy
  <2>8. c \in EndedBy(<<text>>, 1) <=> Len(Path(c)) = 1 /\ Path(c)[1] = text
    BY <1>7, <2>2, <2>3, <2>7
  <2> QED
    BY <1>7, <2>3, <2>4, <2>5, <2>8
<1>10. /\ filtered_commands' = BegunBy(<<text>>, 1)
      /\ last_matched_command' = LastIndex(EndedBy(<<text>>, 1))
      /\ default_command' = LastIndex(DefaultCommands(commands))
  <2>1. {c \in DOMAIN commands : Path(c) # <<>> /\ Path(c)[1] = text}
          = BegunBy(<<text>>, 1)
    BY <1>9 DEF BegunBy
  <2>2. {c \in DOMAIN commands : Path(c) = <<text>>} = EndedBy(<<text>>, 1)
    BY <1>9 DEF EndedBy
  <2> QED
    BY <1>4, <2>1, <2>2 DEF EnterIdentifyCommand
<1>11. LastIsLongest(last_matched_command', EndedBy(<<text>>, 1))
  <2> DEFINE E == EndedBy(<<text>>, 1)
  <2>1. commands \in Seq(CommandRecords) /\ E \subseteq DOMAIN commands
    BY CommandTypes, ContextTypesOpened DEF EndedBy
  <2>2. \A c \in E : Len(Path(c)) = 1
    BY <1>7, <1>9, <2>1
  <2> HIDE DEF E
  <2>3. E \subseteq 1..Len(commands) /\ Len(commands) \in Nat
    BY <2>1
  <2>4. E # {} => LastIndex(E) \in E
    BY <2>3, IndexOfSet
  <2>5. E = {} => LastIndex(E) = 0
    BY DEF LastIndex
  <2>6. LastIsLongest(LastIndex(E), E)
    BY <2>2, <2>4, <2>5 DEF LastIsLongest
  <2> QED
    BY <1>10, <2>6 DEF E
<1>12. SegmentsMatched'
  <2>1. /\ BegunBy(path_segments, Len(path_segments))' = BegunBy(<<text>>, 1)
        /\ EndedBy(path_segments, Len(path_segments))' = EndedBy(<<text>>, 1)
    BY <1>1, <1>7 DEF BegunBy, EndedBy, Path
  <2>2. LastIsLongest(last_matched_command,
                      EndedBy(path_segments, Len(path_segments)))'
    BY <1>1, <1>11, <2>1, SameQuestion DEF LastIsLongest
  <2>3. path_segments' # <<>>
    BY <1>7
  <2>4. default_command' = LastIndex(DefaultCommands(commands))'
    BY <1>1, <1>10
  <2> QED
    BY <1>10, <2>1, <2>2, <2>3, <2>4 DEF SegmentsMatched
<1>13. Identifying' /\ AtTheStart'
  BY <1>5, <1>8, <1>12 DEF Identifying, AtTheStart
<1>14. error = "none"
  BY <1>1, ContextTypesOpened DEF LoopTypeOK
<1>15. CommandResolution'
  BY <1>5, <1>14 DEF CommandResolution, CommandKnown
<1> QED
  BY <1>6, <1>13, <1>15

\* When a command begins the command line, the first token is a value with
\* which a path begins.
LEMMA PathMustBegin ==
  ASSUME IInv, Reading, HandledCount = 0, MatchingCommands # {}
  PROVE  token.type = "Value" /\ MaybeCommand(token.text)
<1>1. PICK c \in DOMAIN commands : PathMatches(c)
  BY DEF MatchingCommands
<1>2. Len(Path(c)) \in Nat \ {0} /\ DOMAIN Path(c) = 1..Len(Path(c))
  BY PathTypes
<1>3. Len(Path(c)) <= Len(args) /\ Len(args) \in Nat /\ Path(c) # <<>>
  BY <1>1, <1>2, InputTypes DEF PathMatches, Reading
<1>4. Len(args) # 0 /\ 1 \in 1..Len(Path(c))
  BY <1>2, <1>3
<1>5. token = args[1] /\ IsValue(1, Path(c)[1])
  BY <1>1, <1>2, <1>4, PositionOfToken DEF PathMatches
<1>6. token.type = "Value" /\ Path(c)[1] = token.text
  BY <1>5 DEF IsValue
<1> QED
  BY <1>3, <1>6 DEF MaybeCommand

LEMMA StartKeeps ==
  ASSUME IInv, CInv, InitialState_Value \/ InitialState_Other
  PROVE  AtTheStart' /\ Identifying' /\ CommandResolution'
<1>1. /\ status = "running" /\ machine = "InitialState"
      /\ UNCHANGED <<commands, args, active_command>>
  BY DEF InitialState_Value, InitialState_Other, Handling, fixedVars, contextVars
<1>2. /\ Reading /\ HandledCount = 0 /\ path_segments = <<>>
      /\ MatchingCommands = {} =>
           active_command = FirstIndex(DefaultCommands(commands))
  BY <1>1 DEF CInv, AtTheStart
<1>3. CASE InitialState_Value /\ MaybeCommand(token.text)
  BY <1>2, <1>3, PathBegins
<1>4. CASE ~(InitialState_Value /\ MaybeCommand(token.text))
  <2>1. /\ UNCHANGED identifyVars
        /\ \/ /\ active_command # 0
              /\ \/ EnterParseOptions
                 \/ Reissue("FinalState")
                 \/ Proceed("DashDashState")
           \/ /\ active_command = 0
              /\ ReportError("UnrecognizedCommand") \/ ReportError("MissingCommand")
    BY <1>4 DEF InitialState_Value, InitialState_Other, EnterFinal
  <2>2. MatchingCommands = {}
    BY <1>2, <1>4, PathMustBegin
    DEF InitialState_Other, InitialState_Value, Handling, NotValue
  <2>3. CASE active_command # 0
    <3>1. Resolved(active_command')
      BY <1>1, <1>2, <2>2, <2>3, DefaultIndex DEF Resolved
    <3> QED
      BY <1>1, <1>2, <2>1, <2>3, <3>1, CommandFound
  <2>4. CASE active_command = 0
    <3>1. NoCommand
      BY <1>2, <2>2, <2>4, DefaultIndex DEF NoCommand
    <3> QED
      BY <1>1, <2>1, <2>4, <3>1, CommandMissing DEF CommandKnown
  <2> QED
    BY <2>3, <2>4
<1> QED
  BY <1>3, <1>4

\* One more segment is read.
LEMMA SegmentKeeps ==
  ASSUME IInv, CInv, status = "running", machine = "IdentifyCommandState",
         token.type = "Value", UNCHANGED <<commands, args>>,
         NEW n, n = Len(path_segments),
         NEW kept, kept = StillMatching(filtered_commands, token.text, n + 1),
         NEW matched, matched = {c \in kept : Len(Path(c)) = n + 1},
         path_segments' = Append(path_segments, token.text),
         filtered_commands' = kept,
         last_matched_command' = IF matched = {} THEN last_matched_command
                                                 ELSE Max(matched),
         Proceed("IdentifyCommandState"),
         UNCHANGED default_command
  PROVE  AtTheStart' /\ Identifying' /\ CommandResolution'
<1> DEFINE segs == path_segments
           text == token.text
           more == Append(segs, text)
<1>1. /\ Reading /\ HandledCount = n
      /\ \A i \in DOMAIN segs : IsValue(i, segs[i])
      /\ filtered_commands = BegunBy(segs, n)
      /\ LastIsLongest(last_matched_command, EndedBy(segs, n))
      /\ default_command = LastIndex(DefaultCommands(commands))
  BY DEF CInv, Identifying, SegmentsRead, SegmentsMatched
<1>2. NextToken /\ machine' = "IdentifyCommandState" /\ error' = error
  BY DEF Proceed
<1>3. HandledCount' = n + 1
  BY <1>1, <1>2, NextTokenReads
<1>4. segs \in Seq(Segments) /\ text \in Segments
  BY ContextTypesOpened DEF IdentifyTypeOK, Segments
<1>5. n \in Nat /\ DOMAIN segs = 1..n
  BY <1>4
<1>6. /\ Len(more) = n + 1 /\ DOMAIN more = 1..n + 1 /\ more # <<>>
      /\ more[n + 1] = text /\ \A i \in 1..n : more[i] = segs[i]
  <2> HIDE DEF segs, text
  <2>1. Len(more) = n + 1 /\ DOMAIN more = 1..n + 1
    BY <1>4, <1>5
  <2>2. more[n + 1] = text /\ \A i \in 1..n : more[i] = segs[i]
    <3>1. n + 1 \in 1..n + 1 /\ n + 1 \notin 1..n
      BY <1>5
    <3> QED
      BY <1>4, <1>5, <3>1
  <2>3. more # <<>>
    BY <1>5, <2>1, EmptySeq
  <2> QED
    BY <2>1, <2>2, <2>3
<1>7. token = args[n + 1]
  BY <1>1, PositionOfToken
<1>8. SegmentsRead'
  <2>1. \A i \in 1..n + 1 : i \in 1..n \/ i = n + 1
    BY <1>5
  <2>2. \A i \in 1..n + 1 : args[i].type = "Value" /\ args[i].text = more[i]
    BY <1>1, <1>5, <1>6, <1>7, <2>1 DEF IsValue
  <2>3. path_segments' = more
    OBVIOUS
  <2> HIDE DEF more
  <2>4. /\ Len(path_segments') = n + 1 /\ DOMAIN path_segments' = 1..n + 1
        /\ \A i \in 1..n + 1 : path_segments'[i] = more[i]
    BY <1>6, <2>3
  <2> QED
    BY <1>3, <2>2, <2>4 DEF SegmentsRead, IsValue
<1>9. BegunBy(more, n + 1) = kept /\ EndedBy(more, n + 1) = EndedBy(segs, n) \cup matched
  BY <1>1, <1>4, <1>5, OneSegmentMore
<1>10. LastIsLongest(last_matched_command', EndedBy(more, n + 1))
  <2>1. CASE matched = {}
    BY <1>1, <1>9, <2>1
  <2>2. CASE matched # {}
    <3>1. commands \in Seq(CommandRecords) /\ matched \subseteq DOMAIN commands
      BY <1>1, CommandTypes, ContextTypesOpened DEF BegunBy, StillMatching
    <3>2. Max(matched) \in matched
      BY <2>2, <3>1, IndexInSequence
    <3>3. Len(Path(Max(matched))) = n + 1
      BY <3>2
    <3>4. ASSUME NEW c \in EndedBy(segs, n) PROVE Len(Path(c)) <= n + 1
      <4>1. Len(Path(c)) <= n /\ Len(Path(c)) \in Nat
        BY PathTypes DEF EndedBy
      <4> QED
        BY <1>5, <4>1
    <3>5. \A c \in matched : Len(Path(c)) <= n + 1
      BY <1>5
    <3> QED
      BY <1>9, <2>2, <3>2, <3>3, <3>4, <3>5 DEF LastIsLongest
  <2> QED
    BY <2>1, <2>2
<1>11. SegmentsMatched'
  <2>1. path_segments' = more /\ Len(path_segments') = n + 1
    BY <1>6
  <2>2. /\ BegunBy(path_segments, Len(path_segments))' = BegunBy(more, n + 1)
        /\ EndedBy(path_segments, Len(path_segments))' = EndedBy(more, n + 1)
    BY <2>1 DEF BegunBy, EndedBy, Path
  <2>3. LastIsLongest(last_matched_command,
                      EndedBy(path_segments, Len(path_segments)))'
    BY <1>10, <2>2, SameQuestion DEF LastIsLongest
  <2>4. path_segments' # <<>> /\ filtered_commands' = BegunBy(more, n + 1)
    BY <1>6, <1>9
  <2>5. default_command' = LastIndex(DefaultCommands(commands))'
    BY <1>1
  <2> QED
    BY <2>2, <2>3, <2>4, <2>5 DEF SegmentsMatched
<1>12. error = "none"
  BY ContextTypesOpened DEF LoopTypeOK
<1> QED
  BY <1>2, <1>8, <1>11, <1>12
  DEF AtTheStart, Identifying, CommandResolution, CommandKnown

\* The path ends here: the last command matched, or the default command.
LEMMA IdentifyKeeps ==
  ASSUME IInv, CInv, IdentifyCommand_Value \/ IdentifyCommand_Other
  PROVE  AtTheStart' /\ Identifying' /\ CommandResolution'
<1> DEFINE n == Len(path_segments)
           kept == StillMatching(filtered_commands, token.text, n + 1)
           matched == {c \in kept : Len(Path(c)) = n + 1}
<1>1. /\ status = "running" /\ machine = "IdentifyCommandState"
      /\ UNCHANGED <<commands, args>>
  BY DEF IdentifyCommand_Value, IdentifyCommand_Other, Handling, fixedVars
<1>2. /\ Reading /\ SegmentsRead /\ SegmentsMatched
      /\ default_command = LastIndex(DefaultCommands(commands))
  BY <1>1 DEF CInv, Identifying, SegmentsMatched
<1>3. CASE IdentifyCommand_Value /\ kept # {}
  <2>1. /\ token.type = "Value"
        /\ path_segments' = Append(path_segments, token.text)
        /\ filtered_commands' = kept
        /\ last_matched_command' = IF matched = {} THEN last_matched_command
                                                   ELSE Max(matched)
        /\ Proceed("IdentifyCommandState")
        /\ UNCHANGED default_command
    BY <1>3 DEF IdentifyCommand_Value, Handling
  <2> HIDE DEF kept, matched
  <2> QED
    BY <1>1, <2>1, SegmentKeeps DEF kept, matched
<1>4. CASE ~(IdentifyCommand_Value /\ kept # {})
  <2>1. token.type # "Value" \/ kept = {}
    BY <1>4 DEF IdentifyCommand_Other, Handling, NotValue
  <2>2. \/ /\ last_matched_command # 0 /\ active_command' = last_matched_command
           /\ \/ EnterParseOptions
              \/ Reissue("FinalState")
              \/ Proceed("DashDashState")
        \/ /\ last_matched_command = 0 /\ default_command # 0
           /\ active_command' = default_command
           /\ EnterParseOptions
        \/ /\ last_matched_command = 0 /\ default_command = 0
           /\ ReportError("UnrecognizedCommand")
           /\ UNCHANGED <<identifyVars, active_command>>
    BY <1>4 DEF IdentifyCommand_Value, IdentifyCommand_Other, FallBackToDefault,
       EnterFinal
  <2>3. /\ last_matched_command # 0 => Resolved(last_matched_command)
        /\ last_matched_command = 0 => MatchingCommands = {}
    BY <1>2, <2>1, LastMatchedResolves DEF Resolved
  <2>4. /\ default_command # 0 => default_command \in DefaultCommands(commands)
        /\ default_command = 0 => DefaultCommands(commands) = {}
    BY <1>2, DefaultIndex
  <2>5. CASE last_matched_command = 0 /\ default_command = 0
    <3>1. NoCommand
      BY <2>3, <2>4, <2>5 DEF NoCommand
    <3> QED
      BY <1>1, <2>2, <2>5, <3>1, CommandMissing DEF CommandKnown
  <2>6. CASE ~(last_matched_command = 0 /\ default_command = 0)
    <3>1. Resolved(active_command')
      BY <2>2, <2>3, <2>4, <2>6 DEF Resolved
    <3> QED
      BY <1>1, <1>2, <2>2, <2>6, <3>1, CommandFound
  <2> QED
    BY <2>5, <2>6
<1> QED
  BY <1>3, <1>4

\* What the steps after the command is known have in common.
LEMMA KnownSteps ==
  ASSUME Step, machine \in CommandKnown
  PROVE  /\ machine' \in CommandKnown
         /\ UNCHANGED <<commands, args, active_command>>
         /\ error' = error \/ error' \in Errors \ CommandErrors
<1> USE DEF CommandKnown, MachineStates, CommandErrors, Errors
<1>1. ASSUME \/ ParseOptions_Value    \/ ParseOptions_EndOfInput
             \/ ParseOptions_DashDash \/ ParseOptions_EqualSign
             \/ ParseOptions_ShortOption \/ ParseOptions_LongOption
             \/ DashDash_Any
      PROVE  /\ machine' \in CommandKnown
             /\ UNCHANGED <<commands, args, active_command>>
             /\ error' = error \/ error' \in Errors \ CommandErrors
  BY <1>1 DEF ParseOptions_Value, ParseOptions_EndOfInput,
     ParseOptions_DashDash, ParseOptions_EqualSign, ParseOptions_ShortOption,
     ParseOptions_LongOption, DashDash_Any, EnterOption, EnterFinal, Proceed,
     Reissue, Abort, ReportError, Undefined, fixedVars, contextVars
<1>2. ASSUME \/ ParseShortOption_Value   \/ ParseShortOption_Other
             \/ ParseLongOption_EqualSign
             \/ ParseLongOption_Value    \/ ParseLongOption_Other
      PROVE  /\ machine' \in CommandKnown
             /\ UNCHANGED <<commands, args, active_command>>
             /\ error' = error \/ error' \in Errors \ CommandErrors
  BY <1>2 DEF ParseShortOption_Value, ParseShortOption_Other,
     ParseLongOption_EqualSign, ParseLongOption_Value, ParseLongOption_Other,
     LeaveOption, TakeValue, Proceed, Reissue, Abort, ReportError, fixedVars,
     contextVars
<1>3. ASSUME \/ Final_RestDeclared  \/ Final_Positional
             \/ Final_Leftover
             \/ Final_CheckOptions  \/ Final_CheckPositionals
      PROVE  /\ machine' \in CommandKnown
             /\ UNCHANGED <<commands, args, active_command>>
             /\ error' = error \/ error' \in Errors \ CommandErrors
  BY <1>3 DEF Final_RestDeclared, Final_Positional, Final_Leftover,
     Final_CheckOptions, Final_CheckPositionals, CheckRequiredOptions,
     Undefined, ReportError, loopVars, fixedVars, contextVars
<1>4. ~InitialState_Value /\ ~InitialState_Other
        /\ ~IdentifyCommand_Value /\ ~IdentifyCommand_Other
  BY DEF InitialState_Value, InitialState_Other, IdentifyCommand_Value,
     IdentifyCommand_Other, Handling
<1> QED
  BY <1>1, <1>2, <1>3, <1>4 DEF Step

LEMMA KnownKeeps ==
  ASSUME IInv, CInv, Step, machine \in CommandKnown
  PROVE  AtTheStart' /\ Identifying' /\ CommandResolution'
<1>1. /\ machine' \in CommandKnown
      /\ UNCHANGED <<commands, args, active_command>>
      /\ error' = error \/ error' \in Errors \ CommandErrors
  BY KnownSteps
<1>2. AtTheStart' /\ Identifying'
  BY <1>1 DEF AtTheStart, Identifying, CommandKnown
<1>3. CommandResolution'
  BY <1>1, SameQuestion DEF CInv, CommandResolution, CommandErrors
<1> QED
  BY <1>2, <1>3

LEMMA StoppedKeeps ==
  ASSUME CInv, UNCHANGED vars
  PROVE  CInv'
<1>1. /\ UNCHANGED <<commands, args, input, token, machine, error,
                     active_command, path_segments, filtered_commands,
                     last_matched_command, default_command>>
  BY DEF vars, fixedVars, loopVars, contextVars, identifyVars
<1>2. Reading' /\ HandledCount' = HandledCount
  BY <1>1, NoTokenRead DEF CInv
<1>3. AtTheStart' /\ CommandResolution'
  BY <1>1, <1>2, SameQuestion DEF CInv, AtTheStart, CommandResolution
<1>4. Identifying'
  <2>1. SegmentsRead' <=> SegmentsRead
    BY <1>1, <1>2 DEF SegmentsRead, IsValue
  <2>2. SegmentsMatched' <=> SegmentsMatched
    BY <1>1, SameQuestion DEF SegmentsMatched, LastIsLongest, BegunBy, EndedBy, Path
  <2> QED
    BY <1>1, <2>1, <2>2 DEF CInv, Identifying
<1> QED
  BY <1>2, <1>3, <1>4 DEF CInv

LEMMA InitResolves == Init => CInv
<1> SUFFICES ASSUME Init PROVE CInv
  OBVIOUS
<1>1. Reading /\ HandledCount = 0
  BY InitReads
<1>2. AtTheStart /\ Identifying /\ CommandResolution
  BY <1>1 DEF Init, AtTheStart, Identifying, CommandResolution, CommandKnown
<1> QED
  BY <1>1, <1>2 DEF CInv

\* Before the command is known only the first two states are in charge.
LEMMA OnlyTheFirstStates ==
  ASSUME Step, machine \notin CommandKnown
  PROVE  \/ InitialState_Value \/ InitialState_Other
         \/ IdentifyCommand_Value \/ IdentifyCommand_Other
BY DEF Step, Handling, CommandKnown, MachineStates, ParseOptions_Value,
   ParseOptions_EndOfInput, ParseOptions_DashDash, ParseOptions_EqualSign,
   ParseOptions_ShortOption, ParseOptions_LongOption, ParseShortOption_Value,
   ParseShortOption_Other, ParseLongOption_EqualSign, ParseLongOption_Value,
   ParseLongOption_Other, DashDash_Any, Final_RestDeclared, Final_Positional,
   Final_Leftover, Final_CheckOptions, Final_CheckPositionals,
   CheckRequiredOptions, Finishing

LEMMA NextResolves == IInv /\ CInv /\ IInv' /\ [Next]_vars => CInv'
<1> SUFFICES ASSUME IInv, CInv, IInv', [Next]_vars PROVE CInv'
  OBVIOUS
<1>1. Reading'
  BY ReadingKept DEF CInv
<1>2. CASE Step
  <2>1. CASE machine \in CommandKnown
    BY <1>1, <1>2, <2>1, KnownKeeps DEF CInv
  <2>2. CASE machine \notin CommandKnown
    <3>1. \/ InitialState_Value \/ InitialState_Other
          \/ IdentifyCommand_Value \/ IdentifyCommand_Other
      BY <1>2, <2>2, OnlyTheFirstStates
    <3> QED
      BY <1>1, <3>1, StartKeeps, IdentifyKeeps DEF CInv
  <2> QED
    BY <2>1, <2>2
<1>3. CASE UNCHANGED vars
  BY <1>3, StoppedKeeps
<1> QED
  BY <1>2, <1>3 DEF Next, Stopped

LEMMA CommandInvariant == Spec => []CInv
BY InvariantHolds, InitResolves, NextResolves, PTL DEF Spec

\* For every list of commands and every command line: the command that becomes
\* active is the one with the longest path that begins the command line, or the
\* default command when there is none, and the parser fails to find a command
\* only when there is neither.
THEOREM CommandResolved == Spec => []CommandResolution
<1>1. CInv => CommandResolution
  BY DEF CInv
<1> QED
  BY <1>1, CommandInvariant, PTL

-----------------------------------------------------------------------------
(* Where a debug build aborts *)

\* When the whole command line was taken for a path, every argument is a value.
LEMMA AllSegments ==
  ASSUME IInv, Reading, SegmentsRead, token.type = "EndOfInput"
  PROVE  \A i \in DOMAIN args : args[i].type = "Value"
<1>1. HandledCount = Len(args) /\ Len(args) = Len(path_segments)
  BY PositionOfToken DEF SegmentsRead
<1>2. DOMAIN args = 1..Len(args) /\ DOMAIN path_segments = 1..Len(path_segments)
  <2>1. args \in Seq(Tokens)
    BY InputTypes DEF Reading
  <2>2. path_segments \in Seq(Segments)
    BY ContextTypesOpened DEF IdentifyTypeOK, Segments
  <2> QED
    BY <2>1, <2>2
<1> QED
  BY <1>1, <1>2 DEF SegmentsRead, IsValue

LEMMA StartAborts ==
  ASSUME InitialState_Value \/ InitialState_Other
  PROVE  status' # "aborted"
<1>1. status = "running" /\ (InitialState_Value => token.type # "EndOfInput")
  BY DEF InitialState_Value, InitialState_Other, Handling
<1>2. \/ token.type # "EndOfInput" /\ EnterParseOptions
      \/ token.type # "EndOfInput" /\ \E s \in MachineStates : Proceed(s)
      \/ Reissue("FinalState")
      \/ ReportError("UnrecognizedCommand") \/ ReportError("MissingCommand")
  BY <1>1 DEF InitialState_Value, InitialState_Other, EnterIdentifyCommand,
     EnterFinal, MachineStates
<1> QED
  BY <1>1, <1>2 DEF EnterParseOptions, Proceed, Reissue, ReportError

LEMMA IdentifyAborts ==
  ASSUME IInv, CInv, IdentifyCommand_Value \/ IdentifyCommand_Other,
         status' = "aborted"
  PROVE  OnlyKnownAborts'
<1>1. /\ status = "running" /\ machine = "IdentifyCommandState"
      /\ UNCHANGED <<commands, args>>
  BY DEF IdentifyCommand_Value, IdentifyCommand_Other, Handling, fixedVars
<1>2. \/ token.type # "EndOfInput" /\ \E s \in MachineStates : Proceed(s)
      \/ token.type # "EndOfInput" /\ EnterParseOptions
      \/ Reissue("FinalState")
      \/ ReportError("UnrecognizedCommand")
      \/ /\ IdentifyCommand_Other /\ EnterParseOptions
         /\ last_matched_command = 0 /\ default_command # 0
  BY DEF IdentifyCommand_Value, IdentifyCommand_Other, Handling, EnterFinal,
     FallBackToDefault, MachineStates
<1>3. /\ IdentifyCommand_Other /\ token.type = "EndOfInput"
      /\ last_matched_command = 0 /\ default_command # 0
  BY <1>1, <1>2 DEF Proceed, EnterParseOptions, Reissue, ReportError
<1>4. /\ Reading /\ SegmentsRead /\ SegmentsMatched
      /\ default_command = LastIndex(DefaultCommands(commands))
  BY <1>1 DEF CInv, Identifying, SegmentsMatched
<1>5. \A i \in DOMAIN args : args[i].type = "Value"
  BY <1>3, <1>4, AllSegments
<1>6. MatchingCommands = {}
  BY <1>3, <1>4, LastMatchedResolves
<1>7. DefaultCommands(commands) # {}
  BY <1>3, <1>4, DefaultIndex
<1> QED
  BY <1>1, <1>5, <1>6, <1>7, SameQuestion DEF OnlyKnownAborts

LEMMA KnownAborts ==
  ASSUME Step, machine \in CommandKnown, status' = "aborted"
  PROVE  machine' = "DashDashState"
<1>1. ASSUME \/ ParseOptions_Value    \/ ParseOptions_EndOfInput
             \/ ParseOptions_DashDash \/ ParseOptions_EqualSign
             \/ ParseOptions_ShortOption \/ ParseOptions_LongOption
      PROVE  FALSE
  <2>1. status = "running"
    BY <1>1 DEF ParseOptions_Value, ParseOptions_EndOfInput,
       ParseOptions_DashDash, ParseOptions_EqualSign, ParseOptions_ShortOption,
       ParseOptions_LongOption, Handling
  <2>2. \/ token.type # "EndOfInput" /\ \E s \in MachineStates : Proceed(s)
        \/ Reissue("FinalState") \/ Undefined
        \/ \E e \in Errors : ReportError(e)
    BY <1>1 DEF ParseOptions_Value, ParseOptions_EndOfInput,
       ParseOptions_DashDash, ParseOptions_EqualSign, ParseOptions_ShortOption,
       ParseOptions_LongOption, Handling, EnterOption, EnterFinal, Errors,
       MachineStates
  <2> QED
    BY <2>1, <2>2 DEF Proceed, Reissue, Undefined, ReportError
<1>2. ASSUME \/ ParseShortOption_Value   \/ ParseShortOption_Other
             \/ ParseLongOption_EqualSign
             \/ ParseLongOption_Value    \/ ParseLongOption_Other
      PROVE  FALSE
  <2>1. status = "running"
    BY <1>2 DEF ParseShortOption_Value, ParseShortOption_Other,
       ParseLongOption_EqualSign, ParseLongOption_Value,
       ParseLongOption_Other, Handling
  <2>2. \/ token.type # "EndOfInput" /\ \E s : Proceed(s)
        \/ \E s : Reissue(s)
        \/ \E e \in Errors : ReportError(e)
    BY <1>2 DEF ParseShortOption_Value, ParseShortOption_Other,
       ParseLongOption_EqualSign, ParseLongOption_Value,
       ParseLongOption_Other, Handling, LeaveOption, TakeValue, Errors
  <2> QED
    BY <2>1, <2>2 DEF Proceed, Reissue, ReportError
<1>3. ASSUME DashDash_Any
      PROVE  machine' = "DashDashState"
  BY <1>3 DEF DashDash_Any, Proceed, Abort
<1>4. ASSUME \/ Final_RestDeclared  \/ Final_Positional
             \/ Final_Leftover
             \/ Final_CheckOptions  \/ Final_CheckPositionals
      PROVE  FALSE
  BY <1>4 DEF Final_RestDeclared, Final_Positional, Final_Leftover,
     Final_CheckOptions, Final_CheckPositionals, CheckRequiredOptions,
     Finishing, Handling, Undefined, ReportError, loopVars
<1>5. ~InitialState_Value /\ ~InitialState_Other
        /\ ~IdentifyCommand_Value /\ ~IdentifyCommand_Other
  BY DEF InitialState_Value, InitialState_Other, IdentifyCommand_Value,
     IdentifyCommand_Other, Handling, CommandKnown
<1> QED
  BY <1>1, <1>2, <1>3, <1>4, <1>5 DEF Step

\* A debug build aborts in two situations only: after "--", or when every
\* argument was taken for a segment of a path, none of them names a command,
\* and the default command is used instead. No other contract can fail,
\* whatever the command line and the list of commands.
THEOREM AbortsAreKnown == Spec => []OnlyKnownAborts
<1>1. Init => OnlyKnownAborts
  BY DEF Init, OnlyKnownAborts
<1>2. IInv /\ CInv /\ OnlyKnownAborts /\ [Next]_vars => OnlyKnownAborts'
  <2> SUFFICES ASSUME IInv, CInv, OnlyKnownAborts, [Next]_vars
               PROVE  OnlyKnownAborts'
    OBVIOUS
  <2>1. CASE UNCHANGED vars
    BY <2>1, SameQuestion
    DEF vars, fixedVars, loopVars, OnlyKnownAborts
  <2>2. CASE Step /\ machine \in CommandKnown
    BY <2>2, KnownAborts DEF OnlyKnownAborts
  <2>3. CASE Step /\ machine \notin CommandKnown
    <3>1. \/ InitialState_Value \/ InitialState_Other
          \/ IdentifyCommand_Value \/ IdentifyCommand_Other
      BY <2>3, OnlyTheFirstStates
    <3> QED
      BY <3>1, StartAborts, IdentifyAborts DEF OnlyKnownAborts
  <2> QED
    BY <2>1, <2>2, <2>3 DEF Next, Stopped
<1> QED
  BY <1>1, <1>2, InvariantHolds, CommandInvariant, PTL DEF Spec

=============================================================================

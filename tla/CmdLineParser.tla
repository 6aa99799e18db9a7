--------------------------- MODULE CmdLineParser ---------------------------
(***************************************************************************)
(* The state machine that turns a stream of typed tokens into an active    *)
(* command and a map of option values (clap/src/parser: parser.cpp,        *)
(* states.h, context.h).                                                   *)
(*                                                                         *)
(* One step is one turn of the do/while loop of CmdLineParser::Parse(): it *)
(* hands the current token to the state the machine is in, runs the        *)
(* transition (OnLeave of the old state, OnEnter of the new one), and      *)
(* either offers the same token again, takes the next token, or stops.     *)
(* The loops in FinalState::OnEnter are the exception: each turn of those  *)
(* loops is a step of its own, named Final_..., taken while no            *)
(* other step is possible.                                                 *)
(*                                                                         *)
(* Option semantics are kept as far as the machine looks at them: which    *)
(* texts Parse() accepts, whether there is an implicit or a default value, *)
(* and the flags repeatable and required.                                  *)
(***************************************************************************)
EXTENDS Naturals, Sequences, FiniteSets, FiniteSetsExt

CONSTANTS
  Texts,             \* texts of tokens, names of options, path segments, not ""
  Keys,              \* keys under which option values are stored
  CLIs,              \* command lists: the commands a Cli was built with
  Inputs,            \* token streams, without their EndOfInput
  ContractsEnforced  \* TRUE in debug builds: ASAP_EXPECT, ASAP_ASSERT abort

-----------------------------------------------------------------------------
(* Data *)

TokenTypes == {"ShortOption", "LongOption", "LoneDash", "DashDash", "Value",
               "EqualSign", "EndOfInput"}

Tokens == [type : TokenTypes, text : Texts \cup {""}]

EndOfInput == [type |-> "EndOfInput", text |-> ""]

\* An option, named or positional, with what its ValueSemantics answers:
\* `accepts` is the set of texts that Parse() converts with success. Every
\* option has value semantics, from WithValue(): those without, on which
\* ASAP_ASSERT(semantics) fails, are left out.
Options == [key : Keys, short : Texts \cup {""}, long : Texts \cup {""},
            accepts : SUBSET Texts, implicit : BOOLEAN, default : BOOLEAN,
            repeatable : BOOLEAN, required : BOOLEAN]

CommandRecords == [path : Seq(Texts \cup {""}), options : Seq(Options),
                   positionals : Seq(Options)]

\* A stored value: where it comes from, the token it was parsed from (empty
\* when there is none), and the `defaulted` flag of OptionValue.
OptionValues == [from : {"token", "implicit", "default"},
                 text : Texts \cup {""}, defaulted : BOOLEAN]

key_rest == "_REST_"

IsDefault(command) == command.path = <<"">>

ASSUME TextsAssumption == "" \notin Texts

ASSUME CLIsAssumption == CLIs \subseteq Seq(CommandRecords)

ASSUME InputsAssumption ==
  \A input \in Inputs : input \in Seq({t \in Tokens : t.type # "EndOfInput"})

\* The code that defines a CLI gives the options of a command different keys.
ASSUME KeysAssumption ==
  \A cli \in CLIs : \A c \in DOMAIN cli :
    /\ \A i, j \in DOMAIN cli[c].options :
         cli[c].options[i].key = cli[c].options[j].key => i = j
    /\ \A i \in DOMAIN cli[c].options : \A j \in DOMAIN cli[c].positionals :
         cli[c].options[i].key # cli[c].positionals[j].key

\* A command has at least one path segment, and only the default command may
\* have an empty one, its only one: the constructor of Command throws.
ASSUME PathsAssumption ==
  \A cli \in CLIs : \A c \in DOMAIN cli :
    /\ cli[c].path # <<>>
    /\ (\E i \in DOMAIN cli[c].path : cli[c].path[i] = "") => IsDefault(cli[c])

\* Positional arguments have no names, the contract of FinalState::OnEnter that
\* Option::IsPositional() checks.
ASSUME PositionalsAssumption ==
  \A cli \in CLIs : \A c \in DOMAIN cli : \A i \in DOMAIN cli[c].positionals :
    cli[c].positionals[i].short = "" /\ cli[c].positionals[i].long = ""

ASSUME ContractsAssumption == ContractsEnforced \in BOOLEAN

MachineStates == {"InitialState", "IdentifyCommandState", "ParseOptionsState",
                  "ParseShortOptionState", "ParseLongOptionState",
                  "DashDashState", "FinalState"}

OptionStates == {"ParseShortOptionState", "ParseLongOptionState"}

\* "accepted" and "rejected" are Parse() returning true and false; "aborted"
\* is a contract that failed in a debug build; "undefined" is undefined
\* behaviour, after which nothing can be said and the model stops.
Statuses == {"running", "accepted", "rejected", "aborted", "undefined"}

Errors == {"UnrecognizedCommand", "MissingCommand", "UnrecognizedOption",
           "IllegalMultipleOccurrence", "OptionSyntaxError",
           "MissingValueForOption", "MissingRequiredOption",
           "UnexpectedPositionalArguments"}

-----------------------------------------------------------------------------
(* State *)

VARIABLES
  commands,              \* ParserContext::commands, fixed for a parse
  args,                  \* the whole token stream; never changes
  input, token,          \* what the tokenizer still holds; the current token
  machine,               \* the state the machine is in
  status, error,         \* outcome of the loop and the error it reported
  active_command,        \* index in commands, 0 for the null pointer
  active_option,         \* index in the active command's options, 0 for null
  positional_tokens,
  ovm,                   \* OptionValuesMap; an absent key has no values
  path_segments, filtered_commands, last_matched_command, default_command,
                         \* members of IdentifyCommandState
  value_,                \* has_value() of the value_ of each option state
  after_equal_sign,      \* member of ParseLongOptionState
  next_positional,       \* the iterator of FinalState::OnEnter's first loop
  rest_option,           \* its rest_option; before_rest is rest_option = 0
  options_checked        \* the first CheckRequiredOptions call is done

loopVars     == <<machine, input, token, status, error>>
identifyVars == <<path_segments, filtered_commands, last_matched_command,
                  default_command>>
optionVars   == <<value_, after_equal_sign>>
finalVars    == <<next_positional, rest_option, options_checked>>
fixedVars    == <<commands, args>>
contextVars  == <<active_command, active_option, positional_tokens, ovm>>
vars == <<fixedVars, loopVars, contextVars, identifyVars, optionVars,
          finalVars>>

\* The least and the greatest index of a set, 0 when there is none.
FirstIndex(S) == IF S = {} THEN 0 ELSE Min(S)
LastIndex(S)  == IF S = {} THEN 0 ELSE Max(S)

Path(c)            == commands[c].path
CommandOptions     == commands[active_command].options
Positionals        == commands[active_command].positionals
ActiveOption       == CommandOptions[active_option]

DefaultCommands(cli) == {c \in DOMAIN cli : IsDefault(cli[c])}

Init ==
  /\ commands \in CLIs
  /\ args \in Inputs
  /\ token = (IF args = <<>> THEN EndOfInput ELSE Head(args))
  /\ input = (IF args = <<>> THEN <<>> ELSE Tail(args))
  /\ machine = "InitialState"
  /\ status = "running"
  /\ error = "none"
  /\ active_command = FirstIndex(DefaultCommands(commands))
  /\ active_option = 0
  /\ positional_tokens = <<>>
  /\ ovm = [k \in Keys |-> <<>>]
  /\ path_segments = <<>>
  /\ filtered_commands = {}
  /\ last_matched_command = 0
  /\ default_command = 0
  /\ value_ = [s \in OptionStates |-> FALSE]
  /\ after_equal_sign = FALSE
  /\ next_positional = 1
  /\ rest_option = 0
  /\ options_checked = FALSE

-----------------------------------------------------------------------------
(* The loop: what happens to the token once the machine has answered *)

Handling(state, types) ==
  /\ status = "running"
  /\ machine = state
  /\ token.type \in types

NotValue == TokenTypes \ {"Value"}

\* Mutation: read the front of the queue without popping it.
PeekToken ==
  /\ token' = IF input = <<>> THEN EndOfInput ELSE Head(input)
  /\ input' = input

NextToken ==
  /\ token' = IF input = <<>> THEN EndOfInput ELSE Head(input)
  /\ input' = IF input = <<>> THEN <<>> ELSE Tail(input)

\* A contract is violated in state s: a debug build stops here.
Abort(s) ==
  /\ status' = "aborted"
  /\ machine' = s
  /\ UNCHANGED <<input, token, error>>

\* The machine answers Continue, in state s. There must be a next token.
Proceed(s) ==
  IF ContractsEnforced /\ token.type = "EndOfInput"
    THEN Abort(s)
    ELSE machine' = s /\ NextToken /\ UNCHANGED <<status, error>>

\* The machine answers ReissueEvent: s gets the same token next.
Reissue(s) == machine' = s /\ UNCHANGED <<input, token, status, error>>

\* Mutation: forget that there was an error, and go on to return true.
ReportErrorAndAccept(e) ==
  /\ status' = "accepted"
  /\ error' = e
  /\ UNCHANGED <<machine, input, token>>

\* The machine answers TerminateWithError. The machine is a local variable of
\* Parse(), which returns: what the state did to its own members before it
\* answered is gone with it, and left out.
ReportError(e) ==
  /\ status' = "rejected"
  /\ error' = e
  /\ UNCHANGED <<machine, input, token>>

\* The program does something the language does not define.
Undefined ==
  /\ status' = "undefined"
  /\ UNCHANGED <<machine, input, token, error>>

\* Mutation: refuse the token types that begin an option as well.
EnterParseOptionsWithValuesOnly ==
  IF ContractsEnforced /\ token.type # "Value"
    THEN Abort("ParseOptionsState")
    ELSE Reissue("ParseOptionsState")

\* ParseOptionsState::OnEnter with the context as data.
EnterParseOptions ==
  IF ContractsEnforced /\ token.type = "EndOfInput"
    THEN Abort("ParseOptionsState")
    ELSE Reissue("ParseOptionsState")

\* FinalState::OnEnter begins; the steps named Final_... are its body.
EnterFinal == Reissue("FinalState")

-----------------------------------------------------------------------------
(* InitialState *)

MaybeCommand(text) ==
  \E c \in DOMAIN commands : Path(c) # <<>> /\ Path(c)[1] = text

\* IdentifyCommandState::OnEnter with the first segment of a path.
EnterIdentifyCommand ==
  /\ path_segments' = Append(path_segments, token.text)
  /\ filtered_commands' = {c \in DOMAIN commands :
                             Path(c) # <<>> /\ Path(c)[1] = token.text}
  /\ last_matched_command' =
       LastIndex({c \in DOMAIN commands : Path(c) = <<token.text>>})
  /\ default_command' = LastIndex(DefaultCommands(commands))
  /\ Proceed("IdentifyCommandState")

InitialState_Value ==
  /\ Handling("InitialState", {"Value"})
  /\ \/ /\ MaybeCommand(token.text)
        /\ EnterIdentifyCommand
     \/ /\ ~MaybeCommand(token.text)
        /\ IF active_command # 0 THEN EnterParseOptions
                                 ELSE ReportError("UnrecognizedCommand")
        /\ UNCHANGED identifyVars
  /\ UNCHANGED <<fixedVars, contextVars, optionVars, finalVars>>

InitialState_Other ==
  /\ Handling("InitialState", NotValue)
  /\ CASE active_command = 0           -> ReportError("MissingCommand")
       [] active_command # 0 /\ token.type = "EndOfInput" -> EnterFinal
       [] active_command # 0 /\ token.type = "DashDash" ->
            Proceed("DashDashState")
       [] OTHER                        -> EnterParseOptions
  /\ UNCHANGED <<fixedVars, contextVars, identifyVars, optionVars, finalVars>>

-----------------------------------------------------------------------------
(* IdentifyCommandState *)

\* IdentifyCommandState::OnLeave
LeaveIdentifyCommand ==
  /\ path_segments' = <<>>
  /\ filtered_commands' = {}
  /\ last_matched_command' = 0
  /\ default_command' = 0

\* Mutation: the segments collected so far are not copied.
FallBackWithoutSegments ==
  /\ active_command' = default_command
  /\ UNCHANGED positional_tokens
  /\ EnterParseOptions
  /\ LeaveIdentifyCommand

\* Mutation: the current token is copied too, though it is reissued.
FallBackWithCurrentToken ==
  /\ active_command' = default_command
  /\ positional_tokens' = positional_tokens \o path_segments
                             \o <<token.text>>
  /\ EnterParseOptions
  /\ LeaveIdentifyCommand

\* No command matched: fall back on the default command, and the segments
\* collected so far become positional tokens.
FallBackToDefault ==
  /\ active_command' = default_command
  /\ positional_tokens' = positional_tokens \o path_segments
  /\ EnterParseOptions
  /\ LeaveIdentifyCommand

\* Mutation: look at the length of the path but not at the segment.
StillLongEnough(candidates, text, n) ==
  {c \in candidates : Len(Path(c)) >= n}

\* The commands of `candidates` whose path goes on with `text` at segment n.
StillMatching(candidates, text, n) ==
  {c \in candidates : Len(Path(c)) >= n /\ Path(c)[n] = text}

IdentifyCommand_Value ==
  /\ Handling("IdentifyCommandState", {"Value"})
  /\ LET n       == Len(path_segments) + 1
         kept    == StillMatching(filtered_commands, token.text, n)
         matched == {c \in kept : Len(Path(c)) = n}
     IN  \/ /\ kept # {}
            /\ path_segments' = Append(path_segments, token.text)
            /\ filtered_commands' = kept
            /\ last_matched_command' = IF matched = {} THEN last_matched_command
                                                       ELSE Max(matched)
            /\ Proceed("IdentifyCommandState")
            /\ UNCHANGED <<default_command, active_command, positional_tokens>>
         \/ /\ kept = {} /\ last_matched_command # 0
            /\ active_command' = last_matched_command
            /\ EnterParseOptions
            /\ LeaveIdentifyCommand
            /\ UNCHANGED positional_tokens
         \/ /\ kept = {} /\ last_matched_command = 0 /\ default_command # 0
            /\ FallBackToDefault
         \/ /\ kept = {} /\ last_matched_command = 0 /\ default_command = 0
            /\ ReportError("UnrecognizedCommand")
            /\ UNCHANGED <<identifyVars, active_command, positional_tokens>>
  /\ UNCHANGED <<fixedVars, active_option, ovm, optionVars, finalVars>>

IdentifyCommand_Other ==
  /\ Handling("IdentifyCommandState", NotValue)
  /\ \/ /\ last_matched_command # 0
        /\ active_command' = last_matched_command
        /\ CASE token.type = "DashDash"   -> Proceed("DashDashState")
             [] token.type = "EndOfInput" -> EnterFinal
             [] OTHER                     -> EnterParseOptions
        /\ LeaveIdentifyCommand
        /\ UNCHANGED positional_tokens
     \/ /\ last_matched_command = 0 /\ default_command # 0
        /\ FallBackToDefault
     \/ /\ last_matched_command = 0 /\ default_command = 0
        /\ ReportError("UnrecognizedCommand")
        /\ UNCHANGED <<identifyVars, active_command, positional_tokens>>
  /\ UNCHANGED <<fixedVars, active_option, ovm, optionVars, finalVars>>

-----------------------------------------------------------------------------
(* Storing values *)

TokenValue(text)      == [from |-> "token", text |-> text, defaulted |-> FALSE]
PositionalValue(text) == [from |-> "token", text |-> text, defaulted |-> TRUE]
ImplicitValue == [from |-> "implicit", text |-> "", defaulted |-> FALSE]
DefaultValue  == [from |-> "default", text |-> "", defaulted |-> FALSE]

\* Mutation: the new value replaces those stored before.
ReplaceValue(key, value) == ovm' = [ovm EXCEPT ![key] = <<value>>]

\* OptionValuesMap::StoreValue
StoreValue(key, value) == ovm' = [ovm EXCEPT ![key] = Append(@, value)]

-----------------------------------------------------------------------------
(* ParseOptionsState *)

ParseOptions_Value ==
  /\ Handling("ParseOptionsState", {"Value"})
  /\ positional_tokens' = Append(positional_tokens, token.text)
  /\ Proceed("ParseOptionsState")
  /\ UNCHANGED <<fixedVars, active_command, active_option, ovm, identifyVars,
                 optionVars, finalVars>>

ParseOptions_EndOfInput ==
  /\ Handling("ParseOptionsState", {"EndOfInput"})
  /\ EnterFinal
  /\ UNCHANGED <<fixedVars, contextVars, identifyVars, optionVars, finalVars>>

ParseOptions_DashDash ==
  /\ Handling("ParseOptionsState", {"DashDash"})
  /\ Proceed("DashDashState")
  /\ UNCHANGED <<fixedVars, contextVars, identifyVars, optionVars, finalVars>>

\* OptionSyntaxError reads the key of the active option, null or not.
ParseOptions_EqualSign ==
  /\ Handling("ParseOptionsState", {"EqualSign"})
  /\ IF active_option = 0 THEN Undefined ELSE ReportError("OptionSyntaxError")
  /\ UNCHANGED <<fixedVars, contextVars, identifyVars, optionVars, finalVars>>

FindShortOption(name) ==
  FirstIndex({i \in DOMAIN CommandOptions : CommandOptions[i].short = name})

FindLongOption(name) ==
  FirstIndex({i \in DOMAIN CommandOptions : CommandOptions[i].long = name})

\* Mutation: accept every occurrence.
AllowMultipleOccurrence(option) == TRUE

CheckMultipleOccurrence(option) ==
  ovm[option.key] = <<>> \/ option.repeatable

\* Mutation: the option found is not made the active one.
EnterOptionNotActive(s, found) ==
  /\ UNCHANGED active_option
  /\ IF found # 0 THEN Proceed(s) ELSE ReportError("UnrecognizedOption")

\* OnEnter of the option state s, with the option found (0 for none).
EnterOption(s, found) ==
  \/ /\ found = 0
     /\ ReportError("UnrecognizedOption")
     /\ UNCHANGED active_option
  \/ /\ found # 0
     /\ active_option' = found
     /\ IF CheckMultipleOccurrence(CommandOptions[found])
          THEN Proceed(s)
          ELSE ReportError("IllegalMultipleOccurrence")

ParseOptions_ShortOption ==
  /\ Handling("ParseOptionsState", {"ShortOption", "LoneDash"})
  /\ EnterOption("ParseShortOptionState", FindShortOption(token.text))
  /\ UNCHANGED <<fixedVars, active_command, positional_tokens, ovm,
                 identifyVars, optionVars, finalVars>>

ParseOptions_LongOption ==
  /\ Handling("ParseOptionsState", {"LongOption"})
  /\ EnterOption("ParseLongOptionState", FindLongOption(token.text))
  /\ UNCHANGED <<fixedVars, active_command, positional_tokens, ovm,
                 identifyVars, optionVars, finalVars>>

-----------------------------------------------------------------------------
(* ParseShortOptionState and ParseLongOptionState *)

\* Mutation: value_ is not reset, and the next occurrence seems to have one.
ResetEqualSignOnly == after_equal_sign' = FALSE /\ UNCHANGED value_

\* Reset() of both option states; the short one has no after_equal_sign.
ResetOption ==
  /\ value_' = [value_ EXCEPT ![machine] = FALSE]
  /\ after_equal_sign' = (machine = "ParseShortOptionState" /\ after_equal_sign)

\* OnLeave of both option states, then back to ParseOptionsState. (A value is
\* required, says ValueSemantics, when there is no implicit one.)
LeaveOption ==
  \/ /\ value_[machine]
     /\ ResetOption /\ Reissue("ParseOptionsState")
     /\ UNCHANGED ovm
  \/ /\ ~value_[machine] /\ ActiveOption.implicit
     /\ StoreValue(ActiveOption.key, ImplicitValue)
     /\ ResetOption /\ Reissue("ParseOptionsState")
  \/ /\ ~value_[machine] /\ ~ActiveOption.implicit
     /\ ReportError("MissingValueForOption")
     /\ UNCHANGED <<ovm, optionVars>>

\* Both states: take the value, or leave with the implicit value if
\* `may_imply`, in which case the token is reissued as something else.
TakeValue(may_imply) ==
  \/ /\ token.text \in ActiveOption.accepts
     /\ StoreValue(ActiveOption.key, TokenValue(token.text))
     /\ value_' = [value_ EXCEPT ![machine] = TRUE]
     /\ Proceed(machine)
     /\ UNCHANGED after_equal_sign
  \/ /\ token.text \notin ActiveOption.accepts
     /\ may_imply /\ ActiveOption.implicit
     /\ StoreValue(ActiveOption.key, ImplicitValue)
     /\ ResetOption /\ Reissue("ParseOptionsState")
  \/ /\ token.text \notin ActiveOption.accepts
     /\ ~(may_imply /\ ActiveOption.implicit)
     /\ ReportError("MissingValueForOption")
     /\ UNCHANGED <<ovm, optionVars>>

ParseShortOption_Value ==
  /\ Handling("ParseShortOptionState", {"Value"})
  /\ IF value_[machine] THEN LeaveOption ELSE TakeValue(TRUE)
  /\ UNCHANGED <<fixedVars, active_command, active_option, positional_tokens,
                 identifyVars, finalVars>>

ParseShortOption_Other ==
  /\ Handling("ParseShortOptionState", NotValue)
  /\ LeaveOption
  /\ UNCHANGED <<fixedVars, active_command, active_option, positional_tokens,
                 identifyVars, finalVars>>

ParseLongOption_EqualSign ==
  /\ Handling("ParseLongOptionState", {"EqualSign"})
  /\ after_equal_sign' = TRUE
  /\ Proceed("ParseLongOptionState")
  /\ UNCHANGED <<fixedVars, contextVars, identifyVars, value_, finalVars>>

\* A value may follow the option name with no '=', because the flag
\* allow_long_option_value_with_no_equal is true and nothing clears it.
ParseLongOption_Value ==
  /\ Handling("ParseLongOptionState", {"Value"})
  /\ IF value_[machine] THEN LeaveOption ELSE TakeValue(~after_equal_sign)
  /\ UNCHANGED <<fixedVars, active_command, active_option, positional_tokens,
                 identifyVars, finalVars>>

ParseLongOption_Other ==
  /\ Handling("ParseLongOptionState", NotValue \ {"EqualSign"})
  /\ LeaveOption
  /\ UNCHANGED <<fixedVars, active_command, active_option, positional_tokens,
                 identifyVars, finalVars>>

-----------------------------------------------------------------------------
(* DashDashState *)

DashDash_Any ==
  /\ Handling("DashDashState", TokenTypes)
  /\ Proceed("DashDashState")
  /\ UNCHANGED <<fixedVars, contextVars, identifyVars, optionVars, finalVars>>

-----------------------------------------------------------------------------
(* FinalState *)

\* Of a positional argument, which has no names (PositionalsAssumption).
IsPositionalRest(option) == option.key = key_rest

\* StorePositional: a token that fails to parse is dropped.
StorePositional(option, text) ==
  IF text \in option.accepts
    THEN StoreValue(option.key, PositionalValue(text))
    ELSE UNCHANGED ovm

Finishing == Handling("FinalState", TokenTypes)

InPositionals == next_positional <= Len(Positionals)

Final_RestDeclared ==
  /\ Finishing /\ InPositionals
  /\ IsPositionalRest(Positionals[next_positional])
  /\ rest_option' = next_positional
  /\ next_positional' = next_positional + 1
  /\ UNCHANGED <<fixedVars, loopVars, contextVars, identifyVars, optionVars,
                 options_checked>>

\* Mutation: always pick from the back.
PickedLast == Len(positional_tokens)

\* Where the next positional token is taken from: the front, or the back once
\* the argument that takes the rest has been declared.
PickedPosition == IF rest_option = 0 THEN 1 ELSE Len(positional_tokens)

\* front() and back() of an empty vector are undefined.
Final_Positional ==
  /\ Finishing /\ InPositionals
  /\ ~IsPositionalRest(Positionals[next_positional])
  /\ \/ /\ positional_tokens = <<>>
        /\ Undefined
        /\ UNCHANGED <<ovm, positional_tokens, next_positional>>
     \/ /\ positional_tokens # <<>>
        /\ StorePositional(Positionals[next_positional],
                           positional_tokens[PickedPosition])
        /\ positional_tokens' =
             IF rest_option = 0
               THEN Tail(positional_tokens)
               ELSE SubSeq(positional_tokens, 1, Len(positional_tokens) - 1)
        /\ next_positional' = next_positional + 1
        /\ UNCHANGED loopVars
  /\ UNCHANGED <<fixedVars, active_command, active_option, identifyVars,
                 optionVars, rest_option, options_checked>>

Final_Leftover ==
  /\ Finishing /\ ~InPositionals
  /\ positional_tokens # <<>>
  /\ \/ /\ rest_option # 0
        /\ StorePositional(Positionals[rest_option], Head(positional_tokens))
        /\ positional_tokens' = Tail(positional_tokens)
        /\ UNCHANGED loopVars
     \/ /\ rest_option = 0
        /\ ReportError("UnexpectedPositionalArguments")
        /\ UNCHANGED <<ovm, positional_tokens>>
  /\ UNCHANGED <<fixedVars, active_command, active_option, identifyVars,
                 optionVars, finalVars>>

\* Options of opts with a default value that have no value when the loop of
\* CheckRequiredOptions reaches position n, and those that end the loop.
Defaulted(opts, n) == {i \in DOMAIN opts : i < n /\ opts[i].default
                                          /\ ovm[opts[i].key] = <<>>}

\* Mutation: only look at the first option.
MissingFirst(opts) ==
  {i \in {1} \cap DOMAIN opts : /\ opts[i].required /\ ~opts[i].default
                                /\ ovm[opts[i].key] = <<>>}

Missing(opts) ==
  {i \in DOMAIN opts :
     /\ opts[i].required /\ ~opts[i].default
     /\ ovm[opts[i].key] = <<>>
     /\ \A j \in Defaulted(opts, i) : opts[j].key # opts[i].key}

\* CheckRequiredOptions, up to the first missing option if there is one.
ApplyDefaults(opts) ==
  LET stop == IF Missing(opts) = {} THEN Len(opts) + 1 ELSE Min(Missing(opts))
      keys == {opts[i].key : i \in Defaulted(opts, stop)}
  IN  ovm' = [k \in Keys |-> IF k \in keys THEN <<DefaultValue>> ELSE ovm[k]]

CheckRequiredOptions(opts) ==
  /\ Finishing /\ ~InPositionals /\ positional_tokens = <<>>
  /\ ApplyDefaults(opts)
  /\ UNCHANGED <<fixedVars, active_command, active_option, positional_tokens,
                 identifyVars, optionVars, next_positional, rest_option>>

Final_CheckOptions ==
  /\ ~options_checked
  /\ CheckRequiredOptions(CommandOptions)
  /\ IF Missing(CommandOptions) # {}
       THEN ReportError("MissingRequiredOption") /\ UNCHANGED options_checked
       ELSE options_checked' = TRUE /\ UNCHANGED loopVars

Final_CheckPositionals ==
  /\ options_checked
  /\ CheckRequiredOptions(Positionals)
  /\ IF Missing(Positionals) # {}
       THEN ReportError("MissingRequiredOption")
       ELSE status' = "accepted" /\ UNCHANGED <<machine, input, token, error>>
  /\ UNCHANGED options_checked

-----------------------------------------------------------------------------
(* The parser *)

Step ==
  \/ InitialState_Value       \/ InitialState_Other
  \/ IdentifyCommand_Value    \/ IdentifyCommand_Other
  \/ ParseOptions_Value       \/ ParseOptions_EndOfInput
  \/ ParseOptions_DashDash    \/ ParseOptions_EqualSign
  \/ ParseOptions_ShortOption \/ ParseOptions_LongOption
  \/ ParseShortOption_Value   \/ ParseShortOption_Other
  \/ ParseLongOption_EqualSign
  \/ ParseLongOption_Value    \/ ParseLongOption_Other
  \/ DashDash_Any
  \/ Final_RestDeclared       \/ Final_Positional
  \/ Final_Leftover
  \/ Final_CheckOptions       \/ Final_CheckPositionals

\* Parse() has returned, or the program has died.
Stopped == status # "running" /\ UNCHANGED vars

Next == Step \/ Stopped

\* Parse() is sequential code that keeps executing: weak fairness of its steps.
Spec == Init /\ [][Next]_vars /\ WF_vars(Step)

-----------------------------------------------------------------------------
(* Properties *)

LoopTypeOK ==
  /\ args \in Seq(Tokens)
  /\ input \in Seq(Tokens)
  /\ token \in Tokens
  /\ machine \in MachineStates
  /\ status \in Statuses
  /\ error \in Errors \cup {"none"}
  /\ status = "rejected" <=> error # "none"

ContextTypeOK ==
  /\ commands \in CLIs
  /\ active_command \in {0} \cup DOMAIN commands
  /\ active_option \in Nat
  /\ active_option # 0 => /\ active_command # 0
                          /\ active_option \in DOMAIN CommandOptions
  /\ positional_tokens \in Seq(Texts \cup {""})
  /\ ovm \in [Keys -> Seq(OptionValues)]

IdentifyTypeOK ==
  /\ path_segments \in Seq(Texts \cup {""})
  /\ filtered_commands \subseteq DOMAIN commands
  /\ last_matched_command \in {0} \cup DOMAIN commands
  /\ default_command \in {0} \cup DOMAIN commands

OptionTypeOK ==
  /\ value_ \in [OptionStates -> BOOLEAN]
  /\ after_equal_sign \in BOOLEAN

FinalTypeOK ==
  /\ next_positional \in Nat \ {0}
  /\ rest_option \in Nat
  /\ rest_option # 0 => /\ active_command # 0
                        /\ rest_option \in DOMAIN Positionals
  /\ options_checked \in BOOLEAN

\* Type invariant: what the members of the parser, of its context and of its
\* states may hold; an error is set exactly when Parse() returns false.
TypeOK == LoopTypeOK /\ ContextTypeOK /\ IdentifyTypeOK /\ OptionTypeOK
            /\ FinalTypeOK

CommandKnown == MachineStates \ {"InitialState", "IdentifyCommandState"}

\* The contracts written in the states (states.h) hold wherever they are
\* evaluated, whatever the command line: a command is active when options are
\* parsed, an option when its value is, the segments collected so far keep at
\* least one candidate command, and nothing is positional yet when they may
\* have to become positional tokens.
AssertionsHold ==
  /\ machine \in CommandKnown => active_command # 0
  /\ machine \in OptionStates => active_option # 0
  /\ machine = "IdentifyCommandState" => /\ path_segments # <<>>
                                         /\ filtered_commands # {}
                                         /\ positional_tokens = <<>>

\* The tokens the machine is done with: all those before the current one.
HandledCount ==
  Len(args) - Len(input) - (IF token.type = "EndOfInput" THEN 0 ELSE 1)

IsValue(i, text) == args[i].type = "Value" /\ args[i].text = text

PathMatches(c) ==
  /\ ~IsDefault(commands[c])
  /\ Len(Path(c)) <= Len(args)
  /\ \A i \in DOMAIN Path(c) : IsValue(i, Path(c)[i])

\* The commands whose whole path begins the command line, and those of them
\* with the longest path.
MatchingCommands == {c \in DOMAIN commands : PathMatches(c)}
DeepestCommands ==
  {c \in MatchingCommands :
     \A d \in MatchingCommands : Len(Path(d)) <= Len(Path(c))}

\* Matching segment by segment finds the command with the longest path that
\* begins the command line ("the deepest match", states.h:173-177), or the
\* default command when there is none; and it fails only when there is
\* neither.
CommandResolution ==
  /\ machine \in CommandKnown
       => active_command \in IF MatchingCommands = {} THEN DefaultCommands(commands)
                                                     ELSE DeepestCommands
  /\ error \in {"UnrecognizedCommand", "MissingCommand"}
       => MatchingCommands = {} /\ DefaultCommands(commands) = {}

\* The token at position i names option o of the active command.
NamesOption(i, o) ==
  \/ /\ args[i].type \in {"ShortOption", "LoneDash"}
     /\ FindShortOption(args[i].text) = o
  \/ /\ args[i].type = "LongOption"
     /\ FindLongOption(args[i].text) = o

Occurrences(o) == Cardinality({i \in 1..HandledCount : NamesOption(i, o)})

\* 1 while an occurrence of option o waits for its value, else 0.
Pending(o) ==
  IF machine \in OptionStates /\ active_option = o /\ ~value_[machine] THEN 1
                                                                       ELSE 0

\* Every occurrence of an option on the command line gives exactly one value,
\* explicit or implicit, however the option, the '=' and the tokens after it
\* follow each other; an option that does not occur has no value before the
\* defaults are applied.
OneValuePerOccurrence ==
  active_command # 0 /\ machine # "DashDashState" =>
    \A o \in DOMAIN CommandOptions :
      LET values == ovm[CommandOptions[o].key]
      IN  \/ Len(values) + Pending(o) = Occurrences(o)
          \/ Occurrences(o) = 0 /\ values = <<DefaultValue>>
                                /\ machine = "FinalState"

\* An option that is not repeatable never has two values, whatever mixture of
\* names, implicit values and explicit values the command line uses.
SingleOccurrence ==
  active_command # 0 =>
    \A o \in DOMAIN CommandOptions :
      CommandOptions[o].repeatable \/ Len(ovm[CommandOptions[o].key]) <= 1

\* How often a text was given as a value so far, and how often it is kept: as
\* a segment of the path, as a positional token, or as a stored value.
Given(text) == Cardinality({i \in 1..HandledCount : IsValue(i, text)})

Count(seq, text) == Cardinality({i \in DOMAIN seq : seq[i] = text})

\* The places in the map, a key and a position, with a value parsed from text.
StoredAt(text) ==
  UNION {{k} \X {i \in DOMAIN ovm[k] : /\ ovm[k][i].from = "token"
                                       /\ ovm[k][i].text = text} : k \in Keys}

Stored(text) == Cardinality(StoredAt(text))

Kept(text) ==
  Count(path_segments, text) + Count(positional_tokens, text) + Stored(text)
    + IF active_command = 0 THEN 0 ELSE Count(Path(active_command), text)

\* No value is used twice: not as a segment and again as a positional, not as
\* the value of an option and again as a positional.
NoValueUsedTwice == \A text \in Texts : Kept(text) <= Given(text)

\* Value tokens that "do not correspond to a command path segment or an option
\* value argument" are collected as positional tokens (context.h:97-99): none
\* is lost before the end, and in the end only those a positional argument
\* cannot parse. What follows "--" is never looked at and is left out.
NoValueLost ==
  machine # "DashDashState" =>
    \A text \in Texts :
      \/ Kept(text) = Given(text)
      \/ /\ machine = "FinalState"
         /\ \E p \in DOMAIN Positionals : text \notin Positionals[p].accepts

\* A command line is accepted only when every option and positional argument
\* of the command that is required or has a default has a value, and no
\* positional token is left over.
AcceptedIsComplete ==
  status = "accepted" =>
    /\ positional_tokens = <<>>
    /\ \A list \in {CommandOptions, Positionals} : \A i \in DOMAIN list :
         list[i].required \/ list[i].default => ovm[list[i].key] # <<>>

\* Positional arguments get their values "in the order they were encountered"
\* (context.h:101): of two values, the one stored for the earlier argument, or
\* stored first for the same argument, comes first on the command line.
PositionalsInOrder ==
  status = "accepted" =>
    \A p, q \in DOMAIN Positionals :
      LET first  == ovm[Positionals[p].key]
          second == ovm[Positionals[q].key]
      IN  \A m \in DOMAIN first : \A n \in DOMAIN second :
            /\ p < q \/ (p = q /\ m < n)
            /\ first[m].from = "token" /\ second[n].from = "token"
            => \E i, j \in DOMAIN args : /\ i < j
                                         /\ IsValue(i, first[m].text)
                                         /\ IsValue(j, second[n].text)

\* "ASAP_ASSERT(token.first != TokenType::EndOfInput)" (parser.cpp:137): no
\* token is asked for after the end of input, and no other contract fails.
ContractsKept == status # "aborted"

\* A debug build only dies on a command line with "--", or when its last
\* arguments were still taken for a command path and the default command has
\* to be used instead.
OnlyKnownAborts ==
  status = "aborted" =>
    \/ machine = "DashDashState"
    \/ /\ \A i \in DOMAIN args : args[i].type = "Value"
       /\ MatchingCommands = {}
       /\ DefaultCommands(commands) # {}

\* A positional argument with no token left for it is diagnosed or gets its
\* default (states.h:788 and 800-801); taking a token from an empty vector is
\* neither.
MissingPositionalIsHandled == status # "undefined"

\* "when \b true, indicates that the stored value comes from a default value
\* rather than from an explicit value on the command line" (option_value.h:34-36):
\* the flag `defaulted` of the values that the states store.
DefaultedTellsDefaults ==
  \A k \in Keys : \A n \in DOMAIN ovm[k] :
    ovm[k][n].defaulted <=> ovm[k][n].from = "default"

\* While options are parsed, the values stored are never changed or removed,
\* and once the command is known it stays the active one.
ResultsOnlyGrow ==
  [][/\ \A k \in Keys : /\ Len(ovm[k]) <= Len(ovm'[k])
                        /\ SubSeq(ovm'[k], 1, Len(ovm[k])) = ovm[k]
     /\ machine \in CommandKnown => active_command' = active_command]_vars

\* The values stored, as far as they are promised: without the flag
\* `defaulted`, of which the code and its documentation say the opposite
\* (DefaultedTellsDefaults).
SeenList(list) ==
  [n \in DOMAIN list |-> [from |-> list[n].from, text |-> list[n].text]]

Seen(values) == [k \in Keys |-> SeenList(values[k])]

\* What a parse has come to, seen from outside: nothing while it runs, and
\* after it the command and the values, unless it was rejected.
Outcome ==
  [status  |-> status,
   command |-> IF status = "accepted" THEN active_command ELSE 0,
   values  |-> IF status = "accepted" THEN Seen(ovm) ELSE [k \in Keys |-> <<>>]]

Promised == INSTANCE ParseSpec WITH outcome <- Outcome

\* The machine implements ParseSpec: token by token, with its seven states,
\* the tokens offered twice and the values stored on the way, it returns, and
\* with the command and the values that the command line as a whole calls for.
ImplementsParseSpec == Promised!Spec

=============================================================================

-------------------------------- MODULE Cli --------------------------------
(***************************************************************************)
(* A Cli and the calls of its Parse() (clap/src/cli.cpp), around the       *)
(* parser: CmdLineParser gives the steps of one call.                      *)
(*                                                                         *)
(* Every call makes a tokenizer, a context and a machine of its own, but   *)
(* the context refers to two members of the Cli, the active command and    *)
(* the option values: what one call leaves there, the next one finds.      *)
(* After the parser has returned, the call prints help or the version if   *)
(* that was asked for.                                                     *)
(*                                                                         *)
(* Program name and streams only serve messages and are left out.          *)
(***************************************************************************)
EXTENDS CmdLineParser, SequencesExt

CONSTANTS
  TokensOf,   \* from argument to the tokens it is split into
  Lines,      \* the command lines that are parsed, without the program name
  MaxCalls    \* bound on the number of calls

HELP    == "help"
VERSION == "version"

\* Every argument is split, and so are the names that Parse() writes in place
\* of the first one.
ASSUME LinesAssumption ==
  /\ \A l \in Lines : l \in Seq(DOMAIN TokensOf)
  /\ {HELP, VERSION} \subseteq DOMAIN TokensOf
  /\ \A a \in DOMAIN TokensOf :
       TokensOf[a] \in Seq({t \in Tokens : t.type # "EndOfInput"})

\* Keys the Cli itself looks up.
ASSUME KeysOfCliAssumption == {HELP, key_rest} \subseteq Keys

ASSUME MaxCallsAssumption == MaxCalls \in Nat

VARIABLES
  phase,            \* "idle", or "parsing" inside a call
  calls,            \* the number of calls so far
  line,             \* the command line of the last call
  printed,          \* what the last call printed
  ovm_before,       \* history: the option values when the last call began
  command_before    \* history: the active command when the last call began

callVars == <<phase, calls, line, printed, ovm_before, command_before>>
cliVars  == <<vars, callVars>>

HelpForms    == {"-h", "--help"}
VersionForms == {"-v", "--version"}

\* Flags that are set when the builder adds the commands of that name; the
\* program gives no command of its own that name (PathsAssumption of CliBuilder,
\* whose BuiltCliFitsParser says that flags and paths then agree).
HasHelpCommand    == \E c \in DOMAIN commands : Path(c) = <<HELP>>
HasVersionCommand == \E c \in DOMAIN commands : Path(c) = <<VERSION>>

Printed(kind, command) == [kind |-> kind, command |-> command]

Nothing      == Printed("nothing", 0)
CommandHelp(c) == Printed("help", c)
Overview     == Printed("overview", 0)
UnknownPath  == Printed("unknown path", 0)
VersionInfo  == Printed("version", 0)
TryHelp      == Printed("try help", 0)

CliInit ==
  /\ Init
  /\ phase = "idle"
  /\ calls = 0
  /\ line = <<>>
  /\ printed = Nothing
  /\ ovm_before = ovm
  /\ command_before = 0

-----------------------------------------------------------------------------
(* Parse() up to the parser *)

\* Mutation: the forms of --version are not looked for.
UnifiedHelpOnly(argument) ==
  IF HasHelpCommand /\ argument \in HelpForms THEN HELP ELSE argument

\* The first argument, with the option forms replaced by the command's name.
Unified(argument) ==
  IF HasVersionCommand /\ argument \in VersionForms THEN VERSION
  ELSE IF HasHelpCommand /\ argument \in HelpForms THEN HELP
  ELSE argument

Simplified(l) == IF l = <<>> THEN l ELSE [l EXCEPT ![1] = Unified(@)]

\* The tokens of a command line. The tokenizer reports the end of input at an
\* argument that gives no token (TokenStream).
Tokenized(l) ==
  LET empty  == SelectInSeq(l, LAMBDA a : TokensOf[a] = <<>>)
      length == IF empty = 0 THEN Len(l) ELSE empty - 1
  IN  FlattenSeq([i \in 1..length |-> TokensOf[l[i]]])

\* Mutation: the context is not made anew, and keeps its positional tokens.
OldContext == UNCHANGED <<active_option, positional_tokens>>

\* ParserContext::New
NewContext ==
  /\ active_option' = 0
  /\ positional_tokens' = <<>>

NewTokenizer ==
  /\ args' = Tokenized(Simplified(line'))
  /\ token' = IF args' = <<>> THEN EndOfInput ELSE Head(args')
  /\ input' = IF args' = <<>> THEN <<>> ELSE Tail(args')

\* The states of Parse()'s machine, as they are constructed. The constructor
\* of InitialState makes the default command the active one, if there is one.
NewMachine ==
  /\ machine' = "InitialState"
  /\ status' = "running"
  /\ error' = "none"
  /\ active_command' = IF DefaultCommands(commands) = {} THEN active_command
                         ELSE FirstIndex(DefaultCommands(commands))
  /\ path_segments' = <<>>
  /\ filtered_commands' = {}
  /\ last_matched_command' = 0
  /\ default_command' = 0
  /\ value_' = [s \in OptionStates |-> FALSE]
  /\ after_equal_sign' = FALSE
  /\ next_positional' = 1
  /\ rest_option' = 0
  /\ options_checked' = FALSE

Parse(l) ==
  /\ phase = "idle" /\ calls < MaxCalls
  /\ phase' = "parsing"
  /\ calls' = calls + 1
  /\ line' = l
  /\ printed' = Nothing
  /\ NewTokenizer /\ NewContext /\ NewMachine
  /\ ovm_before' = ovm
  /\ command_before' = active_command
  /\ UNCHANGED <<commands, ovm>>

ParserStep == phase = "parsing" /\ Step /\ UNCHANGED callVars

-----------------------------------------------------------------------------
(* Parse() after the parser *)

\* The path given to the help command: everything that is stored as rest. These
\* are strings; rest arguments of another type, whose values an earlier call
\* may have left and on which GetAs<std::string>() throws, are left out.
RequestedPath == [n \in DOMAIN ovm[key_rest] |-> ovm[key_rest][n].text]

\* Mutation: the option is not looked at.
HelpOutputOfCommand ==
  IF ovm[key_rest] = <<>> THEN Overview
  ELSE LET found == FirstIndex({c \in DOMAIN commands : Path(c) = RequestedPath})
       IN  IF found = 0 THEN UnknownPath ELSE CommandHelp(found)

\* HandleHelpCommand
HelpOutput ==
  IF ovm[HELP] # <<>> THEN CommandHelp(active_command)
  ELSE IF ovm[key_rest] = <<>> THEN Overview
  ELSE LET found == FirstIndex({c \in DOMAIN commands : Path(c) = RequestedPath})
       IN  IF found = 0 THEN UnknownPath ELSE CommandHelp(found)

Return(output) ==
  /\ phase' = "idle"
  /\ printed' = output
  /\ UNCHANGED <<vars, calls, line, ovm_before, command_before>>

Answered(s) == phase = "parsing" /\ status = s

HelpAsked == Path(active_command) = <<HELP>> \/ ovm[HELP] # <<>>

Return_Help ==
  /\ Answered("accepted") /\ HelpAsked
  /\ Return(HelpOutput)

Return_Version ==
  /\ Answered("accepted") /\ ~HelpAsked
  /\ Path(active_command) = <<VERSION>>
  /\ Return(VersionInfo)

Return_Context ==
  /\ Answered("accepted") /\ ~HelpAsked
  /\ Path(active_command) # <<VERSION>>
  /\ Return(Nothing)

\* CmdLineArgumentsError is thrown.
Return_Throw ==
  /\ Answered("rejected")
  /\ Return(IF HasHelpCommand THEN TryHelp ELSE Nothing)

-----------------------------------------------------------------------------
(* The Cli *)

CallStep == ParserStep \/ Return_Help \/ Return_Version \/ Return_Context
              \/ Return_Throw

\* No call is left, or the program has died.
Finished ==
  /\ \/ phase = "idle" /\ calls = MaxCalls
     \/ status \in {"aborted", "undefined"}
  /\ UNCHANGED cliVars

CliNext == (\E l \in Lines : Parse(l)) \/ CallStep \/ Finished

\* A call is sequential code that keeps executing; nothing says that there
\* will be another one.
CliSpec == CliInit /\ [][CliNext]_cliVars /\ WF_cliVars(CallStep)

-----------------------------------------------------------------------------
(* Properties *)

\* Type invariant: the parser's, and the ranges of the variables of the call.
CliTypeOK ==
  /\ TypeOK
  /\ phase \in {"idle", "parsing"}
  /\ calls \in 0..MaxCalls
  /\ line \in Lines \cup {<<>>}
  /\ printed.command \in {0} \cup DOMAIN commands
  /\ ovm_before \in [Keys -> Seq(OptionValues)]
  /\ command_before \in {0} \cup DOMAIN commands

KeysOf(c) == {commands[c].options[o].key : o \in DOMAIN commands[c].options}
               \cup {commands[c].positionals[p].key :
                       p \in DOMAIN commands[c].positionals}

\* The commands of which the command line may be about have no value left
\* from an earlier call, and the line is about some command of this Cli.
NothingLeftOver ==
  /\ Promised!Candidates # {}
  /\ \A c \in Promised!Candidates : \A k \in KeysOf(c) : ovm_before[k] = <<>>

Returned == phase = "idle" /\ calls > 0

\* The Cli gives its own active command and values to every call. A call
\* still answers as the first call on a fresh Cli would, with the same
\* command and the same values for it, unless there were values of that
\* command before or the line is about no command at all: nothing else that
\* an earlier call did, accepted or rejected half-way, can be seen.
OnlyLeftoversTellCallsApart ==
  Returned /\ NothingLeftOver =>
    \E fresh \in Promised!Outcomes([k \in Keys |-> <<>>]) :
      /\ status = fresh.status
      /\ status = "accepted" =>
           /\ active_command = fresh.command
           /\ \A k \in KeysOf(active_command) : Seen(ovm)[k] = fresh.values[k]

\* The option with key "help" occurs on the command line of this call.
HelpNamed ==
  \E i \in DOMAIN args : \E o \in DOMAIN CommandOptions :
    NamesOption(i, o) /\ CommandOptions[o].key = HELP

\* Help for the command of the line is printed when its help option was
\* given, in this call or in an earlier one, and only then: the option is
\* found wherever it stands, and neither the value of another option nor a
\* positional argument passes for it.
CommandHelpWhenAsked ==
  Returned /\ status = "accepted" /\ Path(active_command) # <<HELP>> =>
    (printed = CommandHelp(active_command) <=> HelpNamed \/ ovm_before[HELP] # <<>>)

\* "program version, program --version, program -v" (cli_builder.h:63-65),
\* "program help, program --help, program -h" (cli_builder.h:74-76) and
\* "program help command" (cli_builder.h:79): each of these prints what it is
\* said to print, the first time the Cli is used.
DocumentedFormsAnswer ==
  Returned /\ calls = 1 /\ HasHelpCommand /\ HasVersionCommand =>
    /\ line \in {<<f>> : f \in VersionForms \cup {VERSION}} => printed = VersionInfo
    /\ line \in {<<f>> : f \in HelpForms \cup {HELP}} => printed = Overview
    /\ \A c \in DOMAIN commands :
         ~IsDefault(commands[c]) /\ line = <<HELP>> \o Path(c) =>
           printed = CommandHelp(c)

\* Every call comes back, accepted or with an error, however the calls before
\* it ended; "--" and a positional argument without a token are excepted.
EveryCallReturns ==
  phase = "parsing" /\ (\A i \in DOMAIN args : args[i].type # "DashDash")
    ~> phase = "idle" \/ status = "undefined"

=============================================================================

---------------------------- MODULE CliBuilder ----------------------------
(***************************************************************************)
(* Making commands and Clis with the fluent builders (clap/src/fluent/     *)
(* cli_builder.cpp, command_builder.cpp, clap/include/clap/command.h,      *)
(* clap/include/clap/cli.h).                                               *)
(*                                                                         *)
(* The program makes commands one after the other with command builders    *)
(* and gives them to Cli builders: the commands are shared pointers, so    *)
(* that two Clis may have the same command. Build() changes the commands   *)
(* of the Cli, and lets them point back to it. Commands are numbered as    *)
(* they are made, and 0 stands for the null pointer; a Cli has the name of *)
(* its builder.                                                            *)
(*                                                                         *)
(* Versions and texts for the help are left out, as are the positional     *)
(* arguments. There is one group of options that commands can be given;    *)
(* whether it is hidden is left out.                                       *)
(***************************************************************************)
EXTENDS Naturals, SequencesExt

CONSTANTS
  Builders,           \* the Cli builders
  NoCli,              \* a null pointer to a Cli
  ProgramName,        \* the name given to the Cli builders
  Paths,              \* paths that the program makes commands for
  OptionsOfProgram,   \* options that the program gives to commands
  Group,              \* options in the group, a sequence
  ContractsEnforced,  \* TRUE in debug builds: ASAP_ASSERT aborts
  MaxCommands,        \* bound on the number of commands that are made,
  MaxInCli,           \* on those in a Cli,
  MaxGiven,           \* on what the program gives to a command,
  MaxThrows           \* and on the calls of Build() that throw

Option(key, short, long, valued) ==
  [key |-> key, short |-> short, long |-> long, valued |-> valued]

\* `valued` is false for an option that was built without WithValue().
IsOption(o) == o = Option(o.key, o.short, o.long, o.valued) /\ o.valued \in BOOLEAN

ASSUME OptionsAssumption ==
  \A o \in OptionsOfProgram \cup Range(Group) : IsOption(o)
ASSUME GroupAssumption == Group \in Seq(Range(Group))
ASSUME NoCliAssumption == NoCli \notin Builders
ASSUME ContractsAssumption == ContractsEnforced \in BOOLEAN
ASSUME BoundsAssumption == MaxThrows \in Nat

HELP    == "help"
VERSION == "version"
DEFAULT == ""
HelpOption    == Option(HELP, "h", HELP, TRUE)
VersionOption == Option(VERSION, "v", VERSION, TRUE)

\* What the program calls its commands, help and version are left to Build().
ASSUME PathsAssumption == {<<HELP>>, <<VERSION>>} \cap Paths = {}

VARIABLES
  commands,   \* sequence of the Command objects
  command_,   \* what the command builder in use points to
  built,      \* set of the pointers that command builders gave to the program
  clis,       \* the Cli of each Cli builder
  owner,      \* who owns it: "builder", "program", or "nobody" once it is gone
  threw,      \* how often Build() has thrown, for each Cli builder
  status      \* "running", or how the program died

vars == <<commands, command_, built, clis, owner, threw, status>>

Command(path) ==
  [path |-> path, options |-> <<>>, options_in_groups |-> <<>>, groups |-> 0,
   parent_cli |-> NoCli]

IsDefault(c) == commands[c].path = <<DEFAULT>>

\* Mutation: only the first segment is looked at.
StartsIllegally(path) == Head(path) = DEFAULT /\ Len(path) # 1

\* The constructor of Command throws std::domain_error.
IsIllegal(path) == DEFAULT \in Range(path) /\ Len(path) # 1

Init ==
  /\ commands = <<>> /\ command_ = 0 /\ built = {}
  /\ clis = [b \in Builders |-> [commands |-> <<>>, help |-> FALSE, version |-> FALSE]]
  /\ owner = [b \in Builders |-> "builder"]
  /\ threw = [b \in Builders |-> 0] /\ status = "running"

Call == status = "running"

Die(how) ==
  /\ status' = how
  /\ UNCHANGED <<commands, command_, built, clis, owner, threw>>

\* A contract fails: "builder used after Build() was called".
Misused == Die(IF ContractsEnforced THEN "aborted" ELSE "undefined")

-----------------------------------------------------------------------------
(* Command builders *)

\* CommandBuilder(path...): nothing is made when the constructor throws. The
\* program completes a command before it begins another one.
NewCommandBuilder(path) ==
  /\ Call /\ command_ = 0 /\ Len(commands) < MaxCommands
  /\ IF IsIllegal(path)
       THEN UNCHANGED <<commands, command_>>
       ELSE /\ commands' = Append(commands, Command(path))
            /\ command_' = Len(commands) + 1
  /\ UNCHANGED <<built, clis, owner, threw, status>>

\* Mutation: the flag of an option that goes to the front goes to the back.
AddOptionFlagAtBack(command, o) ==
  IF o.key \in {HELP, VERSION}
    THEN [command EXCEPT !.options = <<o>> \o @,
                         !.options_in_groups = Append(@, FALSE)]
    ELSE [command EXCEPT !.options = Append(@, o),
                         !.options_in_groups = Append(@, FALSE)]

\* Mutation: every option goes to the back.
AddOptionAtBack(command, o) ==
  [command EXCEPT !.options = Append(@, o),
                  !.options_in_groups = Append(@, FALSE)]

\* Command::WithOption
AddOption(command, o) ==
  IF o.key \in {HELP, VERSION}
    THEN [command EXCEPT !.options = <<o>> \o @,
                         !.options_in_groups = <<FALSE>> \o @]
    ELSE [command EXCEPT !.options = Append(@, o),
                         !.options_in_groups = Append(@, FALSE)]

\* Command::WithOptions
AddGroup(command) ==
  [command EXCEPT !.options = @ \o Group,
                  !.options_in_groups = @ \o [i \in DOMAIN Group |-> TRUE],
                  !.groups = @ + 1]

\* Before Build(), each option and group in a command was given by the program.
Given(command) == Len(command.options) - command.groups * (Len(Group) - 1)

ChangeCommand(changed) ==
  /\ Given(changed) <= MaxGiven
  /\ commands' = [commands EXCEPT ![command_] = changed]
  /\ UNCHANGED <<command_, built, clis, owner, threw, status>>

WithOption(o) ==
  /\ Call
  /\ IF command_ = 0 THEN Misused
     ELSE ChangeCommand(AddOption(commands[command_], o))

WithOptions ==
  /\ Call
  /\ IF command_ = 0 THEN Misused
     ELSE ChangeCommand(AddGroup(commands[command_]))

\* There is no contract here.
WithPositionalArguments ==
  /\ Call
  /\ IF command_ = 0 THEN Die("undefined") ELSE UNCHANGED vars

\* CommandBuilder::Build, or the conversion: null when called twice.
BuildCommand ==
  /\ Call
  /\ built' = built \cup {command_}
  /\ command_' = 0
  /\ UNCHANGED <<commands, clis, owner, threw, status>>

-----------------------------------------------------------------------------
(* Cli builders *)

HasBuilt(b) == owner[b] # "builder"

\* Cli::WithCommand
AddCommand(cli, c) ==
  [cli EXCEPT !.commands = IF IsDefault(c) THEN <<c>> \o @ ELSE Append(@, c)]

WithCommand(b, c) ==
  /\ Call
  /\ IF HasBuilt(b) THEN Misused
     ELSE IF c = 0 THEN Die("undefined")
     ELSE /\ Len(clis[b].commands) < MaxInCli
          /\ clis' = [clis EXCEPT ![b] = AddCommand(@, c)]
          /\ UNCHANGED <<commands, command_, built, owner, threw, status>>

\* Cli::EnableHelpCommand and Cli::EnableVersionCommand
WithOwnCommand(b, enabled, path) ==
  /\ Call
  /\ IF HasBuilt(b) THEN Misused
     ELSE /\ Len(commands) < MaxCommands /\ Len(clis[b].commands) < MaxInCli
          /\ commands' = Append(commands, Command(path))
          /\ clis' = [clis EXCEPT ![b] =
                        [enabled EXCEPT !.commands = Append(@, Len(commands) + 1)]]
          /\ UNCHANGED <<command_, built, owner, threw, status>>

\* Mutation: the flag is not set.
HelpEnabledSilently(cli) == cli

HelpEnabled(cli) == [cli EXCEPT !.help = TRUE]

WithHelpCommand(b) == WithOwnCommand(b, HelpEnabled(clis[b]), <<HELP>>)
WithVersionCommand(b) ==
  WithOwnCommand(b, [clis[b] EXCEPT !.version = TRUE], <<VERSION>>)

\* AddHelpOptionToCommand and AddVersionOptionToCommand, as Build() calls them
\* for a command.
Upgraded(cli, command, default) ==
  LET helped == IF cli.help THEN AddOption(command, HelpOption) ELSE command
  IN  IF cli.version /\ default THEN AddOption(helped, VersionOption) ELSE helped

\* The commands after the loop over those of a Cli.
AllUpgraded(cli) ==
  LET after[n \in 0..Len(cli.commands)] ==
        LET c == cli.commands[n]
        IN  IF n = 0 THEN commands
            ELSE [after[n - 1] EXCEPT ![c] = Upgraded(cli, @, IsDefault(c))]
  IN  IF cli.help \/ cli.version THEN after[Len(cli.commands)] ELSE commands

\* A default command is to be made, with two segments in its path.
NeedsDefault(cli) ==
  (cli.help \/ cli.version) /\ \A i \in DOMAIN cli.commands : ~IsDefault(cli.commands[i])
DefaultPath == <<ProgramName, DEFAULT>>

\* Mutation: the first command of the Cli is skipped.
AdoptRest(b, cs, owned) ==
  [c \in DOMAIN cs |->
     IF \E i \in DOMAIN owned \ {1} : owned[i] = c
       THEN [cs[c] EXCEPT !.parent_cli = b] ELSE cs[c]]

\* The commands of a Cli point back to it.
Adopt(b, cs, owned) ==
  [c \in DOMAIN cs |->
     IF c \in Range(owned) THEN [cs[c] EXCEPT !.parent_cli = b] ELSE cs[c]]

\* The commands are changed already when the constructor of the default
\* command throws. If it did not, WithCommand would add the new command behind
\* the others: its path is not the one of a default command.
Build(b) ==
  /\ Call
  /\ IF HasBuilt(b) THEN Die("undefined")
     ELSE LET cli == clis[b]
              made == Upgraded(cli, Command(DefaultPath), TRUE)
              fresh == Len(commands) + 1
          IN  IF NeedsDefault(cli) /\ IsIllegal(DefaultPath)
                THEN /\ commands' = AllUpgraded(cli)
                     /\ threw[b] < MaxThrows
                     /\ threw' = [threw EXCEPT ![b] = @ + 1]
                     /\ UNCHANGED <<command_, built, clis, owner, status>>
                ELSE /\ clis' = IF NeedsDefault(cli)
                                  THEN [clis EXCEPT ![b].commands = Append(@, fresh)]
                                  ELSE clis
                     /\ commands' = Adopt(b, IF NeedsDefault(cli)
                                               THEN Append(AllUpgraded(cli), made)
                                               ELSE AllUpgraded(cli),
                                          clis'[b].commands)
                     /\ owner' = [owner EXCEPT ![b] = "program"]
                     /\ UNCHANGED <<command_, built, threw, status>>

\* The program gives up a Cli; the commands that it shares are still there.
Destroy(b) ==
  /\ Call
  /\ owner[b] = "program"
  /\ owner' = [owner EXCEPT ![b] = "nobody"]
  /\ UNCHANGED <<commands, command_, built, clis, threw, status>>

\* The program has died, or it has given up everything.
Finished ==
  /\ status # "running" \/ \A b \in Builders : owner[b] = "nobody"
  /\ UNCHANGED vars

Next ==
  \/ \E path \in Paths : NewCommandBuilder(path)
  \/ \E o \in OptionsOfProgram : WithOption(o)
  \/ WithOptions \/ WithPositionalArguments
  \/ BuildCommand
  \/ \E b \in Builders :
       \/ \E c \in built : WithCommand(b, c)
       \/ WithHelpCommand(b) \/ WithVersionCommand(b)
       \/ Build(b) \/ Destroy(b)
  \/ Finished

Spec == Init /\ [][Next]_vars

-----------------------------------------------------------------------------
(* What a command answers and prints *)

\* FindShortOption and FindLongOption: the first option with the name.
FindShortOption(c, name) ==
  SelectInSeq(commands[c].options, LAMBDA o : o.short = name)
FindLongOption(c, name) ==
  SelectInSeq(commands[c].options, LAMBDA o : o.long = name)

\* The options that PrintOptions prints first: those without the flag.
PrintedAlone(c) ==
  LET alone == {i \in DOMAIN commands[c].options : ~commands[c].options_in_groups[i]}
  IN  [i \in alone |-> commands[c].options[i]]

\* Print follows the pointer to the Cli, which is null before Build(), and asks
\* the value semantics of all options. (And of the positional arguments, which
\* are left out: those of the program are taken to have value semantics.)
PrintIsDefined(c) ==
  /\ IsDefault(c) => commands[c].parent_cli # NoCli
  /\ commands[c].parent_cli # NoCli => owner[commands[c].parent_cli] # "nobody"
  /\ \A i \in DOMAIN commands[c].options : commands[c].options[i].valued

-----------------------------------------------------------------------------
(* Properties *)

CommandsOf(b) == Range(clis[b].commands)

Pointers == 0..Len(commands)

\* Type invariant: pointers are null or point to something, and the commands
\* of a Cli are never null.
TypeOK ==
  /\ \A c \in DOMAIN commands :
       /\ commands[c].path \in Paths \cup {<<HELP>>, <<VERSION>>}
       /\ commands[c].parent_cli \in {NoCli} \cup Builders
       /\ Range(commands[c].options)
            \subseteq OptionsOfProgram \cup Range(Group) \cup {HelpOption, VersionOption}
  /\ command_ \in Pointers /\ built \subseteq Pointers
  /\ \A b \in Builders : CommandsOf(b) \subseteq DOMAIN commands
  /\ owner \in [Builders -> {"builder", "program", "nobody"}]
  /\ threw \in [Builders -> 0..MaxThrows]
  /\ status \in {"running", "aborted", "undefined"}

\* In every order of the calls, and after Build() has put options to the
\* front, the flags stay with the options they belong to: what is not printed
\* alone is what the groups hold, in the order in which they print it.
GroupsStayTogether ==
  \A c \in DOMAIN commands :
    LET command == commands[c]
        grouped == {i \in DOMAIN command.options : i \notin DOMAIN PrintedAlone(c)}
        Kept(i) == Cardinality({j \in grouped : j <= i})
    IN  /\ Len(command.options) = Len(command.options_in_groups)
        /\ Cardinality(grouped) = command.groups * Len(Group)
        /\ \A i \in grouped :
             command.options[i] = Group[((Kept(i) - 1) % Len(Group)) + 1]

\* --help and -h of every command of a Cli with help, and --version and -v of
\* its default command, are the options that Build() made, whatever options of
\* these names the command had, with whom it is shared, and how often a Build()
\* threw before.
StandardOptionsWin ==
  \A b \in Builders : \A c \in CommandsOf(b) :
    owner[b] = "program" =>
      LET Found(o) == /\ commands[c].options[FindLongOption(c, o.long)] = o
                      /\ commands[c].options[FindShortOption(c, o.short)] = o
      IN  /\ clis[b].help => Found(HelpOption)
          /\ clis[b].version /\ IsDefault(c) => Found(VersionOption)

\* The commands of a Cli can be printed as long as the Cli exists, unless a
\* command is shared with another Cli that is gone or an option has no value.
CommandsCanBePrinted ==
  \A b \in Builders : \A c \in CommandsOf(b) :
    /\ owner[b] = "program"
    /\ \A other \in Builders : c \in CommandsOf(other) => owner[other] # "nobody"
    /\ \A i \in DOMAIN commands[c].options : commands[c].options[i].valued
    => PrintIsDefined(c)

\* What Cli::Parse() and the parser rely on: only legal paths, a help and a
\* version command where they are enabled and only there, and then a default
\* command; all default commands come first.
BuiltCliFitsParser ==
  \A b \in Builders : owner[b] = "program" =>
    LET PathsOf == {commands[c].path : c \in CommandsOf(b)}
        cli == clis[b]
    IN  /\ \A path \in PathsOf : ~IsIllegal(path)
        /\ cli.help <=> <<HELP>> \in PathsOf
        /\ cli.version <=> <<VERSION>> \in PathsOf
        /\ cli.help \/ cli.version => <<DEFAULT>> \in PathsOf
        /\ \A i, j \in DOMAIN cli.commands :
             IsDefault(cli.commands[j]) /\ i < j => IsDefault(cli.commands[i])

\* "If the CLI if did not have a default command, create one and set it up."
\* (cli_builder.cpp:122)
DefaultIsCreated == \A b \in Builders : threw[b] = 0

=============================================================================

# Verification of asap-clap

TLA+ models of the command line parser library in `src/clap`, model-checked
with TLC on small instances and, for its core, proved with TLAPS for every
list of commands and every command line.

## 1. The system

`Cli::Parse(argc, argv)` copies the arguments, constructs a `Tokenizer` and a
`CmdLineParser` and runs the parser. The parser pulls one token after the other
from the tokenizer and feeds it to a state machine that fills a context: the
active command, the map of option values, the positional tokens.

```
 CliBuilder --> Cli --> Arguments --> Tokenizer --> CmdLineParser --> context
                 |        argv         queue of       7 states,       active_command,
             commands                  tokens         loop            ovm
```

| Component | State | Operations | Interacts with | What makes it correct |
|---|---|---|---|---|
| Tokenizer (`parser/tokenizer.*`) | arguments, cursor, queue of tokens; per argument a machine of 7 states over characters | `NextToken`, `HasMoreTokens`, `Tokenize` | pulled by the loop | every argument becomes the tokens it stands for, in order; the end is reported after all of them |
| Parser loop (`parser/parser.cpp`) | current token, reissue and continue flags, outcome | one turn: handle, then reissue, next token or return | tokenizer, state machine | it returns; no token is asked for after the end |
| Parser states (`parser/states.h`) | path segments, candidate commands, `value_`, `after_equal_sign` | `Handle`, `OnEnter`, `OnLeave` per state and token type | context | deepest command found; every token used once; one value per occurrence; positional values in order; what is accepted is complete |
| Context (`context.h`, `command_line_context.h`) | active command and option, positional tokens, references to the `Cli`'s active command and values | fields | all states, `Cli` | indices valid where the states use them |
| Option values (`option_values_map.h`, `option_value.h`) | key to list of values with `defaulted` flag | `StoreValue`, `HasOption`, `OccurrencesOf` | states, program | values are only added |
| Value semantics (`value_descriptor.h`, `parse_value.h`) | implicit and default value, repeatable | `Parse`, `ApplyImplicit`, `ApplyDefault` | states | text is accepted exactly when it denotes a value |
| Command, Options (`command.*`, `option.*`) | path, options, groups, positional arguments | `With...`, `Find...`, printing | builders, states | lookup finds the option, groups and options stay aligned |
| Builders (`fluent/`) | the object under construction | `With...`, `Build` | `Cli`, `Command` | `Build` gives a usable `Cli`, once |
| Cli (`cli.*`) | commands, active command, values, help and version flags | `Parse`, help and version handling | everything | each parse answers for its own command line |
| Diagnostics (`errors.*`) | none | one text per error | states | the error names what happened |

Nothing runs concurrently and nothing is persisted. What is hard here is long
sequences of legal tokens: state kept in the members of a machine between
tokens, the same token offered to two states, values tried at two places, the
boundary cases of vectors and of the end of input, and the difference between
debug builds (contracts abort) and release builds (they are compiled out).
`PROJECT.json` lists these hazards with their lines.

## 2. Modules

| Module | Models | Correspondence |
|---|---|---|
| `CmdLineParser` | parser loop, states, context, option values | one action per state and kind of token; `Proceed`, `Reissue`, `ReportError` are the answers Continue, ReissueEvent, TerminateWithError; a transition is OnLeave of the old state and OnEnter of the new one in one step |
| `ParseSpec` | what a parse promises, said at once for a whole command line | abstract; `CmdLineParser` implements it |
| `Tokenizer` | tokenizer and its character machine | `NextToken_...` are the branches of `NextToken()`; one action per state and kind of character of `Tokenize()` |
| `TokenStream` | what the tokenizer promises to the parser | abstract; `Tokenizer` implements it. `Safety` is the part without fairness, for the proof |
| `Cli` | `Cli::Parse()` and the members of the `Cli` it shares between calls | extends `CmdLineParser`, whose steps are those of a call; `Parse` is the code before the parser runs, `Return_...` the exits after it |
| `CliBuilder` | Cli builders, command builders, commands as they are built and printed, Clis | one action per builder method |
| `OptionBuilder` | option and value builders, options, value descriptors | one action per builder method; `Parse` is the question the parser puts to an option |
| `ParseValue` | text to value, with the conversions of the standard library | pure operators, used by `OptionBuilder` |
| `Lemmas` | facts about sets of positions, sequences and counting that the proofs share | |
| `CmdLineParserProofs`, `ValueProofs`, `ParseSpecProofs` | theorems about the parser: types, contracts and the command found; the values stored; that it implements `ParseSpec` | each extends the one before |
| `CliProofs` | theorems about sequences of calls | extends `Cli` and `ParseSpecProofs` |
| `TokenizerProofs`, `OptionBuilderProofs`, `CliBuilderProofs` | theorems about tokenizer, option builders, command and Cli builders | |
| `MC...` | instances for TLC | |

### CmdLineParser

* The option, command and value objects are data: an option is a record with
  its key, names, the set of texts its `ValueSemantics` accepts, whether it has
  an implicit or default value, is repeatable, is required. (A value is
  required, for `ValueDescriptor`, exactly when there is no implicit one.)
  A command is its path, its options and its positional arguments; shared
  pointers are positions in these lists, 0 for the null pointer.
* Every option and argument has value semantics, as `WithValue()` gives it. What an
  option built without it would do, the contracts `ASAP_ASSERT(semantics)` and the
  null pointers behind them (`states.h:549, 675, 684, 821`), is left out.
* The loops of `FinalState::OnEnter` are not one step: each turn is an action
  named `Final_...`, so that the error exits in the middle of them are visible.
  `CheckRequiredOptions` is one step per list, up to the first missing option.
* `status` is `aborted` when a contract fails in a debug build
  (`ContractsEnforced`), and `undefined` after undefined behaviour (`front()` of
  an empty vector, a null `active_option`). Both stop the model.
* The machine is a local variable of `Parse()`: what a state did to its own
  members before it answered with an error is not modelled.
* The `asap::fsm` library is not under `src/`. It is modelled from its use:
  a transition calls `OnLeave` of the old state, then, unless that answered
  with an error, `OnEnter` of the new one; the last answer is the status. For
  the tokenizer it is the same.

### ParseSpec

`ParseSpec` has one variable of its own, the outcome, and one step, from
"running" to an outcome. The outcome is computed position by position: which
command begins the line, which positions name options and have a value, which
values are positional, and which part of these each positional argument takes
(`Share`). There is no state machine, no pending occurrence and no cursor.
`CmdLineParser!ImplementsParseSpec` maps the parser's variables to the outcome
(`Outcome`: running until the machine stops, then accepted with command and
values, or rejected, or undefined) and states that the parser implements the
specification, its liveness included. `Safety` is the part without liveness, for
the proof. The header of the module says for which command lists and lines the
promise is made. What the code does against its own
documentation but deterministically is part of the promise, except the
`defaulted` flag of values: code and doc say the opposite of each other on every
positional value and every default (run `defaulted_flag`), so nothing is promised
of it, and `Outcome` shows values without it (`Seen`).

### Tokenizer and TokenStream

Texts are sequences of characters of which only `-` and `=` matter. One call
of `NextToken()` that has to read an argument is a sequence of steps (one per
character). `TokenStream` has the arguments and the tokens handed out; `Split`
says in one go what an argument becomes. `CmdLineParser` takes its tokens from
a sequence that ends with the end of input: that is this promise.

### Cli

A call is `Parse(l)`, steps of the parser, and one of four `Return_...` actions.
Tokenizer, context and machine are made anew in `Parse(l)`; `active_command` and
`ovm` are members of the `Cli` and keep their values. The tokens of an argument
are a constant (`TokensOf`), evaluated by the rules that `tokenizer` checks; the
first argument is rewritten before it is split. `CmdLineArgumentsError` is the
action `Return_Throw`: it prints the hint and leaves the members as they are.
The history variables `ovm_before` and `command_before` are read by properties
only. `OnlyLeftoversTellCallsApart` compares a call with `ParseSpec`'s outcomes
for a fresh `Cli`. The flags that `EnableHelpCommand()` and `EnableVersionCommand()`
set are read off the paths (`HasHelpCommand`, `HasVersionCommand`), which is the same
as long as the program itself names no command `help` or `version`. The values
of the help command's argument are strings (`RequestedPath`): a command of the
program that stores other values under the rest key would make `GetAs<std::string>`
throw in a later call.

### CliBuilder

Commands are numbered objects, because shared pointers let two Clis have the
same one; a Cli has the name of its builder, and `owner` says whether it is
still in the builder, with the program, or gone. `Build()` that throws keeps
what it did to the commands before. Calls after `Build()` that the contracts
exclude, and those no contract excludes, end in `aborted` or `undefined`.
`PrintIsDefined` stands for printing: which pointers to commands and Clis it
follows. The value semantics of positional arguments, which printing dereferences
too (`command.cpp:58-72`, `94-97`), are left out: every one is taken to have them.

### OptionBuilder and ParseValue

`WithValue()` and `Build()` move the option out of a builder; a value builder
keeps its pointer to the descriptor. Options, descriptors and builders are
numbered, 0 is null. After the calls, `Parse(o, text)` asks an option that was
given to the program about a text, and `answer` is what its type says.
`ParseValue` keeps widths as parameters: everything goes through a long long,
which is wider than some types and as wide as others. `Denoted` is the
reference definition: the number a text is a numeral of.

## 3. What is checked

Passing runs (TLC, all states of the instance):

| Run | Instance | Shows |
|---|---|---|
| `command_lines` | up to 3 arguments of 15 shapes (plain values, clusters of short options, `-`, long options with and without value, with an empty value, with a run of `=`), 6 command lists, release build | `TypeOK`; `OneValuePerOccurrence`: options named on the command line and values stored correspond one to one; `SingleOccurrence`; `NoValueLost`; `AcceptedIsComplete`; `PositionalsInOrder`; `ResultsOnlyGrow`; `ImplementsParseSpec` |
| `any_tokens` | up to 4 tokens in any order, also impossible ones, 7 command lists, debug build | `AssertionsHold`; `CommandResolution`: the deepest command, else the default one, else an error; `NoValueUsedTwice`; `OnlyKnownAborts` |
| `tokenizer` | 1 argument of up to 7 characters, 2 of up to 3, 3 of 2, over `-`, `=`, `x` | `TypeOK`, `SplitsEveryArgument`, `ParserCanRelyOn`, `ImplementsTokenStream` |
| `cli` | two calls, each with any command line of the instance, on Clis with help and version and without | `CliTypeOK`; `OnlyLeftoversTellCallsApart`; `CommandHelpWhenAsked`; `DocumentedFormsAnswer`; `EveryCallReturns` |
| `option_builder` | 5 calls, 8 types, 139 texts; long long has 5 bits, narrow types 3 | `TypeOK`, `OneOwner`, `ValueBuilderReachesOption`, `BuiltOptionsStay`; `NumbersAreExact`, `BooleansBySign`, `EnumeratorsOnly` |
| `cli_builder` | 2 Cli builders (symmetric), 3 commands, 2 per Cli, 1 option or group given to each, 1 `Build()` that throws per builder | `TypeOK`, `GroupsStayTogether`, `StandardOptionsWin`, `CommandsCanBePrinted`, `BuiltCliFitsParser` |

Why the bounds are enough. A state of the parser looks at the current token and
at what one occurrence of an option left behind, so two occurrences of an option
with a value each, with something between them, already need only three
arguments. The command lists have paths that share a prefix, with and without a
default command, and options of every kind the states tell apart (implicit or
not, default or not, repeatable or not, required or not, `-` as a name). The
tokenizer machine forgets everything but the text collected and one flag, and
seven characters reach every state with every successor and a run of three `=`.
A call of `Cli::Parse()` finds what the calls before it left in two members; two
calls reach every way to leave something and to find it. Five bits for long
long let texts of two digits overflow it, fit it but overflow the narrow types,
or fit both; widths that are larger only need longer texts. Three builders
(option, value, and a second value builder from the first) need three calls,
and the two left change or build what they own. A command is in two Clis, is
upgraded twice, or has an option of the same name with the bounds given: each
of these needs one option, two Clis and one `Build()` that throws. `MaxThrows`,
`MaxGiven`, `MaxInCli`, `MaxCommands` and `MaxCalls` are guards.

Runs that are expected to fail, each at a place where the code does not do
what the repository says (section `findings` of `PROJECT.json` quotes it):

| Run | What TLC shows |
|---|---|
| `dash_dash` | after `--` the machine never reaches `FinalState`: a debug build aborts at `parser.cpp:137`, a release build loops forever |
| `backtracking` | with commands `do` and `do it a`, the `it` of the line `do it` disappears; so does that of `do it b` |
| `too_few_positionals` | `front()` of an empty vector when a positional argument has no token |
| `empty_argument` | an empty argument ends the token stream |
| `build_default` | `Build()` with help or version and no default command throws `std::domain_error` instead of creating one |
| `defaulted_flag` | a default counts as explicit: the `defaulted` flag is set the wrong way round for it, and for positional values |

The passing runs keep clear of these, and say where: `NoValueLost` and
`ImplementsParseSpec` are checked on command lists without gaps in their paths,
`PositionalsInOrder` and `ImplementsParseSpec` with at most one argument after
the rest, all of `command_lines` and `EveryCallReturns` without `--`,
`NumbersAreExact` without a `-` sign for unsigned types, `BooleansBySign` without
blanks in front. `OnlyKnownAborts` names the two ways a debug build dies.

Other differences between the code and its documentation, or what a reader of it
would expect, that no run shows by itself; the models have what the code does:

* With a default command, a partly matched path at the end of the command line
  goes to `ParseOptionsState`, whose contract excludes the end of input
  (`states.h:275`, doc at 197-198). `OnlyKnownAborts` names it.
* Two positional arguments declared after the rest get their values in reverse
  (`states.h:765`, doc in `context.h:101-102`): `PositionalsInOrder` fails for the
  arguments rest, first, then and the line `a it`.
* A value that does not parse is reported as `MissingValueForOption`
  (`states.h:570`); `InvalidValueForOption` has no caller (doc at 486-487).
* `command --help` shows no help when a required argument is missing, because
  the command line is rejected before help is looked at (`cli.cpp:71-75`, doc in
  `cli_builder.h:78-81`).
* A text with a blank before the `-` sign is accepted for an unsigned type, and
  negated modulo the width: only the first character is compared with `-`
  (`parse_value.h:48`, comment at 46-47). `NumbersAreExact` excepts the sign.
* `--opt=` gives the option a second time after the `=` sign
  (`tokenizer.cpp:235`; `test/parser/tokenizer_test.cpp:67-70` expects it once).
* After one call with a help option, the value stays in the `Cli`, and every
  later call that is accepted prints help (`cli.cpp:74`).
* An option may be added under a name that is taken (`option.cpp:106`, doc at
  `option.h:197-198`). `Build()` puts a second help option under the same key
  into a command that two Clis share, or when a `Build()` that threw is called
  again; `KeysAssumption` of the parser then does not hold.
* Enumerators with an upper-case letter can be given by number only
  (`parse_value.h:183`).

Fairness: `Parse()` is sequential code that runs until it returns; weak fairness
of its steps says no more than that it is not stopped from outside (`CliSpec`:
of the steps inside a call; nothing says that there is another call). The
tokenizer adds that its caller asks until it is told there is no more, which is
what the loop does. `TokenStream` and `ParseSpec` have liveness of their own, so
that the two refinements include that every token is handed out and that
`Parse()` returns. The builders have safety properties only and no fairness. No
run switches deadlock checking off: every specification ends in an explicit
`Stopped` or `Finished` step.

Every property of a passing run has a mutant in `PROJECT.json`: a changed
definition, as a plausible bug would change the code, under which the run finds
the property violated. The changed definitions stand before the ones they
replace and are marked "Mutation".

## 4. What is proved

### The parser

Assumptions, all named and evaluated by TLC in every run: commands are
well-formed records (`CLIsAssumption`) with at least one path segment, and with an
empty one only in the default command, which the constructor of `Command` makes
sure of (`PathsAssumption`); `Texts` are the texts that are not empty
(`TextsAssumption`; the empty text is added wherever it can occur); the stream
holds no end of input of its own (`InputsAssumption`); no option of a
command has the key of another or of a positional argument (`KeysAssumption`, which
the code does not check but every caller has to respect: values are stored by key); and
`ContractsEnforced` is a Boolean; positional arguments have no names
(`PositionalsAssumption`, for `ASAP_EXPECT(option->IsPositional())` at `states.h:757`). Nothing is assumed about the number of commands,
arguments, options or keys, nor that a tokenizer can produce the stream.

`CmdLineParserProofs`:

* `TypeCorrect`: `Spec => []TypeOK`
* `ContractsOfStates`: `Spec => []AssertionsHold`
* `OneValueUnlessRepeatable`: `Spec => []SingleOccurrence`

`TypeOK` is not inductive: that the option found is an index of the active
command's options needs an active command, which `AssertionsHold` has; and that
the command may be replaced while a path is identified needs that no option,
rest argument or positional token refers to it yet, which is `NothingParsed`.
`IInv` is the conjunction of the three. There is one lemma per state of the
machine; each splits its actions, and the lemmas `ProceedTypes`, `ReissueTypes`,
`ReportErrorTypes` treat the answers once. `LeastExists` and `GreatestExists` in
`Lemmas` (by well-foundedness of the naturals) give that `Min` and `Max` of a set
of positions are positions.

`SingleOccurrence` becomes inductive with two facts. `NothingStored`: nothing is
stored before the command is known. `RoomForValue`: while an option state
waits for a value, the check made when the option was found still holds. The
step that stores a value then finds either no value or a repeatable option;
positional values and defaults go under other keys or where there was no value.

The command found, in the same module:

* `CommandResolved`: `Spec => []CommandResolution`
* `AbortsAreKnown`: `Spec => []OnlyKnownAborts`

`CommandResolution` speaks of the whole command line, the states know the
segments read so far. What connects them (`CInv`): the current token and the rest
of the input are the rest of the command line (`Reading`); the segments are the
tokens handled so far, the candidates are exactly the commands whose path
begins with them (`BegunBy`), and the last command matched has the longest path
among those that end within them (`EndedBy`, `LastIsLongest`). `OneSegmentMore`
carries this over one segment; when no candidate is left, no longer path can
match (`MatchingIsEnded`), so the last one matched is one of the deepest.
`CommandResolution` leaves the default command out, and a value may be the empty
text: by `PathsAssumption` the commands that end within the segments read are then
all default commands, or none is (`OnlyDefaultIsEmpty`). A debug build's abort in
`ParseOptionsState` is traced back to the segments being the whole line
(`AllSegments`).

`ValueProofs`:

* `ResultsGrow`: `Spec => ResultsOnlyGrow`
* `AcceptedComplete`: `Spec => []AcceptedIsComplete`
* `OccurrencesAnswered`: `Spec => []OneValuePerOccurrence`
* `ValuesUsedOnce`: `Spec => []NoValueUsedTwice`
* `ValuesAreKept`: `Spec => [](NoGaps => NoValueLost)`
* `ValuesFollowOrder`: `Spec => [](PositionalsDeclared => PositionalsInOrder)`

`AcceptedIsComplete` is about the last of several steps: the check of the options
comes before that of the positional arguments, whose defaults are stored in
between. `KInv` adds that the options stay complete after their check
(`OptionsChecked`). `OneValuePerOccurrence` counts tokens of the line against
stored values; `OInv` adds that `value_` is reset in the option state the machine
is not in (`ValueFlags`), without which the next occurrence would count as
answered. `SInv` gives that values under other keys do not interfere.

`NoValueUsedTwice` and `NoValueLost` compare two counts, what was given and what
is kept in four places: path segments, positional tokens, values, the path of
the active command. `StepBalances` says what a step can do to them: both grow
alike, or a text moves from one place to another (`Balanced`), except that
nothing is kept behind `--`, that a positional argument drops what it cannot parse
(`Refused`), and that the segments behind a gap are dropped. `VInv` needs that the
default command is the active one until another is found (`StartsWithDefault`):
its path takes no value, so that giving up a path does not count it twice.
The hypothesis `NoGaps` of `ValuesAreKept` is what the run `backtracking` shows to
be needed: if a command's path begins another's, the paths between are commands.
The CLIs of `command_lines` satisfy it, and so does every CLI whose commands have
one segment.

`PositionalsInOrder` is about the end of a line, its proof about what waits to be
stored. Before `FinalState` each positional token was given after those in front
of it, also when they are the segments of a path that was given up
(`TokensInOrder`). In `FinalState`, what was taken from the front was given before
all that wait, what was taken from the back after all that wait
(`TakenInOrder`); then each value stored is in order with those before
(`StoredInOrder`). `PInv` was checked by TLC on the instances of `command_lines` and
`any_tokens` first. The hypothesis `PositionalsDeclared` excludes two arguments after
the rest, for which the code reverses the values (section 3), and positional
arguments that share a key, whose values would be one list.

### The parser keeps the promise of ParseSpec

`ParseSpecProofs`, with the same assumptions as above:

* `ParseIsImplemented`: `NoGaps` gives
  `Spec /\ PromiseApplies /\ []ContractsKept => Promised!Safety`
* `ParseKeepsItsPromise`: `NoGaps` and a release build give
  `Spec /\ PromiseApplies /\ <>(status # "running") => ImplementsParseSpec`

So a parse comes to nothing before it returns, and then to what `ParseSpec` reads
off the whole line: the command, every value of every option and positional
argument in order, and whether the line is rejected. The
theorem is about any number of commands, options, arguments and tokens. Its
hypotheses are those under which the promise is made, each with its reason:

* `NoGaps`: what the run `backtracking` shows;
* `PositionalsDeclared`: positional arguments have keys of their own, and at most one
  is declared after the rest (section 3);
* `TokensFit`: the line has no `--` (`dash_dash`); it does not begin with an empty
  value and has `=` only behind a long option, which `ParserMayRely` below proves of
  all that a tokenizer returns;
* contracts do not fail: a debug build that aborts returns nothing. A release
  build checks none (`ReleaseStep`), so `ParseKeepsItsPromise` does not need this;
* that the parse returns is liveness. The run `command_lines` checks it; here it is a
  hypothesis.

TLC checked that all command lists and lines of `command_lines` satisfy `NoGaps`,
`PositionalsDeclared` and `TokensFit`.

The argument. The proof keeps the flags: `StoredOutcome` says of a line what is
stored, flags included, and what the parse has come to (`OutcomeNow`) is shown to be
that. The last step leaves the flags out on both sides (`SeenOutcome`): the stored
values then look like the promised ones (`SeenValues`), a list looks empty exactly
when it is, so that nothing else in the promise changes, and `SeenAsPromised` gives
the outcome of `ParseSpec`.

The promise is about positions of the line, the parser about what
it has seen so far. `Follows(stored)` connects them, where `stored` is what was in
the values before; it says for each state of the machine up to where the line is
settled:

* `Settled(c, n, stored)`: the names among the first n positions are right, what is
  stored is what they give (`ValuesBy`), and the positional tokens are the texts of
  the positional positions (`TextsBy`);
* `Awaited`: everything before the option in hand is settled, and it waits for a
  value; `ValueTaken`: the value in hand was that of an option;
* in `FinalState`, a tokens are taken from the front and b from the back
  (`TakenSoFar`), and what is stored beyond the options is what the tokens taken
  give (`StoredSoFar`); after the check of the options, what is stored is what is
  given with the defaults of the options (`OptionsFilled`);
* after the return, the outcome is one of those promised.

There is one lemma per state (`IdentifyFollows`, `ParseOptionsFollows`,
`OptionStateFollows`, `FinalFollows`) and under it one per way to leave it. What is
promised as a set of positions put in order (`InOrder`) is built up position by
position: `InOrderOneMore` adds a number greater than all others to the end, so that
`Listed`, the values at a set of positions, grows by one value with each position.
The same lemma serves for names, for positional tokens and for the tokens taken for a
key. The tokens that the arguments after the rest take from the back come after
all those taken from the front, which is where at most one such argument is
needed. `Shares` says that the shares of the declared arguments do not overlap, so
that a token is offered to the argument it is meant for. When tokens do not
suffice for the arguments declared, `NothingLeftIsTooFew` shows that the step that
looks at `front()` of an empty vector is the one that the promise calls undefined.

### The tokenizer

`TokenizerProofs`, for every set of characters with the two that matter
(`CharsAssumption`) and every list of arguments (`CommandLinesAssumption`), of any
number and length:

* `TokenizerTypeCorrect`: `Spec => []TypeOK`
* `EveryArgumentIsSplit`: `Spec => []SplitsEveryArgument`
* `ParserMayRely`: `Spec => []ParserCanRelyOn`
* `StreamIsImplemented`: `Spec => Promised!Safety`, the safety half of
  `ImplementsTokenStream`

Between two arguments the tokens returned and queued are `SplitAll` of the
arguments done with. Inside an argument the inductive invariant says, for each
state of the character machine, what was collected and emitted and which part
of the argument is left: `SplitLong` is then met by one more pair for every `=`
of a run. `StreamIsImplemented` adds that the queue is not empty when a token is
handed out and that the end is reported only at the end or at an empty argument
(`Readable`; that an empty argument ends the stream is the finding of
`empty_argument`, and part of the promise). `SplitAll` is a recursive function;
`PiecesDefined` in `Lemmas` proves its recursion equation.

### The option builders

`OptionBuilderProofs`, for every set of types and texts, every number and order
of the calls on builders, and both kinds of build:

* `BuildersTypeCorrect`: `Spec => []TypeOK`
* `OwnersReachDescriptor`: `Spec => []ValueBuilderReachesOption`
* `BuiltOptionsFixed`: `Spec => BuiltOptionsStay`
* `OneOwnerAlways`: `Spec => []OneOwner`
* `IntegersAreExact`: `Spec => []NumbersAreExact`
* `BooleansTakeSigns`: `Spec => []BooleansBySign`
* `OnlyEnumerators`: `Spec => []EnumeratorsOnly`

Assumptions: `TypesAssumption` (a type is no wider than long long),
`ContractsAssumption` and `MaxCallsAssumption` (the number of calls is any natural
number). The values need some about characters and names. Two characters have
two codes (`CodeOfAssumption`); only letters have a case, so that no sign, blank or
digit is changed by it, and the lower case of a letter has no lower case of its
own (`LowerCaseAssumption`, `std::tolower` in the C locale); a long long has at least
one bit (`LongBitsAssumption`); an enumerator is an identifier, so that its name
does not begin like a number (`EnumeratorsAssumption`); and an enumeration is stored
in a type that holds its enumerators, as C++ demands (`UnderlyingTypeAssumption`).

The argument. `ValueBuilderReachesOption` is not inductive: a second value
builder gives an option a new descriptor, and only because no other builder
still owns that option does this not cut another one off. This is
`OneBuilderEach`, kept because `WithValue()` and `Build()` move the option out of
the builder. `BuiltOptionsStay` needs the same of the program: `GivenAway` says
that no builder owns what the program was given, so that no call finds a way
to its option. `IInv` is the conjunction of these with `TypeOK`;
there is one lemma per call, and `NewValueBuilderKeeps` for
the branch of `WithValue()` that creates three things at once. `OneOwner` says
also that no option is lost or given away twice, for which `Owners` is
added: every option has an owner, and the program got each at most once
(`NeverLost`, `GivenOnce`); the two sets whose cardinalities it adds are then a
set of one element and an empty one.

The three theorems about values hold for texts of every length, and so go through
the digits of a text. The library's induction theorems cannot be used (they take
an operator); `Induction` in `Lemmas` says the same of a set of numbers, by
well-foundedness, and `RecursionDefined` that a function defined by recursion
exists and satisfies its equation. From these follow what `PowerOf2` and the value
of a numeral are (`PowerOf2` is defined by recursion because the provers know no
powers with a variable exponent), that the longest prefix that is a numeral is the
one that ends at the first other character, and that a number that is not in the
range of a type is not left as it is by the cast to that type (`CastsExact`): so the
comparison after the cast, which is all that `NumberConversion` does, refuses exactly
the numbers that do not fit. For Booleans the two ways out of range of `std::stoll`
have the sign of the number; for enumerations a name and a numeral are told apart by
their first character. `AnswerIsParsed` connects this with the machine: the answer
kept is that of `ParseValue` for a type and a text of the instance.

### The command and Cli builders

`CliBuilderProofs`, for every set of Cli builders, of paths and of options, every
group, both kinds of build, and every order of the calls:

* `TypeCorrect`: `Spec => []TypeOK`
* `FlagsStayWithOptions`: `Spec => []GroupsStayTogether`
* `BuildsOptionsWin`: `Spec => []StandardOptionsWin`
* `PrintingIsDefined`: `Spec => []CommandsCanBePrinted`
* `BuiltForParser`: `Spec => []BuiltCliFitsParser`

Assumptions: the group is a sequence (`GroupAssumption`), the null pointer is no
builder (`NoCliAssumption`), the program does not name a command `help` or
`version` (`PathsAssumption`), and the number of calls of `Build()` that throw is
any natural number (`BoundsAssumption`). The other bounds are only guards.

The argument. `GroupsStayTogether` is about positions that move whenever an
option goes to the front: `FlagsFit` says it of a list of options and flags, and
`FitInFront`, `FitAtBack`, `FitGroup` keep it over the three ways to add, by counting
the flags in front of a position (`CountShifted`, `CountStartsAgain`). The loop of
`Build()` is a recursive function; `AllUpgradedServes` shows by induction over
its rounds that it takes nothing away from a command (`Upgrades`) and that the
commands of the Cli have its options in front afterwards (`Served`), also a
command that is in the Cli twice. The rest is about sharing. That a later `Build()`
of another Cli, or one that throws, does not spoil a Cli that was built
(`AllServed`) needs that no command builder still changes its commands (`InUse`);
that printing follows no dangling pointer needs that a command points to a
Cli that was built and has it (`ParentsOwn`), and to one at all when one of its
Clis was built (`Adopted`). `FlagsTrue` is not inductive without the paths: only
`PathsAssumption` keeps the program from adding a help command behind the back of the
flag. A `Build()` that has to make a default command always throws
(`DefaultPathIsIllegal`), which is the finding of `build_default`; the theorems include
the states after it. All conjuncts of `IInv` were checked by TLC on the
instance of `cli_builder` before they were proved.

### The Cli

`CliProofs`, for every list of commands, every set of command lines, every way of
splitting arguments and every number of calls:

* `CliTypeCorrect`: `CliSpec => []CliTypeOK`
* `CliContractsOfStates`: `CliSpec => []AssertionsHold`
* `EveryCallComplete`: `CliSpec => []AcceptedIsComplete`
* `HelpWhenAsked`: `CliSpec => [](HelpAsBuilt => CommandHelpWhenAsked)`
* `EveryCommandResolved`: `CliSpec => [](~NoCommand => CommandResolution)`
* `LeftoversTellCallsApart`: `NoGaps` gives
  `CliSpec => [](PromiseApplies => OnlyLeftoversTellCallsApart)`
* `FormsAnswer`: `NoGaps` gives
  `CliSpec => [](PositionalsDeclared /\ FormsAsBuilt => DocumentedFormsAnswer)`

Assumptions: those of the parser; arguments are split into tokens of which none
is the end of input, and so are the two names that `Parse()` writes in place of
the first argument (`LinesAssumption`); the keys that the `Cli` looks up are keys
(`KeysOfCliAssumption`); the number of calls is any natural number
(`MaxCallsAssumption`).

The argument. A parser step inside a call is a step of `CmdLineParser`, so the
step lemmas of the parser's proofs serve again; what is new is that a call does
not start from `Init`. `ParseTypes` shows that `IInv` holds when a call begins,
whatever command and values it finds, and `ParseReads` that the line is read from
its first token. `KInv` starts anew with each machine. `SInv` and `OInv`
do not: the values of earlier calls falsify them, which is why `SingleOccurrence`
and what counts the values stored are theorems of `Spec` only. `CInv` starts anew
unless the line is about no command (`NoCommand`): then the active command of an
earlier call stays, in a `Cli` without a default command.

`CallInv` adds to `CInv` that `Follows(ovm_before)` holds inside a call and after it:
what the call has come to follows from its line and the values that were there
before. It holds when a call begins, because `Parse()` makes machine, context and
tokens anew (`BeginningFollows`), and the step lemmas of `ParseSpecProofs` carry it
on. What a returned call came to is then an outcome of `ParseSpec` for `ovm_before`;
`OutcomesAlike` shows that the outcome for a command does not depend on values
under other keys. This is `LeftoversTellCallsApart`.

`CommandHelpWhenAsked` relates what is printed at the end to tokens anywhere on
the line and to the values before it. `HelpFollowed` carries this through the
call: until the command is known no option is read and the values are the old
ones; from then on the help option has a value, or is about to get one, exactly
when it had one before or a token handled so far names it. `EndOfLine` adds that
`FinalState` is entered at the end of input only, so that an accepted line was
read to its end, and `PrintedIsLeft` keeps the answer after the return. The
hypothesis `HelpAsBuilt` says that help options have no default and that no
positional argument has their key: those values would be taken for a request.
The commands of `cli` satisfy it, and TLC checked `HelpInv` on that instance
before it was proved.

`FormsAnswer` goes from the line to what is printed. Its invariant `FormsInv` says
that the first call finds no values, that the tokens are those of the line as
`Parse()` rewrote it, and that what an accepted call printed follows from the
command and the values it ended with. The rest is a computation with `ParseSpec`,
whose outcomes `CallInv` gives: the words of such a line are one value each
(`TokenizedWords`), they are about the help or the version command and no other
(`WordsPromised`), nothing is missing (`WordsAccepted`), and the words behind `help`
become, in their order, the values of its rest argument (`HelpAnswered`), which is
the path that is looked up.

The hypothesis `FormsAsBuilt` states what `EnableHelpCommand()` and
`EnableVersionCommand()` (`cli.cpp:128-162`) make: no option of these commands is
required or has a default, `version` has no positional argument, `help` has just the
rest, which takes any text and so every name in a path. It adds what the
documented forms need of the other commands and the code does not enforce: no two
have the same path, none but `help` has a path that begins with `help` (of two
commands with one path, the help of the first would be printed; with a command
`help add`, the line `help add` would run it), and names in paths are words, which
are one value each. The tokenizer makes one value of an argument that neither is
empty nor begins with a dash. The commands of `cli` with help satisfy `FormsAsBuilt`,
`NoGaps` and `PositionalsDeclared`; TLC checked that and `FormsInv` on this instance
before the proof.

### Only model-checked

Every invariant that a passing run checks is a theorem as well. What stays with TLC are
the liveness halves of the two refinements, and `EveryCallReturns`: liveness under
fairness is beyond the prover.

## 5. Plan

The modules of the plan exist: parser, tokenizer, their abstract specifications,
`Cli`, builders, values. What is left:

`CommandLine`: tokenizer and parser step by step in one module, the parser pulling
from the tokenizer's queue, implementing `CmdLineParser`. The two meet in
`TokenStream` so far.

## 6. Not modelled

* Options and positional arguments built without `WithValue()`: parser and printing
  dereference the value semantics they do not have.
* Printing and text wrapping, wording of diagnostics, logging: formatting only.
  Which pointers printing follows is modelled (`PrintIsDefined`).
* Floating-point values: `parse_value.h:140-153` hands the text to `std::stold`,
  and TLA+ has no such numbers that TLC evaluates.
* `Arguments`: a copy of argv. `About`, `Version`, `UserFriendlyName`: texts.
* `StoreTo` and notifiers of `ValueDescriptor`: never called (`FIXME` in
  `FinalState::OnEnter`).
* Filling a group of options (`Options::Add`) while a command already has it: the
  command has copied its options by then, printing shows the added one.
* The libraries `asap::fsm`, `contract`, `logging`, `fmt`, `textwrap`,
  `magic_enum`: not under `src/`, modelled from their use. CMake files,
  documentation and tools: not part of the program.

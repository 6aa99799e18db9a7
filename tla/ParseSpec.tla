----------------------------- MODULE ParseSpec -----------------------------
(***************************************************************************)
(* What Parse() promises, without a state machine: the whole command line  *)
(* is looked at at once, and the outcome is said position by position.     *)
(*                                                                         *)
(*   - the command is the one with the longest path that begins the        *)
(*     command line, else the default command;                             *)
(*   - after the path, every option name is an occurrence of an option,    *)
(*     with the value that follows it, or with its implicit value;         *)
(*   - every other value is positional, and the positional arguments take  *)
(*     them in order;                                                      *)
(*   - what has no value then takes its default.                           *)
(*                                                                         *)
(* The promise is for command lists without gaps in their paths, for       *)
(* positional arguments with keys of their own, at most one of them after  *)
(* the one that takes the rest, and for command lines without "--" that do *)
(* not begin with an empty argument and have '=' only behind the name of a *)
(* long option.                                                            *)
(***************************************************************************)
EXTENDS Naturals, Sequences, FiniteSets

CONSTANT Keys

VARIABLES commands, args, outcome

NoValues == [k \in Keys |-> <<>>]

Outcome(status, command, values) ==
  [status |-> status, command |-> command, values |-> values]

Running   == Outcome("running", 0, NoValues)
Rejected  == Outcome("rejected", 0, NoValues)
\* A positional argument is declared for which there is no token.
Undefined == Outcome("undefined", 0, NoValues)

\* A value: where it comes from, and the token it was parsed from, if any.
Value(from, text) == [from |-> from, text |-> text]

IsValueAt(i) == i \in DOMAIN args /\ args[i].type = "Value"

First(S) == CHOOSE i \in S : \A j \in S : i <= j

\* The numbers of a set, the least one first.
InOrder(S) ==
  [n \in 1..Cardinality(S) |-> CHOOSE i \in S : Cardinality({j \in S : j <= i}) = n]

-----------------------------------------------------------------------------
(* The command *)

Named == {c \in DOMAIN commands : commands[c].path # <<"">>}

Begins(c) ==
  \A n \in DOMAIN commands[c].path :
    IsValueAt(n) /\ args[n].text = commands[c].path[n]

Deepest ==
  {c \in Named : /\ Begins(c)
                 /\ \A d \in Named : Begins(d) =>
                      Len(commands[d].path) <= Len(commands[c].path)}

Candidates == IF Deepest # {} THEN Deepest ELSE DOMAIN commands \ Named

Start(c) == IF c \in Named THEN Len(commands[c].path) ELSE 0

-----------------------------------------------------------------------------
(* The options of command c *)

OptionNames == {"ShortOption", "LongOption", "LoneDash"}

\* The positions at which an option is named.
NamesAfterPath(c) ==
  {i \in DOMAIN args : i > Start(c) /\ args[i].type \in OptionNames}

OptionsNamed(c, i) ==
  {o \in DOMAIN commands[c].options :
     args[i].text = IF args[i].type = "LongOption"
                      THEN commands[c].options[o].long
                      ELSE commands[c].options[o].short}

OptionAt(c, i) == commands[c].options[First(OptionsNamed(c, i))]

WithEqualSign(i) == i + 1 \in DOMAIN args /\ args[i + 1].type = "EqualSign"

\* Where the value of the option named at i would be.
ValueOf(i) == IF WithEqualSign(i) THEN i + 2 ELSE i + 1

HasExplicitValue(c, i) ==
  IsValueAt(ValueOf(i)) /\ args[ValueOf(i)].text \in OptionAt(c, i).accepts

\* No value will do where one is given after '=', or where one is needed.
LacksValue(c, i) ==
  /\ ~HasExplicitValue(c, i)
  /\ OptionAt(c, i).implicit => WithEqualSign(i) /\ IsValueAt(ValueOf(i))

\* An option that cannot be given twice has a value already: one it was given
\* before on the command line, or one stored earlier.
GivenBefore(c, i, stored) ==
  /\ ~OptionAt(c, i).repeatable
  /\ \/ stored[OptionAt(c, i).key] # <<>>
     \/ \E j \in NamesAfterPath(c) : j < i /\ OptionAt(c, j) = OptionAt(c, i)

WrongOption(c, stored) ==
  \E i \in NamesAfterPath(c) :
    \/ OptionsNamed(c, i) = {}
    \/ LacksValue(c, i)
    \/ GivenBefore(c, i, stored)

\* The values given for key k by name.
NamedValues(c, k) ==
  LET at == InOrder({i \in NamesAfterPath(c) : OptionAt(c, i).key = k})
  IN  [n \in DOMAIN at |->
         IF HasExplicitValue(c, at[n])
           THEN Value("token", args[ValueOf(at[n])].text)
           ELSE Value("implicit", "")]

-----------------------------------------------------------------------------
(* The positional arguments of command c *)

\* The positions of the values that belong to no path and to no option.
Positional(c) ==
  {i \in DOMAIN args : i > Start(c) /\ IsValueAt(i)}
    \ {ValueOf(i) : i \in {j \in NamesAfterPath(c) : HasExplicitValue(c, j)}}

Declared(c) == DOMAIN commands[c].positionals
TakesRest(c) == {p \in Declared(c) : commands[c].positionals[p].key = "_REST_"}

\* The part of n tokens that positional argument p takes, when r is the
\* argument that takes the rest: those declared before it take the first
\* tokens, those after it the last.
Share(c, p, n) ==
  LET after == Cardinality(Declared(c)) - p
  IN  IF TakesRest(c) = {} \/ p < First(TakesRest(c)) THEN {p}
      ELSE IF p \in TakesRest(c) THEN p..(n - after)
      ELSE {n - after}

TooFewTokens(c) ==
  Cardinality(Positional(c)) < Cardinality(Declared(c) \ TakesRest(c))

TooManyTokens(c) ==
  /\ TakesRest(c) = {}
  /\ Cardinality(Positional(c)) > Cardinality(Declared(c))

\* The values given for key k by position; what does not parse is dropped.
PositionalValues(c, k) ==
  LET at    == InOrder(Positional(c))
      taken == {n \in DOMAIN at : \E p \in Declared(c) :
                  /\ commands[c].positionals[p].key = k
                  /\ n \in Share(c, p, Len(at))
                  /\ args[at[n]].text \in commands[c].positionals[p].accepts}
      order == InOrder(taken)
  IN  [n \in DOMAIN order |-> Value("token", args[at[order[n]]].text)]

-----------------------------------------------------------------------------
(* The outcome *)

Arguments(c) ==
  {commands[c].options[o] : o \in DOMAIN commands[c].options}
    \cup {commands[c].positionals[p] : p \in Declared(c)}

Given(c, stored) ==
  [k \in Keys |-> stored[k] \o NamedValues(c, k) \o PositionalValues(c, k)]

WithDefaults(c, given) ==
  [k \in Keys |->
     IF given[k] = <<>> /\ \E a \in Arguments(c) : a.key = k /\ a.default
       THEN << Value("default", "") >>
       ELSE given[k]]

Complete(c, values) ==
  \A a \in Arguments(c) : a.required => values[a.key] # <<>>

\* The outcome for command c, when the values in `stored` were there before.
OutcomeFor(c, stored) ==
  LET values == WithDefaults(c, Given(c, stored))
  IN  IF WrongOption(c, stored) THEN Rejected
      ELSE IF TooFewTokens(c) THEN Undefined
      ELSE IF TooManyTokens(c) \/ ~Complete(c, values) THEN Rejected
      ELSE Outcome("accepted", c, values)

Outcomes(stored) ==
  IF Candidates = {} THEN {Rejected}
                     ELSE {OutcomeFor(c, stored) : c \in Candidates}

Init == outcome = Running

Return ==
  /\ outcome = Running
  /\ outcome' \in Outcomes(NoValues)
  /\ UNCHANGED <<commands, args>>

\* One step, which is taken.
Safety == Init /\ [][Return]_<<commands, args, outcome>>
Spec   == Safety /\ <>(outcome # Running)

=============================================================================

------------------------- MODULE CliBuilderProofs --------------------------
(***************************************************************************)
(* Proofs about CliBuilder: for every set of builders, of paths and of     *)
(* options, every group, and every order of the calls.                     *)
(***************************************************************************)
EXTENDS CliBuilder, Lemmas

-----------------------------------------------------------------------------
(* Types *)

AllPaths   == Paths \cup {<<HELP>>, <<VERSION>>}
Standard   == {HelpOption, VersionOption}
AllOptions == OptionsOfProgram \cup Range(Group) \cup Standard

CommandRecords ==
  [path : AllPaths, options : Seq(AllOptions), options_in_groups : Seq(BOOLEAN),
   groups : Nat, parent_cli : {NoCli} \cup Builders]

\* A Cli when there are n commands.
CliRecords(n) == [commands : Seq(1..n), help : BOOLEAN, version : BOOLEAN]

Types ==
  /\ commands \in Seq(CommandRecords)
  /\ clis \in [Builders -> CliRecords(Len(commands))]
  /\ command_ \in 0..Len(commands) /\ built \subseteq 0..Len(commands)
  /\ owner \in [Builders -> {"builder", "program", "nobody"}]
  /\ threw \in [Builders -> 0..MaxThrows]
  /\ status \in {"running", "aborted", "undefined"}

LEMMA CommandTypes ==
  ASSUME NEW n \in Nat, NEW cs \in Seq(CommandRecords), Len(cs) = n
  PROVE  /\ DOMAIN cs = 1..n
         /\ \A c \in 1..n : cs[c] \in CommandRecords
  OBVIOUS

LEMMA RecordTypes ==
  ASSUME NEW command \in CommandRecords
  PROVE  /\ command.path \in AllPaths
         /\ command.options \in Seq(AllOptions)
         /\ command.options_in_groups \in Seq(BOOLEAN)
         /\ command.groups \in Nat
         /\ command.parent_cli \in {NoCli} \cup Builders
  BY DEF CommandRecords

LEMMA CliTypes ==
  ASSUME NEW n \in Nat, NEW cli \in CliRecords(n)
  PROVE  /\ cli.commands \in Seq(1..n)
         /\ cli.help \in BOOLEAN /\ cli.version \in BOOLEAN
         /\ Len(cli.commands) \in Nat
         /\ DOMAIN cli.commands = 1..Len(cli.commands)
         /\ \A i \in 1..Len(cli.commands) : cli.commands[i] \in 1..n
<1>1. cli.commands \in Seq(1..n) /\ cli.help \in BOOLEAN /\ cli.version \in BOOLEAN
  BY DEF CliRecords
<1> QED
  BY <1>1

\* What is in the sequence is what Range says.
LEMMA InRange ==
  ASSUME NEW S, NEW s \in Seq(S), NEW e
  PROVE  e \in Range(s) <=> \E i \in 1..Len(s) : s[i] = e
  BY DEF Range

LEMMA TypesGiveTypeOK == Types => TypeOK
<1> SUFFICES ASSUME Types PROVE TypeOK
  OBVIOUS
<1>1. Len(commands) \in Nat /\ DOMAIN commands = 1..Len(commands)
  BY DEF Types
<1>2. ASSUME NEW c \in DOMAIN commands
      PROVE  /\ commands[c].path \in Paths \cup {<<HELP>>, <<VERSION>>}
             /\ commands[c].parent_cli \in {NoCli} \cup Builders
             /\ Range(commands[c].options)
                  \subseteq OptionsOfProgram \cup Range(Group) \cup {HelpOption, VersionOption}
  <2>1. commands[c] \in CommandRecords
    BY <1>1 DEF Types
  <2>2. /\ commands[c].path \in AllPaths
        /\ commands[c].options \in Seq(AllOptions)
        /\ commands[c].parent_cli \in {NoCli} \cup Builders
    BY <2>1, RecordTypes
  <2>3. Range(commands[c].options) \subseteq AllOptions
    BY <2>2 DEF Range
  <2> QED
    BY <2>2, <2>3 DEF AllPaths, AllOptions, Standard
<1>3. ASSUME NEW b \in Builders PROVE CommandsOf(b) \subseteq DOMAIN commands
  <2>1. clis[b] \in CliRecords(Len(commands))
    BY DEF Types
  <2>2. clis[b].commands \in Seq(1..Len(commands))
    BY <1>1, <2>1, CliTypes
  <2> QED
    BY <1>1, <2>2 DEF CommandsOf, Range
<1> QED
  BY <1>1, <1>2, <1>3 DEF Types, TypeOK, Pointers

-----------------------------------------------------------------------------
(* The flags of the options *)

\* The positions of the options that are in groups.
InGroups(flags) == {i \in 1..Len(flags) : flags[i] = TRUE}

\* What GroupsStayTogether says about a command with these options and flags
\* that was given g groups.
FlagsFit(options, flags, g) ==
  /\ Len(options) = Len(flags)
  /\ CountTo(InGroups(flags), Len(flags)) = g * Len(Group)
  /\ \A i \in InGroups(flags) :
       options[i] = Group[((CountTo(InGroups(flags), i) - 1) % Len(Group)) + 1]

\* An element in front of a sequence.
LEMMA Prepended ==
  ASSUME NEW S, NEW s \in Seq(S), NEW e \in S
  PROVE  /\ <<e>> \o s \in Seq(S)
         /\ Len(<<e>> \o s) = Len(s) + 1
         /\ (<<e>> \o s)[1] = e
         /\ \A i \in 1..Len(s) : (<<e>> \o s)[i + 1] = s[i]
<1>1. <<e>> \in Seq(S) /\ Len(<<e>>) = 1 /\ <<e>>[1] = e /\ Len(s) \in Nat
  OBVIOUS
<1>2. /\ <<e>> \o s \in Seq(S)
      /\ Len(<<e>> \o s) = Len(<<e>>) + Len(s)
      /\ \A i \in 1..Len(<<e>>) + Len(s) :
           (<<e>> \o s)[i] = IF i <= Len(<<e>>) THEN <<e>>[i] ELSE s[i - Len(<<e>>)]
  BY <1>1, ConcatProperties
<1> DEFINE t == <<e>> \o s
           one == <<e>>
<1> HIDE DEF t, one
<1>3. /\ t \in Seq(S) /\ Len(t) = 1 + Len(s)
      /\ \A i \in 1..1 + Len(s) : t[i] = IF i <= 1 THEN one[i] ELSE s[i - 1]
  BY <1>1, <1>2 DEF t, one
<1>4. one[1] = e
  BY <1>1 DEF one
<1>5. t[1] = e /\ Len(t) = Len(s) + 1
  BY <1>1, <1>3, <1>4
<1>6. ASSUME NEW i \in 1..Len(s) PROVE t[i + 1] = s[i]
  <2>1. i + 1 \in 1..1 + Len(s) /\ ~(i + 1 <= 1) /\ (i + 1) - 1 = i
    BY <1>1
  <2> QED
    BY <1>3, <2>1
<1> QED
  BY <1>3, <1>5, <1>6 DEF t

\* Positions that move up by one keep their count.
LEMMA CountShifted ==
  ASSUME NEW S, NEW T, NEW m \in Nat, 1 \notin T,
         \A i \in 1..m : i + 1 \in T <=> i \in S
  PROVE  \A n \in 0..m : CountTo(T, n + 1) = CountTo(S, n)
<1> DEFINE P == {n \in Nat : n <= m => CountTo(T, n + 1) = CountTo(S, n)}
<1>1. 0 \in P
  <2>1. T \cap (1..0 + 1) = {} /\ S \cap (1..0) = {} /\ 0 \in Nat /\ 0 + 1 \in Nat
    OBVIOUS
  <2>2. CountTo(T, 0 + 1) = 0 /\ CountTo(S, 0) = 0
    BY <2>1, CountIsNatural
  <2> QED
    BY <2>2
<1>2. ASSUME NEW n \in Nat, n \in P PROVE n + 1 \in P
  <2> SUFFICES ASSUME n + 1 <= m
               PROVE  CountTo(T, (n + 1) + 1) = CountTo(S, n + 1)
    OBVIOUS
  <2>1. n + 1 \in Nat /\ n + 1 \in 1..m /\ n <= m
    OBVIOUS
  <2>2. CountTo(T, (n + 1) + 1)
          = CountTo(T, n + 1) + IF (n + 1) + 1 \in T THEN 1 ELSE 0
    BY <2>1, CountOneMore
  <2>3. CountTo(S, n + 1) = CountTo(S, n) + IF n + 1 \in S THEN 1 ELSE 0
    BY CountOneMore
  <2>4. CountTo(T, n + 1) = CountTo(S, n)
    BY <1>2, <2>1
  <2>5. (n + 1) + 1 \in T <=> n + 1 \in S
    BY <2>1
  <2> QED
    BY <2>2, <2>3, <2>4, <2>5
<1> HIDE DEF P
<1>3. \A n \in Nat : n \in P
  BY <1>1, <1>2, Induction
<1> QED
  BY <1>3 DEF P

\* An option without the flag goes to the front.
LEMMA FitInFront ==
  ASSUME NEW os \in Seq(AllOptions), NEW fs \in Seq(BOOLEAN), NEW g \in Nat,
         NEW o \in AllOptions, FlagsFit(os, fs, g)
  PROVE  FlagsFit(<<o>> \o os, <<FALSE>> \o fs, g)
<1> DEFINE os2 == <<o>> \o os
           fs2 == <<FALSE>> \o fs
           S == InGroups(fs)
           T == InGroups(fs2)
           n == Len(fs)
<1>1. /\ n \in Nat /\ Len(os) = n
      /\ CountTo(S, n) = g * Len(Group)
      /\ \A i \in S : os[i] = Group[((CountTo(S, i) - 1) % Len(Group)) + 1]
  BY DEF FlagsFit
<1>2. Len(os2) = n + 1 /\ \A i \in 1..n : os2[i + 1] = os[i]
  BY <1>1, Prepended
<1>3. Len(fs2) = n + 1 /\ fs2[1] = FALSE /\ \A i \in 1..n : fs2[i + 1] = fs[i]
  BY Prepended
<1> HIDE DEF os2, fs2
<1>4. 1 \notin T /\ \A i \in 1..n : i + 1 \in T <=> i \in S
  <2>1. 1 \notin T
    BY <1>3 DEF InGroups
  <2>2. ASSUME NEW i \in 1..n PROVE i + 1 \in T <=> i \in S
    <3>1. i + 1 \in 1..n + 1 /\ fs2[i + 1] = fs[i]
      BY <1>1, <1>3
    <3> QED
      BY <1>3, <3>1 DEF InGroups
  <2> QED
    BY <2>1, <2>2
<1>5. \A i \in T : i \in 2..n + 1
  BY <1>1, <1>3, <1>4 DEF InGroups
<1> HIDE DEF S, T, n
<1>6. \A i \in 0..n : CountTo(T, i + 1) = CountTo(S, i)
  BY <1>1, <1>4, CountShifted
<1>7. CountTo(T, n + 1) = g * Len(Group)
  BY <1>1, <1>6
<1>8. ASSUME NEW i \in T
      PROVE  os2[i] = Group[((CountTo(T, i) - 1) % Len(Group)) + 1]
  <2>1. PICK j \in 1..n : i = j + 1
    <3>1. i \in 2..n + 1
      BY <1>5
    <3>2. i - 1 \in 1..n /\ i = (i - 1) + 1
      BY <1>1, <3>1
    <3> QED
      BY <3>2
  <2>2. j \in S /\ os2[i] = os[j] /\ CountTo(T, i) = CountTo(S, j)
    BY <1>1, <1>2, <1>4, <1>6, <2>1
  <2> QED
    BY <1>1, <2>2
<1> QED
  BY <1>2, <1>3, <1>7, <1>8 DEF FlagsFit, T, os2, fs2

\* An option without the flag goes to the back.
LEMMA FitAtBack ==
  ASSUME NEW os \in Seq(AllOptions), NEW fs \in Seq(BOOLEAN), NEW g \in Nat,
         NEW o \in AllOptions, FlagsFit(os, fs, g)
  PROVE  FlagsFit(Append(os, o), Append(fs, FALSE), g)
<1> DEFINE os2 == Append(os, o)
           fs2 == Append(fs, FALSE)
           S == InGroups(fs)
           T == InGroups(fs2)
           n == Len(fs)
<1>1. /\ n \in Nat /\ Len(os) = n
      /\ CountTo(S, n) = g * Len(Group)
      /\ \A i \in S : os[i] = Group[((CountTo(S, i) - 1) % Len(Group)) + 1]
  BY DEF FlagsFit
<1>2. Len(os2) = n + 1 /\ \A i \in 1..n : os2[i] = os[i]
  BY <1>1, AppendProperties
<1>3. Len(fs2) = n + 1 /\ fs2[n + 1] = FALSE /\ \A i \in 1..n : fs2[i] = fs[i]
  BY AppendProperties
<1> HIDE DEF os2, fs2
<1>4. T = S /\ n + 1 \notin T /\ \A i \in S : i \in 1..n
  <2>1. n + 1 \notin T /\ \A i \in S : i \in 1..n
    BY <1>3 DEF InGroups
  <2>2. \A i : i \in 1..n + 1 <=> i \in 1..n \/ i = n + 1
    BY <1>1
  <2> QED
    BY <1>3, <2>1, <2>2 DEF InGroups
<1> HIDE DEF S, T, n
<1>5. CountTo(T, n + 1) = CountTo(T, n)
  <2>1. CountTo(T, n) \in Nat
    BY <1>1, CountIsNatural
  <2> QED
    BY <1>1, <1>4, <2>1, CountOneMore
<1>6. ASSUME NEW i \in T
      PROVE  os2[i] = Group[((CountTo(T, i) - 1) % Len(Group)) + 1]
  BY <1>1, <1>2, <1>4
<1>7. CountTo(T, n + 1) = g * Len(Group)
  BY <1>1, <1>4, <1>5
<1> QED
  BY <1>2, <1>3, <1>6, <1>7 DEF FlagsFit, T, os2, fs2

\* After whole groups of l the count starts again.
LEMMA CountStartsAgain ==
  ASSUME NEW l \in Nat, NEW g \in Nat, NEW j \in 1..l
  PROVE  ((g * l + j) - 1) % l = j - 1
<1>1. j - 1 \in 0..l - 1 /\ (g * l + j) - 1 = g * l + (j - 1)
  OBVIOUS
<1>2. \A r \in 0..l - 1 : (g * l + r) % l = r
  OBVIOUS
<1> QED
  BY <1>1, <1>2

\* One sequence after another.
LEMMA JoinedLength ==
  ASSUME NEW S, NEW s \in Seq(S), NEW t \in Seq(S)
  PROVE  Joined(s, t) \in Seq(S) /\ Len(Joined(s, t)) = Len(s) + Len(t)
  BY DEF Joined

LEMMA JoinedFirst ==
  ASSUME NEW S, NEW s \in Seq(S), NEW t \in Seq(S), NEW i \in 1..Len(s)
  PROVE  Joined(s, t)[i] = s[i]
  BY DEF Joined

LEMMA JoinedSecond ==
  ASSUME NEW S, NEW s \in Seq(S), NEW t \in Seq(S), NEW i \in 1..Len(t)
  PROVE  Joined(s, t)[Len(s) + i] = t[i]
  BY DEF Joined

\* The flags of a group that is added.
LEMMA FitGroup ==
  ASSUME NEW os \in Seq(AllOptions), NEW fs \in Seq(BOOLEAN), NEW g \in Nat,
         FlagsFit(os, fs, g)
  PROVE  FlagsFit(os \o Group, fs \o [i \in DOMAIN Group |-> TRUE], g + 1)
<1> DEFINE all == [i \in DOMAIN Group |-> TRUE]
           os2 == Joined(os, Group)
           fs2 == Joined(fs, all)
           S == InGroups(fs)
           T == InGroups(fs2)
           n == Len(fs)
           l == Len(Group)
<1>1. /\ n \in Nat /\ Len(os) = n
      /\ CountTo(S, n) = g * l
      /\ \A i \in S : os[i] = Group[((CountTo(S, i) - 1) % l) + 1]
  BY DEF FlagsFit
<1>2. /\ Group \in Seq(AllOptions) /\ l \in Nat
      /\ all \in Seq(BOOLEAN) /\ Len(all) = l /\ \A i \in 1..l : all[i] = TRUE
  <2>1. Group \in Seq(Range(Group))
    BY GroupAssumption
  <2>2. DOMAIN Group = 1..l /\ l \in Nat
    BY <2>1
  <2>3. Group \in Seq(AllOptions)
    BY <2>1 DEF AllOptions
  <2>4. all = [i \in 1..l |-> TRUE]
    BY <2>2
  <2> HIDE DEF l, all
  <2> QED
    BY <2>2, <2>3, <2>4
<1> HIDE DEF all
<1>3. /\ Len(os2) = n + l
      /\ \A i \in 1..n : os2[i] = os[i]
      /\ \A i \in 1..l : os2[n + i] = Group[i]
  <2>1. Len(os) = n /\ Len(Group) = l
    BY <1>1, <1>2
  <2>2. Len(os2) = n + l
    <3>1. Len(Joined(os, Group)) = Len(os) + Len(Group)
      BY <1>2, JoinedLength
    <3> HIDE DEF n, l
    <3> QED
      BY <2>1, <3>1
  <2>3. ASSUME NEW i \in 1..n PROVE os2[i] = os[i]
    BY <1>2, <2>1, JoinedFirst
  <2>4. ASSUME NEW i \in 1..l PROVE os2[n + i] = Group[i]
    <3>1. Joined(os, Group)[Len(os) + i] = Group[i]
      BY <1>2, <2>1, JoinedSecond
    <3> HIDE DEF n, l
    <3> QED
      BY <2>1, <3>1
  <2> QED
    BY <1>2, <2>2, <2>3, <2>4
<1>4. /\ Len(fs2) = n + l
      /\ \A i \in 1..n : fs2[i] = fs[i]
      /\ \A i \in 1..l : fs2[n + i] = TRUE
  <2>1. Len(fs) = n /\ Len(all) = l
    BY <1>1, <1>2
  <2>2. Len(fs2) = n + l
    <3>1. Len(Joined(fs, all)) = Len(fs) + Len(all)
      BY <1>2, JoinedLength
    <3> HIDE DEF n, l
    <3> QED
      BY <2>1, <3>1
  <2>3. ASSUME NEW i \in 1..n PROVE fs2[i] = fs[i]
    BY <1>2, <2>1, JoinedFirst
  <2>4. ASSUME NEW i \in 1..l PROVE fs2[n + i] = all[i]
    <3>1. Joined(fs, all)[Len(fs) + i] = all[i]
      BY <1>2, <2>1, JoinedSecond
    <3> HIDE DEF n, l
    <3> QED
      BY <2>1, <3>1
  <2> QED
    BY <1>2, <2>2, <2>3, <2>4
<1> HIDE DEF os2, fs2
<1>5. /\ \A i \in 1..n : i \in T <=> i \in S
      /\ \A i \in 1..l : n + i \in T
      /\ \A i \in T : i \in 1..n + l
  <2>1. ASSUME NEW i \in 1..n PROVE i \in T <=> i \in S
    <3>1. i \in 1..n + l
      BY <1>1, <1>2
    <3> QED
      BY <1>4, <3>1 DEF InGroups
  <2>2. ASSUME NEW i \in 1..l PROVE n + i \in T
    <3>1. n + i \in 1..n + l
      BY <1>1, <1>2
    <3> QED
      BY <1>4, <3>1 DEF InGroups
  <2> QED
    BY <1>4, <2>1, <2>2 DEF InGroups
<1> HIDE DEF S, T, n, l
<1>6. \A i \in 0..n : CountTo(T, i) = CountTo(S, i)
  <2>1. ASSUME NEW i \in 0..n PROVE CountTo(T, i) = CountTo(S, i)
    <3>1. \A k \in 1..i : k \in T <=> k \in S
      BY <1>1, <1>5
    <3> QED
      BY <3>1, SameCount
  <2> QED
    BY <2>1
<1>7. \A j \in 0..l : CountTo(T, n + j) = g * l + j
  <2> DEFINE P == {j \in Nat : j <= l => CountTo(T, n + j) = g * l + j}
  <2>0. g * l \in Nat
    BY <1>2
  <2>1. 0 \in P
    <3>1. n + 0 = n /\ g * l + 0 = g * l /\ n \in 0..n
      BY <1>1, <2>0
    <3>2. CountTo(T, n) = g * l
      BY <1>1, <1>6, <3>1
    <3> QED
      BY <3>1, <3>2
  <2>2. ASSUME NEW j \in Nat, j \in P PROVE j + 1 \in P
    <3> SUFFICES ASSUME j + 1 <= l PROVE CountTo(T, n + (j + 1)) = g * l + (j + 1)
      OBVIOUS
    <3>1. j + 1 \in 1..l /\ j <= l /\ n + j \in Nat /\ n + (j + 1) = (n + j) + 1
      BY <1>1, <1>2
    <3>2. n + (j + 1) \in T
      BY <1>5, <3>1
    <3>3. CountTo(T, (n + j) + 1) = CountTo(T, n + j) + 1
      BY <3>1, <3>2, CountOneMore
    <3>4. CountTo(T, n + j) = g * l + j
      BY <2>2, <3>1
    <3> QED
      BY <2>0, <3>1, <3>3, <3>4
  <2> HIDE DEF P
  <2>3. \A j \in Nat : j \in P
    BY <2>1, <2>2, Induction
  <2> QED
    BY <1>2, <2>3 DEF P
<1>8. CountTo(T, n + l) = (g + 1) * l
  <2>1. (g + 1) * l = g * l + l
    BY <1>2
  <2> QED
    BY <1>2, <1>7, <2>1
<1>9. ASSUME NEW i \in T
      PROVE  os2[i] = Group[((CountTo(T, i) - 1) % l) + 1]
  <2>1. CASE i \in 1..n
    <3>1. i \in S /\ CountTo(T, i) = CountTo(S, i) /\ os2[i] = os[i]
      BY <1>3, <1>5, <1>6, <2>1
    <3> QED
      BY <1>1, <3>1
  <2>2. CASE i \notin 1..n
    <3>1. PICK j \in 1..l : i = n + j
      <4>1. i \in 1..n + l
        BY <1>5
      <4>2. i - n \in 1..l /\ i = n + (i - n)
        BY <1>1, <1>2, <2>2, <4>1
      <4> QED
        BY <4>2
    <3>2. CountTo(T, i) = g * l + j
      BY <1>7, <3>1
    <3>3. (CountTo(T, i) - 1) % l = j - 1
      <4>1. ((g * l + j) - 1) % l = j - 1
        BY <1>2, CountStartsAgain
      <4> QED
        BY <3>2, <4>1, Zenon
    <3>4. (j - 1) + 1 = j
      BY <1>2
    <3> QED
      BY <1>3, <3>1, <3>3, <3>4
  <2> QED
    BY <2>1, <2>2
<1> QED
  BY <1>3, <1>4, <1>8, <1>9 DEF FlagsFit, T, os2, fs2, all, l, Joined

-----------------------------------------------------------------------------
(* What happens to a command *)

\* The flags of the options of a command.
Fits(command) ==
  FlagsFit(command.options, command.options_in_groups, command.groups)

\* The option o is found by its names.
Wins(options, o) ==
  \E i \in 1..Len(options) :
    /\ options[i] = o
    /\ \A j \in 1..i - 1 : options[j].long # o.long /\ options[j].short # o.short

\* A command after changes that take nothing away.
Upgrades(old, new) ==
  /\ new \in CommandRecords
  /\ new.path = old.path /\ new.parent_cli = old.parent_cli
  /\ Fits(old) => Fits(new)
  /\ \A o \in Standard : Wins(old.options, o) => Wins(new.options, o)

LEMMA WithOptionShape ==
  ASSUME NEW command \in CommandRecords, NEW o \in AllOptions
  PROVE  LET new == AddOption(command, o)
         IN  /\ new.path = command.path /\ new.parent_cli = command.parent_cli
             /\ new.groups = command.groups
             /\ \/ /\ new.options = <<o>> \o command.options
                   /\ new.options_in_groups = <<FALSE>> \o command.options_in_groups
                \/ /\ o.key \notin {HELP, VERSION}
                   /\ new.options = Append(command.options, o)
                   /\ new.options_in_groups = Append(command.options_in_groups, FALSE)
             /\ new \in CommandRecords
<1> DEFINE new == AddOption(command, o)
           os == command.options
           fs == command.options_in_groups
<1>0. os \in Seq(AllOptions) /\ fs \in Seq(BOOLEAN)
  BY RecordTypes
<1>1. /\ <<o>> \o os \in Seq(AllOptions) /\ Append(os, o) \in Seq(AllOptions)
      /\ <<FALSE>> \o fs \in Seq(BOOLEAN) /\ Append(fs, FALSE) \in Seq(BOOLEAN)
  <2>1. FALSE \in BOOLEAN
    OBVIOUS
  <2> QED
    BY <1>0, <2>1, Prepended, AppendProperties
<1> DEFINE front  == <<o>> \o os
           fronts == <<FALSE>> \o fs
           back   == Append(os, o)
           backs  == Append(fs, FALSE)
<1>2. \/ new = [command EXCEPT !.options = front, !.options_in_groups = fronts]
      \/ /\ o.key \notin {HELP, VERSION}
         /\ new = [command EXCEPT !.options = back, !.options_in_groups = backs]
  BY DEF AddOption
<1>3. /\ front \in Seq(AllOptions) /\ back \in Seq(AllOptions)
      /\ fronts \in Seq(BOOLEAN) /\ backs \in Seq(BOOLEAN)
  BY <1>1
<1> HIDE DEF new, front, fronts, back, backs
<1>4. /\ new.path = command.path /\ new.parent_cli = command.parent_cli
      /\ new.groups = command.groups
      /\ \/ new.options = front /\ new.options_in_groups = fronts
         \/ /\ o.key \notin {HELP, VERSION}
            /\ new.options = back /\ new.options_in_groups = backs
      /\ new \in CommandRecords
  BY <1>2, <1>3 DEF CommandRecords
<1> QED
  BY <1>4 DEF new, front, fronts, back, backs

\* An option of the program leaves the flags with the options.
LEMMA WithOptionFits ==
  ASSUME NEW command \in CommandRecords, NEW o \in AllOptions, Fits(command)
  PROVE  Fits(AddOption(command, o))
<1> DEFINE new == AddOption(command, o)
           os == command.options
           fs == command.options_in_groups
           g == command.groups
<1>1. os \in Seq(AllOptions) /\ fs \in Seq(BOOLEAN) /\ g \in Nat
  BY RecordTypes
<1>2. FlagsFit(os, fs, g)
  BY DEF Fits
<1>3. FlagsFit(<<o>> \o os, <<FALSE>> \o fs, g)
        /\ FlagsFit(Append(os, o), Append(fs, FALSE), g)
  BY <1>1, <1>2, FitInFront, FitAtBack
<1>4. /\ new.groups = g
      /\ \/ new.options = <<o>> \o os /\ new.options_in_groups = <<FALSE>> \o fs
         \/ new.options = Append(os, o)
              /\ new.options_in_groups = Append(fs, FALSE)
  BY WithOptionShape
<1> HIDE DEF new, os, fs, g
<1> QED
  BY <1>3, <1>4, Zenon DEF Fits, new

\* And so does the group.
LEMMA WithOptionsShape ==
  ASSUME NEW command \in CommandRecords
  PROVE  LET new == AddGroup(command)
         IN  /\ new \in CommandRecords
             /\ new.path = command.path /\ new.parent_cli = command.parent_cli
             /\ Fits(command) => Fits(new)
<1> DEFINE new == AddGroup(command)
           os == command.options
           fs == command.options_in_groups
           g == command.groups
           all == [i \in DOMAIN Group |-> TRUE]
<1>1. os \in Seq(AllOptions) /\ fs \in Seq(BOOLEAN) /\ g \in Nat
  BY RecordTypes
<1>2. Group \in Seq(AllOptions) /\ all \in Seq(BOOLEAN)
  <2>1. Group \in Seq(Range(Group))
    BY GroupAssumption
  <2>2. DOMAIN Group = 1..Len(Group) /\ Len(Group) \in Nat
    BY <2>1
  <2>3. Group \in Seq(AllOptions)
    BY <2>1 DEF AllOptions
  <2> QED
    BY <2>2, <2>3
<1> DEFINE more  == os \o Group
           mores == fs \o all
<1>3. more \in Seq(AllOptions) /\ mores \in Seq(BOOLEAN)
  BY <1>1, <1>2, ConcatProperties
<1>4. new = [command EXCEPT !.options = more, !.options_in_groups = mores,
                            !.groups = g + 1]
  BY DEF AddGroup
<1>5. Fits(command) => FlagsFit(more, mores, g + 1)
  BY <1>1, FitGroup DEF Fits
<1> HIDE DEF more, mores, new
<1>6. g + 1 \in Nat
  BY <1>1
<1>7. /\ new.options = more /\ new.options_in_groups = mores
      /\ new.groups = g + 1
      /\ new.path = command.path /\ new.parent_cli = command.parent_cli
      /\ new \in CommandRecords
  BY <1>3, <1>4, <1>6 DEF CommandRecords
<1>8. Fits(command) => Fits(new)
  BY <1>5, <1>7, Zenon DEF Fits
<1> QED
  BY <1>7, <1>8 DEF new

-----------------------------------------------------------------------------
(* The options that Build() makes *)

LEMMA StandardTypes ==
  /\ \A o \in Standard : o \in AllOptions /\ o.key \in {HELP, VERSION}
  /\ \A o, p \in Standard : o # p => o.long # p.long /\ o.short # p.short
  BY DEF AllOptions, Standard, HelpOption, VersionOption, Option, HELP, VERSION

\* What Build() puts to the front wins, over everything that was there; an
\* option of other names wins as before.
LEMMA FrontWins ==
  ASSUME NEW os \in Seq(AllOptions), NEW o \in Standard
  PROVE  /\ Wins(<<o>> \o os, o)
         /\ \A p \in Standard : Wins(os, p) => Wins(<<o>> \o os, p)
<1> DEFINE os2 == <<o>> \o os
<1>0. o \in AllOptions
  BY StandardTypes
<1>1. /\ Len(os2) = Len(os) + 1 /\ os2[1] = o /\ Len(os) \in Nat
      /\ \A i \in 1..Len(os) : os2[i + 1] = os[i]
  BY <1>0, Prepended
<1> HIDE DEF os2
<1>2. Wins(os2, o)
  <2>1. 1 \in 1..Len(os2) /\ 1..1 - 1 = {}
    BY <1>1
  <2> QED
    BY <1>1, <2>1 DEF Wins
<1>3. ASSUME NEW p \in Standard, Wins(os, p) PROVE Wins(os2, p)
  <2>1. CASE p = o
    BY <1>2, <2>1
  <2>2. CASE p # o
    <3>1. PICK i \in 1..Len(os) :
            /\ os[i] = p
            /\ \A j \in 1..i - 1 : os[j].long # p.long /\ os[j].short # p.short
      BY <1>3 DEF Wins
    <3>2. i + 1 \in 1..Len(os2) /\ os2[i + 1] = p /\ (i + 1) - 1 = i
      BY <1>1, <3>1
    <3>3. ASSUME NEW j \in 1..i PROVE os2[j].long # p.long /\ os2[j].short # p.short
      <4>1. CASE j = 1
        BY <1>1, <2>2, <4>1, StandardTypes
      <4>2. CASE j # 1
        <5>1. j - 1 \in 1..Len(os) /\ j - 1 \in 1..i - 1 /\ (j - 1) + 1 = j
          BY <1>1, <4>2
        <5>2. os2[j] = os[j - 1]
          BY <1>1, <5>1
        <5> QED
          BY <3>1, <5>1, <5>2
      <4> QED
        BY <4>1, <4>2
    <3> QED
      BY <3>2, <3>3 DEF Wins
  <2> QED
    BY <2>1, <2>2
<1> QED
  BY <1>2, <1>3 DEF os2

LEMMA UpgradesReflexive ==
  ASSUME NEW command \in CommandRecords
  PROVE  Upgrades(command, command)
  BY DEF Upgrades

LEMMA UpgradesTransitive ==
  ASSUME NEW a, NEW b, NEW c, Upgrades(a, b), Upgrades(b, c)
  PROVE  Upgrades(a, c)
  BY DEF Upgrades

LEMMA StandardUpgrades ==
  ASSUME NEW command \in CommandRecords, NEW o \in Standard
  PROVE  /\ Upgrades(command, AddOption(command, o))
         /\ Wins(AddOption(command, o).options, o)
<1> DEFINE new == AddOption(command, o)
<1>1. o \in AllOptions /\ o.key \in {HELP, VERSION}
  BY StandardTypes
<1>2. /\ new.path = command.path /\ new.parent_cli = command.parent_cli
      /\ new.options = <<o>> \o command.options
      /\ new \in CommandRecords
  BY <1>1, WithOptionShape
<1>3. Fits(command) => Fits(new)
  BY <1>1, WithOptionFits
<1>4. command.options \in Seq(AllOptions)
  BY RecordTypes
<1>5. /\ Wins(<<o>> \o command.options, o)
      /\ \A p \in Standard :
           Wins(command.options, p) => Wins(<<o>> \o command.options, p)
  BY <1>4, FrontWins
<1> HIDE DEF new
<1>6. /\ Wins(new.options, o)
      /\ \A p \in Standard : Wins(command.options, p) => Wins(new.options, p)
  BY <1>2, <1>5, Zenon
<1> QED
  BY <1>2, <1>3, <1>6 DEF Upgrades, new

\* What Build() promises for the options of a command.
Served(cli, options, default) ==
  /\ cli.help => Wins(options, HelpOption)
  /\ cli.version /\ default => Wins(options, VersionOption)

LEMMA UpgradedIsServed ==
  ASSUME NEW cli, NEW command \in CommandRecords, NEW default
  PROVE  /\ Upgrades(command, Upgraded(cli, command, default))
         /\ Served(cli, Upgraded(cli, command, default).options, default)
<1> DEFINE helped == IF cli.help THEN AddOption(command, HelpOption) ELSE command
           new == IF cli.version /\ default THEN AddOption(helped, VersionOption)
                    ELSE helped
<1>0. HelpOption \in Standard /\ VersionOption \in Standard
  BY DEF Standard
<1>1. Upgrades(command, helped) /\ (cli.help => Wins(helped.options, HelpOption))
  BY <1>0, StandardUpgrades, UpgradesReflexive
<1> HIDE DEF helped
<1>2. helped \in CommandRecords
  BY <1>1 DEF Upgrades
<1>3. /\ Upgrades(helped, new)
      /\ cli.version /\ default => Wins(new.options, VersionOption)
  BY <1>0, <1>2, StandardUpgrades, UpgradesReflexive
<1> HIDE DEF new
<1>4. Upgrades(command, new)
  BY <1>1, <1>3, UpgradesTransitive
<1>5. cli.help => Wins(new.options, HelpOption)
  BY <1>0, <1>1, <1>3 DEF Upgrades
<1>6. new = Upgraded(cli, command, default)
  BY DEF new, helped, Upgraded
<1> QED
  BY <1>3, <1>4, <1>5, <1>6 DEF Served

\* What is served stays served.
LEMMA ServedStays ==
  ASSUME NEW cli, NEW old, NEW new, NEW default,
         Served(cli, old.options, default), Upgrades(old, new)
  PROVE  Served(cli, new.options, default)
  BY DEF Served, Upgrades, Standard

-----------------------------------------------------------------------------
(* The loop of Build() over the commands of the Cli *)

\* One round of it.
Round(cli, cs, n) ==
  [cs EXCEPT ![cli.commands[n]] = Upgraded(cli, @, IsDefault(cli.commands[n]))]

\* f has the commands after the first k rounds, for k up to m.
Rounds(cli, f, m) ==
  f = [n \in 0..m |-> IF n = 0 THEN commands ELSE Round(cli, f[n - 1], n)]

LEMMA RoundsAt ==
  ASSUME NEW cli, NEW m \in Nat, NEW f, Rounds(cli, f, m)
  PROVE  /\ f[0] = commands
         /\ \A n \in 0..m : n # 0 => f[n] = Round(cli, f[n - 1], n)
<1>1. \A n \in 0..m : f[n] = IF n = 0 THEN commands ELSE Round(cli, f[n - 1], n)
  BY DEF Rounds
<1> QED
  BY <1>1

LEMMA RoundsExist ==
  ASSUME NEW cli, NEW m \in Nat
  PROVE  \E f : Rounds(cli, f, m)
<1> DEFINE T == {k \in Nat : \E f : Rounds(cli, f, k)}
<1>1. 0 \in T
  <2>1. Rounds(cli, [k \in 0..0 |-> commands], 0)
    BY DEF Rounds
  <2> QED
    BY <2>1
<1>2. ASSUME NEW k \in Nat, k \in T PROVE k + 1 \in T
  <2>1. PICK f : Rounds(cli, f, k)
    BY <1>2
  <2> DEFINE g == [n \in 0..k + 1 |-> IF n = k + 1 THEN Round(cli, f[k], k + 1) ELSE f[n]]
             Next_(n) == IF n = 0 THEN commands ELSE Round(cli, g[n - 1], n)
  <2>2. ASSUME NEW n \in 0..k + 1 PROVE g[n] = Next_(n)
    <3>1. CASE n = k + 1
      <4>1. g[n] = Round(cli, f[k], k + 1)
        BY <3>1
      <4>2. g[k] = f[k]
        OBVIOUS
      <4>3. n - 1 = k /\ n # 0
        BY <3>1
      <4> HIDE DEF g
      <4> QED
        BY <3>1, <4>1, <4>2, <4>3
    <3>2. CASE n \in 0..k
      <4>1. g[n] = f[n] /\ (n # 0 => g[n - 1] = f[n - 1])
        BY <3>2
      <4> HIDE DEF g
      <4> QED
        BY <2>1, <3>2, <4>1, RoundsAt
    <3> QED
      BY <3>1, <3>2
  <2>3. g = [n \in 0..k + 1 |-> g[n]]
    OBVIOUS
  <2> HIDE DEF g
  <2>4. g = [n \in 0..k + 1 |-> Next_(n)]
    BY <2>2, <2>3
  <2>5. Rounds(cli, g, k + 1)
    BY <2>4 DEF Rounds
  <2> QED
    BY <2>5
<1> HIDE DEF T
<1>3. \A k \in Nat : k \in T
  BY <1>1, <1>2, Induction
<1> QED
  BY <1>3 DEF T

\* AllUpgraded is what the rounds lead to.
LEMMA AllUpgradedByRounds ==
  ASSUME NEW cli, Len(cli.commands) \in Nat, cli.help \/ cli.version
  PROVE  \E f : Rounds(cli, f, Len(cli.commands)) /\ AllUpgraded(cli) = f[Len(cli.commands)]
<1> DEFINE m == Len(cli.commands)
           after == CHOOSE f : Rounds(cli, f, m)
<1>1. Rounds(cli, after, m)
  BY RoundsExist
<1>2. AllUpgraded(cli) = after[m]
  BY DEF AllUpgraded, Rounds, Round
<1> QED
  BY <1>1, <1>2

\* One round upgrades one command.
LEMMA RoundUpgrades ==
  ASSUME NEW cli, NEW n, NEW cs \in Seq(CommandRecords),
         cli.commands[n] \in 1..Len(cs)
  PROVE  LET c == cli.commands[n]
             new == Round(cli, cs, n)
         IN  /\ new \in Seq(CommandRecords) /\ Len(new) = Len(cs)
             /\ \A d \in 1..Len(cs) : Upgrades(cs[d], new[d])
             /\ Served(cli, new[c].options, IsDefault(c))
<1> DEFINE c == cli.commands[n]
           changed == Upgraded(cli, cs[c], IsDefault(c))
           new == Round(cli, cs, n)
<1>1. Len(cs) \in Nat /\ \A d \in 1..Len(cs) : cs[d] \in CommandRecords
  OBVIOUS
<1>2. /\ Upgrades(cs[c], changed)
      /\ Served(cli, changed.options, IsDefault(c))
  BY <1>1, UpgradedIsServed
<1>3. new = [cs EXCEPT ![c] = changed]
  BY DEF Round
<1>4. changed \in CommandRecords
  BY <1>2 DEF Upgrades
<1> HIDE DEF changed, new, c
<1>5. c \in 1..Len(cs)
  BY DEF c
<1>6. /\ new \in Seq(CommandRecords) /\ Len(new) = Len(cs)
      /\ new[c] = changed
      /\ \A d \in 1..Len(cs) : d # c => new[d] = cs[d]
  BY <1>3, <1>4, <1>5, ExceptSeq
<1>7. ASSUME NEW d \in 1..Len(cs) PROVE Upgrades(cs[d], new[d])
  <2>1. CASE d = c
    BY <1>2, <1>6, <2>1
  <2>2. CASE d # c
    BY <1>1, <1>6, <2>2, UpgradesReflexive
  <2> QED
    BY <2>1, <2>2
<1>8. Served(cli, new[c].options, IsDefault(c))
  BY <1>2, <1>6, Zenon
<1> QED
  BY <1>6, <1>7, <1>8 DEF new, c

\* After all rounds every command is what it was, with the options that it is
\* to have in this Cli.
LEMMA AllUpgradedServes ==
  ASSUME Types, NEW b \in Builders
  PROVE  LET cs == AllUpgraded(clis[b])
         IN  /\ cs \in Seq(CommandRecords) /\ Len(cs) = Len(commands)
             /\ \A c \in 1..Len(commands) :
                  /\ Upgrades(commands[c], cs[c])
                  /\ c \in CommandsOf(b) =>
                       Served(clis[b], cs[c].options, IsDefault(c))
<1> DEFINE cli == clis[b]
           cs == AllUpgraded(cli)
           m == Len(cli.commands)
           N == Len(commands)
<1>1. commands \in Seq(CommandRecords) /\ N \in Nat
        /\ \A c \in 1..N : commands[c] \in CommandRecords
  BY DEF Types
<1>2. /\ cli.commands \in Seq(1..N) /\ m \in Nat
      /\ \A i \in 1..m : cli.commands[i] \in 1..N
  <2>1. cli \in CliRecords(N)
    BY DEF Types
  <2> HIDE DEF cli, N
  <2> QED
    BY <1>1, <2>1, CliTypes
<1>3. CASE ~(cli.help \/ cli.version)
  <2>1. cs = commands
    BY <1>3 DEF AllUpgraded
  <2>2. \A c \in 1..N : Upgrades(commands[c], cs[c])
    BY <1>1, <2>1, UpgradesReflexive
  <2>3. \A c \in 1..N : Served(cli, cs[c].options, IsDefault(c))
    BY <1>3 DEF Served
  <2> QED
    BY <1>1, <2>1, <2>2, <2>3
<1>4. CASE cli.help \/ cli.version
  <2>1. PICK f : Rounds(cli, f, m) /\ cs = f[m]
    BY <1>2, <1>4, AllUpgradedByRounds
  <2> DEFINE Good(n) ==
               /\ f[n] \in Seq(CommandRecords) /\ Len(f[n]) = N
               /\ \A c \in 1..N : Upgrades(commands[c], f[n][c])
               /\ \A i \in 1..n :
                    Served(cli, f[n][cli.commands[i]].options, IsDefault(cli.commands[i]))
             T == {n \in Nat : n <= m => Good(n)}
  <2>2. f[0] = commands /\ \A n \in 0..m : n # 0 => f[n] = Round(cli, f[n - 1], n)
    BY <1>2, <2>1, RoundsAt
  <2>3. 0 \in T
    <3>1. 1..0 = {}
      OBVIOUS
    <3> QED
      BY <1>1, <2>2, <3>1, UpgradesReflexive
  <2>4. ASSUME NEW n \in Nat, n \in T PROVE n + 1 \in T
    <3> SUFFICES ASSUME n + 1 <= m PROVE Good(n + 1)
      OBVIOUS
    <3>1. Good(n) /\ n + 1 \in 1..m /\ n + 1 \in 0..m /\ n + 1 # 0 /\ (n + 1) - 1 = n
      BY <1>2, <2>4
    <3> DEFINE old == f[n]
               new == f[n + 1]
               c == cli.commands[n + 1]
    <3>2. new = Round(cli, old, n + 1)
      BY <2>2, <3>1
    <3>3. /\ old \in Seq(CommandRecords) /\ Len(old) = N
          /\ \A d \in 1..N : Upgrades(commands[d], old[d])
          /\ \A i \in 1..n :
               Served(cli, old[cli.commands[i]].options, IsDefault(cli.commands[i]))
      BY <3>1
    <3>4. c \in 1..N
      BY <1>2, <3>1
    <3> HIDE DEF new, old, cli, N, m
    <3>5. /\ new \in Seq(CommandRecords) /\ Len(new) = N
          /\ \A d \in 1..N : Upgrades(old[d], new[d])
          /\ Served(cli, new[c].options, IsDefault(c))
      BY <3>2, <3>3, <3>4, RoundUpgrades
    <3>6. \A d \in 1..N : Upgrades(commands[d], new[d])
      BY <3>3, <3>5, UpgradesTransitive
    <3>7. ASSUME NEW i \in 1..n + 1
          PROVE  Served(cli, new[cli.commands[i]].options, IsDefault(cli.commands[i]))
      <4>1. CASE i = n + 1
        BY <3>5, <4>1
      <4>2. CASE i # n + 1
        <5>1. i \in 1..n /\ cli.commands[i] \in 1..N
          BY <1>2, <3>1, <4>2 DEF m
        <5> QED
          BY <3>3, <3>5, <5>1, ServedStays
      <4> QED
        BY <4>1, <4>2
    <3> QED
      BY <3>5, <3>6, <3>7 DEF new
  <2> HIDE DEF T
  <2>5. m \in T
    <3>1. \A n \in Nat : n \in T
      BY <2>3, <2>4, Induction
    <3> QED
      BY <1>2, <3>1
  <2>6. Good(m)
    BY <1>2, <2>5 DEF T
  <2>7. ASSUME NEW c \in 1..N, c \in CommandsOf(b)
        PROVE  Served(cli, cs[c].options, IsDefault(c))
    <3>1. PICK i \in 1..m : cli.commands[i] = c
      BY <1>2, <2>7, InRange DEF CommandsOf
    <3> QED
      BY <2>1, <2>6, <3>1
  <2> QED
    BY <2>1, <2>6, <2>7
<1> QED
  BY <1>3, <1>4

-----------------------------------------------------------------------------
(* The invariant *)

AllFit == \A c \in DOMAIN commands : Fits(commands[c])

\* The command that is being made is in no Cli and not with the program yet;
\* the program names what it makes.
InUse ==
  /\ command_ # 0 =>
       command_ \notin built /\ \A b \in Builders : command_ \notin CommandsOf(b)
  /\ \A c \in built \cup {command_} : c # 0 => commands[c].path \in Paths

Legal == \A c \in DOMAIN commands : ~IsIllegal(commands[c].path)

HasPath(b, path) == \E c \in CommandsOf(b) : commands[c].path = path

\* The flags of a Cli say whether it has a help and a version command.
FlagsTrue ==
  \A b \in Builders : /\ clis[b].help <=> HasPath(b, <<HELP>>)
                      /\ clis[b].version <=> HasPath(b, <<VERSION>>)

HasDefault ==
  \A b \in Builders : owner[b] # "builder" /\ (clis[b].help \/ clis[b].version) =>
    HasPath(b, <<DEFAULT>>)

DefaultsFirst ==
  \A b \in Builders : \A i, j \in DOMAIN clis[b].commands :
    IsDefault(clis[b].commands[j]) /\ i < j => IsDefault(clis[b].commands[i])

\* After Build() the commands of a Cli have its options, for ever.
AllServed ==
  \A b \in Builders : \A c \in CommandsOf(b) : owner[b] # "builder" =>
    Served(clis[b], commands[c].options, IsDefault(c))

\* A command points to a Cli that was built and that has it.
ParentsOwn ==
  \A c \in DOMAIN commands : commands[c].parent_cli # NoCli =>
    /\ owner[commands[c].parent_cli] # "builder"
    /\ c \in CommandsOf(commands[c].parent_cli)

\* The commands of a Cli that was built point to some Cli.
Adopted ==
  \A b \in Builders : \A c \in CommandsOf(b) : owner[b] # "builder" =>
    commands[c].parent_cli # NoCli

PathParts  == Legal /\ FlagsTrue /\ HasDefault /\ DefaultsFirst
OwnerParts == AllServed /\ ParentsOwn /\ Adopted

IInv == Types /\ AllFit /\ InUse /\ PathParts /\ OwnerParts

LEMMA TypesOpened ==
  ASSUME Types
  PROVE  /\ Len(commands) \in Nat /\ DOMAIN commands = 1..Len(commands)
         /\ \A c \in 1..Len(commands) :
              /\ commands[c] \in CommandRecords
              /\ commands[c].path \in AllPaths
              /\ commands[c].parent_cli \in {NoCli} \cup Builders
         /\ \A b \in Builders :
              /\ clis[b] \in CliRecords(Len(commands))
              /\ clis[b].commands \in Seq(1..Len(commands))
              /\ DOMAIN clis[b].commands = 1..Len(clis[b].commands)
              /\ CommandsOf(b) \subseteq 1..Len(commands)
         /\ command_ \in 0..Len(commands) /\ built \subseteq 0..Len(commands)
<1>1. Len(commands) \in Nat /\ DOMAIN commands = 1..Len(commands)
        /\ \A c \in 1..Len(commands) : commands[c] \in CommandRecords
  BY DEF Types
<1>2. ASSUME NEW c \in 1..Len(commands)
      PROVE  /\ commands[c].path \in AllPaths
             /\ commands[c].parent_cli \in {NoCli} \cup Builders
  BY <1>1, RecordTypes
<1>3. ASSUME NEW b \in Builders
      PROVE  /\ clis[b] \in CliRecords(Len(commands))
             /\ clis[b].commands \in Seq(1..Len(commands))
             /\ DOMAIN clis[b].commands = 1..Len(clis[b].commands)
             /\ CommandsOf(b) \subseteq 1..Len(commands)
  <2>1. clis[b] \in CliRecords(Len(commands))
    BY DEF Types
  <2>2. clis[b].commands \in Seq(1..Len(commands))
    BY <1>1, <2>1, CliTypes
  <2> QED
    BY <2>1, <2>2 DEF CommandsOf, Range
<1> QED
  BY <1>1, <1>2, <1>3 DEF Types

\* The names of the commands that a Cli adds itself.
LEMMA OwnPaths ==
  /\ <<HELP>> # <<DEFAULT>> /\ <<VERSION>> # <<DEFAULT>> /\ <<HELP>> # <<VERSION>>
  /\ ~IsIllegal(<<HELP>>) /\ ~IsIllegal(<<VERSION>>)
  /\ <<HELP>> \notin Paths /\ <<VERSION>> \notin Paths
<1>1. /\ <<HELP>> # <<DEFAULT>> /\ <<VERSION>> # <<DEFAULT>>
      /\ <<HELP>> # <<VERSION>>
  BY DEF HELP, VERSION, DEFAULT
<1>2. Len(<<HELP>>) = 1 /\ Len(<<VERSION>>) = 1
  OBVIOUS
<1>3. ~IsIllegal(<<HELP>>) /\ ~IsIllegal(<<VERSION>>)
  BY <1>2 DEF IsIllegal
<1> QED
  BY <1>1, <1>3, PathsAssumption

\* The path of the default command that Build() wants to make is refused.
LEMMA DefaultPathIsIllegal == IsIllegal(DefaultPath)
<1>1. Len(<<ProgramName, DEFAULT>>) = 2 /\ <<ProgramName, DEFAULT>>[2] = DEFAULT
        /\ 2 \in DOMAIN <<ProgramName, DEFAULT>>
  OBVIOUS
<1> QED
  BY <1>1 DEF IsIllegal, DefaultPath, Range

-----------------------------------------------------------------------------
(* Steps that leave most things alone *)

\* There are at least as many commands as before, and they keep their names.
NamesKept ==
  /\ \A c \in DOMAIN commands : c \in DOMAIN commands'
  /\ \A c \in DOMAIN commands : commands'[c].path = commands[c].path

LEMMA DefaultsKept ==
  ASSUME NamesKept
  PROVE  \A c \in DOMAIN commands : IsDefault(c)' <=> IsDefault(c)
  BY DEF NamesKept, IsDefault

\* The Clis are the same; Build() may have been called for one that has a
\* default command or needs none.
LEMMA PathPartsKept ==
  ASSUME Types, PathParts, NamesKept, UNCHANGED clis,
         \A c \in DOMAIN commands' \ DOMAIN commands : ~IsIllegal(commands'[c].path),
         \A b \in Builders : owner'[b] # "builder" =>
           \/ owner[b] # "builder"
           \/ clis[b].help \/ clis[b].version => HasPath(b, <<DEFAULT>>)
  PROVE  PathParts'
<1>1. \A b \in Builders : /\ CommandsOf(b)' = CommandsOf(b)
                          /\ CommandsOf(b) \subseteq DOMAIN commands
                          /\ \A i \in DOMAIN clis[b].commands :
                               clis[b].commands[i] \in DOMAIN commands
  <2>1. \A b \in Builders : CommandsOf(b)' = CommandsOf(b)
    BY DEF CommandsOf
  <2>2. \A b \in Builders : CommandsOf(b) \subseteq DOMAIN commands
    BY TypesOpened
  <2> QED
    BY <2>1, <2>2 DEF CommandsOf, Range
<1>2. \A b \in Builders : \A path : HasPath(b, path)' <=> HasPath(b, path)
  BY <1>1 DEF HasPath, NamesKept
<1>3. Legal'
  BY DEF PathParts, Legal, NamesKept
<1>4. FlagsTrue'
  BY <1>2 DEF PathParts, FlagsTrue
<1>5. HasDefault'
  BY <1>2 DEF PathParts, HasDefault
<1>6. DefaultsFirst'
  BY <1>1, DefaultsKept DEF PathParts, DefaultsFirst
<1> QED
  BY <1>3, <1>4, <1>5, <1>6 DEF PathParts

\* The Clis that were built are the same, and no other is built; the commands
\* in them lose nothing.
LEMMA OwnerPartsKept ==
  ASSUME Types, OwnerParts, NamesKept,
         \A b \in Builders : owner'[b] # "builder" <=> owner[b] # "builder",
         \A b \in Builders : owner[b] # "builder" => clis'[b] = clis[b],
         \A b \in Builders : \A c \in CommandsOf(b) : owner[b] # "builder" =>
           Upgrades(commands[c], commands'[c]),
         \A c \in DOMAIN commands : commands'[c].parent_cli = commands[c].parent_cli,
         \A c \in DOMAIN commands' \ DOMAIN commands : commands'[c].parent_cli = NoCli
  PROVE  OwnerParts'
<1>1. \A b \in Builders : owner[b] # "builder" => CommandsOf(b)' = CommandsOf(b)
  BY DEF CommandsOf
<1>2. \A b \in Builders : CommandsOf(b) \subseteq DOMAIN commands
  BY TypesOpened
<1>3. AllServed'
  <2> SUFFICES ASSUME NEW b \in Builders, NEW c \in CommandsOf(b)', owner'[b] # "builder"
               PROVE  Served(clis'[b], commands'[c].options, IsDefault(c)')
    BY DEF AllServed
  <2>1. owner[b] # "builder" /\ c \in CommandsOf(b) /\ c \in DOMAIN commands
          /\ clis'[b] = clis[b]
    BY <1>1, <1>2
  <2>2. Served(clis[b], commands[c].options, IsDefault(c))
    BY <2>1 DEF OwnerParts, AllServed
  <2>3. Served(clis[b], commands'[c].options, IsDefault(c))
    BY <2>1, <2>2, ServedStays
  <2>4. IsDefault(c)' <=> IsDefault(c)
    BY <2>1, DefaultsKept
  <2> QED
    BY <2>1, <2>3, <2>4 DEF Served
<1>4. ParentsOwn'
  <2> SUFFICES ASSUME NEW c \in DOMAIN commands', commands'[c].parent_cli # NoCli
               PROVE  /\ owner'[commands'[c].parent_cli] # "builder"
                      /\ c \in Range(clis'[commands'[c].parent_cli].commands)
    BY DEF ParentsOwn, CommandsOf
  <2>1. c \in DOMAIN commands /\ commands'[c].parent_cli = commands[c].parent_cli
    OBVIOUS
  <2>2. commands[c].parent_cli \in Builders
    BY <2>1, TypesOpened
  <2>3. /\ owner[commands[c].parent_cli] # "builder"
        /\ c \in Range(clis[commands[c].parent_cli].commands)
    BY <2>1 DEF OwnerParts, ParentsOwn, CommandsOf
  <2> QED
    BY <2>1, <2>2, <2>3
<1>5. Adopted'
  <2> SUFFICES ASSUME NEW b \in Builders, NEW c \in CommandsOf(b)', owner'[b] # "builder"
               PROVE  commands'[c].parent_cli # NoCli
    BY DEF Adopted
  <2>1. owner[b] # "builder" /\ c \in CommandsOf(b) /\ c \in DOMAIN commands
    BY <1>1, <1>2
  <2> QED
    BY <2>1 DEF OwnerParts, Adopted
<1> QED
  BY <1>3, <1>4, <1>5 DEF OwnerParts

\* Only the outcome changes.
LEMMA DyingKeeps ==
  ASSUME IInv, UNCHANGED <<commands, command_, built, clis, owner, threw>>,
         status' \in {"running", "aborted", "undefined"}
  PROVE  IInv'
<1>1. Types'
  BY DEF IInv, Types
<1>2. AllFit' /\ InUse'
  BY DEF IInv, AllFit, InUse, CommandsOf
<1>3. NamesKept
  BY DEF NamesKept
<1>4. PathParts'
  BY <1>3, PathPartsKept DEF IInv
<1>5. OwnerParts'
  <2>1. \A b \in Builders : \A c \in CommandsOf(b) : Upgrades(commands[c], commands[c])
    BY TypesOpened, UpgradesReflexive DEF IInv
  <2> QED
    BY <1>3, <2>1, OwnerPartsKept DEF IInv
<1> QED
  BY <1>1, <1>2, <1>4, <1>5 DEF IInv

-----------------------------------------------------------------------------
(* Command builders *)

LEMMA EmptyFits == ASSUME NEW path PROVE Fits(Command(path))
<1>1. Group \in Seq(Range(Group))
  BY GroupAssumption
<1>2. Len(Group) \in Nat
  BY <1>1
<1>3. Len(<<>>) = 0 /\ InGroups(<<>>) = {}
  BY DEF InGroups
<1>4. CountTo({}, 0) = 0
  <2>1. {} \cap (1..0) = {} /\ 0 \in Nat
    OBVIOUS
  <2> QED
    BY <2>1, CountIsNatural, Zenon
<1>5. 0 * Len(Group) = 0
  BY <1>2
<1>6. FlagsFit(<<>>, <<>>, 0)
  BY <1>3, <1>4, <1>5 DEF FlagsFit
<1> QED
  BY <1>6 DEF Fits, Command

\* A command that is made.
LEMMA CommandMade ==
  ASSUME Types, NEW path \in AllPaths, commands' = Append(commands, Command(path))
  PROVE  /\ commands' \in Seq(CommandRecords)
         /\ Len(commands') = Len(commands) + 1
         /\ DOMAIN commands' = 1..Len(commands) + 1
         /\ \A c \in 1..Len(commands) : commands'[c] = commands[c]
         /\ commands'[Len(commands) + 1].path = path
         /\ commands'[Len(commands) + 1].parent_cli = NoCli
         /\ Fits(commands'[Len(commands) + 1])
         /\ NamesKept
         /\ \A c \in DOMAIN commands' \ DOMAIN commands : c = Len(commands) + 1
<1> DEFINE new == Command(path)
           n == Len(commands)
<1>1. new \in CommandRecords /\ new.path = path /\ new.parent_cli = NoCli
  <2>1. <<>> \in Seq(AllOptions) /\ <<>> \in Seq(BOOLEAN)
    BY EmptySeq
  <2> QED
    BY <2>1 DEF Command, CommandRecords
<1>2. Fits(new)
  BY EmptyFits
<1>3. commands \in Seq(CommandRecords) /\ DOMAIN commands = 1..n /\ n \in Nat
  BY TypesOpened DEF Types
<1> HIDE DEF new
<1>4. /\ commands' \in Seq(CommandRecords) /\ Len(commands') = n + 1
      /\ \A c \in 1..n : commands'[c] = commands[c]
      /\ commands'[n + 1] = new
  BY <1>1, <1>3, AppendProperties DEF new
<1>5. DOMAIN commands' = 1..n + 1
  BY <1>4
<1> HIDE DEF n
<1>6. NamesKept
  BY <1>3, <1>4, <1>5 DEF NamesKept
<1>7. \A c \in DOMAIN commands' \ DOMAIN commands : c = n + 1
  BY <1>3, <1>5
<1> QED
  BY <1>1, <1>2, <1>4, <1>5, <1>6, <1>7, Zenon DEF n

\* There is room for as much as before.
LEMMA MoreCommands ==
  ASSUME NEW n \in Nat
  PROVE  CliRecords(n) \subseteq CliRecords(n + 1) /\ 0..n \subseteq 0..n + 1
<1>1. Seq(1..n) \subseteq Seq(1..n + 1)
  OBVIOUS
<1> QED
  BY <1>1 DEF CliRecords

\* What a new command does not change.
LEMMA CommandMadeKeeps ==
  ASSUME IInv, NEW path \in AllPaths, commands' = Append(commands, Command(path))
  PROVE  /\ AllFit'
         /\ \A b \in Builders : \A c \in CommandsOf(b) : Upgrades(commands[c], commands'[c])
         /\ \A c \in DOMAIN commands : commands'[c].parent_cli = commands[c].parent_cli
         /\ \A c \in DOMAIN commands' \ DOMAIN commands :
              commands'[c].parent_cli = NoCli /\ commands'[c].path = path
<1>0. Types
  BY DEF IInv
<1>1. /\ Len(commands) \in Nat /\ DOMAIN commands = 1..Len(commands)
      /\ DOMAIN commands' = 1..Len(commands) + 1
      /\ \A c \in DOMAIN commands : commands'[c] = commands[c]
      /\ Fits(commands'[Len(commands) + 1])
      /\ \A c \in DOMAIN commands' \ DOMAIN commands :
           commands'[c].parent_cli = NoCli /\ commands'[c].path = path
  BY <1>0, TypesOpened, CommandMade
<1>2. AllFit'
  <2>1. ASSUME NEW c \in DOMAIN commands' PROVE Fits(commands'[c])
    <3>1. CASE c \in DOMAIN commands
      BY <1>1, <3>1 DEF IInv, AllFit
    <3>2. CASE c \notin DOMAIN commands
      <4>1. c = Len(commands) + 1
        BY <1>1, <3>2
      <4> QED
        BY <1>1, <4>1
    <3> QED
      BY <3>1, <3>2
  <2> QED
    BY <2>1 DEF AllFit, Fits, FlagsFit
<1>3. \A b \in Builders : \A c \in CommandsOf(b) : Upgrades(commands[c], commands'[c])
  BY <1>0, <1>1, TypesOpened, UpgradesReflexive
<1> QED
  BY <1>1, <1>2, <1>3

LEMMA NewCommandBuilderKeeps ==
  ASSUME IInv, NEW path \in Paths, NewCommandBuilder(path)
  PROVE  IInv'
<1>0. Types
  BY DEF IInv
<1>1. CASE IsIllegal(path)
  BY <1>0, <1>1, DyingKeeps DEF NewCommandBuilder, Types
<1>2. CASE ~IsIllegal(path)
  <2> DEFINE n == Len(commands)
  <2>1. /\ commands' = Append(commands, Command(path))
        /\ command_ = 0 /\ command_' = n + 1
        /\ UNCHANGED <<built, clis, owner, threw, status>>
    BY <1>2 DEF NewCommandBuilder
  <2>2. path \in AllPaths
    BY DEF AllPaths
  <2>3. /\ commands' \in Seq(CommandRecords) /\ Len(commands') = n + 1
        /\ DOMAIN commands' = 1..n + 1 /\ commands'[n + 1].path = path
        /\ \A c \in 1..n : commands'[c] = commands[c]
        /\ NamesKept /\ n \in Nat /\ DOMAIN commands = 1..n
        /\ built \subseteq 0..n /\ \A b \in Builders : CommandsOf(b) \subseteq 1..n
    BY <1>0, <2>1, <2>2, CommandMade, TypesOpened
  <2>4. /\ AllFit'
        /\ \A b \in Builders : \A c \in CommandsOf(b) : Upgrades(commands[c], commands'[c])
        /\ \A c \in DOMAIN commands : commands'[c].parent_cli = commands[c].parent_cli
        /\ \A c \in DOMAIN commands' \ DOMAIN commands :
             commands'[c].parent_cli = NoCli /\ commands'[c].path = path
    BY <2>1, <2>2, CommandMadeKeeps
  <2>5. Types'
    <3>1. clis \in [Builders -> CliRecords(n)]
      BY <1>0 DEF Types
    <3> HIDE DEF n
    <3>2. clis' \in [Builders -> CliRecords(n + 1)]
      BY <2>1, <2>3, <3>1, MoreCommands
    <3>3. command_' \in 0..n + 1 /\ built' \subseteq 0..n + 1
      BY <2>1, <2>3, MoreCommands
    <3> QED
      BY <1>0, <2>1, <2>3, <3>2, <3>3 DEF Types
  <2>6. InUse'
    <3>1. n + 1 \notin built /\ \A b \in Builders : n + 1 \notin CommandsOf(b)
      <4> HIDE DEF n
      <4> QED
        BY <2>3
    <3>2. \A c \in built : c # 0 => commands'[c].path \in Paths
      <4>1. \A c \in built : c # 0 => c \in 1..n
        <5> HIDE DEF n
        <5> QED
          BY <2>3
      <4> QED
        BY <2>3, <4>1 DEF IInv, InUse
    <3> QED
      BY <2>1, <2>3, <3>1, <3>2 DEF InUse, CommandsOf
  <2>7. PathParts'
    BY <1>0, <1>2, <2>1, <2>3, <2>4, PathPartsKept DEF IInv
  <2>8. OwnerParts'
    BY <1>0, <2>1, <2>3, <2>4, OwnerPartsKept DEF IInv
  <2> QED
    BY <2>4, <2>5, <2>6, <2>7, <2>8 DEF IInv
<1> QED
  BY <1>1, <1>2

\* The command that a command builder is making changes; no Cli has it.
LEMMA ChangeCommandKeeps ==
  ASSUME IInv, command_ # 0, NEW changed \in CommandRecords,
         changed.path = commands[command_].path,
         changed.parent_cli = commands[command_].parent_cli,
         Fits(commands[command_]) => Fits(changed),
         ChangeCommand(changed)
  PROVE  IInv'
<1>0. Types
  BY DEF IInv
<1>1. /\ commands' = [commands EXCEPT ![command_] = changed]
      /\ UNCHANGED <<command_, built, clis, owner, threw, status>>
  BY DEF ChangeCommand
<1>2. command_ \in 1..Len(commands) /\ DOMAIN commands = 1..Len(commands)
        /\ commands \in Seq(CommandRecords)
  BY <1>0, TypesOpened DEF Types
<1>3. /\ commands' \in Seq(CommandRecords) /\ Len(commands') = Len(commands)
      /\ DOMAIN commands' = DOMAIN commands
      /\ commands'[command_] = changed
      /\ \A c \in DOMAIN commands : c # command_ => commands'[c] = commands[c]
  BY <1>1, <1>2, ExceptSeq
<1>4. \A c \in DOMAIN commands : /\ commands'[c].path = commands[c].path
                                 /\ commands'[c].parent_cli = commands[c].parent_cli
  BY <1>3
<1>5. Types'
  BY <1>0, <1>1, <1>3 DEF Types
<1>6. AllFit'
  <2>1. \A c \in DOMAIN commands : Fits(commands'[c])
    BY <1>2, <1>3 DEF IInv, AllFit
  <2> QED
    BY <1>3, <2>1 DEF AllFit, Fits, FlagsFit
<1>7. InUse'
  <2>1. \A c \in built \cup {command_} : c # 0 => c \in DOMAIN commands
    BY <1>0, TypesOpened
  <2> QED
    BY <1>1, <1>4, <2>1 DEF IInv, InUse, CommandsOf
<1>8. NamesKept
  BY <1>3, <1>4 DEF NamesKept
<1>9. PathParts'
  BY <1>0, <1>1, <1>3, <1>8, PathPartsKept DEF IInv
<1>10. OwnerParts'
  <2>1. ASSUME NEW b \in Builders, NEW c \in CommandsOf(b)
        PROVE  Upgrades(commands[c], commands'[c])
    <3>1. c # command_ /\ c \in DOMAIN commands /\ commands[c] \in CommandRecords
      BY <1>0, TypesOpened DEF IInv, InUse
    <3> QED
      BY <1>3, <3>1, UpgradesReflexive
  <2> QED
    BY <1>0, <1>1, <1>3, <1>4, <1>8, <2>1, OwnerPartsKept DEF IInv
<1> QED
  BY <1>5, <1>6, <1>7, <1>9, <1>10 DEF IInv

LEMMA MisusedKeeps == ASSUME IInv, Misused PROVE IInv'
  BY DyingKeeps DEF Misused, Die

LEMMA WithOptionKeeps ==
  ASSUME IInv, NEW o \in OptionsOfProgram, WithOption(o)
  PROVE  IInv'
<1>1. CASE command_ = 0
  BY <1>1, MisusedKeeps DEF WithOption
<1>2. CASE command_ # 0
  <2>1. commands[command_] \in CommandRecords
    BY <1>2, TypesOpened DEF IInv
  <2>2. o \in AllOptions
    BY DEF AllOptions
  <2> DEFINE changed == AddOption(commands[command_], o)
  <2>3. /\ changed \in CommandRecords
        /\ changed.path = commands[command_].path
        /\ changed.parent_cli = commands[command_].parent_cli
    BY <2>1, <2>2, WithOptionShape
  <2>4. Fits(commands[command_]) => Fits(changed)
    BY <2>1, <2>2, WithOptionFits
  <2>5. ChangeCommand(changed)
    BY <1>2 DEF WithOption
  <2> HIDE DEF changed
  <2> QED
    BY <1>2, <2>3, <2>4, <2>5, ChangeCommandKeeps
<1> QED
  BY <1>1, <1>2

LEMMA WithOptionsKeeps == ASSUME IInv, WithOptions PROVE IInv'
<1>1. CASE command_ = 0
  BY <1>1, MisusedKeeps DEF WithOptions
<1>2. CASE command_ # 0
  <2>1. commands[command_] \in CommandRecords
    BY <1>2, TypesOpened DEF IInv
  <2> DEFINE changed == AddGroup(commands[command_])
  <2>2. /\ changed \in CommandRecords
        /\ changed.path = commands[command_].path
        /\ changed.parent_cli = commands[command_].parent_cli
        /\ Fits(commands[command_]) => Fits(changed)
    BY <2>1, WithOptionsShape
  <2>3. ChangeCommand(changed)
    BY <1>2 DEF WithOptions
  <2> HIDE DEF changed
  <2> QED
    BY <1>2, <2>2, <2>3, ChangeCommandKeeps
<1> QED
  BY <1>1, <1>2

LEMMA WithPositionalArgumentsKeeps ==
  ASSUME IInv, WithPositionalArguments PROVE IInv'
<1>1. CASE command_ = 0
  BY <1>1, DyingKeeps DEF WithPositionalArguments, Die
<1>2. CASE command_ # 0
  BY <1>2, DyingKeeps DEF WithPositionalArguments, vars, IInv, Types
<1> QED
  BY <1>1, <1>2

\* The program gets the command; from now on it can go into a Cli, but no
\* command builder has it.
LEMMA BuildCommandKeeps == ASSUME IInv, BuildCommand PROVE IInv'
<1>0. Types
  BY DEF IInv
<1>1. /\ built' = built \cup {command_} /\ command_' = 0
      /\ UNCHANGED <<commands, clis, owner, threw, status>>
  BY DEF BuildCommand
<1>2. Types'
  BY <1>0, <1>1 DEF Types
<1>3. AllFit' /\ InUse'
  BY <1>1 DEF IInv, AllFit, InUse, CommandsOf
<1>4. NamesKept
  BY <1>1 DEF NamesKept
<1>5. PathParts'
  BY <1>0, <1>1, <1>4, PathPartsKept DEF IInv
<1>6. OwnerParts'
  <2>1. \A b \in Builders : \A c \in CommandsOf(b) : Upgrades(commands[c], commands[c])
    BY <1>0, TypesOpened, UpgradesReflexive
  <2> QED
    BY <1>0, <1>1, <1>4, <2>1, OwnerPartsKept DEF IInv
<1> QED
  BY <1>2, <1>3, <1>5, <1>6 DEF IInv

-----------------------------------------------------------------------------
(* Cli builders *)

\* The members of D come first in s.
FirstIn(s, D) == \A i, j \in DOMAIN s : s[j] \in D /\ i < j => s[i] \in D

LEMMA PlacedInFront ==
  ASSUME NEW S, NEW s \in Seq(S), NEW c \in S, NEW D, c \in D, FirstIn(s, D)
  PROVE  /\ <<c>> \o s \in Seq(S)
         /\ Range(<<c>> \o s) = Range(s) \cup {c}
         /\ FirstIn(<<c>> \o s, D)
<1> DEFINE t == <<c>> \o s
           n == Len(s)
<1>1. /\ t \in Seq(S) /\ Len(t) = n + 1 /\ t[1] = c /\ n \in Nat
      /\ \A i \in 1..n : t[i + 1] = s[i]
  BY Prepended
<1>2. DOMAIN s = 1..n
  OBVIOUS
<1> HIDE DEF t, n
<1>3. DOMAIN t = 1..n + 1
  BY <1>1
<1>4. \A i \in 1..n + 1 : i # 1 => i - 1 \in 1..n /\ t[i] = s[i - 1]
  <2>1. ASSUME NEW i \in 1..n + 1, i # 1 PROVE i - 1 \in 1..n /\ t[i] = s[i - 1]
    <3>1. i - 1 \in 1..n /\ (i - 1) + 1 = i
      BY <1>1, <2>1
    <3> QED
      BY <1>1, <3>1
  <2> QED
    BY <2>1
<1>5. Range(t) = Range(s) \cup {c}
  <2>1. ASSUME NEW i \in 1..n + 1 PROVE t[i] \in Range(s) \cup {c}
    <3>1. CASE i = 1
      BY <1>1, <3>1
    <3>2. CASE i # 1
      BY <1>2, <1>4, <3>2 DEF Range
    <3> QED
      BY <3>1, <3>2
  <2>2. c \in Range(t)
    <3>1. 1 \in 1..n + 1
      BY <1>1
    <3> QED
      BY <1>1, <1>3, <3>1 DEF Range
  <2>3. ASSUME NEW i \in 1..n PROVE s[i] \in Range(t)
    <3>1. i + 1 \in 1..n + 1 /\ t[i + 1] = s[i]
      BY <1>1
    <3> QED
      BY <1>3, <3>1 DEF Range
  <2> QED
    BY <1>2, <1>3, <2>1, <2>2, <2>3 DEF Range
<1>6. FirstIn(t, D)
  <2> SUFFICES ASSUME NEW i \in 1..n + 1, NEW j \in 1..n + 1, t[j] \in D, i < j
               PROVE  t[i] \in D
    BY <1>3 DEF FirstIn
  <2>1. CASE i = 1
    BY <1>1, <2>1
  <2>2. CASE i # 1
    <3>1. j # 1 /\ i - 1 < j - 1
      BY <1>1, <2>2
    <3> QED
      BY <1>2, <1>4, <2>2, <3>1 DEF FirstIn
  <2> QED
    BY <2>1, <2>2
<1> QED
  BY <1>1, <1>5, <1>6 DEF t

LEMMA PlacedAtBack ==
  ASSUME NEW S, NEW s \in Seq(S), NEW c \in S, NEW D, c \notin D, FirstIn(s, D)
  PROVE  /\ Append(s, c) \in Seq(S)
         /\ Range(Append(s, c)) = Range(s) \cup {c}
         /\ FirstIn(Append(s, c), D)
<1> DEFINE t == Append(s, c)
           n == Len(s)
<1>1. /\ t \in Seq(S) /\ Len(t) = n + 1 /\ t[n + 1] = c /\ n \in Nat
      /\ \A i \in 1..n : t[i] = s[i]
  BY AppendProperties
<1>2. DOMAIN s = 1..n
  OBVIOUS
<1> HIDE DEF t, n
<1>3. DOMAIN t = 1..n + 1
  BY <1>1
<1>4. \A i \in 1..n + 1 : i \in 1..n \/ i = n + 1
  BY <1>1
<1>5. Range(t) = Range(s) \cup {c}
  <2>1. \A e \in Range(t) : e \in Range(s) \cup {c}
    BY <1>1, <1>2, <1>3, <1>4 DEF Range
  <2>2. n + 1 \in 1..n + 1 /\ \A i \in 1..n : i \in 1..n + 1
    BY <1>1
  <2> QED
    BY <1>1, <1>2, <1>3, <2>1, <2>2 DEF Range
<1>6. FirstIn(t, D)
  <2> SUFFICES ASSUME NEW i \in 1..n + 1, NEW j \in 1..n + 1, t[j] \in D, i < j
               PROVE  t[i] \in D
    BY <1>3 DEF FirstIn
  <2>1. j \in 1..n
    BY <1>1, <1>4
  <2>2. i \in 1..n
    BY <1>1, <2>1
  <2> QED
    BY <1>1, <1>2, <2>1, <2>2 DEF FirstIn
<1> QED
  BY <1>1, <1>5, <1>6 DEF t

\* The default commands.
Defaults == {c \in DOMAIN commands : IsDefault(c)}

LEMMA DefaultsFirstIn ==
  Types => (DefaultsFirst <=> \A b \in Builders : FirstIn(clis[b].commands, Defaults))
<1> SUFFICES ASSUME Types
             PROVE  DefaultsFirst <=> \A b \in Builders : FirstIn(clis[b].commands, Defaults)
  OBVIOUS
<1>1. \A b \in Builders : \A i \in DOMAIN clis[b].commands :
        clis[b].commands[i] \in DOMAIN commands
  <2>1. \A b \in Builders : CommandsOf(b) \subseteq DOMAIN commands
    BY TypesOpened
  <2> QED
    BY <2>1 DEF CommandsOf, Range
<1> QED
  BY <1>1 DEF DefaultsFirst, FirstIn, Defaults

LEMMA DefaultsFirstInNext ==
  (Types => (DefaultsFirst <=> \A b \in Builders : FirstIn(clis[b].commands, Defaults)))'
  BY DefaultsFirstIn, PTL

\* A Cli that is not built yet gets the command c, and a flag when c is its
\* help or version command.
LEMMA CliGrows ==
  ASSUME Types, PathParts, NamesKept, Types', NEW b \in Builders,
         owner[b] = "builder", UNCHANGED owner,
         NEW new, clis' = [clis EXCEPT ![b] = new],
         \A d \in DOMAIN commands' \ DOMAIN commands : ~IsIllegal(commands'[d].path),
         NEW c \in DOMAIN commands', Range(new.commands) = CommandsOf(b) \cup {c},
         new.help <=> clis[b].help \/ commands'[c].path = <<HELP>>,
         new.version <=> clis[b].version \/ commands'[c].path = <<VERSION>>,
         FirstIn(new.commands, Defaults'), FirstIn(clis[b].commands, Defaults')
  PROVE  PathParts'
<1>1. clis'[b] = new /\ \A a \in Builders : a # b => clis'[a] = clis[a]
  BY DEF Types
<1>2. \A a \in Builders : CommandsOf(a) \subseteq DOMAIN commands
  BY TypesOpened
<1>3. /\ CommandsOf(b)' = CommandsOf(b) \cup {c}
      /\ \A a \in Builders : a # b => CommandsOf(a)' = CommandsOf(a)
  BY <1>1 DEF CommandsOf
<1>4. \A path : HasPath(b, path)' <=> HasPath(b, path) \/ commands'[c].path = path
  BY <1>2, <1>3 DEF HasPath, NamesKept
<1>5. \A a \in Builders : a # b => \A path : HasPath(a, path)' <=> HasPath(a, path)
  BY <1>2, <1>3 DEF HasPath, NamesKept
<1>6. Legal'
  BY DEF PathParts, Legal, NamesKept
<1>7. FlagsTrue'
  <2>1. ASSUME NEW a \in Builders
        PROVE  /\ clis'[a].help <=> HasPath(a, <<HELP>>)'
               /\ clis'[a].version <=> HasPath(a, <<VERSION>>)'
    <3>1. CASE a = b
      BY <1>1, <1>4, <3>1 DEF PathParts, FlagsTrue
    <3>2. CASE a # b
      BY <1>1, <1>5, <3>2 DEF PathParts, FlagsTrue
    <3> QED
      BY <3>1, <3>2
  <2> QED
    BY <2>1 DEF FlagsTrue
<1>8. HasDefault'
  BY <1>1, <1>5 DEF PathParts, HasDefault
<1>9. DefaultsFirst'
  <2>1. ASSUME NEW a \in Builders
        PROVE  FirstIn(clis'[a].commands, Defaults')
    <3>1. CASE a = b
      BY <1>1, <3>1
    <3>2. CASE a # b
      <4>1. FirstIn(clis[a].commands, Defaults)
        BY DefaultsFirstIn DEF PathParts
      <4>2. \A i \in DOMAIN clis[a].commands : clis[a].commands[i] \in DOMAIN commands
        BY <1>2 DEF CommandsOf, Range
      <4>3. \A d \in DOMAIN commands : d \in Defaults' <=> d \in Defaults
        BY DefaultsKept DEF Defaults, NamesKept
      <4> QED
        BY <1>1, <3>2, <4>1, <4>2, <4>3 DEF FirstIn
    <3> QED
      BY <3>1, <3>2
  <2>2. DefaultsFirst' <=> \A a \in Builders : FirstIn(clis'[a].commands, Defaults')
    BY DefaultsFirstInNext
  <2> QED
    BY <2>1, <2>2
<1> QED
  BY <1>6, <1>7, <1>8, <1>9 DEF PathParts

\* Whichever command it is, the default commands of the Cli stay in front.
LEMMA CommandAdded ==
  ASSUME Types, PathParts, NEW b \in Builders, NEW c \in DOMAIN commands
  PROVE  LET new == AddCommand(clis[b], c)
         IN  /\ new \in CliRecords(Len(commands))
             /\ new.help = clis[b].help /\ new.version = clis[b].version
             /\ Range(new.commands) = CommandsOf(b) \cup {c}
             /\ FirstIn(clis[b].commands, Defaults)
             /\ FirstIn(new.commands, Defaults)
<1> DEFINE cli == clis[b]
           s == clis[b].commands
           new == AddCommand(cli, c)
           S == 1..Len(commands)
           t == IF IsDefault(c) THEN <<c>> \o s ELSE Append(s, c)
<1>1. cli \in CliRecords(Len(commands)) /\ s \in Seq(S) /\ c \in S
        /\ DOMAIN commands = S
  BY TypesOpened
<1>2. FirstIn(s, Defaults)
  BY DefaultsFirstIn DEF PathParts
<1>3. c \in Defaults <=> IsDefault(c)
  BY DEF Defaults
<1>4. t \in Seq(S) /\ Range(t) = Range(s) \cup {c} /\ FirstIn(t, Defaults)
  <2>1. CASE IsDefault(c)
    <3>1. t = <<c>> \o s
      BY <2>1
    <3> HIDE DEF t, s, S
    <3>2. /\ <<c>> \o s \in Seq(S) /\ Range(<<c>> \o s) = Range(s) \cup {c}
          /\ FirstIn(<<c>> \o s, Defaults)
      BY <1>1, <1>2, <1>3, <2>1, PlacedInFront
    <3> QED
      BY <3>1, <3>2, Zenon
  <2>2. CASE ~IsDefault(c)
    <3>1. t = Append(s, c)
      BY <2>2
    <3> HIDE DEF t, s, S
    <3>2. /\ Append(s, c) \in Seq(S) /\ Range(Append(s, c)) = Range(s) \cup {c}
          /\ FirstIn(Append(s, c), Defaults)
      BY <1>1, <1>2, <1>3, <2>2, PlacedAtBack
    <3> QED
      BY <3>1, <3>2, Zenon
  <2> QED
    BY <2>1, <2>2
<1>5. new = [cli EXCEPT !.commands = t]
  BY DEF AddCommand
<1> HIDE DEF t, new, cli
<1>6. /\ new.commands = t /\ new.help = cli.help /\ new.version = cli.version
      /\ new \in CliRecords(Len(commands))
  BY <1>1, <1>4, <1>5 DEF CliRecords
<1> QED
  BY <1>2, <1>4, <1>6, Zenon DEF new, cli, CommandsOf

LEMMA WithCommandKeeps ==
  ASSUME IInv, NEW b \in Builders, NEW c \in built, WithCommand(b, c)
  PROVE  IInv'
<1>0. Types /\ PathParts /\ OwnerParts
  BY DEF IInv
<1>1. CASE HasBuilt(b)
  BY <1>1, MisusedKeeps DEF WithCommand
<1>2. CASE ~HasBuilt(b) /\ c = 0
  BY <1>2, DyingKeeps DEF WithCommand, Die
<1>3. CASE ~HasBuilt(b) /\ c # 0
  <2> DEFINE new == AddCommand(clis[b], c)
  <2>1. /\ clis' = [clis EXCEPT ![b] = new]
        /\ UNCHANGED <<commands, command_, built, owner, threw, status>>
        /\ owner[b] = "builder"
    BY <1>3 DEF WithCommand, HasBuilt
  <2>2. c \in DOMAIN commands /\ c # command_ /\ commands[c].path \in Paths
    BY <1>0, <1>3, TypesOpened DEF IInv, InUse
  <2>3. /\ new \in CliRecords(Len(commands))
        /\ new.help = clis[b].help /\ new.version = clis[b].version
        /\ Range(new.commands) = CommandsOf(b) \cup {c}
        /\ FirstIn(clis[b].commands, Defaults) /\ FirstIn(new.commands, Defaults)
    BY <1>0, <2>2, CommandAdded
  <2> HIDE DEF new
  <2>4. clis'[b] = new /\ \A a \in Builders : a # b => clis'[a] = clis[a]
    BY <1>0, <2>1 DEF Types
  <2>5. Types'
    BY <1>0, <2>1, <2>3 DEF Types
  <2>6. NamesKept /\ Defaults' = Defaults
    BY <2>1 DEF NamesKept, Defaults, IsDefault
  <2>7. InUse'
    <3>1. \A a \in Builders : command_ # 0 => command_ \notin CommandsOf(a)'
      <4>1. CommandsOf(b)' = CommandsOf(b) \cup {c}
        BY <2>3, <2>4 DEF CommandsOf
      <4>2. \A a \in Builders : a # b => CommandsOf(a)' = CommandsOf(a)
        BY <2>4 DEF CommandsOf
      <4> QED
        BY <2>2, <4>1, <4>2 DEF IInv, InUse
    <3> QED
      BY <2>1, <3>1 DEF IInv, InUse
  <2>8. PathParts'
    <3>1. commands[c].path # <<HELP>> /\ commands[c].path # <<VERSION>>
      BY <2>2, OwnPaths
    <3>2. DOMAIN commands' \ DOMAIN commands = {} /\ c \in DOMAIN commands'
      BY <2>1, <2>2
    <3>3. /\ new.help <=> clis[b].help \/ commands'[c].path = <<HELP>>
          /\ new.version <=> clis[b].version \/ commands'[c].path = <<VERSION>>
      BY <2>1, <2>3, <3>1
    <3>4. FirstIn(clis[b].commands, Defaults') /\ FirstIn(new.commands, Defaults')
      BY <2>3, <2>6, Zenon
    <3> QED
      BY <1>0, <2>1, <2>3, <2>5, <2>6, <3>2, <3>3, <3>4, CliGrows
  <2>9. OwnerParts'
    <3>1. \A a \in Builders : \A d \in CommandsOf(a) : Upgrades(commands[d], commands[d])
      BY <1>0, TypesOpened, UpgradesReflexive
    <3>2. \A a \in Builders : owner[a] # "builder" => clis'[a] = clis[a]
      BY <2>1, <2>4
    <3> QED
      BY <1>0, <2>1, <2>6, <3>1, <3>2, OwnerPartsKept
  <2>10. AllFit'
    BY <2>1 DEF IInv, AllFit
  <2> QED
    BY <2>5, <2>7, <2>8, <2>9, <2>10 DEF IInv
<1> QED
  BY <1>1, <1>2, <1>3

\* The help or the version command that a Cli adds itself goes to the back; it
\* is no default command.
LEMMA OwnCommandKeeps ==
  ASSUME IInv, NEW b \in Builders, ~HasBuilt(b),
         NEW enabled \in CliRecords(Len(commands)),
         NEW path \in {<<HELP>>, <<VERSION>>},
         enabled.commands = clis[b].commands,
         enabled.help <=> clis[b].help \/ path = <<HELP>>,
         enabled.version <=> clis[b].version \/ path = <<VERSION>>,
         WithOwnCommand(b, enabled, path)
  PROVE  IInv'
<1> DEFINE n == Len(commands)
           s == clis[b].commands
           new == [enabled EXCEPT !.commands = Append(s, n + 1)]
<1>0. Types /\ PathParts /\ OwnerParts
  BY DEF IInv
<1>1. /\ commands' = Append(commands, Command(path))
      /\ clis' = [clis EXCEPT ![b] = new]
      /\ UNCHANGED <<command_, built, owner, threw, status>>
      /\ owner[b] = "builder"
  BY DEF WithOwnCommand, HasBuilt
<1>2. path \in AllPaths /\ ~IsIllegal(path) /\ path # <<DEFAULT>>
  BY OwnPaths DEF AllPaths
<1>3. /\ n \in Nat /\ DOMAIN commands = 1..n /\ s \in Seq(1..n)
      /\ DOMAIN s = 1..Len(s) /\ Len(s) \in Nat
      /\ command_ \in 0..n /\ built \subseteq 0..n
      /\ \A a \in Builders : CommandsOf(a) \subseteq 1..n
  BY <1>0, TypesOpened
<1>4. /\ commands' \in Seq(CommandRecords) /\ Len(commands') = n + 1
      /\ DOMAIN commands' = 1..n + 1 /\ commands'[n + 1].path = path
      /\ \A c \in 1..n : commands'[c] = commands[c]
      /\ NamesKept
  BY <1>0, <1>1, <1>2, CommandMade
<1>5. /\ AllFit'
      /\ \A a \in Builders : \A c \in CommandsOf(a) : Upgrades(commands[c], commands'[c])
      /\ \A c \in DOMAIN commands : commands'[c].parent_cli = commands[c].parent_cli
      /\ \A c \in DOMAIN commands' \ DOMAIN commands :
           commands'[c].parent_cli = NoCli /\ commands'[c].path = path
  BY <1>1, <1>2, CommandMadeKeeps
<1> HIDE DEF n
<1>6. n + 1 \in 1..n + 1 /\ n + 1 \notin 1..n /\ n + 1 \notin 0..n
        /\ \A i \in 1..n : i \in 1..n + 1
  BY <1>3
<1>7. \A d \in 1..n + 1 : d \in Defaults' => d \in 1..n /\ d \in Defaults
  <2>1. \A d \in 1..n + 1 : d \in 1..n \/ d = n + 1
    BY <1>3
  <2>2. n + 1 \notin Defaults'
    BY <1>2, <1>4 DEF Defaults, IsDefault
  <2>3. \A d \in 1..n : d \in Defaults' <=> d \in Defaults
    BY <1>3, <1>4, <1>6 DEF Defaults, IsDefault
  <2> QED
    BY <2>1, <2>2, <2>3
<1>8. s \in Seq(1..n + 1)
  BY <1>3
<1>9. FirstIn(s, Defaults')
  <2>1. FirstIn(s, Defaults)
    BY <1>0, DefaultsFirstIn DEF PathParts
  <2>2. \A i \in DOMAIN s : s[i] \in 1..n
    BY <1>3
  <2>3. \A d \in 1..n : d \in Defaults' <=> d \in Defaults
    BY <1>3, <1>4, <1>6 DEF Defaults, IsDefault
  <2> QED
    BY <2>1, <2>2, <2>3 DEF FirstIn
<1>10. /\ Append(s, n + 1) \in Seq(1..n + 1)
       /\ Range(Append(s, n + 1)) = Range(s) \cup {n + 1}
       /\ FirstIn(Append(s, n + 1), Defaults')
  <2>1. n + 1 \notin Defaults'
    BY <1>6, <1>7
  <2> HIDE DEF s
  <2> QED
    BY <1>6, <1>8, <1>9, <2>1, PlacedAtBack
<1>11. /\ new \in CliRecords(n + 1)
       /\ Range(new.commands) = CommandsOf(b) \cup {n + 1}
       /\ FirstIn(new.commands, Defaults')
       /\ new.help = enabled.help /\ new.version = enabled.version
  <2> DEFINE t == Append(s, n + 1)
  <2>1. t \in Seq(1..n + 1) /\ Range(t) = Range(s) \cup {n + 1} /\ FirstIn(t, Defaults')
    BY <1>10
  <2>2. new = [enabled EXCEPT !.commands = t] /\ enabled \in CliRecords(n)
    BY DEF n
  <2> HIDE DEF t, new
  <2>3. /\ new.commands = t /\ new.help = enabled.help /\ new.version = enabled.version
        /\ new \in CliRecords(n + 1)
    BY <2>1, <2>2 DEF CliRecords
  <2> QED
    BY <2>1, <2>3 DEF CommandsOf
<1> HIDE DEF new, s
<1>12. clis'[b] = new /\ \A a \in Builders : a # b => clis'[a] = clis[a]
  BY <1>0, <1>1 DEF Types
<1>13. Types'
  <2>1. clis \in [Builders -> CliRecords(n)]
    BY <1>0 DEF Types, n
  <2>2. CliRecords(n) \subseteq CliRecords(n + 1) /\ 0..n \subseteq 0..n + 1
    BY <1>3, MoreCommands
  <2>3. clis' \in [Builders -> CliRecords(n + 1)]
    BY <1>1, <1>11, <2>1, <2>2
  <2>4. command_' \in 0..n + 1 /\ built' \subseteq 0..n + 1
    BY <1>1, <1>3, <2>2
  <2> QED
    BY <1>0, <1>1, <1>4, <2>3, <2>4 DEF Types
<1>14. InUse'
  <2>1. CommandsOf(b)' = CommandsOf(b) \cup {n + 1}
    BY <1>11, <1>12 DEF CommandsOf
  <2>2. \A a \in Builders : a # b => CommandsOf(a)' = CommandsOf(a)
    BY <1>12 DEF CommandsOf
  <2>3. command_ # n + 1
    BY <1>3, <1>6
  <2>4. command_ # 0 =>
          command_ \notin built /\ \A a \in Builders : command_ \notin CommandsOf(a)'
    BY <2>1, <2>2, <2>3 DEF IInv, InUse
  <2>5. \A c \in built \cup {command_} : c # 0 => commands'[c].path \in Paths
    <3>1. \A c \in 0..n : c # 0 => c \in 1..n
      BY <1>3
    <3>2. \A c \in built \cup {command_} : c \in 0..n
      BY <1>3
    <3> QED
      BY <1>4, <3>1, <3>2 DEF IInv, InUse
  <2> QED
    BY <1>1, <2>4, <2>5 DEF InUse
<1>15. PathParts'
  <2>1. \A d \in DOMAIN commands' \ DOMAIN commands : ~IsIllegal(commands'[d].path)
    BY <1>2, <1>5
  <2>2. /\ new.help <=> clis[b].help \/ commands'[n + 1].path = <<HELP>>
        /\ new.version <=> clis[b].version \/ commands'[n + 1].path = <<VERSION>>
        /\ n + 1 \in DOMAIN commands'
    BY <1>4, <1>6, <1>11
  <2>3. FirstIn(clis[b].commands, Defaults')
    BY <1>9 DEF s
  <2> QED
    BY <1>0, <1>1, <1>4, <1>11, <1>13, <2>1, <2>2, <2>3, CliGrows
<1>16. OwnerParts'
  <2>1. \A a \in Builders : owner[a] # "builder" => clis'[a] = clis[a]
    BY <1>1, <1>12
  <2> QED
    BY <1>0, <1>1, <1>4, <1>5, <2>1, OwnerPartsKept
<1> QED
  BY <1>5, <1>13, <1>14, <1>15, <1>16 DEF IInv

LEMMA WithHelpOrVersionKeeps ==
  ASSUME IInv, NEW b \in Builders, WithHelpCommand(b) \/ WithVersionCommand(b)
  PROVE  IInv'
<1>1. CASE HasBuilt(b)
  BY <1>1, MisusedKeeps DEF WithHelpCommand, WithVersionCommand, WithOwnCommand
<1>2. CASE ~HasBuilt(b)
  <2>1. clis[b] \in CliRecords(Len(commands))
    BY TypesOpened DEF IInv
  <2>2. <<HELP>> # <<VERSION>>
    BY OwnPaths
  <2>3. CASE WithHelpCommand(b)
    <3> DEFINE enabled == HelpEnabled(clis[b])
    <3>1. /\ enabled \in CliRecords(Len(commands))
          /\ enabled.commands = clis[b].commands
          /\ enabled.help = TRUE /\ enabled.version = clis[b].version
      BY <2>1 DEF HelpEnabled, CliRecords
    <3>2. WithOwnCommand(b, enabled, <<HELP>>)
      BY <2>3 DEF WithHelpCommand
    <3> HIDE DEF enabled
    <3> QED
      BY <1>2, <2>2, <3>1, <3>2, OwnCommandKeeps
  <2>4. CASE WithVersionCommand(b)
    <3> DEFINE enabled == [clis[b] EXCEPT !.version = TRUE]
    <3>1. /\ enabled \in CliRecords(Len(commands))
          /\ enabled.commands = clis[b].commands
          /\ enabled.version = TRUE /\ enabled.help = clis[b].help
      BY <2>1 DEF CliRecords
    <3>2. WithOwnCommand(b, enabled, <<VERSION>>)
      BY <2>4 DEF WithVersionCommand
    <3> HIDE DEF enabled
    <3> QED
      BY <1>2, <2>2, <3>1, <3>2, OwnCommandKeeps
  <2> QED
    BY <2>3, <2>4
<1> QED
  BY <1>1, <1>2

-----------------------------------------------------------------------------
(* Build() *)

\* The loop of Build() takes nothing away from a command.
LEMMA LoopKeeps ==
  ASSUME IInv, NEW b \in Builders
  PROVE  LET cs == AllUpgraded(clis[b])
         IN  /\ cs \in Seq(CommandRecords) /\ Len(cs) = Len(commands)
             /\ DOMAIN cs = DOMAIN commands
             /\ \A c \in DOMAIN commands :
                  /\ Upgrades(commands[c], cs[c]) /\ cs[c] \in CommandRecords
                  /\ Fits(cs[c])
                  /\ cs[c].path = commands[c].path
                  /\ cs[c].parent_cli = commands[c].parent_cli
                  /\ c \in CommandsOf(b) =>
                       Served(clis[b], cs[c].options, IsDefault(c))
<1> DEFINE cs == AllUpgraded(clis[b])
<1>1. /\ cs \in Seq(CommandRecords) /\ Len(cs) = Len(commands)
      /\ \A c \in 1..Len(commands) :
           /\ Upgrades(commands[c], cs[c])
           /\ c \in CommandsOf(b) => Served(clis[b], cs[c].options, IsDefault(c))
  BY AllUpgradedServes DEF IInv
<1>2. DOMAIN commands = 1..Len(commands)
  BY TypesOpened DEF IInv
<1> HIDE DEF cs
<1>3. DOMAIN cs = DOMAIN commands
  BY <1>1, <1>2
<1>4. \A c \in DOMAIN commands : Fits(cs[c])
  BY <1>1, <1>2 DEF Upgrades, IInv, AllFit
<1> QED
  BY <1>1, <1>2, <1>3, <1>4 DEF Upgrades, cs

\* Build() throws after the loop: the Cli is not built, its commands are as if
\* it were.
LEMMA ThrowKeeps ==
  ASSUME IInv, NEW b \in Builders, commands' = AllUpgraded(clis[b]),
         threw[b] < MaxThrows, threw' = [threw EXCEPT ![b] = @ + 1],
         UNCHANGED <<command_, built, clis, owner, status>>
  PROVE  IInv'
<1>0. Types /\ PathParts /\ OwnerParts
  BY DEF IInv
<1>1. /\ commands' \in Seq(CommandRecords) /\ Len(commands') = Len(commands)
      /\ DOMAIN commands' = DOMAIN commands
      /\ \A c \in DOMAIN commands :
           /\ Upgrades(commands[c], commands'[c]) /\ Fits(commands'[c])
           /\ commands'[c].path = commands[c].path
           /\ commands'[c].parent_cli = commands[c].parent_cli
  BY LoopKeeps
<1>2. Types'
  <2>1. threw \in [Builders -> 0..MaxThrows] /\ MaxThrows \in Nat
    BY <1>0, BoundsAssumption DEF Types
  <2>2. threw[b] + 1 \in 0..MaxThrows
    BY <2>1
  <2>3. threw' \in [Builders -> 0..MaxThrows]
    BY <2>1, <2>2
  <2> QED
    BY <1>0, <1>1, <2>3 DEF Types
<1>3. AllFit'
  BY <1>1 DEF AllFit, Fits, FlagsFit
<1>4. InUse'
  <2>1. \A c \in built \cup {command_} : c # 0 => c \in DOMAIN commands
    BY <1>0, TypesOpened
  <2> QED
    BY <1>1, <2>1 DEF IInv, InUse, CommandsOf
<1>5. NamesKept
  BY <1>1 DEF NamesKept
<1>6. PathParts'
  BY <1>0, <1>1, <1>5, PathPartsKept
<1>7. OwnerParts'
  <2>1. \A a \in Builders : CommandsOf(a) \subseteq DOMAIN commands
    BY <1>0, TypesOpened
  <2> QED
    BY <1>0, <1>1, <1>5, <2>1, OwnerPartsKept
<1> QED
  BY <1>2, <1>3, <1>4, <1>6, <1>7 DEF IInv

\* Build() gives the Cli to the program: its commands have the options, and
\* they point to it.
LEMMA BuiltKeeps ==
  ASSUME IInv, NEW b \in Builders, ~NeedsDefault(clis[b]),
         commands' = Adopt(b, AllUpgraded(clis[b]), clis[b].commands),
         owner' = [owner EXCEPT ![b] = "program"],
         UNCHANGED <<command_, built, clis, threw, status>>
  PROVE  IInv'
<1> DEFINE cs == AllUpgraded(clis[b])
<1>0. Types /\ PathParts /\ OwnerParts
  BY DEF IInv
<1>1. /\ cs \in Seq(CommandRecords) /\ Len(cs) = Len(commands)
      /\ DOMAIN cs = DOMAIN commands
      /\ \A c \in DOMAIN commands :
           /\ Upgrades(commands[c], cs[c]) /\ cs[c] \in CommandRecords
           /\ Fits(cs[c])
           /\ cs[c].path = commands[c].path
           /\ cs[c].parent_cli = commands[c].parent_cli
           /\ c \in CommandsOf(b) => Served(clis[b], cs[c].options, IsDefault(c))
  BY LoopKeeps
<1>2. commands' = [c \in DOMAIN cs |->
                     IF c \in CommandsOf(b) THEN [cs[c] EXCEPT !.parent_cli = b] ELSE cs[c]]
  BY DEF Adopt, CommandsOf
<1> HIDE DEF cs
<1>3. /\ DOMAIN commands = 1..Len(commands) /\ Len(commands) \in Nat
      /\ \A a \in Builders : CommandsOf(a) \subseteq DOMAIN commands
  BY <1>0, TypesOpened
<1>4. DOMAIN commands' = DOMAIN commands
  BY <1>1, <1>2
<1>5. \A c \in DOMAIN commands :
        /\ commands'[c] \in CommandRecords
        /\ commands'[c].path = commands[c].path
        /\ commands'[c].options = cs[c].options
        /\ commands'[c].options_in_groups = cs[c].options_in_groups
        /\ commands'[c].groups = cs[c].groups
        /\ commands'[c].parent_cli
             = IF c \in CommandsOf(b) THEN b ELSE commands[c].parent_cli
  <2> SUFFICES ASSUME NEW c \in DOMAIN commands
               PROVE  /\ commands'[c] \in CommandRecords
                      /\ commands'[c].path = commands[c].path
                      /\ commands'[c].options = cs[c].options
                      /\ commands'[c].options_in_groups = cs[c].options_in_groups
                      /\ commands'[c].groups = cs[c].groups
                      /\ commands'[c].parent_cli
                           = IF c \in CommandsOf(b) THEN b ELSE commands[c].parent_cli
    OBVIOUS
  <2>1. cs[c] \in CommandRecords
    BY <1>1
  <2>2. CASE c \in CommandsOf(b)
    <3>1. commands'[c] = [cs[c] EXCEPT !.parent_cli = b]
      BY <1>1, <1>2, <2>2
    <3> QED
      BY <1>1, <2>1, <2>2, <3>1 DEF CommandRecords
  <2>3. CASE c \notin CommandsOf(b)
    <3>1. commands'[c] = cs[c]
      BY <1>1, <1>2, <2>3
    <3> QED
      BY <1>1, <2>1, <2>3, <3>1
  <2> QED
    BY <2>2, <2>3
<1>6. commands' \in Seq(CommandRecords) /\ Len(commands') = Len(commands)
  <2>1. commands' = [c \in 1..Len(commands) |-> commands'[c]]
    BY <1>1, <1>2, <1>3
  <2>2. \A c \in 1..Len(commands) : commands'[c] \in CommandRecords
    BY <1>3, <1>5
  <2>3. commands' \in [1..Len(commands) -> CommandRecords]
    BY <2>1, <2>2
  <2> QED
    BY <1>3, <2>3
<1>7. \A a \in Builders : owner'[a] = IF a = b THEN "program" ELSE owner[a]
  BY <1>0 DEF Types
<1>8. Types'
  <2>1. owner' \in [Builders -> {"builder", "program", "nobody"}]
    BY <1>0 DEF Types
  <2> QED
    BY <1>0, <1>6, <2>1 DEF Types
<1>9. AllFit'
  <2>1. \A c \in DOMAIN commands : Fits(commands'[c])
    BY <1>1, <1>5 DEF Fits
  <2> QED
    BY <1>4, <2>1 DEF AllFit, Fits, FlagsFit
<1>10. InUse'
  <2>1. \A c \in built \cup {command_} : c # 0 => c \in DOMAIN commands
    BY <1>0, TypesOpened
  <2> QED
    BY <1>5, <2>1 DEF IInv, InUse, CommandsOf
<1>11. NamesKept
  BY <1>4, <1>5 DEF NamesKept
<1>12. PathParts'
  <2>1. clis[b].help \/ clis[b].version => HasPath(b, <<DEFAULT>>)
    BY DEF NeedsDefault, HasPath, IsDefault, CommandsOf, Range
  <2>2. \A a \in Builders : owner'[a] # "builder" =>
          \/ owner[a] # "builder"
          \/ clis[a].help \/ clis[a].version => HasPath(a, <<DEFAULT>>)
    BY <1>7, <2>1
  <2> QED
    BY <1>0, <1>4, <1>11, <2>2, PathPartsKept
<1>13. \A a \in Builders : CommandsOf(a)' = CommandsOf(a)
  BY DEF CommandsOf
<1>14. AllServed'
  <2> SUFFICES ASSUME NEW a \in Builders, NEW c \in CommandsOf(a), owner'[a] # "builder"
               PROVE  Served(clis[a], commands'[c].options, IsDefault(c)')
    BY <1>13 DEF AllServed, Served
  <2>1. c \in DOMAIN commands
    BY <1>3
  <2>2. IsDefault(c)' <=> IsDefault(c)
    BY <1>11, <2>1, DefaultsKept
  <2>3. Served(clis[a], cs[c].options, IsDefault(c))
    <3>1. CASE a = b
      BY <1>1, <2>1, <3>1
    <3>2. CASE a # b
      <4>1. Served(clis[a], commands[c].options, IsDefault(c))
        BY <1>0, <1>7, <3>2 DEF OwnerParts, AllServed
      <4> QED
        BY <1>1, <2>1, <4>1, ServedStays
    <3> QED
      BY <3>1, <3>2
  <2> QED
    BY <1>5, <2>1, <2>2, <2>3 DEF Served
<1>15. ParentsOwn'
  <2> SUFFICES ASSUME NEW c \in DOMAIN commands, commands'[c].parent_cli # NoCli
               PROVE  /\ owner'[commands'[c].parent_cli] # "builder"
                      /\ c \in Range(clis[commands'[c].parent_cli].commands)
    BY <1>4 DEF ParentsOwn, CommandsOf
  <2>1. CASE c \in CommandsOf(b)
    BY <1>5, <1>7, <2>1 DEF CommandsOf
  <2>2. CASE c \notin CommandsOf(b)
    <3>1. commands'[c].parent_cli = commands[c].parent_cli
      BY <1>5, <2>2
    <3>2. commands[c].parent_cli \in Builders
      BY <1>0, <3>1, TypesOpened
    <3>3. /\ owner[commands[c].parent_cli] # "builder"
          /\ c \in Range(clis[commands[c].parent_cli].commands)
      BY <1>0, <3>1 DEF OwnerParts, ParentsOwn, CommandsOf
    <3> QED
      BY <1>7, <3>1, <3>2, <3>3
  <2> QED
    BY <2>1, <2>2
<1>16. Adopted'
  <2> SUFFICES ASSUME NEW a \in Builders, NEW c \in CommandsOf(a), owner'[a] # "builder"
               PROVE  commands'[c].parent_cli # NoCli
    BY <1>13 DEF Adopted
  <2>1. c \in DOMAIN commands
    BY <1>3
  <2>2. CASE c \in CommandsOf(b)
    BY <1>5, <2>1, <2>2, NoCliAssumption
  <2>3. CASE c \notin CommandsOf(b)
    <3>1. owner[a] # "builder"
      BY <1>7, <2>3
    <3> QED
      BY <1>0, <1>5, <2>1, <2>3, <3>1 DEF OwnerParts, Adopted
  <2> QED
    BY <2>2, <2>3
<1>17. OwnerParts'
  BY <1>14, <1>15, <1>16 DEF OwnerParts
<1> QED
  BY <1>8, <1>9, <1>10, <1>12, <1>17 DEF IInv

LEMMA BuildKeeps ==
  ASSUME IInv, NEW b \in Builders, Build(b)
  PROVE  IInv'
<1>1. CASE HasBuilt(b)
  BY <1>1, DyingKeeps DEF Build, Die
<1>2. CASE ~HasBuilt(b) /\ NeedsDefault(clis[b])
  BY <1>2, DefaultPathIsIllegal, ThrowKeeps DEF Build
<1>3. CASE ~HasBuilt(b) /\ ~NeedsDefault(clis[b])
  <2>1. /\ clis' = clis
        /\ commands' = Adopt(b, AllUpgraded(clis[b]), clis'[b].commands)
        /\ owner' = [owner EXCEPT ![b] = "program"]
        /\ UNCHANGED <<command_, built, threw, status>>
    BY <1>3 DEF Build
  <2> QED
    BY <1>3, <2>1, BuiltKeeps
<1> QED
  BY <1>1, <1>2, <1>3

\* A Cli that is gone was built.
LEMMA DestroyKeeps ==
  ASSUME IInv, NEW b \in Builders, Destroy(b)
  PROVE  IInv'
<1>0. Types /\ PathParts /\ OwnerParts
  BY DEF IInv
<1>1. /\ owner[b] = "program" /\ owner' = [owner EXCEPT ![b] = "nobody"]
      /\ UNCHANGED <<commands, command_, built, clis, threw, status>>
  BY DEF Destroy
<1>2. \A a \in Builders : owner'[a] # "builder" <=> owner[a] # "builder"
  BY <1>0, <1>1 DEF Types
<1>3. Types'
  BY <1>0, <1>1 DEF Types
<1>4. AllFit' /\ InUse'
  BY <1>1 DEF IInv, AllFit, InUse, CommandsOf
<1>5. NamesKept
  BY <1>1 DEF NamesKept
<1>6. PathParts'
  BY <1>0, <1>1, <1>2, <1>5, PathPartsKept
<1>7. OwnerParts'
  <2>1. \A a \in Builders : \A c \in CommandsOf(a) : Upgrades(commands[c], commands[c])
    BY <1>0, TypesOpened, UpgradesReflexive
  <2> QED
    BY <1>0, <1>1, <1>2, <1>5, <2>1, OwnerPartsKept
<1> QED
  BY <1>3, <1>4, <1>6, <1>7 DEF IInv

-----------------------------------------------------------------------------
(* Every reachable state *)

LEMMA InitEstablishes == Init => IInv
<1> SUFFICES ASSUME Init PROVE IInv
  OBVIOUS
<1>1. /\ commands = <<>> /\ command_ = 0 /\ built = {}
      /\ clis = [b \in Builders |-> [commands |-> <<>>, help |-> FALSE, version |-> FALSE]]
      /\ owner = [b \in Builders |-> "builder"]
      /\ threw = [b \in Builders |-> 0] /\ status = "running"
  BY DEF Init
<1>2. /\ Len(commands) = 0 /\ DOMAIN commands = {} /\ commands \in Seq(CommandRecords)
  BY <1>1, EmptySeq
<1>3. \A b \in Builders : /\ clis[b].commands = <<>> /\ clis[b].help = FALSE
                          /\ clis[b].version = FALSE /\ CommandsOf(b) = {}
                          /\ DOMAIN clis[b].commands = {}
  BY <1>1 DEF CommandsOf, Range
<1>4. Types
  <2>1. <<>> \in Seq(1..Len(commands))
    BY EmptySeq
  <2>2. clis \in [Builders -> CliRecords(Len(commands))]
    BY <1>1, <2>1 DEF CliRecords
  <2>3. threw \in [Builders -> 0..MaxThrows]
    BY <1>1, BoundsAssumption
  <2>4. command_ \in 0..Len(commands) /\ built \subseteq 0..Len(commands)
    BY <1>1, <1>2
  <2> QED
    BY <1>1, <1>2, <2>2, <2>3, <2>4 DEF Types
<1>5. AllFit /\ InUse /\ Legal
  BY <1>1, <1>2 DEF AllFit, InUse, Legal
<1>6. FlagsTrue /\ HasDefault /\ DefaultsFirst
  BY <1>1, <1>3 DEF FlagsTrue, HasDefault, DefaultsFirst, HasPath
<1>7. OwnerParts
  BY <1>2, <1>3 DEF OwnerParts, AllServed, ParentsOwn, Adopted
<1> QED
  BY <1>4, <1>5, <1>6, <1>7 DEF IInv, PathParts

LEMMA StepKeeps == IInv /\ [Next]_vars => IInv'
<1> SUFFICES ASSUME IInv, [Next]_vars PROVE IInv'
  OBVIOUS
<1>1. ASSUME NEW path \in Paths, NewCommandBuilder(path) PROVE IInv'
  BY <1>1, NewCommandBuilderKeeps
<1>2. ASSUME NEW o \in OptionsOfProgram, WithOption(o) PROVE IInv'
  BY <1>2, WithOptionKeeps
<1>3. CASE WithOptions
  BY <1>3, WithOptionsKeeps
<1>4. CASE WithPositionalArguments
  BY <1>4, WithPositionalArgumentsKeeps
<1>5. CASE BuildCommand
  BY <1>5, BuildCommandKeeps
<1>6. ASSUME NEW b \in Builders, NEW c \in built, WithCommand(b, c) PROVE IInv'
  BY <1>6, WithCommandKeeps
<1>7. ASSUME NEW b \in Builders, WithHelpCommand(b) \/ WithVersionCommand(b) PROVE IInv'
  BY <1>7, WithHelpOrVersionKeeps
<1>8. ASSUME NEW b \in Builders, Build(b) PROVE IInv'
  BY <1>8, BuildKeeps
<1>9. ASSUME NEW b \in Builders, Destroy(b) PROVE IInv'
  BY <1>9, DestroyKeeps
<1>10. CASE Finished \/ UNCHANGED vars
  <2>1. UNCHANGED vars
    BY <1>10 DEF Finished
  <2> QED
    BY <2>1, DyingKeeps DEF vars, IInv, Types
<1> QED
  BY <1>1, <1>2, <1>3, <1>4, <1>5, <1>6, <1>7, <1>8, <1>9, <1>10 DEF Next

LEMMA Invariance == Spec => []IInv
  BY InitEstablishes, StepKeeps, PTL DEF Spec

\* In every order of the calls of the builders, with any number of Clis that
\* share commands, pointers are null or point to something, and no Cli has a
\* null pointer.
THEOREM TypeCorrect == Spec => []TypeOK
<1>1. IInv => TypeOK
  BY TypesGiveTypeOK DEF IInv
<1> QED
  BY <1>1, Invariance, PTL

LEMMA ElementsOf ==
  ASSUME NEW S, NEW s \in Seq(S), NEW i \in 1..Len(s)
  PROVE  s[i] \in S
  OBVIOUS

\* Whatever the program and Build() put to the front or to the back of a
\* command and for every group, the flags stay with the options they belong
\* to: what PrintOptions() leaves to the groups is what the groups hold.
THEOREM FlagsStayWithOptions == Spec => []GroupsStayTogether
<1>1. IInv => GroupsStayTogether
  <2> SUFFICES ASSUME IInv, NEW c \in DOMAIN commands
               PROVE  LET command == commands[c]
                          grouped == {i \in DOMAIN command.options :
                                        i \notin DOMAIN PrintedAlone(c)}
                          Kept(i) == Cardinality({j \in grouped : j <= i})
                      IN  /\ Len(command.options) = Len(command.options_in_groups)
                          /\ Cardinality(grouped) = command.groups * Len(Group)
                          /\ \A i \in grouped : command.options[i]
                                = Group[((Kept(i) - 1) % Len(Group)) + 1]
    BY DEF GroupsStayTogether
  <2> DEFINE command == commands[c]
             os == command.options
             fs == command.options_in_groups
             grouped == {i \in DOMAIN os : i \notin DOMAIN PrintedAlone(c)}
             Kept(i) == Cardinality({j \in grouped : j <= i})
             T == InGroups(fs)
  <2>1. command \in CommandRecords
    BY TypesOpened DEF IInv
  <2>2. os \in Seq(AllOptions) /\ fs \in Seq(BOOLEAN)
    BY <2>1, RecordTypes
  <2>3. /\ Len(os) = Len(fs)
        /\ CountTo(T, Len(fs)) = command.groups * Len(Group)
        /\ \A i \in T : os[i] = Group[((CountTo(T, i) - 1) % Len(Group)) + 1]
    BY DEF IInv, AllFit, Fits, FlagsFit
  <2>4. DOMAIN PrintedAlone(c) = {i \in DOMAIN os : ~fs[i]}
    BY DEF PrintedAlone
  <2>5. DOMAIN os = 1..Len(fs) /\ Len(fs) \in Nat
    BY <2>2, <2>3
  <2> HIDE DEF os, fs
  <2>6. \A i \in 1..Len(fs) : fs[i] = TRUE \/ fs[i] = FALSE
    <3>1. ASSUME NEW i \in 1..Len(fs) PROVE fs[i] \in BOOLEAN
      BY <2>2, ElementsOf, Zenon
    <3> QED
      BY <3>1, Zenon
  <2>7. grouped = T
    BY <2>4, <2>5, <2>6, Zenon DEF InGroups
  <2>8. \A i \in T : i \in 1..Len(fs)
    BY DEF InGroups
  <2> HIDE DEF T, grouped
  <2>9. Cardinality(grouped) = command.groups * Len(Group)
    <3>1. T \cap (1..Len(fs)) = T
      BY <2>8
    <3> QED
      BY <2>3, <2>7, <3>1 DEF CountTo
  <2>10. ASSUME NEW i \in grouped PROVE Kept(i) = CountTo(T, i)
    <3>1. {j \in T : j <= i} = T \cap (1..i)
      BY <2>5, <2>7, <2>8
    <3> QED
      BY <2>7, <3>1 DEF CountTo
  <2> QED
    BY <2>3, <2>7, <2>9, <2>10 DEF os, fs, grouped
<1> QED
  BY <1>1, Invariance, PTL

LEMMA LeastIs ==
  ASSUME NEW T \in SUBSET Nat, NEW i \in T, \A j \in T : i <= j
  PROVE  Min(T) = i
<1>1. \A k \in T : (\A j \in T : k <= j) => k = i
  OBVIOUS
<1>2. Min(T) \in T /\ \A j \in T : Min(T) <= j
  BY DEF Min
<1> QED
  BY <1>1, <1>2

\* An option that is before all others of its names is the one that is found.
LEMMA FoundFirst ==
  ASSUME NEW c, NEW o, Len(commands[c].options) \in Nat, Wins(commands[c].options, o)
  PROVE  /\ commands[c].options[FindLongOption(c, o.long)] = o
         /\ commands[c].options[FindShortOption(c, o.short)] = o
<1> DEFINE os == commands[c].options
           n == Len(os)
           Longs == {i \in 1..n : os[i].long = o.long}
           Shorts == {i \in 1..n : os[i].short = o.short}
<1>1. PICK i \in 1..n :
        /\ os[i] = o
        /\ \A j \in 1..i - 1 : os[j].long # o.long /\ os[j].short # o.short
  BY DEF Wins
<1>2. FindLongOption(c, o.long) = IF Longs # {} THEN Min(Longs) ELSE 0
  BY DEF FindLongOption, SelectInSeq
<1>3. FindShortOption(c, o.short) = IF Shorts # {} THEN Min(Shorts) ELSE 0
  BY DEF FindShortOption, SelectInSeq
<1> HIDE DEF os
<1>4. i \in Longs /\ \A j \in Longs : i <= j
  BY <1>1
<1>5. i \in Shorts /\ \A j \in Shorts : i <= j
  BY <1>1
<1>6. Longs \in SUBSET Nat /\ Shorts \in SUBSET Nat
  OBVIOUS
<1> HIDE DEF Longs, Shorts, n
<1>7. Min(Longs) = i
  BY <1>4, <1>6, LeastIs
<1>8. Min(Shorts) = i
  BY <1>5, <1>6, LeastIs
<1> QED
  BY <1>1, <1>2, <1>3, <1>4, <1>5, <1>7, <1>8 DEF os

\* Whatever options of these names a command was given, with how many Clis it
\* is shared, and how often a Build() threw in between: once the Cli is built,
\* the options of Build() answer to --help, -h, --version and -v.
THEOREM BuildsOptionsWin == Spec => []StandardOptionsWin
<1>1. IInv => StandardOptionsWin
  <2> SUFFICES ASSUME IInv, NEW b \in Builders, NEW c \in CommandsOf(b),
                      owner[b] = "program"
               PROVE  LET Found(o) ==
                            /\ commands[c].options[FindLongOption(c, o.long)] = o
                            /\ commands[c].options[FindShortOption(c, o.short)] = o
                      IN  /\ clis[b].help => Found(HelpOption)
                          /\ clis[b].version /\ IsDefault(c) => Found(VersionOption)
    BY DEF StandardOptionsWin
  <2>1. Served(clis[b], commands[c].options, IsDefault(c))
    BY DEF IInv, OwnerParts, AllServed
  <2>2. Len(commands[c].options) \in Nat
    <3>1. commands[c] \in CommandRecords
      BY TypesOpened DEF IInv
    <3>2. commands[c].options \in Seq(AllOptions)
      BY <3>1, RecordTypes
    <3> QED
      BY <3>2
  <2> QED
    BY <2>1, <2>2, FoundFirst DEF Served
<1> QED
  BY <1>1, Invariance, PTL

\* Printing the help of a command follows no null pointer and no pointer to a
\* Cli that is gone, as long as no Cli that has the command is gone and its
\* options have values.
THEOREM PrintingIsDefined == Spec => []CommandsCanBePrinted
<1>1. IInv => CommandsCanBePrinted
  <2> SUFFICES ASSUME IInv, NEW b \in Builders, NEW c \in CommandsOf(b),
                      owner[b] = "program",
                      \A other \in Builders :
                        c \in CommandsOf(other) => owner[other] # "nobody",
                      \A i \in DOMAIN commands[c].options : commands[c].options[i].valued
               PROVE  PrintIsDefined(c)
    BY DEF CommandsCanBePrinted
  <2>1. c \in DOMAIN commands /\ commands[c].parent_cli \in {NoCli} \cup Builders
    BY TypesOpened DEF IInv
  <2>2. commands[c].parent_cli # NoCli
    BY DEF IInv, OwnerParts, Adopted
  <2>3. c \in CommandsOf(commands[c].parent_cli)
    BY <2>1, <2>2 DEF IInv, OwnerParts, ParentsOwn
  <2>4. owner[commands[c].parent_cli] # "nobody"
    BY <2>1, <2>2, <2>3
  <2> QED
    BY <2>2, <2>4 DEF PrintIsDefined
<1> QED
  BY <1>1, Invariance, PTL

\* What Build() gives to the program is what Cli::Parse() and the parser rely
\* on, also when commands are shared and a Build() threw before.
THEOREM BuiltForParser == Spec => []BuiltCliFitsParser
<1>1. IInv => BuiltCliFitsParser
  <2> SUFFICES ASSUME IInv, NEW b \in Builders, owner[b] = "program"
               PROVE  LET PathsOf == {commands[c].path : c \in CommandsOf(b)}
                          cli == clis[b]
                      IN  /\ \A path \in PathsOf : ~IsIllegal(path)
                          /\ cli.help <=> <<HELP>> \in PathsOf
                          /\ cli.version <=> <<VERSION>> \in PathsOf
                          /\ cli.help \/ cli.version => <<DEFAULT>> \in PathsOf
                          /\ \A i, j \in DOMAIN cli.commands :
                               IsDefault(cli.commands[j]) /\ i < j =>
                                 IsDefault(cli.commands[i])
    BY DEF BuiltCliFitsParser
  <2> DEFINE PathsOf == {commands[c].path : c \in CommandsOf(b)}
  <2>1. \A path : path \in PathsOf <=> HasPath(b, path)
    BY DEF HasPath
  <2>2. \A path \in PathsOf : ~IsIllegal(path)
    <3>1. CommandsOf(b) \subseteq DOMAIN commands
      BY TypesOpened DEF IInv
    <3> QED
      BY <3>1 DEF IInv, PathParts, Legal
  <2> HIDE DEF PathsOf
  <2>3. /\ clis[b].help <=> <<HELP>> \in PathsOf
        /\ clis[b].version <=> <<VERSION>> \in PathsOf
    BY <2>1 DEF IInv, PathParts, FlagsTrue
  <2>4. clis[b].help \/ clis[b].version => <<DEFAULT>> \in PathsOf
    BY <2>1 DEF IInv, PathParts, HasDefault
  <2>5. \A i, j \in DOMAIN clis[b].commands :
          IsDefault(clis[b].commands[j]) /\ i < j => IsDefault(clis[b].commands[i])
    BY DEF IInv, PathParts, DefaultsFirst
  <2> QED
    BY <2>2, <2>3, <2>4, <2>5 DEF PathsOf
<1> QED
  BY <1>1, Invariance, PTL

=============================================================================

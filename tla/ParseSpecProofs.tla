-------------------------- MODULE ParseSpecProofs --------------------------
(***************************************************************************)
(* CmdLineParser does what ParseSpec promises: whatever a parse comes to,  *)
(* it comes to with the command and the values that the command line as a  *)
(* whole calls for.                                                        *)
(***************************************************************************)
EXTENDS ValueProofs

\* How many numbers of S are up to i.
Rank(S, i) == Cardinality({j \in S : j <= i})

\* A rank is a natural number, at most the size of the set.
LEMMA RankIsNatural ==
  ASSUME NEW m \in Nat, NEW S \in SUBSET (1..m), NEW i
  PROVE  Cardinality(S) \in Nat /\ Rank(S, i) \in Nat /\ Rank(S, i) <= Cardinality(S)
<1>1. IsFiniteSet(1..m)
  BY FS_Interval
<1>2. IsFiniteSet(S) /\ {j \in S : j <= i} \subseteq S
  BY <1>1, FS_Subset
<1> QED
  BY <1>2, FS_Subset, FS_CardinalityType DEF Rank

\* A number greater than all others comes last and moves none of them.
LEMMA RanksWithOneMore ==
  ASSUME NEW m \in Nat, NEW S \in SUBSET (1..m)
  PROVE  /\ Cardinality(S \cup {m + 1}) = Cardinality(S) + 1
         /\ Rank(S \cup {m + 1}, m + 1) = Cardinality(S) + 1
         /\ \A i \in S : Rank(S \cup {m + 1}, i) = Rank(S, i)
<1> DEFINE T == S \cup {m + 1}
<1>1. IsFiniteSet(S) /\ m + 1 \notin S
  <2>1. IsFiniteSet(1..m)
    BY FS_Interval
  <2>2. m + 1 \notin 1..m
    OBVIOUS
  <2> QED
    BY <2>1, <2>2, FS_Subset
<1>2. Cardinality(T) = Cardinality(S) + 1
  BY <1>1, FS_AddElement
<1>3. {j \in T : j <= m + 1} = T
  <2>1. \A j \in 1..m : j <= m + 1
    OBVIOUS
  <2>2. \A j \in T : j <= m + 1
    BY <2>1
  <2> QED
    BY <2>2
<1>4. ASSUME NEW i \in S PROVE {j \in T : j <= i} = {j \in S : j <= i}
  <2>1. i \in 1..m /\ ~(m + 1 <= i)
    OBVIOUS
  <2> QED
    BY <2>1
<1> QED
  BY <1>2, <1>3, <1>4, Zenon DEF Rank

\* ParseSpec counts as everyone does.
LEMMA SameCardinality == \A S : Promised!Cardinality(S) = Cardinality(S)
BY DEF Promised!Cardinality, Cardinality

\* InOrder by ranks.
LEMMA InOrderIs ==
  ASSUME NEW S
  PROVE  /\ DOMAIN Promised!InOrder(S) = 1..Cardinality(S)
         /\ \A n \in 1..Cardinality(S) :
              Promised!InOrder(S)[n] = CHOOSE i \in S : Rank(S, i) = n
<1>1. \A i : Promised!Cardinality({j \in S : j <= i}) = Rank(S, i)
  BY SameCardinality DEF Rank
<1>2. Promised!Cardinality(S) = Cardinality(S)
  BY SameCardinality
<1>3. DOMAIN Promised!InOrder(S) = 1..Cardinality(S)
  BY <1>2 DEF Promised!InOrder
<1>4. ASSUME NEW n \in 1..Cardinality(S)
      PROVE  Promised!InOrder(S)[n] = CHOOSE i \in S : Rank(S, i) = n
  <2> DEFINE P(i) == Promised!Cardinality({j \in S : j <= i}) = n
  <2>1. Promised!InOrder(S)[n] = CHOOSE i \in S : P(i)
    BY <1>2 DEF Promised!InOrder
  <2>2. \A i : i \in S /\ P(i) <=> i \in S /\ Rank(S, i) = n
    BY <1>1
  <2> HIDE DEF P
  <2>3. (CHOOSE i : i \in S /\ P(i)) = (CHOOSE i : i \in S /\ Rank(S, i) = n)
    BY <2>2
  <2> QED
    BY <2>1, <2>3
<1> QED
  BY <1>3, <1>4

\* A number greater than all of S comes last.
LEMMA InOrderOneMore ==
  ASSUME NEW m \in Nat, NEW S \in SUBSET (1..m)
  PROVE  LET T == S \cup {m + 1}
         IN  /\ Cardinality(T) = Cardinality(S) + 1
             /\ Promised!InOrder(T)[Cardinality(S) + 1] = m + 1
             /\ \A n \in 1..Cardinality(S) :
                  Promised!InOrder(T)[n] = Promised!InOrder(S)[n]
<1> DEFINE T == S \cup {m + 1}
           card == Cardinality(S)
<1>1. card \in Nat
  BY RankIsNatural
<1>2. /\ Cardinality(T) = card + 1
      /\ Rank(T, m + 1) = card + 1
      /\ \A i \in S : Rank(T, i) = Rank(S, i)
  BY RanksWithOneMore
<1>3. \A i \in S : Rank(S, i) \in Nat /\ Rank(S, i) <= card
  BY RankIsNatural
<1> HIDE DEF card
<1>4. card + 1 \in 1..card + 1 /\ \A n \in 1..card : n \in 1..card + 1 /\ n # card + 1
  BY <1>1
<1>5. \A i \in T : Rank(T, i) = card + 1 <=> i = m + 1
  <2>1. \A i \in S : Rank(T, i) # card + 1
    BY <1>1, <1>2, <1>3
  <2>2. m + 1 \notin S
    OBVIOUS
  <2> QED
    BY <1>2, <2>1, <2>2
<1>6. Promised!InOrder(T)[card + 1] = m + 1
  <2>1. Promised!InOrder(T)[card + 1] = CHOOSE i \in T : Rank(T, i) = card + 1
    BY <1>2, <1>4, InOrderIs
  <2> QED
    BY <1>5, <2>1
<1>7. ASSUME NEW n \in 1..card
      PROVE  Promised!InOrder(T)[n] = Promised!InOrder(S)[n]
  <2>1. /\ Promised!InOrder(T)[n] = CHOOSE i \in T : Rank(T, i) = n
        /\ Promised!InOrder(S)[n] = CHOOSE i \in S : Rank(S, i) = n
    BY <1>2, <1>4, InOrderIs DEF card
  <2>2. \A i : i \in T /\ Rank(T, i) = n <=> i \in S /\ Rank(S, i) = n
    BY <1>2, <1>4
  <2> HIDE DEF T
  <2>3. (CHOOSE i : i \in T /\ Rank(T, i) = n) = (CHOOSE i : i \in S /\ Rank(S, i) = n)
    BY <2>2
  <2> QED
    BY <2>1, <2>3
<1> QED
  BY <1>2, <1>6, <1>7 DEF card

\* What is in order is what was in the set.
LEMMA InOrderElements ==
  \A m \in Nat : \A S \in SUBSET (1..m) :
    \A n \in 1..Cardinality(S) : Promised!InOrder(S)[n] \in S
<1> DEFINE Good == {m \in Nat : \A S \in SUBSET (1..m) :
                      \A n \in 1..Cardinality(S) : Promised!InOrder(S)[n] \in S}
<1>1. 0 \in Good
  <2> SUFFICES ASSUME NEW S \in SUBSET (1..0), NEW n \in 1..Cardinality(S)
               PROVE  FALSE
    OBVIOUS
  <2>1. S = {}
    OBVIOUS
  <2> QED
    BY <2>1, FS_EmptySet
<1>2. ASSUME NEW m \in Nat, m \in Good PROVE m + 1 \in Good
  <2> SUFFICES ASSUME NEW S \in SUBSET (1..m + 1), NEW n \in 1..Cardinality(S)
               PROVE  Promised!InOrder(S)[n] \in S
    OBVIOUS
  <2> DEFINE R == S \cap (1..m)
  <2>1. \A n_1 \in 1..Cardinality(R) : Promised!InOrder(R)[n_1] \in R
    BY <1>2
  <2>2. \A i \in 1..m + 1 : i \in 1..m \/ i = m + 1
    OBVIOUS
  <2>3. CASE m + 1 \notin S
    <3>1. S = R
      BY <2>2, <2>3
    <3> HIDE DEF R
    <3> QED
      BY <2>1, <3>1
  <2>4. CASE m + 1 \in S
    <3>1. S = R \cup {m + 1} /\ R \in SUBSET (1..m)
      BY <2>2, <2>4
    <3> HIDE DEF R
    <3>2. /\ Cardinality(S) = Cardinality(R) + 1
          /\ Promised!InOrder(S)[Cardinality(R) + 1] = m + 1
          /\ \A n_1 \in 1..Cardinality(R) :
               Promised!InOrder(S)[n_1] = Promised!InOrder(R)[n_1]
      BY <3>1, InOrderOneMore
    <3>3. Cardinality(R) \in Nat
      BY <3>1, RankIsNatural
    <3>4. n \in 1..Cardinality(R) \/ n = Cardinality(R) + 1
      BY <3>2, <3>3
    <3> QED
      BY <2>1, <2>4, <3>1, <3>2, <3>4
  <2> QED
    BY <2>3, <2>4
<1> HIDE DEF Good
<1>3. \A m \in Nat : m \in Good
  BY <1>1, <1>2, Induction
<1> QED
  BY <1>3 DEF Good

\* The values of f at the positions of S, in order.
Listed(S, f) == [n \in 1..Cardinality(S) |-> f[Promised!InOrder(S)[n]]]

\* As many values are listed as there are positions.
LEMMA ListedTypes ==
  ASSUME NEW m \in Nat, NEW S \in SUBSET (1..m), NEW D, NEW V, NEW f \in [D -> V],
         S \subseteq D
  PROVE  /\ Listed(S, f) \in Seq(V)
         /\ Len(Listed(S, f)) = Cardinality(S) /\ Cardinality(S) \in Nat
<1>1. Cardinality(S) \in Nat
  BY RankIsNatural
<1>2. \A n \in 1..Cardinality(S) : f[Promised!InOrder(S)[n]] \in V
  BY InOrderElements
<1> QED
  BY <1>1, <1>2 DEF Listed

\* Of no positions, no values.
LEMMA ListedNone == ASSUME NEW f PROVE Listed({}, f) = <<>>
<1>1. Cardinality({}) = 0
  BY FS_EmptySet
<1> QED
  BY <1>1 DEF Listed

\* A greater position is listed last.
LEMMA ListedOneMore ==
  ASSUME NEW m \in Nat, NEW S \in SUBSET (1..m), NEW D, NEW V, NEW f \in [D -> V],
         S \cup {m + 1} \subseteq D
  PROVE  Listed(S \cup {m + 1}, f) = Append(Listed(S, f), f[m + 1])
<1> DEFINE card == Cardinality(S)
           old == Listed(S, f)
           new == Listed(S \cup {m + 1}, f)
<1>1. old \in Seq(V) /\ Len(old) = card /\ card \in Nat
  BY ListedTypes
<1>2. /\ Cardinality(S \cup {m + 1}) = card + 1
      /\ Promised!InOrder(S \cup {m + 1})[card + 1] = m + 1
      /\ \A n \in 1..card :
           Promised!InOrder(S \cup {m + 1})[n] = Promised!InOrder(S)[n]
  BY InOrderOneMore
<1>3. card + 1 \in 1..card + 1 /\ \A n \in 1..card : n \in 1..card + 1
  BY <1>1
<1>4. new \in Seq(V) /\ Len(new) = card + 1
  <2>1. m + 1 \in Nat /\ S \cup {m + 1} \in SUBSET (1..m + 1)
    OBVIOUS
  <2> QED
    BY <1>2, <2>1, ListedTypes
<1>5. \A n \in 1..card : new[n] = old[n]
  BY <1>2, <1>3 DEF Listed
<1>6. new[card + 1] = f[m + 1]
  BY <1>2, <1>3 DEF Listed
<1> DEFINE longer == Append(old, f[m + 1])
<1> HIDE DEF old, new, card
<1>7. longer \in Seq(V) /\ Len(longer) = card + 1
  BY <1>1
<1>8. \A n \in 1..card + 1 : new[n] = longer[n]
  <2>1. \A n \in 1..card : longer[n] = old[n]
    BY <1>1
  <2>2. longer[card + 1] = f[m + 1]
    BY <1>1
  <2>3. \A n \in 1..card + 1 : n \in 1..card \/ n = card + 1
    BY <1>1
  <2> QED
    BY <1>5, <1>6, <2>1, <2>2, <2>3
<1> HIDE DEF longer
<1>9. new = longer
  BY <1>4, <1>7, <1>8, SeqEqual
<1> QED
  BY <1>9 DEF new, old, longer

\* Positions that follow each other are in order.
LEMMA InOrderInterval ==
  \A m \in Nat : \A n \in 1..m : Promised!InOrder(1..m)[n] = n
<1> DEFINE Good == {m \in Nat : \A n \in 1..m : Promised!InOrder(1..m)[n] = n}
<1>1. 0 \in Good
  OBVIOUS
<1>2. ASSUME NEW m \in Nat, m \in Good PROVE m + 1 \in Good
  <2> DEFINE S == 1..m
  <2>1. Cardinality(S) = m /\ S \in SUBSET (1..m)
    BY FS_Interval
  <2>2. 1..m + 1 = S \cup {m + 1}
    OBVIOUS
  <2>3. /\ Promised!InOrder(1..m + 1)[m + 1] = m + 1
        /\ \A n \in 1..m : Promised!InOrder(1..m + 1)[n] = Promised!InOrder(S)[n]
    <3> HIDE DEF S
    <3>1. /\ Promised!InOrder(S \cup {m + 1})[Cardinality(S) + 1] = m + 1
          /\ \A n \in 1..Cardinality(S) :
               Promised!InOrder(S \cup {m + 1})[n] = Promised!InOrder(S)[n]
      BY <2>1, InOrderOneMore
    <3> QED
      BY <2>1, <2>2, <3>1
  <2>4. \A n \in 1..m + 1 : n \in 1..m \/ n = m + 1
    OBVIOUS
  <2> QED
    BY <1>2, <2>3, <2>4
<1> HIDE DEF Good
<1>3. \A m \in Nat : m \in Good
  BY <1>1, <1>2, Induction
<1> QED
  BY <1>3 DEF Good

-----------------------------------------------------------------------------
(* Where the parse is, in terms of the promise *)

\* The first n tokens were looked at: of the names among them, those of the
\* options with key k, and the values that are positional.
NamesBy(c, k, n) ==
  {i \in Promised!NamesAfterPath(c) : i <= n /\ Promised!OptionAt(c, i).key = k}

PositionalBy(c, n) == {i \in Promised!Positional(c) : i <= n}

\* What the name at position i stores, and the text at position i.
ValueGiven(c) ==
  [i \in DOMAIN args |->
     IF Promised!HasExplicitValue(c, i)
       THEN TokenValue(args[Promised!ValueOf(i)].text) ELSE ImplicitValue]

TextOf == [i \in DOMAIN args |-> args[i].text]

ValuesBy(c, k, n) == Listed(NamesBy(c, k, n), ValueGiven(c))
TextsBy(c, n)     == Listed(PositionalBy(c, n), TextOf)

RightName(c, i, stored) ==
  /\ Promised!OptionsNamed(c, i) # {}
  /\ ~Promised!LacksValue(c, i)
  /\ ~Promised!GivenBefore(c, i, stored)

\* The first n tokens are done with, the values of the options they name too.
NamesRight(c, n, stored) ==
  \A i \in Promised!NamesAfterPath(c) : i <= n =>
    /\ RightName(c, i, stored)
    /\ Promised!HasExplicitValue(c, i) => Promised!ValueOf(i) <= n

Settled(c, n, stored) ==
  /\ n >= Promised!Start(c)
  /\ NamesRight(c, n, stored)
  /\ \A k \in Keys : ovm[k] = stored[k] \o ValuesBy(c, k, n)
  /\ positional_tokens = TextsBy(c, n)

\* An option state has its option, named at position p, and no value yet.
Awaited(c, p, stored) ==
  /\ p \in Promised!NamesAfterPath(c)
  /\ Settled(c, p - 1, stored)
  /\ Promised!OptionsNamed(c, p) # {}
  /\ active_option = Promised!First(Promised!OptionsNamed(c, p))
  /\ ~Promised!GivenBefore(c, p, stored)
  /\ machine = "ParseLongOptionState" <=> args[p].type = "LongOption"
  /\ IF after_equal_sign
       THEN HandledCount = p + 1 /\ Promised!WithEqualSign(p)
       ELSE HandledCount = p

ValueTaken(c, stored) ==
  /\ Settled(c, HandledCount, stored)
  /\ HandledCount # 0 /\ args[HandledCount].type = "Value"

\* Positions in the list of positional tokens whose texts key k is given.
TakenFor(c, k) ==
  LET at == Promised!InOrder(Promised!Positional(c))
  IN  {n \in DOMAIN at : \E p \in Promised!Declared(c) :
         /\ commands[c].positionals[p].key = k
         /\ n \in Promised!Share(c, p, Len(at))
         /\ args[at[n]].text \in commands[c].positionals[p].accepts}

ValueStored(c) ==
  LET at == Promised!InOrder(Promised!Positional(c))
  IN  [n \in DOMAIN at |-> PositionalValue(args[at[n]].text)]

Total(c) == Cardinality(Promised!Positional(c))

\* The promise, of the values as they are stored, with their flags: what one
\* name stores, what one positional token does, and what they come to.
NamesOfKey(c, k) ==
  Promised!InOrder({i \in Promised!NamesAfterPath(c) : Promised!OptionAt(c, i).key = k})

NameStores(c, i) ==
  IF Promised!HasExplicitValue(c, i)
    THEN TokenValue(args[Promised!ValueOf(i)].text) ELSE ImplicitValue

TokensOfKey(c, k) == Promised!InOrder(TakenFor(c, k))

PositionStores(c, n) ==
  PositionalValue(args[Promised!InOrder(Promised!Positional(c))[n]].text)

StoredByName(c, k) ==
  [n \in DOMAIN NamesOfKey(c, k) |-> NameStores(c, NamesOfKey(c, k)[n])]

StoredByPosition(c, k) ==
  [n \in DOMAIN TokensOfKey(c, k) |-> PositionStores(c, TokensOfKey(c, k)[n])]

StoredGiven(c, stored) ==
  [k \in Keys |-> stored[k] \o StoredByName(c, k) \o StoredByPosition(c, k)]

StoredWithDefaults(c, given) ==
  [k \in Keys |->
     IF given[k] = <<>> /\ \E a \in Promised!Arguments(c) : a.key = k /\ a.default
       THEN <<DefaultValue>>
       ELSE given[k]]

StoredOutcome(c, stored) ==
  LET values == StoredWithDefaults(c, StoredGiven(c, stored))
  IN  IF Promised!WrongOption(c, stored) THEN Promised!Rejected
      ELSE IF Promised!TooFewTokens(c) THEN Promised!Undefined
      ELSE IF Promised!TooManyTokens(c) \/ ~Promised!Complete(c, values)
        THEN Promised!Rejected
      ELSE Promised!Outcome("accepted", c, values)

StoredOutcomes(stored) ==
  IF Promised!Candidates = {}
    THEN {Promised!Rejected}
    ELSE {StoredOutcome(c, stored) : c \in Promised!Candidates}

\* What the parse has come to, with the flags.
OutcomeNow ==
  [status  |-> status,
   command |-> IF status = "accepted" THEN active_command ELSE 0,
   values  |-> IF status = "accepted" THEN ovm ELSE [k \in Keys |-> <<>>]]

\* FinalState has taken a tokens from the front and b from the back, is at the
\* argument `next`, and has met the argument `rest` that takes the rest, or 0.
TakenPlace(c, a, b, next, rest) ==
  LET declared == commands[c].positionals
  IN  /\ a + b <= Total(c)
      /\ next <= Len(declared) + 1
      /\ rest = 0 =>
           /\ b = 0 /\ a + 1 = next
           /\ \A p \in DOMAIN declared :
                p < next => ~IsPositionalRest(declared[p])
      /\ rest # 0 =>
           /\ rest \in DOMAIN declared /\ IsPositionalRest(declared[rest])
           /\ rest + b + 1 = next
           /\ rest <= a + 1
           /\ next <= Len(declared) => rest = a + 1

TakenSoFar(c, a, b) ==
  /\ positional_tokens = SubSeq(TextsBy(c, Len(args)), a + 1, Total(c) - b)
  /\ TakenPlace(c, a, b, next_positional, rest_option)

StoredSoFar(c, a, b, stored) ==
  \A k \in Keys :
    ovm[k] = (stored[k] \o ValuesBy(c, k, Len(args)))
               \o Listed({n \in TakenFor(c, k) : n <= a \/ n > Total(c) - b},
                         ValueStored(c))

\* The defaults of the options are filled in.
OptionsFilled(c, stored) ==
  /\ ~InPositionals /\ positional_tokens = <<>>
  /\ \A k \in Keys :
       ovm[k] = IF /\ StoredGiven(c, stored)[k] = <<>>
                   /\ \E o \in DOMAIN CommandOptions :
                        CommandOptions[o].key = k /\ CommandOptions[o].default
                  THEN <<DefaultValue>> ELSE StoredGiven(c, stored)[k]
  /\ \A o \in DOMAIN CommandOptions :
       CommandOptions[o].required => ovm[CommandOptions[o].key] # <<>>

EndReached(c, stored) ==
  /\ token.type = "EndOfInput"
  /\ NamesRight(c, Len(args), stored)
  /\ \E a, b \in 0..Len(args) :
       /\ TakenSoFar(c, a, b)
       /\ ~options_checked /\ ~Promised!TooFewTokens(c)
            => StoredSoFar(c, a, b, stored)
  /\ options_checked => OptionsFilled(c, stored)

\* The inductive invariant of what a parse comes to, when the values in
\* `stored` were there before.
Follows(stored) ==
  /\ after_equal_sign => machine = "ParseLongOptionState"
  /\ status = "running" =>
       /\ machine \notin CommandKnown => ovm = stored /\ positional_tokens = <<>>
       /\ machine = "ParseOptionsState"
            => /\ Settled(active_command, HandledCount, stored)
               /\ token.type # "EqualSign"
       /\ machine \in OptionStates /\ value_[machine]
            => ValueTaken(active_command, stored)
       /\ machine \in OptionStates /\ ~value_[machine]
            => \E p \in DOMAIN args : Awaited(active_command, p, stored)
       /\ machine # "DashDashState"
       /\ machine # "FinalState" => /\ next_positional = 1 /\ rest_option = 0
                                    /\ ~options_checked
       /\ machine = "FinalState" => EndReached(active_command, stored)
  /\ status \in {"accepted", "rejected", "undefined"}
       => OutcomeNow \in StoredOutcomes(stored)


\* What the promise says of one position depends on commands and tokens only.
LEMMA SamePath ==
  ASSUME UNCHANGED <<commands, args>>, NEW c, NEW i
  PROVE  /\ Promised!Start(c)' = Promised!Start(c)
         /\ Promised!NamesAfterPath(c)' = Promised!NamesAfterPath(c)
         /\ Promised!OptionsNamed(c, i)' = Promised!OptionsNamed(c, i)
         /\ Promised!OptionAt(c, i)' = Promised!OptionAt(c, i)
         /\ Promised!IsValueAt(i)' = Promised!IsValueAt(i)
         /\ Promised!WithEqualSign(i)' = Promised!WithEqualSign(i)
         /\ Promised!ValueOf(i)' = Promised!ValueOf(i)
         /\ Promised!HasExplicitValue(c, i)' = Promised!HasExplicitValue(c, i)
         /\ Promised!LacksValue(c, i)' = Promised!LacksValue(c, i)
<1>1. Promised!Named' = Promised!Named
  BY DEF Promised!Named
<1>2. Promised!Start(c)' = Promised!Start(c)
  BY <1>1 DEF Promised!Start
<1>3. Promised!NamesAfterPath(c)' = Promised!NamesAfterPath(c)
  BY <1>2 DEF Promised!NamesAfterPath, Promised!OptionNames
<1>4. Promised!OptionsNamed(c, i)' = Promised!OptionsNamed(c, i)
  BY DEF Promised!OptionsNamed
<1>5. Promised!OptionAt(c, i)' = Promised!OptionAt(c, i)
  BY <1>4 DEF Promised!OptionAt, Promised!First
<1>6. /\ \A j : Promised!IsValueAt(j)' = Promised!IsValueAt(j)
      /\ Promised!WithEqualSign(i)' = Promised!WithEqualSign(i)
  BY DEF Promised!IsValueAt, Promised!WithEqualSign
<1>7. Promised!ValueOf(i)' = Promised!ValueOf(i)
  BY <1>6 DEF Promised!ValueOf
<1>8. Promised!IsValueAt(Promised!ValueOf(i))' = Promised!IsValueAt(Promised!ValueOf(i))
  BY <1>7 DEF Promised!IsValueAt
<1>9. Promised!HasExplicitValue(c, i)' = Promised!HasExplicitValue(c, i)
  BY <1>5, <1>7, <1>8 DEF Promised!HasExplicitValue
<1>10. Promised!LacksValue(c, i)' = Promised!LacksValue(c, i)
  BY <1>5, <1>6, <1>8, <1>9 DEF Promised!LacksValue
<1> QED
  BY <1>2, <1>3, <1>4, <1>5, <1>6, <1>7, <1>9, <1>10

\* What the promise says of the names and the values does not change either.
LEMMA SameDemands ==
  ASSUME UNCHANGED <<commands, args>>, NEW c, NEW i, NEW k, NEW n, NEW stored
  PROVE  /\ Promised!GivenBefore(c, i, stored)' <=> Promised!GivenBefore(c, i, stored)
         /\ NamesRight(c, n, stored)' <=> NamesRight(c, n, stored)
         /\ ValuesBy(c, k, n)' = ValuesBy(c, k, n)
         /\ TextsBy(c, n)' = TextsBy(c, n)
<1>1. ASSUME NEW j
      PROVE  Promised!GivenBefore(c, j, stored)' <=> Promised!GivenBefore(c, j, stored)
  <2>1. /\ Promised!NamesAfterPath(c)' = Promised!NamesAfterPath(c)
        /\ Promised!OptionAt(c, j)' = Promised!OptionAt(c, j)
    BY SamePath
  <2>2. \A l : Promised!OptionAt(c, l)' = Promised!OptionAt(c, l)
    BY SamePath
  <2> QED
    BY <2>1, <2>2 DEF Promised!GivenBefore
<1>2. /\ Promised!NamesAfterPath(c)' = Promised!NamesAfterPath(c)
      /\ \A j : /\ Promised!OptionsNamed(c, j)' = Promised!OptionsNamed(c, j)
                /\ Promised!OptionAt(c, j)' = Promised!OptionAt(c, j)
                /\ Promised!ValueOf(j)' = Promised!ValueOf(j)
                /\ Promised!HasExplicitValue(c, j)' = Promised!HasExplicitValue(c, j)
                /\ Promised!LacksValue(c, j)' = Promised!LacksValue(c, j)
  BY SamePath
<1>3. \A j : RightName(c, j, stored)' <=> RightName(c, j, stored)
  BY <1>1, <1>2 DEF RightName
<1>4. NamesRight(c, n, stored)' <=> NamesRight(c, n, stored)
  BY <1>2, <1>3 DEF NamesRight
<1>5. NamesBy(c, k, n)' = NamesBy(c, k, n)
  BY <1>2 DEF NamesBy
<1>6. ValueGiven(c)' = ValueGiven(c) /\ TextOf' = TextOf
  <2>1. \A j : args[Promised!ValueOf(j)]'.text = args[Promised!ValueOf(j)].text
    BY <1>2
  <2> QED
    BY <1>2, <2>1 DEF ValueGiven, TextOf, TokenValue, ImplicitValue
<1>7. PositionalBy(c, n)' = PositionalBy(c, n)
  <2>1. Promised!Start(c)' = Promised!Start(c)
          /\ \A j : Promised!IsValueAt(j)' = Promised!IsValueAt(j)
    BY SamePath
  <2>2. Promised!Positional(c)' = Promised!Positional(c)
    BY <1>2, <2>1 DEF Promised!Positional
  <2> QED
    BY <2>2 DEF PositionalBy
<1>8. ValuesBy(c, k, n)' = ValuesBy(c, k, n)
  BY <1>5, <1>6 DEF ValuesBy
<1>9. TextsBy(c, n)' = TextsBy(c, n)
  BY <1>6, <1>7 DEF TextsBy
<1> QED
  BY <1>1, <1>4, <1>8, <1>9

\* Nor what it says of the positional arguments and the outcome.
LEMMA SameOutcomes ==
  ASSUME UNCHANGED <<commands, args>>, NEW c, NEW k, NEW stored
  PROVE  /\ Total(c)' = Total(c)
         /\ TakenFor(c, k)' = TakenFor(c, k)
         /\ ValueStored(c)' = ValueStored(c)
         /\ StoredGiven(c, stored)' = StoredGiven(c, stored)
         /\ StoredOutcomes(stored)' = StoredOutcomes(stored)
<1>1. \A d : Promised!Positional(d)' = Promised!Positional(d)
  <2>1. ASSUME NEW d
        PROVE  /\ Promised!Start(d)' = Promised!Start(d)
               /\ Promised!NamesAfterPath(d)' = Promised!NamesAfterPath(d)
    BY SamePath
  <2>2. ASSUME NEW d, NEW i
        PROVE  /\ Promised!IsValueAt(i)' = Promised!IsValueAt(i)
               /\ Promised!ValueOf(i)' = Promised!ValueOf(i)
               /\ Promised!HasExplicitValue(d, i)' = Promised!HasExplicitValue(d, i)
    BY SamePath
  <2> QED
    BY <2>1, <2>2 DEF Promised!Positional
<1>2. \A d : Promised!InOrder(Promised!Positional(d))'
               = Promised!InOrder(Promised!Positional(d))
  BY <1>1, Zenon
<1>3. \A d : /\ Promised!Declared(d)' = Promised!Declared(d)
             /\ Promised!TakesRest(d)' = Promised!TakesRest(d)
  BY DEF Promised!Declared, Promised!TakesRest
<1>4. \A d, p, n : Promised!Share(d, p, n)' = Promised!Share(d, p, n)
  BY <1>3 DEF Promised!Share, Promised!First
<1>5. \A d, l : TakenFor(d, l)' = TakenFor(d, l)
  BY <1>2, <1>3, <1>4 DEF TakenFor
<1>6. ValueStored(c)' = ValueStored(c) /\ Total(c)' = Total(c)
  BY <1>1, <1>2 DEF ValueStored, Total, PositionalValue
<1>7. \A d, l : StoredByName(d, l)' = StoredByName(d, l)
  <2> SUFFICES ASSUME NEW d, NEW l
               PROVE  StoredByName(d, l)' = StoredByName(d, l)
    OBVIOUS
  <2>1. /\ Promised!NamesAfterPath(d)' = Promised!NamesAfterPath(d)
        /\ \A i : /\ Promised!OptionAt(d, i)' = Promised!OptionAt(d, i)
                  /\ Promised!ValueOf(i)' = Promised!ValueOf(i)
                  /\ Promised!HasExplicitValue(d, i)' = Promised!HasExplicitValue(d, i)
    BY SamePath
  <2>2. NamesOfKey(d, l)' = NamesOfKey(d, l)
    BY <2>1 DEF NamesOfKey
  <2>3. \A i : args[Promised!ValueOf(i)]'.text = args[Promised!ValueOf(i)].text
    BY <2>1
  <2>4. \A i : NameStores(d, i)' = NameStores(d, i)
    BY <2>1, <2>3 DEF NameStores, TokenValue, ImplicitValue
  <2>5. \A n : NameStores(d, NamesOfKey(d, l)[n])' = NameStores(d, NamesOfKey(d, l)[n])
    BY <2>1, <2>2, <2>3 DEF NameStores, TokenValue, ImplicitValue
  <2> QED
    BY <2>2, <2>5 DEF StoredByName
<1>8. \A d, l : StoredByPosition(d, l)' = StoredByPosition(d, l)
  <2> SUFFICES ASSUME NEW d, NEW l
               PROVE  StoredByPosition(d, l)' = StoredByPosition(d, l)
    OBVIOUS
  <2>1. TakenFor(d, l)' = TakenFor(d, l)
    BY <1>5
  <2>2. TokensOfKey(d, l)' = TokensOfKey(d, l)
    BY <2>1 DEF TokensOfKey
  <2>3. \A n : PositionStores(d, TokensOfKey(d, l)[n])'
               = PositionStores(d, TokensOfKey(d, l)[n])
    BY <1>2, <2>2 DEF PositionStores, PositionalValue
  <2> QED
    BY <2>2, <2>3 DEF StoredByPosition
<1>9. \A d : StoredGiven(d, stored)' = StoredGiven(d, stored)
  BY <1>7, <1>8 DEF StoredGiven
<1>10. \A d : Promised!WrongOption(d, stored)' <=> Promised!WrongOption(d, stored)
  <2> SUFFICES ASSUME NEW d
               PROVE  Promised!WrongOption(d, stored)' <=> Promised!WrongOption(d, stored)
    OBVIOUS
  <2>1. Promised!NamesAfterPath(d)' = Promised!NamesAfterPath(d)
    BY SamePath
  <2>2. \A j : /\ Promised!OptionsNamed(d, j)' = Promised!OptionsNamed(d, j)
               /\ Promised!LacksValue(d, j)' = Promised!LacksValue(d, j)
    BY SamePath
  <2>3. \A j : Promised!GivenBefore(d, j, stored)' <=> Promised!GivenBefore(d, j, stored)
    BY SameDemands
  <2> QED
    BY <2>1, <2>2, <2>3 DEF Promised!WrongOption
<1>11. Promised!Candidates' = Promised!Candidates
  <2>1. Promised!Named' = Promised!Named
    BY DEF Promised!Named
  <2>2. \A d : Promised!Begins(d)' <=> Promised!Begins(d)
    BY DEF Promised!Begins, Promised!IsValueAt
  <2>3. Promised!Deepest' = Promised!Deepest
    BY <2>1, <2>2 DEF Promised!Deepest
  <2> QED
    BY <2>1, <2>3 DEF Promised!Candidates
<1>12. \A d : StoredOutcome(d, stored)' = StoredOutcome(d, stored)
  <2> SUFFICES ASSUME NEW d
               PROVE  StoredOutcome(d, stored)' = StoredOutcome(d, stored)
    OBVIOUS
  <2>1. /\ Promised!TooFewTokens(d)' <=> Promised!TooFewTokens(d)
        /\ Promised!TooManyTokens(d)' <=> Promised!TooManyTokens(d)
    BY <1>1, <1>3 DEF Promised!TooFewTokens, Promised!TooManyTokens
  <2>2. Promised!Arguments(d)' = Promised!Arguments(d)
    BY <1>3 DEF Promised!Arguments
  <2> DEFINE Values == StoredWithDefaults(d, StoredGiven(d, stored))
  <2>3. Values' = Values
    <3>1. PICK given : given = StoredGiven(d, stored)
      OBVIOUS
    <3>2. given = StoredGiven(d, stored)'
      BY <1>9, <3>1
    <3>3. StoredWithDefaults(d, given)' = StoredWithDefaults(d, given)
      BY <2>2 DEF StoredWithDefaults, DefaultValue
    <3> QED
      BY <3>1, <3>2, <3>3, Zenon
  <2>4. Promised!Complete(d, Values)' <=> Promised!Complete(d, Values)
    BY <2>2, <2>3 DEF Promised!Complete
  <2> QED
    BY <1>10, <2>1, <2>3, <2>4, Zenon
    DEF StoredOutcome, Promised!Rejected, Promised!Undefined,
        Promised!Outcome, Promised!NoValues
<1> QED
  BY <1>5, <1>6, <1>9, <1>11, <1>12 DEF StoredOutcomes

-----------------------------------------------------------------------------
(* Names, values and positions of a command line *)

\* The tokens of the line have the types the parser assumes.
LEMMA LineTypes ==
  ASSUME IInv, Reading
  PROVE  /\ Len(args) \in Nat /\ DOMAIN args = 1..Len(args)
         /\ \A i \in DOMAIN args : /\ i \in Nat \ {0}
                                   /\ args[i] \in Tokens
                                   /\ args[i].text \in Texts \cup {""}
                                   /\ args[i].type \in TokenTypes \ {"EndOfInput"}
<1>1. args \in TokenLines
  BY DEF Reading
<1>2. args \in Seq(Tokens) /\ Len(args) \in Nat /\ DOMAIN args = 1..Len(args)
  BY <1>1, InputTypes
<1>3. \A i \in 1..Len(args) : args[i] \in Tokens /\ args[i].type # "EndOfInput"
  BY <1>1, InputTypes
<1>4. \A t \in Tokens : t.text \in Texts \cup {""} /\ t.type \in TokenTypes
  BY DEF Tokens
<1>5. \A i \in 1..Len(args) : i \in Nat \ {0}
  BY <1>2
<1> QED
  BY <1>2, <1>3, <1>4, <1>5

\* Names and positional values are positions of the line and no position is
\* both; the value of a name stands behind it.
LEMMA NamesAndValues ==
  ASSUME IInv, Reading, NEW c
  PROVE  /\ Promised!NamesAfterPath(c) \subseteq DOMAIN args
         /\ Promised!Positional(c) \subseteq DOMAIN args
         /\ \A i \in Promised!NamesAfterPath(c) :
              args[i].type \notin {"Value", "EqualSign", "DashDash"}
         /\ \A i \in Promised!Positional(c) : args[i].type = "Value"
         /\ \A i \in DOMAIN args :
              Promised!ValueOf(i) \in {i + 1, i + 2} /\ Promised!ValueOf(i) > i
         /\ \A i : Promised!HasExplicitValue(c, i) =>
              /\ Promised!ValueOf(i) \in DOMAIN args
              /\ args[Promised!ValueOf(i)].type = "Value"
<1>1. \A i \in DOMAIN args :
        Promised!ValueOf(i) \in {i + 1, i + 2} /\ Promised!ValueOf(i) > i
  <2> SUFFICES ASSUME NEW i \in DOMAIN args
               PROVE  Promised!ValueOf(i) \in {i + 1, i + 2} /\ Promised!ValueOf(i) > i
    OBVIOUS
  <2>1. i \in Nat
    BY LineTypes
  <2> QED
    BY <2>1 DEF Promised!ValueOf
<1> QED
  BY <1>1 DEF Promised!NamesAfterPath, Promised!Positional, Promised!OptionNames,
     Promised!HasExplicitValue, Promised!IsValueAt

\* What a position gives has the type of a value.
LEMMA StoredTypes ==
  ASSUME IInv, Reading, NEW c
  PROVE  /\ ValueGiven(c) \in [DOMAIN args -> OptionValues]
         /\ TextOf \in [DOMAIN args -> Texts \cup {""}]
<1>1. ASSUME NEW i \in DOMAIN args PROVE ValueGiven(c)[i] \in OptionValues
  <2>1. CASE Promised!HasExplicitValue(c, i)
    <3>1. args[Promised!ValueOf(i)].text \in Texts \cup {""}
      BY <2>1, LineTypes, NamesAndValues
    <3>2. ValueGiven(c)[i] = TokenValue(args[Promised!ValueOf(i)].text)
      BY <2>1 DEF ValueGiven
    <3> QED
      BY <3>1, <3>2, ValueTypes
  <2>2. CASE ~Promised!HasExplicitValue(c, i)
    BY <2>2, ValueTypes DEF ValueGiven
  <2> QED
    BY <2>1, <2>2
<1>2. ValueGiven(c) = [i \in DOMAIN args |-> ValueGiven(c)[i]]
  BY DEF ValueGiven
<1> QED
  BY <1>1, <1>2, LineTypes DEF TextOf

\* The least position of a set of positions.
LEMMA FirstIsMember ==
  ASSUME NEW S \in SUBSET Nat, S # {}
  PROVE  Promised!First(S) \in S /\ \A j \in S : Promised!First(S) <= j
<1>1. \E i \in S : \A j \in S : i <= j
  BY LeastExists
<1> QED
  BY <1>1 DEF Promised!First

\* The option that a name finds is the one the promise speaks of.
LEMMA OptionFound ==
  ASSUME IInv, Reading, NEW c \in DOMAIN commands, NEW i \in DOMAIN args
  PROVE  /\ Promised!OptionsNamed(c, i) \subseteq DOMAIN commands[c].options
         /\ Promised!OptionsNamed(c, i) # {} =>
              /\ Promised!First(Promised!OptionsNamed(c, i))
                   \in Promised!OptionsNamed(c, i)
              /\ Promised!OptionAt(c, i) \in Options
              /\ Promised!OptionAt(c, i).key \in Keys
              /\ \E o \in DOMAIN commands[c].options :
                   Promised!OptionAt(c, i) = commands[c].options[o]
<1>1. Promised!OptionsNamed(c, i) \subseteq DOMAIN commands[c].options
  BY DEF Promised!OptionsNamed
<1>2. commands[c].options \in Seq(Options)
  BY CommandTypes, ContextTypesOpened
<1>3. DOMAIN commands[c].options \subseteq Nat
  BY <1>2
<1> SUFFICES ASSUME Promised!OptionsNamed(c, i) # {}
             PROVE  /\ Promised!First(Promised!OptionsNamed(c, i))
                         \in Promised!OptionsNamed(c, i)
                    /\ Promised!OptionAt(c, i) \in Options
                    /\ Promised!OptionAt(c, i).key \in Keys
                    /\ \E o \in DOMAIN commands[c].options :
                         Promised!OptionAt(c, i) = commands[c].options[o]
  BY <1>1
<1>4. Promised!First(Promised!OptionsNamed(c, i)) \in Promised!OptionsNamed(c, i)
  BY <1>1, <1>3, FirstIsMember
<1>5. PICK o \in DOMAIN commands[c].options : Promised!OptionAt(c, i) = commands[c].options[o]
  BY <1>1, <1>4 DEF Promised!OptionAt
<1>6. commands[c].options[o] \in Options
  BY <1>2
<1>7. commands[c].options[o].key \in Keys
  BY <1>6 DEF Options
<1> QED
  BY <1>4, <1>5, <1>6, <1>7

\* The positions looked at are positions of the command line.
LEMMA ByPositions ==
  ASSUME IInv, Reading, NEW c, NEW k, NEW n \in Nat
  PROVE  /\ NamesBy(c, k, n) \in SUBSET (1..n) /\ NamesBy(c, k, n) \subseteq DOMAIN args
         /\ PositionalBy(c, n) \in SUBSET (1..n)
         /\ PositionalBy(c, n) \subseteq DOMAIN args
<1>1. \A i \in DOMAIN args : i \in Nat \ {0}
  BY LineTypes
<1>2. /\ Promised!NamesAfterPath(c) \subseteq DOMAIN args
      /\ Promised!Positional(c) \subseteq DOMAIN args
  BY NamesAndValues
<1>3. \A i \in Nat \ {0} : i <= n => i \in 1..n
  OBVIOUS
<1> QED
  BY <1>1, <1>2, <1>3 DEF NamesBy, PositionalBy

\* So have the lists of what the first positions give.
LEMMA ByTypes ==
  ASSUME IInv, Reading, NEW c, NEW k, NEW n \in Nat
  PROVE  /\ ValuesBy(c, k, n) \in Seq(OptionValues)
         /\ ValuesBy(c, k, n) = <<>> <=> NamesBy(c, k, n) = {}
         /\ TextsBy(c, n) \in Seq(Texts \cup {""})
<1>1. /\ ValueGiven(c) \in [DOMAIN args -> OptionValues]
      /\ TextOf \in [DOMAIN args -> Texts \cup {""}]
  BY StoredTypes
<1>2. /\ NamesBy(c, k, n) \in SUBSET (1..n) /\ NamesBy(c, k, n) \subseteq DOMAIN args
      /\ PositionalBy(c, n) \in SUBSET (1..n)
      /\ PositionalBy(c, n) \subseteq DOMAIN args
  BY ByPositions
<1>3. /\ ValuesBy(c, k, n) \in Seq(OptionValues)
      /\ Len(ValuesBy(c, k, n)) = Cardinality(NamesBy(c, k, n))
  BY <1>1, <1>2, ListedTypes DEF ValuesBy
<1>4. TextsBy(c, n) \in Seq(Texts \cup {""})
  BY <1>1, <1>2, ListedTypes DEF TextsBy
<1>5. IsFiniteSet(NamesBy(c, k, n))
  BY <1>2, FS_Interval, FS_Subset
<1>6. Cardinality(NamesBy(c, k, n)) = 0 <=> NamesBy(c, k, n) = {}
  BY <1>5, FS_EmptySet
<1>7. ValuesBy(c, k, n) = <<>> <=> Len(ValuesBy(c, k, n)) = 0
  BY <1>3
<1> QED
  BY <1>3, <1>4, <1>6, <1>7

\* One token more: a name of an option with key k has one value more, and
\* nothing else has.
LEMMA NamesOneMore ==
  ASSUME IInv, Reading, NEW c, NEW k, NEW n \in Nat
  PROVE  IF n + 1 \in Promised!NamesAfterPath(c)
               /\ Promised!OptionAt(c, n + 1).key = k
           THEN ValuesBy(c, k, n + 1)
                  = Append(ValuesBy(c, k, n), ValueGiven(c)[n + 1])
           ELSE ValuesBy(c, k, n + 1) = ValuesBy(c, k, n)
<1>1. \A i \in Nat : i <= n + 1 <=> i <= n \/ i = n + 1
  OBVIOUS
<1>2. Promised!NamesAfterPath(c) \subseteq Nat
        /\ Promised!NamesAfterPath(c) \subseteq DOMAIN args
  BY LineTypes, NamesAndValues
<1>3. CASE n + 1 \in Promised!NamesAfterPath(c)
             /\ Promised!OptionAt(c, n + 1).key = k
  <2>1. NamesBy(c, k, n + 1) = NamesBy(c, k, n) \cup {n + 1}
    BY <1>1, <1>2, <1>3 DEF NamesBy
  <2>2. NamesBy(c, k, n) \in SUBSET (1..n) /\ NamesBy(c, k, n) \subseteq DOMAIN args
    BY ByPositions
  <2>3. ValueGiven(c) \in [DOMAIN args -> OptionValues]
    BY StoredTypes
  <2>4. NamesBy(c, k, n) \cup {n + 1} \subseteq DOMAIN args
    BY <1>2, <1>3, <2>2
  <2>5. Listed(NamesBy(c, k, n) \cup {n + 1}, ValueGiven(c))
          = Append(Listed(NamesBy(c, k, n), ValueGiven(c)), ValueGiven(c)[n + 1])
    BY <2>2, <2>3, <2>4, ListedOneMore
  <2> QED
    BY <1>3, <2>1, <2>5 DEF ValuesBy
<1>4. CASE ~(n + 1 \in Promised!NamesAfterPath(c)
               /\ Promised!OptionAt(c, n + 1).key = k)
  <2>1. NamesBy(c, k, n + 1) = NamesBy(c, k, n)
    BY <1>1, <1>2, <1>4 DEF NamesBy
  <2> QED
    BY <1>4, <2>1 DEF ValuesBy
<1> QED
  BY <1>3, <1>4

\* One position further there is one more positional text, or none.
LEMMA TextsOneMore ==
  ASSUME IInv, Reading, NEW c, NEW n \in Nat
  PROVE  IF n + 1 \in Promised!Positional(c)
           THEN TextsBy(c, n + 1) = Append(TextsBy(c, n), args[n + 1].text)
           ELSE TextsBy(c, n + 1) = TextsBy(c, n)
<1>1. \A i \in Nat : i <= n + 1 <=> i <= n \/ i = n + 1
  OBVIOUS
<1>2. Promised!Positional(c) \subseteq Nat
        /\ Promised!Positional(c) \subseteq DOMAIN args
  BY LineTypes, NamesAndValues
<1>3. CASE n + 1 \in Promised!Positional(c)
  <2>1. PositionalBy(c, n + 1) = PositionalBy(c, n) \cup {n + 1}
    BY <1>1, <1>2, <1>3 DEF PositionalBy
  <2>2. PositionalBy(c, n) \in SUBSET (1..n) /\ PositionalBy(c, n) \subseteq DOMAIN args
    BY ByPositions
  <2>3. TextOf \in [DOMAIN args -> Texts \cup {""}]
    BY StoredTypes
  <2>4. PositionalBy(c, n) \cup {n + 1} \subseteq DOMAIN args
    BY <1>2, <1>3, <2>2
  <2>5. Listed(PositionalBy(c, n) \cup {n + 1}, TextOf)
          = Append(Listed(PositionalBy(c, n), TextOf), TextOf[n + 1])
    BY <2>2, <2>3, <2>4, ListedOneMore
  <2>6. TextOf[n + 1] = args[n + 1].text
    BY <2>4 DEF TextOf
  <2> QED
    BY <1>3, <2>1, <2>5, <2>6 DEF TextsBy
<1>4. CASE n + 1 \notin Promised!Positional(c)
  <2>1. PositionalBy(c, n + 1) = PositionalBy(c, n)
    BY <1>1, <1>2, <1>4 DEF PositionalBy
  <2> QED
    BY <1>4, <2>1 DEF TextsBy
<1> QED
  BY <1>3, <1>4

\* Nothing is stored before the first name, and nothing positional.
LEMMA NothingBy ==
  ASSUME IInv, Reading, NEW c, NEW n \in Nat, n <= Promised!Start(c),
         Promised!Start(c) \in Nat
  PROVE  /\ \A k : ValuesBy(c, k, n) = <<>>
         /\ TextsBy(c, n) = <<>>
         /\ \A stored : NamesRight(c, n, stored)
<1>1. /\ \A i \in Promised!NamesAfterPath(c) : i \in Nat /\ i > Promised!Start(c)
      /\ \A i \in Promised!Positional(c) : i \in Nat /\ i > Promised!Start(c)
  BY LineTypes, NamesAndValues DEF Promised!NamesAfterPath, Promised!Positional
<1>2. \A i \in Nat : ~(i > Promised!Start(c) /\ i <= n)
  OBVIOUS
<1>3. \A k : NamesBy(c, k, n) = {}
  BY <1>1, <1>2 DEF NamesBy
<1>4. PositionalBy(c, n) = {}
  BY <1>1, <1>2 DEF PositionalBy
<1>5. \A stored : NamesRight(c, n, stored)
  BY <1>1, <1>2 DEF NamesRight
<1> QED
  BY <1>3, <1>4, <1>5, ListedNone DEF ValuesBy, TextsBy

\* All that is positional is listed by the end.
LEMMA AllTexts ==
  ASSUME IInv, Reading, NEW c
  PROVE  /\ PositionalBy(c, Len(args)) = Promised!Positional(c)
         /\ Total(c) \in Nat /\ Total(c) <= Len(args)
         /\ Len(TextsBy(c, Len(args))) = Total(c)
         /\ \A k : NamesBy(c, k, Len(args)) =
              {i \in Promised!NamesAfterPath(c) : Promised!OptionAt(c, i).key = k}
<1>1. Len(args) \in Nat /\ DOMAIN args = 1..Len(args)
        /\ \A i \in DOMAIN args : i <= Len(args)
  <2>1. Len(args) \in Nat /\ DOMAIN args = 1..Len(args)
    BY LineTypes
  <2> QED
    BY <2>1
<1>2. /\ Promised!NamesAfterPath(c) \subseteq DOMAIN args
      /\ Promised!Positional(c) \subseteq DOMAIN args
  BY NamesAndValues
<1>3. PositionalBy(c, Len(args)) = Promised!Positional(c)
  BY <1>1, <1>2 DEF PositionalBy
<1>4. Promised!Positional(c) \in SUBSET (1..Len(args))
  BY <1>1, <1>2
<1>5. Total(c) \in Nat
  BY <1>1, <1>4, RankIsNatural DEF Total
<1>6. Total(c) <= Len(args)
  <2>1. \A n \in Nat : IsFiniteSet(1..n) /\ Cardinality(1..n) = n
    BY FS_Interval
  <2>2. IsFiniteSet(1..Len(args)) /\ Cardinality(1..Len(args)) = Len(args)
    BY <1>1, <2>1
  <2> QED
    BY <1>4, <2>2, FS_Subset DEF Total
<1>7. TextOf \in [DOMAIN args -> Texts \cup {""}]
  BY StoredTypes
<1>8. Len(TextsBy(c, Len(args))) = Total(c)
  BY <1>1, <1>2, <1>3, <1>4, <1>7, ListedTypes DEF TextsBy, Total
<1>9. \A k : NamesBy(c, k, Len(args)) =
        {i \in Promised!NamesAfterPath(c) : Promised!OptionAt(c, i).key = k}
  BY <1>1, <1>2 DEF NamesBy
<1> QED
  BY <1>3, <1>5, <1>6, <1>8, <1>9

\* Positions that are neither names nor positional add nothing.
LEMMA NothingBetween ==
  ASSUME IInv, Reading, NEW c, NEW m \in Nat, NEW n \in Nat, m <= n,
         \A i \in m + 1..n : /\ i \notin Promised!NamesAfterPath(c)
                             /\ i \notin Promised!Positional(c)
  PROVE  /\ \A k : ValuesBy(c, k, n) = ValuesBy(c, k, m)
         /\ TextsBy(c, n) = TextsBy(c, m)
<1>1. \A i \in Nat : (i <= n <=> i <= m \/ i \in m + 1..n)
  OBVIOUS
<1>2. /\ Promised!NamesAfterPath(c) \subseteq Nat
      /\ Promised!Positional(c) \subseteq Nat
  BY LineTypes, NamesAndValues
<1>3. \A k : NamesBy(c, k, n) = NamesBy(c, k, m)
  BY <1>1, <1>2 DEF NamesBy
<1>4. PositionalBy(c, n) = PositionalBy(c, m)
  BY <1>1, <1>2 DEF PositionalBy
<1> QED
  BY <1>3, <1>4 DEF ValuesBy, TextsBy

\* A value that follows what is settled is positional.
LEMMA NextIsPositional ==
  ASSUME IInv, Reading, NEW c, NEW stored, NEW n \in Nat, n >= Promised!Start(c),
         Promised!Start(c) \in Nat, NamesRight(c, n, stored),
         n + 1 \in DOMAIN args, args[n + 1].type = "Value"
  PROVE  /\ n + 1 \in Promised!Positional(c)
         /\ n + 1 \notin Promised!NamesAfterPath(c)
         /\ NamesRight(c, n + 1, stored)
<1>1. n + 1 \notin Promised!NamesAfterPath(c)
  BY NamesAndValues
<1>2. Promised!NamesAfterPath(c) \subseteq DOMAIN args
        /\ \A i \in DOMAIN args : i \in Nat /\ Promised!ValueOf(i) > i
             /\ Promised!ValueOf(i) \in Nat
  <2>1. /\ Promised!NamesAfterPath(c) \subseteq DOMAIN args
        /\ \A i \in DOMAIN args :
             Promised!ValueOf(i) \in {i + 1, i + 2} /\ Promised!ValueOf(i) > i
    BY NamesAndValues
  <2>2. \A i \in DOMAIN args : i \in Nat
    BY LineTypes
  <2> QED
    BY <2>1, <2>2
<1>3. ASSUME NEW i \in Promised!NamesAfterPath(c), Promised!HasExplicitValue(c, i)
      PROVE  Promised!ValueOf(i) # n + 1
  <2>1. i \in Nat /\ Promised!ValueOf(i) \in Nat /\ Promised!ValueOf(i) > i
    BY <1>2
  <2>2. CASE i <= n
    <3>1. Promised!ValueOf(i) <= n
      BY <1>3, <2>2 DEF NamesRight
    <3> QED
      BY <2>1, <3>1
  <2>3. CASE i > n
    BY <2>1, <2>3
  <2> QED
    BY <2>1, <2>2, <2>3
<1>4. n + 1 > Promised!Start(c)
  OBVIOUS
<1>5. n + 1 \in Promised!Positional(c)
  BY <1>3, <1>4 DEF Promised!Positional, Promised!IsValueAt
<1>6. \A i \in Promised!NamesAfterPath(c) : i <= n + 1 => i <= n
  BY <1>1, <1>2
<1>7. \A i \in Nat : i <= n => i <= n + 1
  OBVIOUS
<1>8. \A i \in Promised!NamesAfterPath(c) : i <= n + 1 =>
        /\ RightName(c, i, stored)
        /\ Promised!HasExplicitValue(c, i) => Promised!ValueOf(i) <= n + 1
  <2> SUFFICES ASSUME NEW i \in Promised!NamesAfterPath(c), i <= n + 1
               PROVE  /\ RightName(c, i, stored)
                      /\ Promised!HasExplicitValue(c, i) => Promised!ValueOf(i) <= n + 1
    OBVIOUS
  <2>1. i <= n /\ Promised!ValueOf(i) \in Nat
    BY <1>2, <1>6
  <2>2. /\ RightName(c, i, stored)
        /\ Promised!HasExplicitValue(c, i) => Promised!ValueOf(i) <= n
    BY <2>1 DEF NamesRight
  <2> QED
    BY <1>7, <2>1, <2>2
<1> QED
  BY <1>1, <1>5, <1>8 DEF NamesRight

\* The state after a step, in terms of what the step leaves alone.
LEMMA SettledLater ==
  ASSUME UNCHANGED <<commands, args>>, NEW c, NEW n, NEW stored
  PROVE  Settled(c, n, stored)' <=>
           /\ n >= Promised!Start(c)
           /\ NamesRight(c, n, stored)
           /\ \A k \in Keys : ovm'[k] = stored[k] \o ValuesBy(c, k, n)
           /\ positional_tokens' = TextsBy(c, n)
<1>1. Promised!Start(c)' = Promised!Start(c)
  BY SamePath
<1>2. /\ NamesRight(c, n, stored)' <=> NamesRight(c, n, stored)
      /\ TextsBy(c, n)' = TextsBy(c, n)
      /\ \A k : ValuesBy(c, k, n)' = ValuesBy(c, k, n)
  BY SameDemands
<1> QED
  BY <1>1, <1>2 DEF Settled

\* When an option waits for its value in the next state.
LEMMA AwaitedLater ==
  ASSUME UNCHANGED <<commands, args>>, NEW c, NEW p, NEW stored,
         NEW h, h = HandledCount'
  PROVE  Awaited(c, p, stored)' <=>
           /\ p \in Promised!NamesAfterPath(c)
           /\ Settled(c, p - 1, stored)'
           /\ Promised!OptionsNamed(c, p) # {}
           /\ active_option' = Promised!First(Promised!OptionsNamed(c, p))
           /\ ~Promised!GivenBefore(c, p, stored)
           /\ machine' = "ParseLongOptionState" <=> args[p].type = "LongOption"
           /\ IF after_equal_sign'
                THEN h = p + 1 /\ Promised!WithEqualSign(p)
                ELSE h = p
<1>1. /\ Promised!NamesAfterPath(c)' = Promised!NamesAfterPath(c)
      /\ Promised!OptionsNamed(c, p)' = Promised!OptionsNamed(c, p)
      /\ Promised!WithEqualSign(p)' <=> Promised!WithEqualSign(p)
  BY SamePath
<1>2. Promised!GivenBefore(c, p, stored)' <=> Promised!GivenBefore(c, p, stored)
  BY SameDemands
<1>3. Promised!First(Promised!OptionsNamed(c, p))'
        = Promised!First(Promised!OptionsNamed(c, p))
  BY <1>1 DEF Promised!First
<1> QED
  BY <1>1, <1>2, <1>3 DEF Awaited

\* A value put behind the values of a key, as operators of our own.
Added(s, e) == Append(s, e)

\* Appending to the second of two lists appends to both together.
LEMMA AddedBehind ==
  ASSUME NEW S, NEW s \in Seq(S), NEW t \in Seq(S), NEW e \in S
  PROVE  Added(Joined(s, t), e) = Joined(s, Added(t, e))
BY DEF Added, Joined

\* A value put with the positional tokens settles its position, when it is a
\* positional one.
LEMMA PositionalDone ==
  ASSUME IInv, Reading, NEW c, NEW stored, NEW n \in Nat, Settled(c, n, stored),
         Promised!Start(c) \in Nat,
         n + 1 \in DOMAIN args, args[n + 1].type = "Value",
         UNCHANGED <<commands, args, ovm>>,
         positional_tokens' = Append(positional_tokens, args[n + 1].text)
  PROVE  Settled(c, n + 1, stored)'
<1>1. /\ n >= Promised!Start(c) /\ NamesRight(c, n, stored)
      /\ \A k \in Keys : ovm[k] = stored[k] \o ValuesBy(c, k, n)
      /\ positional_tokens = TextsBy(c, n)
  BY DEF Settled
<1>2. /\ n + 1 \in Promised!Positional(c)
      /\ n + 1 \notin Promised!NamesAfterPath(c)
      /\ NamesRight(c, n + 1, stored)
  BY <1>1, NextIsPositional
<1>3. \A k : ValuesBy(c, k, n + 1) = ValuesBy(c, k, n)
  BY <1>2, NamesOneMore
<1>4. TextsBy(c, n + 1) = Append(TextsBy(c, n), args[n + 1].text)
  BY <1>2, TextsOneMore
<1>5. n + 1 >= Promised!Start(c)
  BY <1>1
<1>6. \A k \in Keys : ovm'[k] = stored[k] \o ValuesBy(c, k, n + 1)
  BY <1>1, <1>3
<1>7. positional_tokens' = TextsBy(c, n + 1)
  BY <1>1, <1>4
<1> QED
  BY <1>2, <1>5, <1>6, <1>7, SettledLater

\* When the active option gets the value its name gives, what comes up to the
\* end of that value is settled.
LEMMA OptionDone ==
  ASSUME IInv, Reading, NEW stored \in [Keys -> Seq(OptionValues)],
         NEW c \in DOMAIN commands, c = active_command, Promised!Start(c) \in Nat,
         NEW p, Awaited(c, p, stored), ~Promised!LacksValue(c, p),
         StoreValue(ActiveOption.key, ValueGiven(c)[p]),
         UNCHANGED <<commands, args, positional_tokens>>,
         NEW h \in Nat, p <= h,
         \A i \in p + 1..h : /\ i \notin Promised!NamesAfterPath(c)
                             /\ i \notin Promised!Positional(c),
         Promised!HasExplicitValue(c, p) => Promised!ValueOf(p) <= h
  PROVE  Settled(c, h, stored)'
<1>1. /\ p \in Promised!NamesAfterPath(c) /\ Settled(c, p - 1, stored)
      /\ Promised!OptionsNamed(c, p) # {}
      /\ active_option = Promised!First(Promised!OptionsNamed(c, p))
      /\ ~Promised!GivenBefore(c, p, stored)
  BY DEF Awaited
<1>2. p \in DOMAIN args /\ p \in Nat \ {0} /\ p \notin Promised!Positional(c)
  BY <1>1, LineTypes, NamesAndValues
<1>3. PICK n \in Nat : n = p - 1 /\ n + 1 = p
  BY <1>2
<1>4. /\ n >= Promised!Start(c) /\ NamesRight(c, n, stored)
      /\ \A k \in Keys : ovm[k] = stored[k] \o ValuesBy(c, k, n)
      /\ positional_tokens = TextsBy(c, n)
  BY <1>1, <1>3 DEF Settled
<1>5. ActiveOption = Promised!OptionAt(c, p) /\ ActiveOption.key \in Keys
  <2>1. ActiveOption = Promised!OptionAt(c, p)
    BY <1>1 DEF Promised!OptionAt, ActiveOption, CommandOptions
  <2> QED
    BY <1>1, <1>2, <2>1, OptionFound
<1> DEFINE key == Promised!OptionAt(c, p).key
           value == ValueGiven(c)[p]
<1>6. value \in OptionValues
  BY <1>2, StoredTypes
<1>7. /\ \A k : k # key => ValuesBy(c, k, h) = ValuesBy(c, k, n)
      /\ ValuesBy(c, key, h) = Append(ValuesBy(c, key, n), value)
      /\ TextsBy(c, h) = TextsBy(c, n)
  <2>1. /\ \A k : k # key => ValuesBy(c, k, p) = ValuesBy(c, k, n)
        /\ ValuesBy(c, key, p) = Append(ValuesBy(c, key, n), value)
    <3>1. \A k : IF n + 1 \in Promised!NamesAfterPath(c)
                      /\ Promised!OptionAt(c, n + 1).key = k
                   THEN ValuesBy(c, k, n + 1)
                          = Append(ValuesBy(c, k, n), ValueGiven(c)[n + 1])
                   ELSE ValuesBy(c, k, n + 1) = ValuesBy(c, k, n)
      BY NamesOneMore
    <3> QED
      BY <1>1, <1>3, <3>1
  <2>2. TextsBy(c, p) = TextsBy(c, n)
    <3>1. IF n + 1 \in Promised!Positional(c)
            THEN TextsBy(c, n + 1) = Append(TextsBy(c, n), args[n + 1].text)
            ELSE TextsBy(c, n + 1) = TextsBy(c, n)
      BY TextsOneMore
    <3> QED
      BY <1>2, <1>3, <3>1
  <2>3. /\ \A k : ValuesBy(c, k, h) = ValuesBy(c, k, p)
        /\ TextsBy(c, h) = TextsBy(c, p)
    BY <1>2, NothingBetween
  <2> QED
    BY <2>1, <2>2, <2>3
<1>8. \A k \in Keys : ovm'[k] = stored[k] \o ValuesBy(c, k, h)
  <2> SUFFICES ASSUME NEW k \in Keys
               PROVE  ovm'[k] = stored[k] \o ValuesBy(c, k, h)
    OBVIOUS
  <2>1. ovm \in [Keys -> Seq(OptionValues)]
    BY ContextTypesOpened
  <2>2. /\ ovm'[key] = Append(ovm[key], value)
        /\ \A l \in Keys : l # key => ovm'[l] = ovm[l]
    BY <1>5, <2>1, StoredIs
  <2>3. CASE k = key
    <3>1. stored[k] \in Seq(OptionValues) /\ ValuesBy(c, k, n) \in Seq(OptionValues)
      BY ByTypes
    <3>2. Added(Joined(stored[k], ValuesBy(c, k, n)), value)
            = Joined(stored[k], Added(ValuesBy(c, k, n), value))
      BY <1>6, <3>1, AddedBehind
    <3>3. ovm[k] = stored[k] \o ValuesBy(c, k, n)
      BY <1>4
    <3>4. ovm'[k] = Added(ovm[k], value)
      BY <2>2, <2>3 DEF Added
    <3>5. ovm'[k] = Added(Joined(stored[k], ValuesBy(c, k, n)), value)
      BY <3>3, <3>4 DEF Joined
    <3>6. ValuesBy(c, k, h) = Added(ValuesBy(c, k, n), value)
      BY <1>7, <2>3 DEF Added
    <3>7. ovm'[k] = Joined(stored[k], ValuesBy(c, k, h))
      BY <3>2, <3>5, <3>6
    <3> QED
      BY <3>7 DEF Joined
  <2>4. CASE k # key
    BY <1>4, <1>7, <2>2, <2>4
  <2> QED
    BY <2>3, <2>4
<1>9. NamesRight(c, h, stored)
  <2> SUFFICES ASSUME NEW i \in Promised!NamesAfterPath(c), i <= h
               PROVE  /\ RightName(c, i, stored)
                      /\ Promised!HasExplicitValue(c, i) => Promised!ValueOf(i) <= h
    BY DEF NamesRight
  <2>1. i \in DOMAIN args /\ i \in Nat /\ i \notin p + 1..h
    BY LineTypes, NamesAndValues
  <2>2. i <= n \/ i = p
    BY <1>2, <1>3, <2>1
  <2>3. CASE i <= n
    <3>1. /\ RightName(c, i, stored)
          /\ Promised!HasExplicitValue(c, i) => Promised!ValueOf(i) <= n
      BY <1>4, <2>3 DEF NamesRight
    <3>2. Promised!ValueOf(i) \in {i + 1, i + 2}
      BY <2>1, NamesAndValues
    <3> QED
      BY <1>2, <1>3, <2>1, <3>1, <3>2
  <2>4. CASE i = p
    BY <1>1, <2>4 DEF RightName
  <2> QED
    BY <2>2, <2>3, <2>4
<1>10. h >= Promised!Start(c)
  BY <1>2, <1>3, <1>4
<1> QED
  BY <1>4, <1>7, <1>8, <1>9, <1>10, SettledLater

-----------------------------------------------------------------------------
(* The command, and an outcome that was promised *)

\* What the promise calls the deepest commands is what CommandResolution does.
LEMMA CommandsPromised ==
  ASSUME IInv, Reading
  PROVE  /\ Promised!Named = {c \in DOMAIN commands : ~IsDefault(commands[c])}
         /\ DOMAIN commands \ Promised!Named = DefaultCommands(commands)
         /\ {c \in Promised!Named : Promised!Begins(c)} = MatchingCommands
         /\ Promised!Deepest = DeepestCommands
<1>1. Promised!Named = {c \in DOMAIN commands : ~IsDefault(commands[c])}
  BY DEF Promised!Named, IsDefault
<1>2. DOMAIN commands \ Promised!Named = DefaultCommands(commands)
  BY <1>1 DEF DefaultCommands
<1>3. ASSUME NEW c \in DOMAIN commands
      PROVE  PathMatches(c) <=> c \in Promised!Named /\ Promised!Begins(c)
  <2>1. /\ Path(c) = commands[c].path /\ Len(Path(c)) \in Nat \ {0}
        /\ DOMAIN Path(c) = 1..Len(Path(c))
    BY PathTypes DEF Path
  <2>2. Len(args) \in Nat /\ DOMAIN args = 1..Len(args)
    BY LineTypes
  <2>3. ASSUME Promised!Begins(c) PROVE Len(Path(c)) <= Len(args)
    <3>1. Len(Path(c)) \in DOMAIN commands[c].path
      BY <2>1
    <3>2. Len(Path(c)) \in DOMAIN args
      BY <2>3, <3>1 DEF Promised!Begins, Promised!IsValueAt
    <3> QED
      BY <2>2, <3>2
  <2>4. ASSUME Len(Path(c)) <= Len(args)
        PROVE  Promised!Begins(c) <=> \A i \in DOMAIN Path(c) : IsValue(i, Path(c)[i])
    <3>1. \A i \in DOMAIN Path(c) : i \in DOMAIN args
      BY <2>1, <2>2, <2>4
    <3> QED
      BY <2>1, <3>1 DEF Promised!Begins, Promised!IsValueAt, IsValue
  <2> QED
    BY <1>1, <2>3, <2>4 DEF PathMatches
<1>4. {c \in Promised!Named : Promised!Begins(c)} = MatchingCommands
  BY <1>1, <1>3 DEF MatchingCommands
<1>5. Promised!Deepest = DeepestCommands
  <2>1. Promised!Deepest = {c \in MatchingCommands :
          \A d \in MatchingCommands : Len(commands[d].path) <= Len(commands[c].path)}
    BY <1>4 DEF Promised!Deepest
  <2> QED
    BY <2>1 DEF DeepestCommands, Path
<1> QED
  BY <1>1, <1>2, <1>4, <1>5

\* The command found is one of those that the promise allows, and when there
\* is none of these, the line is about no command.
LEMMA CandidatePromised ==
  ASSUME IInv, Reading
  PROVE  /\ \A c : Resolved(c) => c \in Promised!Candidates
         /\ Promised!Candidates = {} => NoCommand
         /\ NoCommand => Promised!Candidates = {}
<1>1. /\ DOMAIN commands \ Promised!Named = DefaultCommands(commands)
      /\ Promised!Deepest = DeepestCommands
  BY CommandsPromised
<1>2. MatchingCommands = {} => DeepestCommands = {}
  BY DEF DeepestCommands
<1>3. MatchingCommands # {} => DeepestCommands # {}
  <2> SUFFICES ASSUME MatchingCommands # {} PROVE DeepestCommands # {}
    OBVIOUS
  <2> DEFINE lengths == {Len(Path(d)) : d \in MatchingCommands}
  <2>1. MatchingCommands \subseteq DOMAIN commands
    BY DEF MatchingCommands
  <2>2. \A d \in MatchingCommands : Len(Path(d)) \in 0..Len(args)
    <3>1. \A d \in MatchingCommands : Len(Path(d)) <= Len(args)
      BY DEF MatchingCommands, PathMatches
    <3>2. \A d \in MatchingCommands : Len(Path(d)) \in Nat
      BY <2>1, PathTypes
    <3>3. Len(args) \in Nat
      BY LineTypes
    <3> QED
      BY <3>1, <3>2, <3>3
  <2>3. Len(args) \in Nat /\ lengths \in SUBSET (0..Len(args)) /\ lengths # {}
    BY <2>2, LineTypes
  <2>4. \E x \in lengths : \A y \in lengths : x >= y
    BY <2>3, GreatestExists
  <2>5. PICK c \in MatchingCommands :
          \A d \in MatchingCommands : Len(Path(c)) >= Len(Path(d))
    BY <2>4
  <2>6. \A d \in MatchingCommands : Len(Path(d)) <= Len(Path(c))
    BY <2>2, <2>5
  <2> QED
    BY <2>6 DEF DeepestCommands
<1> QED
  BY <1>1, <1>2, <1>3 DEF Resolved, NoCommand, Promised!Candidates

\* Where the path of the command found ends.
LEMMA StartOfCommand ==
  ASSUME IInv, Reading, NEW c, Resolved(c)
  PROVE  /\ c \in DOMAIN commands
         /\ Promised!Start(c) \in Nat
         /\ IsDefault(commands[c]) => Promised!Start(c) = 0
         /\ ~IsDefault(commands[c]) => Promised!Start(c) = Len(Path(c))
         /\ \A i \in 1..Promised!Start(c) :
              i \in DOMAIN args /\ args[i].type = "Value"
<1>1. c \in DOMAIN commands /\ (c \in MatchingCommands \/ IsDefault(commands[c]))
  BY DEF Resolved, MatchingCommands, DeepestCommands, DefaultCommands
<1>2. Promised!Start(c) = IF IsDefault(commands[c]) THEN 0 ELSE Len(Path(c))
  BY <1>1, CommandsPromised DEF Promised!Start, Path
<1>3. Len(Path(c)) \in Nat /\ DOMAIN Path(c) = 1..Len(Path(c))
  BY <1>1, PathTypes
<1>4. ASSUME NEW i \in 1..Promised!Start(c)
      PROVE  i \in DOMAIN args /\ args[i].type = "Value"
  <2>1. ~IsDefault(commands[c]) /\ i \in DOMAIN Path(c) /\ i \in 1..Len(Path(c))
    BY <1>2, <1>3
  <2>2. PathMatches(c)
    BY <1>1, <2>1 DEF MatchingCommands
  <2>3. Len(args) \in Nat /\ DOMAIN args = 1..Len(args)
    BY LineTypes
  <2>4. Len(Path(c)) <= Len(args)
    BY <2>2 DEF PathMatches
  <2>5. i \in DOMAIN args
    BY <1>3, <2>1, <2>3, <2>4
  <2> QED
    BY <2>1, <2>2, <2>5 DEF PathMatches, IsValue
<1> QED
  BY <1>1, <1>2, <1>3, <1>4

\* A parse that was rejected, when that was promised for its command.
LEMMA RejectedAsPromised ==
  ASSUME UNCHANGED <<commands, args>>, status' = "rejected", NEW stored,
         \/ Promised!Candidates = {}
         \/ \E c \in Promised!Candidates :
              StoredOutcome(c, stored) = Promised!Rejected
  PROVE  OutcomeNow' \in StoredOutcomes(stored)'
<1>1. OutcomeNow' = Promised!Rejected
  BY DEF OutcomeNow, Promised!Rejected, Promised!Outcome, Promised!NoValues
<1>2. StoredOutcomes(stored)' = StoredOutcomes(stored)
  BY SameOutcomes
<1>3. Promised!Rejected \in StoredOutcomes(stored)
  BY DEF StoredOutcomes
<1> QED
  BY <1>1, <1>2, <1>3

\* An option that is unknown, lacks its value or was given before is reason to
\* reject the line, wherever it stands.
LEMMA WrongIsRejected ==
  ASSUME UNCHANGED <<commands, args>>, status' = "rejected", NEW stored,
         NEW c \in Promised!Candidates, NEW i \in Promised!NamesAfterPath(c),
         \/ Promised!OptionsNamed(c, i) = {}
         \/ Promised!LacksValue(c, i)
         \/ Promised!GivenBefore(c, i, stored)
  PROVE  OutcomeNow' \in StoredOutcomes(stored)'
<1>1. Promised!WrongOption(c, stored)
  BY DEF Promised!WrongOption
<1>2. StoredOutcome(c, stored) = Promised!Rejected
  BY <1>1 DEF StoredOutcome
<1> QED
  BY <1>2, RejectedAsPromised

-----------------------------------------------------------------------------
(* The invariant after a step, one lemma for each place it may lead to *)

\* What has to be shown of a step to ParseOptionsState.
LEMMA AfterOption ==
  ASSUME NEW stored, NEW c, c = active_command', NEW h, h = HandledCount',
         machine' = "ParseOptionsState", status' = "running",
         after_equal_sign' = FALSE, token'.type # "EqualSign",
         next_positional' = 1, rest_option' = 0, options_checked' = FALSE,
         Settled(c, h, stored)'
  PROVE  Follows(stored)'
<1>1. Settled(active_command, HandledCount, stored)'
  BY Zenon
<1>2. machine' \in CommandKnown /\ machine' \notin OptionStates
  BY DEF CommandKnown, MachineStates, OptionStates
<1> QED
  BY <1>1, <1>2 DEF Follows

\* What has to be shown of a step to an option state that waits for a value.
LEMMA InOption ==
  ASSUME NEW stored, NEW c, c = active_command', NEW p \in DOMAIN args',
         machine' \in OptionStates, status' = "running",
         after_equal_sign' => machine' = "ParseLongOptionState",
         next_positional' = 1, rest_option' = 0, options_checked' = FALSE,
         ~value_'[machine'], Awaited(c, p, stored)'
  PROVE  Follows(stored)'
<1>1. Awaited(active_command, p, stored)'
  BY Zenon
<1>2. machine' \in CommandKnown /\ machine' \notin {"ParseOptionsState",
        "DashDashState", "FinalState"}
  BY DEF CommandKnown, MachineStates, OptionStates
<1> QED
  BY <1>1, <1>2 DEF Follows

\* What has to be shown of a step to an option state that has its value.
LEMMA WithValue ==
  ASSUME NEW stored, NEW c, c = active_command', NEW h, h = HandledCount',
         machine' \in OptionStates, status' = "running",
         after_equal_sign' => machine' = "ParseLongOptionState",
         next_positional' = 1, rest_option' = 0, options_checked' = FALSE,
         value_'[machine'], Settled(c, h, stored)',
         h # 0, args'[h].type = "Value"
  PROVE  Follows(stored)'
<1>1. Settled(active_command, HandledCount, stored)'
  BY Zenon
<1>2. ValueTaken(active_command, stored)'
  BY <1>1 DEF ValueTaken
<1>3. machine' \in CommandKnown /\ machine' \notin {"ParseOptionsState",
        "DashDashState", "FinalState"}
  BY DEF CommandKnown, MachineStates, OptionStates
<1> QED
  BY <1>2, <1>3 DEF Follows

\* What has to be shown of a step with which Parse() returns.
LEMMA AfterReturn ==
  ASSUME NEW stored, status' \in {"accepted", "rejected", "undefined"},
         after_equal_sign' => machine' = "ParseLongOptionState",
         OutcomeNow' \in StoredOutcomes(stored)'
  PROVE  Follows(stored)'
BY DEF Follows

\* A debug build that has aborted promises nothing.
LEMMA AfterAbort ==
  ASSUME NEW stored, status' = "aborted", after_equal_sign' = FALSE
  PROVE  Follows(stored)'
BY DEF Follows

-----------------------------------------------------------------------------
(* The option states *)

\* Tokens come as the tokenizer makes them: '=' only behind the name of a long
\* option, and neither "--" nor an empty first argument, for which nothing is
\* promised.
TokensFit ==
  \A i \in DOMAIN args :
    /\ args[i].type # "DashDash"
    /\ i = 1 /\ args[i].type = "Value" => args[i].text # ""
    /\ args[i].type = "EqualSign" => /\ i - 1 \in DOMAIN args
                                     /\ args[i - 1].type = "LongOption"

\* The token in hand is where the value of the option would be.
LEMMA ValuePlace ==
  ASSUME IInv, Reading, NEW stored, NEW c, NEW p, Awaited(c, p, stored),
         NEW h, h = HandledCount,
         after_equal_sign \/ token.type # "EqualSign"
  PROVE  /\ p \in Nat \ {0} /\ p \in DOMAIN args
         /\ h \in Nat \ {0} /\ h \in DOMAIN args /\ p <= h
         /\ Promised!ValueOf(p) = h + 1
         /\ Promised!WithEqualSign(p) <=> after_equal_sign
         /\ Promised!IsValueAt(h + 1) <=> token.type = "Value"
         /\ token.type = "Value" => token = args[h + 1]
         /\ \A i \in p + 1..h : /\ i \notin Promised!NamesAfterPath(c)
                                /\ i \notin Promised!Positional(c)
<1>1. p \in Promised!NamesAfterPath(c)
  BY DEF Awaited
<1>2. p \in DOMAIN args /\ p \in Nat \ {0}
  BY <1>1, LineTypes, NamesAndValues
<1>3. IF after_equal_sign THEN h = p + 1 /\ Promised!WithEqualSign(p) ELSE h = p
  BY DEF Awaited
<1>4. /\ h \in 0..Len(args)
      /\ token.type # "EndOfInput" => h + 1 \in 1..Len(args) /\ token = args[h + 1]
      /\ token.type = "EndOfInput" => h = Len(args)
  BY PositionOfToken
<1>5. Len(args) \in Nat /\ DOMAIN args = 1..Len(args)
  BY LineTypes
<1>6. h \in Nat \ {0} /\ h \in DOMAIN args /\ p <= h
  BY <1>2, <1>3, <1>4, <1>5
<1>7. h + 1 \in DOMAIN args <=> token.type # "EndOfInput"
  <2>1. token.type # "EndOfInput" => h + 1 \in DOMAIN args
    BY <1>4, <1>5
  <2>2. Len(args) + 1 \notin 1..Len(args)
    BY <1>5
  <2>3. token.type = "EndOfInput" => h + 1 \notin DOMAIN args
    BY <1>4, <1>5, <2>2
  <2> QED
    BY <2>1, <2>3
<1>8. Promised!IsValueAt(h + 1) <=> token.type = "Value"
  BY <1>4, <1>7 DEF Promised!IsValueAt
<1>9. Promised!WithEqualSign(p) <=> after_equal_sign
  BY <1>3, <1>4, <1>7 DEF Promised!WithEqualSign
<1>10. Promised!ValueOf(p) = h + 1
  BY <1>2, <1>3, <1>9 DEF Promised!ValueOf
<1>11. ASSUME NEW i \in p + 1..h
       PROVE  /\ i \notin Promised!NamesAfterPath(c)
              /\ i \notin Promised!Positional(c)
  <2>1. after_equal_sign /\ i = p + 1
    BY <1>2, <1>3
  <2>2. args[i].type = "EqualSign"
    BY <1>9, <2>1 DEF Promised!WithEqualSign
  <2> QED
    BY <2>2, NamesAndValues
<1> QED
  BY <1>2, <1>4, <1>6, <1>7, <1>8, <1>9, <1>10, <1>11

\* What the option in hand is promised, in terms of the token.
LEMMA ValuePromised ==
  ASSUME IInv, Reading, NEW stored, NEW c, c = active_command,
         NEW p, Awaited(c, p, stored),
         after_equal_sign \/ token.type # "EqualSign"
  PROVE  /\ Promised!HasExplicitValue(c, p) <=>
              token.type = "Value" /\ token.text \in ActiveOption.accepts
         /\ Promised!LacksValue(c, p) <=>
              /\ ~Promised!HasExplicitValue(c, p)
              /\ ActiveOption.implicit => after_equal_sign /\ token.type = "Value"
         /\ ValueGiven(c)[p] = IF Promised!HasExplicitValue(c, p)
                                 THEN TokenValue(token.text) ELSE ImplicitValue
<1>1. PICK h : h = HandledCount
  OBVIOUS
<1>2. /\ p \in DOMAIN args /\ Promised!ValueOf(p) = h + 1
      /\ Promised!WithEqualSign(p) <=> after_equal_sign
      /\ Promised!IsValueAt(h + 1) <=> token.type = "Value"
      /\ token.type = "Value" => token = args[h + 1]
  BY <1>1, ValuePlace
<1>3. ActiveOption = Promised!OptionAt(c, p)
  BY DEF Awaited, ActiveOption, CommandOptions, Promised!OptionAt
<1>4. Promised!HasExplicitValue(c, p) <=>
        token.type = "Value" /\ token.text \in ActiveOption.accepts
  BY <1>2, <1>3 DEF Promised!HasExplicitValue
<1>5. Promised!LacksValue(c, p) <=>
        /\ ~Promised!HasExplicitValue(c, p)
        /\ ActiveOption.implicit => after_equal_sign /\ token.type = "Value"
  BY <1>2, <1>3 DEF Promised!LacksValue
<1>6. ValueGiven(c)[p] = IF Promised!HasExplicitValue(c, p)
                           THEN TokenValue(token.text) ELSE ImplicitValue
  BY <1>2, <1>4 DEF ValueGiven
<1> QED
  BY <1>4, <1>5, <1>6

\* An '=' only follows the name of a long option.
LEMMA NoSignBehind ==
  ASSUME IInv, Reading, TokensFit, NEW h, h = HandledCount,
         h \in DOMAIN args => args[h].type # "LongOption"
  PROVE  token.type # "EqualSign"
<1> SUFFICES ASSUME token.type = "EqualSign" PROVE FALSE
  OBVIOUS
<1>1. h + 1 \in 1..Len(args) /\ token = args[h + 1] /\ h \in 0..Len(args)
  BY PositionOfToken
<1>2. Len(args) \in Nat /\ DOMAIN args = 1..Len(args)
  BY LineTypes
<1>3. h + 1 - 1 = h
  BY <1>1, <1>2
<1>4. PICK i \in DOMAIN args : i = h + 1
  BY <1>1, <1>2
<1>5. i - 1 \in DOMAIN args /\ args[i - 1].type = "LongOption"
  BY <1>1, <1>4 DEF TokensFit
<1>6. i - 1 = h
  BY <1>1, <1>2, <1>4
<1>7. h \in DOMAIN args /\ args[h].type = "LongOption"
  BY <1>5, <1>6
<1> QED
  BY <1>7

\* Where an option state begins, and what its steps leave alone.
InOptionState(c, stored) ==
  /\ IInv /\ Reading /\ status = "running" /\ machine \in OptionStates
  /\ c = active_command /\ Resolved(c)
  /\ stored \in [Keys -> Seq(OptionValues)]
  /\ TokensFit /\ Follows(stored)
  /\ UNCHANGED <<commands, args, active_command, active_option,
                 positional_tokens, next_positional, rest_option,
                 options_checked>>

\* What is known in an option state.
LEMMA InOptionStateOpened ==
  ASSUME NEW c, NEW stored, InOptionState(c, stored)
  PROVE  /\ after_equal_sign => machine = "ParseLongOptionState"
         /\ value_[machine] => ValueTaken(c, stored)
         /\ ~value_[machine] => \E p \in DOMAIN args : Awaited(c, p, stored)
         /\ next_positional = 1 /\ rest_option = 0 /\ options_checked = FALSE
         /\ c \in DOMAIN commands /\ Promised!Start(c) \in Nat
         /\ c \in Promised!Candidates
<1>1. machine # "FinalState" /\ machine \in OptionStates
  BY DEF InOptionState, OptionStates
<1>2. options_checked \in BOOLEAN
  BY ContextTypesOpened DEF InOptionState, FinalTypeOK
<1>3. /\ c \in DOMAIN commands /\ Promised!Start(c) \in Nat
      /\ c \in Promised!Candidates
  BY StartOfCommand, CandidatePromised DEF InOptionState
<1> QED
  BY <1>1, <1>2, <1>3 DEF InOptionState, Follows

\* The value was taken before: back to the options.
LEMMA LeavesWithValue ==
  ASSUME NEW c, NEW stored, InOptionState(c, stored),
         value_[machine], ResetOption, Reissue("ParseOptionsState"), ovm' = ovm
  PROVE  Follows(stored)'
<1>1. /\ IInv /\ Reading /\ status = "running" /\ machine \in OptionStates
      /\ c = active_command /\ TokensFit
      /\ UNCHANGED <<commands, args, active_command, positional_tokens>>
      /\ UNCHANGED <<next_positional, rest_option, options_checked>>
  BY DEF InOptionState
<1>2. PICK h : h = HandledCount
  OBVIOUS
<1>3. Settled(c, h, stored) /\ h # 0 /\ args[h].type = "Value"
  BY <1>2, InOptionStateOpened DEF ValueTaken
<1>4. HandledCount' = h /\ token' = token /\ status' = "running"
        /\ machine' = "ParseOptionsState"
  BY <1>1, <1>2, NoTokenRead DEF Reissue
<1>5. token.type # "EqualSign"
  BY <1>1, <1>2, <1>3, NoSignBehind
<1>6. Settled(c, h, stored)'
  BY <1>1, <1>3, SettledLater DEF Settled
<1>7. after_equal_sign' = FALSE
  BY <1>1, InOptionStateOpened DEF ResetOption, OptionStates
<1>8. next_positional' = 1 /\ rest_option' = 0 /\ options_checked' = FALSE
  BY <1>1, InOptionStateOpened
<1> QED
  BY <1>1, <1>4, <1>5, <1>6, <1>7, <1>8, AfterOption

\* The value is there, and is taken.
LEMMA TakesItsValue ==
  ASSUME NEW c, NEW stored, InOptionState(c, stored),
         ~value_[machine], token.type = "Value",
         token.text \in ActiveOption.accepts,
         StoreValue(ActiveOption.key, TokenValue(token.text)),
         value_' = [value_ EXCEPT ![machine] = TRUE],
         Proceed(machine), UNCHANGED after_equal_sign
  PROVE  Follows(stored)'
<1>1. /\ IInv /\ Reading /\ status = "running" /\ machine \in OptionStates
      /\ c = active_command /\ TokensFit
      /\ UNCHANGED <<commands, args, active_command, positional_tokens>>
      /\ UNCHANGED <<next_positional, rest_option, options_checked>>
      /\ stored \in [Keys -> Seq(OptionValues)]
  BY DEF InOptionState
<1>2. PICK h : h = HandledCount
  OBVIOUS
<1>3. PICK p \in DOMAIN args : Awaited(c, p, stored)
  BY InOptionStateOpened
<1>4. /\ h \in Nat \ {0} /\ p <= h /\ p \in Nat
      /\ Promised!ValueOf(p) = h + 1
      /\ token = args[h + 1]
      /\ \A i \in p + 1..h : /\ i \notin Promised!NamesAfterPath(c)
                             /\ i \notin Promised!Positional(c)
  BY <1>1, <1>2, <1>3, ValuePlace
<1>5. /\ Promised!HasExplicitValue(c, p)
      /\ ~Promised!LacksValue(c, p)
      /\ ValueGiven(c)[p] = TokenValue(token.text)
  BY <1>1, <1>3, ValuePromised
<1>6. ASSUME NEW i \in p + 1..h + 1
      PROVE  /\ i \notin Promised!NamesAfterPath(c)
             /\ i \notin Promised!Positional(c)
  <2>1. CASE i = h + 1
    <3>1. h + 1 \notin Promised!NamesAfterPath(c)
      BY <1>1, <1>4, NamesAndValues
    <3>2. h + 1 \notin Promised!Positional(c)
      BY <1>3, <1>4, <1>5 DEF Promised!Positional, Awaited
    <3> QED
      BY <2>1, <3>1, <3>2
  <2>2. CASE i # h + 1
    <3>1. i \in p + 1..h
      BY <1>4, <2>2
    <3> QED
      BY <1>4, <3>1
  <2> QED
    BY <2>1, <2>2
<1>7. c \in DOMAIN commands /\ Promised!Start(c) \in Nat
  BY InOptionStateOpened
<1>8. h + 1 \in Nat /\ p <= h + 1
  BY <1>4
<1>9. StoreValue(ActiveOption.key, ValueGiven(c)[p])
  BY <1>5
<1>10. Promised!ValueOf(p) <= h + 1
  BY <1>4
<1>11. Settled(c, h + 1, stored)'
  BY <1>1, <1>3, <1>5, <1>6, <1>7, <1>8, <1>9, <1>10, OptionDone
<1>12. /\ machine' = machine /\ status' = "running"
       /\ HandledCount' = h + 1
  <2>1. machine' = machine /\ NextToken /\ status' = "running"
    BY <1>1 DEF Proceed
  <2> QED
    BY <1>1, <1>2, <2>1, NextTokenReads
<1>13. value_'[machine']
  BY <1>1, <1>12, ContextTypesOpened DEF OptionTypeOK
<1>14. h + 1 # 0 /\ args'[h + 1].type = "Value"
  BY <1>1, <1>4
<1>15. next_positional' = 1 /\ rest_option' = 0 /\ options_checked' = FALSE
         /\ (after_equal_sign' => machine' = "ParseLongOptionState")
  BY <1>1, <1>12, InOptionStateOpened
<1> QED
  BY <1>1, <1>11, <1>12, <1>13, <1>14, <1>15, WithValue

\* The implicit value will do, and the token is offered to the options again.
LEMMA LeavesWithImplicit ==
  ASSUME NEW c, NEW stored, InOptionState(c, stored),
         ~value_[machine], token.type # "EqualSign" \/ machine = "ParseShortOptionState",
         ~(token.type = "Value" /\ token.text \in ActiveOption.accepts),
         ~(after_equal_sign /\ token.type = "Value"),
         ActiveOption.implicit,
         StoreValue(ActiveOption.key, ImplicitValue),
         ResetOption, Reissue("ParseOptionsState")
  PROVE  Follows(stored)'
<1>1. /\ IInv /\ Reading /\ status = "running" /\ machine \in OptionStates
      /\ c = active_command /\ TokensFit
      /\ UNCHANGED <<commands, args, active_command, positional_tokens>>
      /\ UNCHANGED <<next_positional, rest_option, options_checked>>
      /\ stored \in [Keys -> Seq(OptionValues)]
  BY DEF InOptionState
<1>2. PICK h : h = HandledCount
  OBVIOUS
<1>3. PICK p \in DOMAIN args : Awaited(c, p, stored)
  BY InOptionStateOpened
<1>4. token.type # "EqualSign"
  <2>1. SUFFICES ASSUME token.type = "EqualSign", machine = "ParseShortOptionState"
                 PROVE  FALSE
    OBVIOUS
  <2>2. ~after_equal_sign
    BY <2>1, InOptionStateOpened
  <2>3. h = p /\ args[p].type # "LongOption"
    BY <1>2, <1>3, <2>1, <2>2 DEF Awaited
  <2> QED
    BY <1>1, <1>2, <2>1, <2>3, NoSignBehind
<1>5. /\ h \in Nat /\ p <= h
      /\ \A i \in p + 1..h : /\ i \notin Promised!NamesAfterPath(c)
                             /\ i \notin Promised!Positional(c)
  BY <1>1, <1>2, <1>3, <1>4, ValuePlace
<1>6. /\ ~Promised!HasExplicitValue(c, p)
      /\ ~Promised!LacksValue(c, p)
      /\ ValueGiven(c)[p] = ImplicitValue
  BY <1>1, <1>3, <1>4, ValuePromised
<1>7. c \in DOMAIN commands /\ Promised!Start(c) \in Nat
  BY InOptionStateOpened
<1>8. StoreValue(ActiveOption.key, ValueGiven(c)[p])
  BY <1>6
<1>9. Settled(c, h, stored)'
  BY <1>1, <1>3, <1>5, <1>6, <1>7, <1>8, OptionDone
<1>10. HandledCount' = h /\ token' = token /\ status' = "running"
         /\ machine' = "ParseOptionsState"
  BY <1>1, <1>2, NoTokenRead DEF Reissue
<1>11. after_equal_sign' = FALSE
  BY <1>1, InOptionStateOpened DEF ResetOption, OptionStates
<1>12. next_positional' = 1 /\ rest_option' = 0 /\ options_checked' = FALSE
  BY <1>1, InOptionStateOpened
<1> QED
  BY <1>1, <1>4, <1>9, <1>10, <1>11, <1>12, AfterOption

\* No value will do: the command line is wrong.
LEMMA MissesItsValue ==
  ASSUME NEW c, NEW stored, InOptionState(c, stored),
         ~value_[machine], token.type # "EqualSign" \/ machine = "ParseShortOptionState",
         ~(token.type = "Value" /\ token.text \in ActiveOption.accepts),
         ~ActiveOption.implicit \/ (after_equal_sign /\ token.type = "Value"),
         ReportError("MissingValueForOption"), UNCHANGED optionVars
  PROVE  Follows(stored)'
<1>1. /\ IInv /\ Reading /\ status = "running" /\ machine \in OptionStates
      /\ c = active_command /\ TokensFit
      /\ UNCHANGED <<commands, args, active_command, positional_tokens>>
  BY DEF InOptionState
<1>2. PICK h : h = HandledCount
  OBVIOUS
<1>3. PICK p \in DOMAIN args : Awaited(c, p, stored)
  BY InOptionStateOpened
<1>4. token.type # "EqualSign"
  <2>1. SUFFICES ASSUME token.type = "EqualSign", machine = "ParseShortOptionState"
                 PROVE  FALSE
    OBVIOUS
  <2>2. ~after_equal_sign
    BY <2>1, InOptionStateOpened
  <2>3. h = p /\ args[p].type # "LongOption"
    BY <1>2, <1>3, <2>1, <2>2 DEF Awaited
  <2> QED
    BY <1>1, <1>2, <2>1, <2>3, NoSignBehind
<1>5. Promised!LacksValue(c, p) /\ p \in Promised!NamesAfterPath(c)
  BY <1>1, <1>3, <1>4, ValuePromised DEF Awaited
<1>6. status' = "rejected"
  BY DEF ReportError
<1>7. OutcomeNow' \in StoredOutcomes(stored)'
  BY <1>1, <1>5, <1>6, InOptionStateOpened, WrongIsRejected
<1>8. after_equal_sign' => machine' = "ParseLongOptionState"
  BY InOptionStateOpened DEF ReportError, optionVars
<1> QED
  BY <1>6, <1>7, <1>8, AfterReturn

\* The '=' between the name of a long option and its value.
LEMMA TakesEqualSign ==
  ASSUME NEW c, NEW stored, InOptionState(c, stored), ParseLongOption_EqualSign
  PROVE  Follows(stored)'
<1>1. /\ IInv /\ Reading /\ status = "running" /\ machine \in OptionStates
      /\ c = active_command /\ TokensFit
      /\ UNCHANGED <<commands, args, active_command, active_option,
                     positional_tokens, ovm, value_>>
      /\ UNCHANGED <<next_positional, rest_option, options_checked>>
  BY DEF InOptionState, ParseLongOption_EqualSign, contextVars
<1>2. machine = "ParseLongOptionState" /\ token.type = "EqualSign"
        /\ after_equal_sign' = TRUE /\ Proceed("ParseLongOptionState")
  BY DEF ParseLongOption_EqualSign, Handling
<1>3. PICK h : h = HandledCount
  OBVIOUS
<1>4. h \in 0..Len(args) /\ h + 1 \in 1..Len(args) /\ token = args[h + 1]
  BY <1>1, <1>2, <1>3, PositionOfToken
<1>5. Len(args) \in Nat /\ DOMAIN args = 1..Len(args)
  BY <1>1, LineTypes
<1>6. h \in DOMAIN args /\ args[h].type = "LongOption"
  BY <1>1, <1>2, <1>3, NoSignBehind
<1>7. ~value_[machine]
  <2>1. value_[machine] => args[h].type = "Value"
    BY <1>3, InOptionStateOpened DEF ValueTaken
  <2> QED
    BY <1>6, <2>1
<1>8. PICK p \in DOMAIN args : Awaited(c, p, stored)
  BY <1>7, InOptionStateOpened
<1>9. ~after_equal_sign
  <2>1. after_equal_sign => args[h].type = "EqualSign"
    BY <1>3, <1>8 DEF Awaited, Promised!WithEqualSign
  <2> QED
    BY <1>6, <2>1
<1>10. h = p
  BY <1>3, <1>8, <1>9 DEF Awaited
<1>11. Promised!WithEqualSign(p)
  BY <1>2, <1>4, <1>5, <1>10 DEF Promised!WithEqualSign
<1>12. /\ machine' = "ParseLongOptionState" /\ status' = "running"
       /\ HandledCount' = p + 1
  <2>1. machine' = "ParseLongOptionState" /\ NextToken /\ status' = "running"
    BY <1>1, <1>2 DEF Proceed
  <2> QED
    BY <1>1, <1>2, <1>3, <1>10, <2>1, NextTokenReads
<1>13. Awaited(c, p, stored)'
  <2>1. Settled(c, p - 1, stored)
    BY <1>8 DEF Awaited
  <2>2. Settled(c, p - 1, stored)'
    BY <1>1, <2>1, SettledLater DEF Settled
  <2>3. /\ p \in Promised!NamesAfterPath(c)
        /\ Promised!OptionsNamed(c, p) # {}
        /\ active_option = Promised!First(Promised!OptionsNamed(c, p))
        /\ ~Promised!GivenBefore(c, p, stored)
        /\ machine = "ParseLongOptionState" <=> args[p].type = "LongOption"
    BY <1>8 DEF Awaited
  <2>4. active_option' = active_option /\ machine' = machine
    BY <1>1, <1>2, <1>12
  <2>5. PICK n : n = HandledCount' /\ n = p + 1
    BY <1>12
  <2> QED
    BY <1>1, <1>2, <1>11, <2>2, <2>3, <2>4, <2>5, AwaitedLater
<1>14. p \in DOMAIN args' /\ ~value_'[machine'] /\ machine' \in OptionStates
  BY <1>1, <1>2, <1>7, <1>12
<1>15. next_positional' = 1 /\ rest_option' = 0 /\ options_checked' = FALSE
  BY <1>1, InOptionStateOpened
<1> QED
  BY <1>1, <1>12, <1>13, <1>14, <1>15, InOption

\* What an option state does with a token other than a value to take.
LEMMA LeavesTheOption ==
  ASSUME NEW c, NEW stored, InOptionState(c, stored), LeaveOption,
         value_[machine] \/ token.type # "Value",
         token.type # "EqualSign" \/ machine = "ParseShortOptionState"
  PROVE  Follows(stored)'
<1>1. CASE /\ value_[machine]
           /\ ResetOption /\ Reissue("ParseOptionsState")
           /\ UNCHANGED ovm
  BY <1>1, LeavesWithValue
<1>2. CASE /\ ~value_[machine] /\ ActiveOption.implicit
           /\ StoreValue(ActiveOption.key, ImplicitValue)
           /\ ResetOption /\ Reissue("ParseOptionsState")
  BY <1>2, LeavesWithImplicit
<1>3. CASE /\ ~value_[machine] /\ ~ActiveOption.implicit
           /\ ReportError("MissingValueForOption")
           /\ UNCHANGED <<ovm, optionVars>>
  BY <1>3, MissesItsValue
<1> QED
  BY <1>1, <1>2, <1>3 DEF LeaveOption

\* A value in an option state is taken, or the option is left without it.
LEMMA TakesOrLeaves ==
  ASSUME NEW c, NEW stored, InOptionState(c, stored),
         ~value_[machine], token.type = "Value",
         NEW may_imply, may_imply <=> ~after_equal_sign, TakeValue(may_imply)
  PROVE  Follows(stored)'
<1>0. token.type # "EqualSign"
  OBVIOUS
<1>1. CASE /\ token.text \in ActiveOption.accepts
           /\ StoreValue(ActiveOption.key, TokenValue(token.text))
           /\ value_' = [value_ EXCEPT ![machine] = TRUE]
           /\ Proceed(machine)
           /\ UNCHANGED after_equal_sign
  BY <1>1, TakesItsValue
<1>2. CASE /\ token.text \notin ActiveOption.accepts
           /\ may_imply /\ ActiveOption.implicit
           /\ StoreValue(ActiveOption.key, ImplicitValue)
           /\ ResetOption /\ Reissue("ParseOptionsState")
  BY <1>0, <1>2, LeavesWithImplicit
<1>3. CASE /\ token.text \notin ActiveOption.accepts
           /\ ~(may_imply /\ ActiveOption.implicit)
           /\ ReportError("MissingValueForOption")
           /\ UNCHANGED <<ovm, optionVars>>
  <2>1. ~ActiveOption.implicit \/ (after_equal_sign /\ token.type = "Value")
    BY <1>3
  <2> QED
    BY <1>0, <1>3, <2>1, MissesItsValue
<1> QED
  BY <1>1, <1>2, <1>3 DEF TakeValue

\* Every step of the option states keeps to the promise.
LEMMA OptionStateFollows ==
  ASSUME IInv, Reading, Resolved(active_command), TokensFit,
         NEW stored \in [Keys -> Seq(OptionValues)], Follows(stored),
         \/ ParseShortOption_Value   \/ ParseShortOption_Other
         \/ ParseLongOption_EqualSign
         \/ ParseLongOption_Value    \/ ParseLongOption_Other
  PROVE  Follows(stored)'
<1>1. PICK c : c = active_command
  OBVIOUS
<1>2. /\ status = "running" /\ machine \in OptionStates
      /\ UNCHANGED <<commands, args, active_command, active_option,
                     positional_tokens>>
      /\ UNCHANGED <<next_positional, rest_option, options_checked>>
  BY DEF ParseShortOption_Value, ParseShortOption_Other,
     ParseLongOption_EqualSign, ParseLongOption_Value, ParseLongOption_Other,
     Handling, OptionStates, fixedVars, finalVars, contextVars
<1>3. InOptionState(c, stored)
  BY <1>1, <1>2 DEF InOptionState
<1>4. CASE ParseShortOption_Value
  <2>1. machine = "ParseShortOptionState" /\ token.type = "Value"
    BY <1>4 DEF ParseShortOption_Value, Handling
  <2>2. ~after_equal_sign
    BY <1>3, <2>1, InOptionStateOpened
  <2>3. IF value_[machine] THEN LeaveOption ELSE TakeValue(TRUE)
    BY <1>4 DEF ParseShortOption_Value
  <2>4. CASE value_[machine]
    BY <1>3, <2>1, <2>3, <2>4, LeavesTheOption
  <2>5. CASE ~value_[machine]
    BY <1>3, <2>1, <2>2, <2>3, <2>5, TakesOrLeaves
  <2> QED
    BY <2>4, <2>5
<1>5. CASE ParseShortOption_Other
  <2>1. /\ machine = "ParseShortOptionState" /\ token.type # "Value"
        /\ LeaveOption
    BY <1>5 DEF ParseShortOption_Other, Handling, NotValue
  <2> QED
    BY <1>3, <2>1, LeavesTheOption
<1>6. CASE ParseLongOption_EqualSign
  BY <1>3, <1>6, TakesEqualSign
<1>7. CASE ParseLongOption_Value
  <2>1. machine = "ParseLongOptionState" /\ token.type = "Value"
    BY <1>7 DEF ParseLongOption_Value, Handling
  <2>3. IF value_[machine] THEN LeaveOption ELSE TakeValue(~after_equal_sign)
    BY <1>7 DEF ParseLongOption_Value
  <2>4. CASE value_[machine]
    BY <1>3, <2>1, <2>3, <2>4, LeavesTheOption
  <2>5. CASE ~value_[machine]
    <3>1. PICK may_imply : may_imply = ~after_equal_sign
      OBVIOUS
    <3>2. TakeValue(may_imply)
      BY <2>3, <2>5, <3>1
    <3> QED
      BY <1>3, <2>1, <2>5, <3>1, <3>2, TakesOrLeaves
  <2> QED
    BY <2>4, <2>5
<1>8. CASE ParseLongOption_Other
  <2>1. /\ token.type \notin {"Value", "EqualSign"}
        /\ LeaveOption
    BY <1>8 DEF ParseLongOption_Other, Handling, NotValue
  <2> QED
    BY <1>3, <2>1, LeavesTheOption
<1> QED
  BY <1>4, <1>5, <1>6, <1>7, <1>8

-----------------------------------------------------------------------------
(* The end of the command line *)

\* The positional tokens that key k has, a taken from the front, b from the back.
TakenBy(c, k, a, b) == {n \in TakenFor(c, k) : n <= a \/ n > Total(c) - b}

\* What FinalState is to do depends on commands and tokens only.
LEMMA SameEnd ==
  ASSUME UNCHANGED <<commands, args>>, NEW c, NEW k, NEW a, NEW b
  PROVE  /\ Len(args)' = Len(args)
         /\ Total(c)' = Total(c)
         /\ Promised!TooFewTokens(c)' <=> Promised!TooFewTokens(c)
         /\ TakenBy(c, k, a, b)' = TakenBy(c, k, a, b)
         /\ Listed(TakenBy(c, k, a, b), ValueStored(c))'
              = Listed(TakenBy(c, k, a, b), ValueStored(c))
<1>1. /\ Total(c)' = Total(c)
      /\ TakenFor(c, k)' = TakenFor(c, k)
      /\ ValueStored(c)' = ValueStored(c)
  BY SameOutcomes
<1>2. TakenBy(c, k, a, b)' = TakenBy(c, k, a, b)
  BY <1>1 DEF TakenBy
<1>3. Listed(TakenBy(c, k, a, b), ValueStored(c))'
        = Listed(TakenBy(c, k, a, b), ValueStored(c))
  BY <1>1, <1>2 DEF Listed
<1>4. Promised!TooFewTokens(c)' <=> Promised!TooFewTokens(c)
  <2>1. Promised!Positional(c)' = Promised!Positional(c)
    <3>1. /\ Promised!Start(c)' = Promised!Start(c)
          /\ Promised!NamesAfterPath(c)' = Promised!NamesAfterPath(c)
      BY SamePath
    <3>2. \A i : /\ Promised!IsValueAt(i)' = Promised!IsValueAt(i)
                 /\ Promised!ValueOf(i)' = Promised!ValueOf(i)
                 /\ Promised!HasExplicitValue(c, i)' = Promised!HasExplicitValue(c, i)
      BY SamePath
    <3> QED
      BY <3>1, <3>2 DEF Promised!Positional
  <2>2. /\ Promised!Declared(c)' = Promised!Declared(c)
        /\ Promised!TakesRest(c)' = Promised!TakesRest(c)
    BY DEF Promised!Declared, Promised!TakesRest
  <2> QED
    BY <2>1, <2>2 DEF Promised!TooFewTokens
<1> QED
  BY <1>1, <1>2, <1>3, <1>4

\* How far FinalState is after a step, in terms of what the step leaves alone.
LEMMA TakenLater ==
  ASSUME UNCHANGED <<commands, args>>, NEW c, NEW a, NEW b
  PROVE  TakenSoFar(c, a, b)' <=>
           /\ positional_tokens'
                = SubSeq(TextsBy(c, Len(args)), a + 1, Total(c) - b)
           /\ TakenPlace(c, a, b, next_positional', rest_option')
<1>1. Total(c)' = Total(c) /\ Len(args)' = Len(args)
  BY SameEnd
<1>2. TextsBy(c, Len(args))' = TextsBy(c, Len(args))
  <2>1. PICK n : n = Len(args) /\ n = Len(args)'
    BY <1>1
  <2>2. TextsBy(c, n)' = TextsBy(c, n)
    BY SameDemands
  <2> QED
    BY <2>1, <2>2, Zenon
<1>3. TakenPlace(c, a, b, next_positional, rest_option)'
        <=> TakenPlace(c, a, b, next_positional', rest_option')
  BY <1>1 DEF TakenPlace, IsPositionalRest
<1> QED
  BY <1>1, <1>2, <1>3 DEF TakenSoFar

\* What StoredSoFar says of the next state.
LEMMA StoredLater ==
  ASSUME UNCHANGED <<commands, args>>, NEW c, NEW a, NEW b, NEW stored
  PROVE  StoredSoFar(c, a, b, stored)' <=>
           \A k \in Keys :
             ovm'[k] = (stored[k] \o ValuesBy(c, k, Len(args)))
                         \o Listed(TakenBy(c, k, a, b), ValueStored(c))
<1>1. \A k : Listed(TakenBy(c, k, a, b), ValueStored(c))'
               = Listed(TakenBy(c, k, a, b), ValueStored(c))
  BY SameEnd
<1>2. ASSUME NEW k PROVE ValuesBy(c, k, Len(args))' = ValuesBy(c, k, Len(args))
  <2>1. PICK n : n = Len(args) /\ n = Len(args)'
    BY SameEnd
  <2>2. ValuesBy(c, k, n)' = ValuesBy(c, k, n)
    BY SameDemands
  <2> QED
    BY <2>1, <2>2, Zenon
<1>3. StoredSoFar(c, a, b, stored) <=>
        \A k \in Keys :
          ovm[k] = (stored[k] \o ValuesBy(c, k, Len(args)))
                      \o Listed(TakenBy(c, k, a, b), ValueStored(c))
  BY DEF StoredSoFar, TakenBy
<1>4. StoredSoFar(c, a, b, stored)' <=>
        \A k \in Keys :
          ovm'[k] = (stored[k] \o ValuesBy(c, k, Len(args))')
                      \o Listed(TakenBy(c, k, a, b), ValueStored(c))'
  BY DEF StoredSoFar, TakenBy
<1> QED
  BY <1>1, <1>2, <1>4

\* What has to be shown of a step in or to FinalState.
LEMMA AtEnd ==
  ASSUME UNCHANGED <<commands, args>>, NEW stored, NEW c, c = active_command',
         machine' = "FinalState", status' = "running",
         after_equal_sign' = FALSE, token'.type = "EndOfInput",
         NamesRight(c, Len(args), stored),
         NEW a \in 0..Len(args), NEW b \in 0..Len(args), TakenSoFar(c, a, b)',
         ~options_checked' /\ ~Promised!TooFewTokens(c)
           => StoredSoFar(c, a, b, stored)',
         options_checked' => OptionsFilled(c, stored)'
  PROVE  Follows(stored)'
<1>1. Len(args)' = Len(args)
        /\ (Promised!TooFewTokens(c)' <=> Promised!TooFewTokens(c))
  BY SameEnd
<1>2. NamesRight(c, Len(args), stored)'
  <2>1. PICK n : n = Len(args) /\ n = Len(args)'
    BY <1>1
  <2>2. NamesRight(c, n, stored)' <=> NamesRight(c, n, stored)
    BY SameDemands
  <2>3. NamesRight(c, n, stored)'
    BY <2>1, <2>2
  <2> QED
    BY <2>1, <2>3, Zenon
<1>3. EndReached(c, stored)'
  <2>1. a \in 0..Len(args)' /\ b \in 0..Len(args)'
    BY <1>1
  <2> QED
    BY <1>1, <1>2, <2>1 DEF EndReached
<1>4. EndReached(active_command, stored)'
  BY <1>3, Zenon
<1>5. machine' \in CommandKnown /\ machine' \notin OptionStates
  BY DEF CommandKnown, MachineStates, OptionStates
<1> QED
  BY <1>4, <1>5 DEF Follows

\* The positional tokens that are taken for a key are positional tokens.
LEMMA TakenPositions ==
  ASSUME IInv, Reading, NEW c, NEW k
  PROVE  /\ DOMAIN Promised!InOrder(Promised!Positional(c)) = 1..Total(c)
         /\ Len(Promised!InOrder(Promised!Positional(c))) = Total(c)
         /\ TakenFor(c, k) \in SUBSET (1..Total(c))
         /\ DOMAIN ValueStored(c) = 1..Total(c)
<1>1. Total(c) \in Nat
  BY AllTexts
<1> DEFINE at == Promised!InOrder(Promised!Positional(c))
<1>2. DOMAIN at = 1..Total(c)
  BY InOrderIs DEF Total
<1>3. Len(at) = Total(c)
  <2>1. at = [n \in DOMAIN at |-> at[n]]
    BY DEF Promised!InOrder
  <2> HIDE DEF at
  <2> QED
    BY <1>1, <1>2, <2>1
<1> QED
  BY <1>2, <1>3 DEF TakenFor, ValueStored

\* Before anything is taken from either end, no token is taken.
LEMMA NothingTakenYet ==
  ASSUME IInv, Reading, NEW c, NEW k
  PROVE  TakenBy(c, k, 0, 0) = {}
<1>1. Total(c) \in Nat /\ TakenFor(c, k) \in SUBSET (1..Total(c))
  BY AllTexts, TakenPositions
<1>2. \A n \in 1..Total(c) : ~(n <= 0 \/ n > Total(c) - 0)
  BY <1>1
<1> QED
  BY <1>1, <1>2 DEF TakenBy

\* The empty list adds nothing, and all of a list is the list.
LEMMA NothingBehind ==
  ASSUME NEW S, NEW s \in Seq(S)
  PROVE  s \o <<>> = s /\ SubSeq(s, 1, Len(s)) = s
OBVIOUS

\* FinalState begins with all positional tokens.
LEMMA EndBegins ==
  ASSUME IInv, Reading, UNCHANGED <<commands, args>>,
         NEW stored \in [Keys -> Seq(OptionValues)],
         NEW c \in DOMAIN commands, c = active_command',
         machine' = "FinalState", status' = "running",
         after_equal_sign' = FALSE, token'.type = "EndOfInput",
         next_positional' = 1, rest_option' = 0, options_checked' = FALSE,
         Settled(c, Len(args), stored)'
  PROVE  Follows(stored)'
<1>1. /\ NamesRight(c, Len(args), stored)
      /\ \A k \in Keys : ovm'[k] = stored[k] \o ValuesBy(c, k, Len(args))
      /\ positional_tokens' = TextsBy(c, Len(args))
  <2>1. PICK n : n = Len(args) /\ n = Len(args)'
    BY SameEnd
  <2>2. Settled(c, n, stored)'
    BY <2>1, Zenon
  <2> QED
    BY <2>1, <2>2, SettledLater
<1>2. Len(args) \in Nat /\ Total(c) \in Nat
  BY LineTypes, AllTexts
<1>3a. /\ Len(TextsBy(c, Len(args))) = Total(c)
      /\ TextsBy(c, Len(args)) \in Seq(Texts \cup {""})
  BY <1>2, AllTexts, ByTypes
<1>3. SubSeq(TextsBy(c, Len(args)), 0 + 1, Total(c) - 0) = TextsBy(c, Len(args))
  <2>1. 0 + 1 = 1 /\ Total(c) - 0 = Total(c)
    BY <1>2
  <2>2. SubSeq(TextsBy(c, Len(args)), 1, Len(TextsBy(c, Len(args))))
          = TextsBy(c, Len(args))
    BY <1>3a, NothingBehind
  <2> QED
    BY <1>3a, <2>1, <2>2
<1>4. PICK declared : declared = commands[c].positionals
  OBVIOUS
<1>5. Len(declared) \in Nat /\ DOMAIN declared = 1..Len(declared)
  <2>1. declared \in Seq(Options)
    BY <1>4, ContextTypesOpened, CommandTypes
  <2> QED
    BY <2>1
<1>6. TakenSoFar(c, 0, 0)'
  <2>1. 0 + 0 <= Total(c) /\ 1 <= Len(declared) + 1 /\ 0 + 1 = 1
          /\ \A q \in DOMAIN declared : ~(q < 1)
    BY <1>2, <1>5
  <2>2. TakenPlace(c, 0, 0, 1, 0)
    BY <1>4, <2>1 DEF TakenPlace
  <2> QED
    BY <1>1, <1>3, <2>2, TakenLater
<1>7. StoredSoFar(c, 0, 0, stored)'
  <2> SUFFICES ASSUME NEW k \in Keys
               PROVE  ovm'[k] = (stored[k] \o ValuesBy(c, k, Len(args)))
                                  \o Listed(TakenBy(c, k, 0, 0), ValueStored(c))
    BY StoredLater
  <2>1. Listed(TakenBy(c, k, 0, 0), ValueStored(c)) = <<>>
    BY NothingTakenYet, ListedNone
  <2>2. PICK s, t : s = stored[k] /\ t = ValuesBy(c, k, Len(args))
    OBVIOUS
  <2>3. s \in Seq(OptionValues) /\ t \in Seq(OptionValues)
    BY <1>2, <2>2, ByTypes
  <2>4. (s \o t) \in Seq(OptionValues)
    BY <2>3
  <2>5. (s \o t) \o <<>> = s \o t
    BY <2>4, NothingBehind
  <2> QED
    BY <1>1, <2>1, <2>2, <2>5
<1>8. 0 \in 0..Len(args)
  BY <1>2
<1> QED
  BY <1>1, <1>6, <1>7, <1>8, AtEnd

\* What Reading says of the next state's token.
LEMMA ReadingTells ==
  Reading /\ token.type # "EndOfInput" =>
    HandledCount + 1 \in 1..Len(args) /\ token = args[HandledCount + 1]
BY PositionOfToken

\* The same in the next state.
LEMMA ReadingTellsLater ==
  (Reading /\ token.type # "EndOfInput" =>
     HandledCount + 1 \in 1..Len(args) /\ token = args[HandledCount + 1])'
BY ReadingTells, PTL

\* Where ParseOptionsState begins, and what its steps leave alone.
InParseOptions(c, h, stored) ==
  /\ IInv /\ Reading /\ ValueFlags
  /\ status = "running" /\ machine = "ParseOptionsState"
  /\ c = active_command /\ h = HandledCount /\ Resolved(c)
  /\ stored \in [Keys -> Seq(OptionValues)]
  /\ TokensFit /\ Follows(stored)
  /\ UNCHANGED <<commands, args, active_command, next_positional, rest_option,
                 options_checked, value_, after_equal_sign>>

\* What is known there: all that was handled is settled, and the token is
\* the next one.
LEMMA InParseOptionsOpened ==
  ASSUME NEW c, NEW h, NEW stored, InParseOptions(c, h, stored)
  PROVE  /\ Settled(c, h, stored) /\ token.type # "EqualSign"
         /\ after_equal_sign' = FALSE
         /\ next_positional' = 1 /\ rest_option' = 0 /\ options_checked' = FALSE
         /\ c = active_command' /\ c \in DOMAIN commands
         /\ Promised!Start(c) \in Nat /\ h >= Promised!Start(c)
         /\ c \in Promised!Candidates
         /\ h \in Nat /\ Len(args) \in Nat
         /\ token.type = "EndOfInput" => h = Len(args)
         /\ token.type # "EndOfInput" =>
              /\ h + 1 \in DOMAIN args /\ token = args[h + 1]
         /\ \A s \in OptionStates : ~value_'[s]
<1>1. /\ IInv /\ Reading /\ c = active_command /\ h = HandledCount /\ Resolved(c)
      /\ machine = "ParseOptionsState" /\ status = "running"
  BY DEF InParseOptions
<1>2. machine \notin OptionStates /\ machine \in CommandKnown
        /\ machine # "FinalState" /\ machine # "ParseLongOptionState"
  BY <1>1 DEF OptionStates, CommandKnown, MachineStates
<1>3. options_checked \in BOOLEAN /\ after_equal_sign \in BOOLEAN
  BY <1>1, ContextTypesOpened DEF FinalTypeOK, OptionTypeOK
<1>4. /\ c \in DOMAIN commands /\ Promised!Start(c) \in Nat
      /\ c \in Promised!Candidates
  BY <1>1, StartOfCommand, CandidatePromised
<1>5. /\ Settled(c, h, stored) /\ token.type # "EqualSign"
      /\ after_equal_sign = FALSE
      /\ next_positional = 1 /\ rest_option = 0 /\ options_checked = FALSE
  BY <1>1, <1>2, <1>3 DEF InParseOptions, Follows
<1>6. h >= Promised!Start(c)
  BY <1>5 DEF Settled
<1>7. /\ h \in Nat /\ Len(args) \in Nat
      /\ token.type = "EndOfInput" => h = Len(args)
      /\ token.type # "EndOfInput" =>
           /\ h + 1 \in DOMAIN args /\ token = args[h + 1]
  <2>1. Len(args) \in Nat /\ DOMAIN args = 1..Len(args)
    BY <1>1, LineTypes
  <2>2. /\ HandledCount \in 0..Len(args)
        /\ token.type # "EndOfInput" =>
             HandledCount + 1 \in 1..Len(args) /\ token = args[HandledCount + 1]
        /\ token.type = "EndOfInput" => HandledCount = Len(args)
    BY <1>1, PositionOfToken
  <2>3. PICK n : n = Len(args)
    OBVIOUS
  <2>4. h \in 0..n => h \in Nat
    BY <2>1, <2>3
  <2> QED
    BY <1>1, <2>1, <2>2, <2>3, <2>4
<1>8. \A s \in OptionStates : ~value_'[s]
  BY <1>2 DEF InParseOptions, ValueFlags
<1> QED
  BY <1>4, <1>5, <1>6, <1>7, <1>8 DEF InParseOptions

\* A value that belongs to no option is positional.
LEMMA ValueIsPositional ==
  ASSUME NEW c, NEW h, NEW stored, InParseOptions(c, h, stored),
         token.type = "Value", ovm' = ovm,
         positional_tokens' = Append(positional_tokens, token.text),
         Proceed("ParseOptionsState")
  PROVE  Follows(stored)'
<1>1. /\ IInv /\ Reading /\ status = "running" /\ TokensFit
      /\ UNCHANGED <<commands, args>>
      /\ h = HandledCount
  BY DEF InParseOptions
<1>2. /\ h \in Nat /\ h + 1 \in DOMAIN args /\ token = args[h + 1]
      /\ Settled(c, h, stored) /\ Promised!Start(c) \in Nat
  BY InParseOptionsOpened
<1>3. Settled(c, h + 1, stored)'
  BY <1>1, <1>2, PositionalDone
<1>4. machine' = "ParseOptionsState" /\ status' = "running" /\ NextToken
  BY <1>1 DEF Proceed
<1>5. HandledCount' = h + 1 /\ Reading'
  BY <1>1, <1>2, <1>4, NextTokenReads
<1>6. token'.type # "EqualSign"
  <2> SUFFICES ASSUME token'.type = "EqualSign" PROVE FALSE
    OBVIOUS
  <2>1. h + 1 + 1 \in 1..Len(args) /\ token' = args[h + 1 + 1]
    BY <1>1, <1>5, ReadingTellsLater
  <2>2. DOMAIN args = 1..Len(args)
    BY <1>1, LineTypes
  <2>3. PICK i \in DOMAIN args : i = h + 1 + 1
    BY <2>1, <2>2
  <2>4. args[i - 1].type = "LongOption"
    BY <1>1, <2>1, <2>3 DEF TokensFit
  <2>5. i - 1 = h + 1
    BY <1>2, <2>3
  <2> QED
    BY <1>2, <2>4, <2>5
<1> QED
  BY <1>3, <1>4, <1>5, <1>6, InParseOptionsOpened, AfterOption

\* The line ends.
LEMMA LineEnds ==
  ASSUME NEW c, NEW h, NEW stored, InParseOptions(c, h, stored),
         token.type = "EndOfInput", UNCHANGED <<ovm, positional_tokens>>,
         Reissue("FinalState")
  PROVE  Follows(stored)'
<1>1. /\ IInv /\ Reading /\ status = "running" /\ UNCHANGED <<commands, args>>
      /\ stored \in [Keys -> Seq(OptionValues)]
  BY DEF InParseOptions
<1>2. h = Len(args) /\ Settled(c, h, stored)
  <2>1. h = Len(args)
    BY <1>1, PositionOfToken DEF InParseOptions
  <2>2. Settled(c, h, stored)
    BY InParseOptionsOpened
  <2> QED
    BY <2>1, <2>2
<1>3. Settled(c, Len(args), stored)'
  <2>1. PICK n : n = Len(args) /\ n = Len(args)'
    BY <1>1
  <2>2. Settled(c, n, stored)'
    BY <1>1, <1>2, <2>1, SettledLater DEF Settled
  <2> QED
    BY <2>1, <2>2, Zenon
<1>4. machine' = "FinalState" /\ status' = "running"
        /\ token'.type = "EndOfInput"
  BY <1>1 DEF Reissue
<1> QED
  BY <1>1, <1>3, <1>4, InParseOptionsOpened, EndBegins

\* Two sequences put one behind the other are empty when both are.
LEMMA NothingTogether ==
  ASSUME NEW S, NEW s \in Seq(S), NEW t \in Seq(S)
  PROVE  s \o t = <<>> <=> s = <<>> /\ t = <<>>
OBVIOUS

\* CheckMultipleOccurrence looks at what is stored, ParseSpec at the names
\* that come before: it is the same question.
LEMMA OccurrenceIsFirst ==
  ASSUME IInv, Reading, NEW stored \in [Keys -> Seq(OptionValues)],
         NEW c, c = active_command, c # 0, NEW h \in Nat,
         Settled(c, h, stored),
         NEW p \in Promised!NamesAfterPath(c), p = h + 1,
         Promised!OptionsNamed(c, p) # {}
  PROVE  CheckMultipleOccurrence(Promised!OptionAt(c, p))
           <=> ~Promised!GivenBefore(c, p, stored)
<1>1. c \in DOMAIN commands /\ p \in DOMAIN args
        /\ Promised!NamesAfterPath(c) \subseteq DOMAIN args
  BY ContextTypesOpened, CommandTypes, NamesAndValues
<1>2. PICK o : o = Promised!OptionAt(c, p)
  OBVIOUS
<1>3. /\ o.key \in Keys
      /\ \E i \in DOMAIN commands[c].options : o = commands[c].options[i]
  BY <1>1, <1>2, OptionFound
<1>4. PICK k : k = o.key
  OBVIOUS
<1>5. ovm[k] = stored[k] \o ValuesBy(c, k, h)
  BY <1>3, <1>4 DEF Settled
<1>6. stored[k] \in Seq(OptionValues) /\ ValuesBy(c, k, h) \in Seq(OptionValues)
        /\ (ValuesBy(c, k, h) = <<>> <=> NamesBy(c, k, h) = {})
  BY <1>3, <1>4, ByTypes
<1>7. ovm[k] = <<>> <=> stored[k] = <<>> /\ NamesBy(c, k, h) = {}
  <2>1. PICK s, t : s = stored[k] /\ t = ValuesBy(c, k, h)
    OBVIOUS
  <2> QED
    BY <1>5, <1>6, <2>1, NothingTogether
<1>8. NamesBy(c, k, h) # {} <=>
        \E j \in Promised!NamesAfterPath(c) : j < p /\ Promised!OptionAt(c, j) = o
  <2>1. ASSUME NEW j \in NamesBy(c, k, h)
        PROVE  /\ j \in Promised!NamesAfterPath(c) /\ j < p
               /\ Promised!OptionAt(c, j) = o
    <3>1. /\ j \in Promised!NamesAfterPath(c) /\ j <= h
          /\ Promised!OptionAt(c, j).key = k
      BY DEF NamesBy
    <3>2. j \in DOMAIN args /\ j \in Nat
      BY <1>1, <3>1, LineTypes
    <3>3. Promised!OptionsNamed(c, j) # {}
      BY <3>1 DEF Settled, NamesRight, RightName
    <3>4. \E i \in DOMAIN commands[c].options :
            Promised!OptionAt(c, j) = commands[c].options[i]
      BY <1>1, <3>2, <3>3, OptionFound
    <3>5. \A i, n \in DOMAIN commands[c].options :
            commands[c].options[i].key = commands[c].options[n].key => i = n
      BY ContextTypesOpened, KeysDiffer DEF CommandOptions
    <3>6. Promised!OptionAt(c, j) = o
      BY <1>3, <1>4, <3>1, <3>4, <3>5
    <3> QED
      BY <3>1, <3>2, <3>6
  <2>2. ASSUME NEW j \in Promised!NamesAfterPath(c), j < p,
               Promised!OptionAt(c, j) = o
        PROVE  j \in NamesBy(c, k, h)
    <3>1. j \in Nat
      BY <1>1, LineTypes
    <3>2. j <= h
      BY <2>2, <3>1
    <3> QED
      BY <1>4, <2>2, <3>2 DEF NamesBy
  <2> QED
    BY <2>1, <2>2
<1> QED
  BY <1>2, <1>4, <1>7, <1>8
  DEF CheckMultipleOccurrence, Promised!GivenBefore

\* The option found is the one ParseSpec names.
LEMMA FoundIsFirst ==
  ASSUME IInv, Reading, NEW c \in DOMAIN commands, NEW i \in DOMAIN args,
         NEW found, found = FirstIndex(Promised!OptionsNamed(c, i))
  PROVE  /\ found = 0 <=> Promised!OptionsNamed(c, i) = {}
         /\ found # 0 => found = Promised!First(Promised!OptionsNamed(c, i))
<1>1. /\ Promised!OptionsNamed(c, i) \subseteq DOMAIN commands[c].options
      /\ Promised!OptionsNamed(c, i) # {} =>
           Promised!First(Promised!OptionsNamed(c, i)) \in Promised!OptionsNamed(c, i)
  BY OptionFound
<1>2. 0 \notin DOMAIN commands[c].options
  <2>1. PICK options : options = commands[c].options
    OBVIOUS
  <2>2. options \in Seq(Options)
    BY <2>1, ContextTypesOpened, CommandTypes
  <2> QED
    BY <2>1, <2>2
<1>3. Promised!OptionsNamed(c, i) # {} =>
        FirstIndex(Promised!OptionsNamed(c, i))
          = Promised!First(Promised!OptionsNamed(c, i))
  BY Zenon DEF FirstIndex, Min, Promised!First
<1>4. Promised!OptionsNamed(c, i) = {} =>
        FirstIndex(Promised!OptionsNamed(c, i)) = 0
  BY DEF FirstIndex
<1> QED
  BY <1>1, <1>2, <1>3, <1>4

\* The name of an option: it is one the command does not have, or it has a
\* value already, or its value is awaited from now on.
LEMMA NameIsRead ==
  ASSUME NEW c, NEW h, NEW stored, InParseOptions(c, h, stored),
         NEW s \in OptionStates,
         token.type \in Promised!OptionNames,
         s = "ParseLongOptionState" <=> token.type = "LongOption",
         NEW found, found = FirstIndex(Promised!OptionsNamed(c, h + 1)),
         EnterOption(s, found), UNCHANGED <<ovm, positional_tokens>>
  PROVE  Follows(stored)'
<1>1. /\ IInv /\ Reading /\ status = "running" /\ UNCHANGED <<commands, args>>
      /\ stored \in [Keys -> Seq(OptionValues)]
      /\ c = active_command /\ h = HandledCount
  BY DEF InParseOptions
<1>2. token.type # "EndOfInput" /\ token.type # "Value"
  BY DEF Promised!OptionNames
<1>3. PICK p : p = h + 1
  OBVIOUS
<1>4. /\ p \in DOMAIN args /\ token = args[p] /\ h \in Nat
      /\ Settled(c, h, stored) /\ Promised!Start(c) \in Nat
      /\ h >= Promised!Start(c)
      /\ c \in DOMAIN commands /\ c \in Promised!Candidates
      /\ active_command' = c
  BY <1>2, <1>3, InParseOptionsOpened
<1>5. p \in Promised!NamesAfterPath(c)
  <2>1. p > Promised!Start(c)
    BY <1>3, <1>4
  <2> QED
    BY <1>4, <2>1 DEF Promised!NamesAfterPath
<1>6. /\ found = 0 <=> Promised!OptionsNamed(c, p) = {}
      /\ found # 0 => found = Promised!First(Promised!OptionsNamed(c, p))
  BY <1>1, <1>3, <1>4, FoundIsFirst
<1>7. after_equal_sign' = FALSE
  BY InParseOptionsOpened
<1>8. CASE found = 0
  <2>1. status' = "rejected"
    BY <1>8 DEF EnterOption, ReportError
  <2>2. OutcomeNow' \in StoredOutcomes(stored)'
    BY <1>1, <1>4, <1>5, <1>6, <1>8, <2>1, WrongIsRejected
  <2> QED
    BY <1>7, <2>1, <2>2, AfterReturn
<1>9. CASE found # 0
  <2>1. /\ active_option' = found
        /\ IF CheckMultipleOccurrence(CommandOptions[found])
             THEN Proceed(s)
             ELSE ReportError("IllegalMultipleOccurrence")
    BY <1>9 DEF EnterOption
  <2>2. CommandOptions[found] = Promised!OptionAt(c, p)
    BY <1>1, <1>6, <1>9 DEF CommandOptions, Promised!OptionAt
  <2>3. CheckMultipleOccurrence(CommandOptions[found])
          <=> ~Promised!GivenBefore(c, p, stored)
    <3>1. c # 0
      BY <1>1, <1>4, ContextTypesOpened, PathTypes
    <3> QED
      BY <1>1, <1>3, <1>4, <1>5, <1>6, <1>9, <2>2, <3>1, OccurrenceIsFirst
  <2>4. CASE Promised!GivenBefore(c, p, stored)
    <3>1. status' = "rejected"
      BY <2>1, <2>3, <2>4 DEF ReportError
    <3>2. OutcomeNow' \in StoredOutcomes(stored)'
      BY <1>1, <1>4, <1>5, <2>4, <3>1, WrongIsRejected
    <3> QED
      BY <1>7, <3>1, <3>2, AfterReturn
  <2>5. CASE ~Promised!GivenBefore(c, p, stored)
    <3>1. machine' = s /\ status' = "running" /\ NextToken
      BY <1>1, <1>2, <2>1, <2>3, <2>5 DEF Proceed
    <3>2. HandledCount' = p
      BY <1>1, <1>2, <1>3, <3>1, NextTokenReads
    <3>3. p - 1 = h
      BY <1>3, <1>4
    <3>4. Settled(c, p - 1, stored)'
      <4>1. Settled(c, h, stored)'
        BY <1>1, <1>4, SettledLater DEF Settled
      <4> QED
        BY <3>3, <4>1, Zenon
    <3>5. Awaited(c, p, stored)'
      BY <1>1, <1>4, <1>5, <1>6, <1>7, <1>9, <2>1, <2>5, <3>1, <3>2, <3>4,
         AwaitedLater
    <3>6. ~value_'[machine'] /\ machine' \in OptionStates
      BY <3>1, InParseOptionsOpened
    <3>7. p \in DOMAIN args'
      BY <1>1, <1>4
    <3>8. next_positional' = 1 /\ rest_option' = 0 /\ options_checked' = FALSE
      BY InParseOptionsOpened
    <3> QED
      BY <1>4, <1>7, <3>1, <3>5, <3>6, <3>7, <3>8, InOption
  <2> QED
    BY <2>4, <2>5
<1> QED
  BY <1>8, <1>9

\* Every step of ParseOptionsState keeps to the promise.
LEMMA ParseOptionsFollows ==
  ASSUME IInv, Reading, ValueFlags, Resolved(active_command), TokensFit,
         NEW stored \in [Keys -> Seq(OptionValues)], Follows(stored),
         \/ ParseOptions_Value    \/ ParseOptions_EndOfInput
         \/ ParseOptions_DashDash \/ ParseOptions_EqualSign
         \/ ParseOptions_ShortOption \/ ParseOptions_LongOption
  PROVE  Follows(stored)'
<1>1. PICK c, h : c = active_command /\ h = HandledCount
  OBVIOUS
<1>2. /\ status = "running" /\ machine = "ParseOptionsState"
      /\ UNCHANGED <<commands, args, active_command>>
      /\ UNCHANGED <<next_positional, rest_option, options_checked>>
      /\ UNCHANGED <<value_, after_equal_sign>>
  BY DEF ParseOptions_Value, ParseOptions_EndOfInput, ParseOptions_DashDash,
     ParseOptions_EqualSign, ParseOptions_ShortOption, ParseOptions_LongOption,
     Handling, fixedVars, contextVars, optionVars, finalVars
<1>3. InParseOptions(c, h, stored)
  BY <1>1, <1>2 DEF InParseOptions
<1>4. /\ token.type # "EqualSign"
      /\ token.type # "EndOfInput" => h + 1 \in DOMAIN args /\ token = args[h + 1]
  BY <1>3, InParseOptionsOpened
<1>5. token.type # "DashDash"
  BY <1>4 DEF TokensFit
<1>6. CASE ParseOptions_Value
  BY <1>3, <1>6, ValueIsPositional DEF ParseOptions_Value, Handling
<1>7. CASE ParseOptions_EndOfInput
  BY <1>3, <1>7, LineEnds
  DEF ParseOptions_EndOfInput, Handling, EnterFinal, contextVars
<1>8. CASE ParseOptions_ShortOption
  <2>1. /\ token.type \in {"ShortOption", "LoneDash"}
        /\ EnterOption("ParseShortOptionState", FindShortOption(token.text))
        /\ UNCHANGED <<ovm, positional_tokens>>
    BY <1>8 DEF ParseOptions_ShortOption, Handling
  <2>2. FindShortOption(token.text) = FirstIndex(Promised!OptionsNamed(c, h + 1))
    <3>1. token = args[h + 1] /\ args[h + 1].type # "LongOption"
      BY <1>4, <2>1
    <3>2. Promised!OptionsNamed(c, h + 1)
            = {i \in DOMAIN CommandOptions : CommandOptions[i].short = token.text}
      BY <1>1, <3>1 DEF Promised!OptionsNamed, CommandOptions
    <3> QED
      BY <3>2, Zenon DEF FindShortOption
  <2>3. token.type \in Promised!OptionNames /\ token.type # "LongOption"
    BY <2>1 DEF Promised!OptionNames
  <2> QED
    BY <1>3, <2>1, <2>2, <2>3, NameIsRead DEF OptionStates
<1>9. CASE ParseOptions_LongOption
  <2>1. /\ token.type = "LongOption"
        /\ EnterOption("ParseLongOptionState", FindLongOption(token.text))
        /\ UNCHANGED <<ovm, positional_tokens>>
    BY <1>9 DEF ParseOptions_LongOption, Handling
  <2>2. FindLongOption(token.text) = FirstIndex(Promised!OptionsNamed(c, h + 1))
    <3>1. token = args[h + 1] /\ args[h + 1].type = "LongOption"
      BY <1>4, <2>1
    <3>2. Promised!OptionsNamed(c, h + 1)
            = {i \in DOMAIN CommandOptions : CommandOptions[i].long = token.text}
      BY <1>1, <3>1 DEF Promised!OptionsNamed, CommandOptions
    <3> QED
      BY <3>2, Zenon DEF FindLongOption
  <2>3. token.type \in Promised!OptionNames
    BY <2>1 DEF Promised!OptionNames
  <2> QED
    BY <1>3, <2>1, <2>2, <2>3, NameIsRead DEF OptionStates
<1> QED
  BY <1>4, <1>5, <1>6, <1>7, <1>8, <1>9
  DEF ParseOptions_DashDash, ParseOptions_EqualSign, Handling

\* Where InitialState and IdentifyCommandState begin, and what their steps
\* leave alone.
InFirstStates(h, stored) ==
  /\ IInv /\ CInv /\ status = "running" /\ machine \notin CommandKnown
  /\ h = HandledCount
  /\ stored \in [Keys -> Seq(OptionValues)]
  /\ TokensFit /\ Follows(stored)
  /\ UNCHANGED <<commands, args, ovm, after_equal_sign>>
  /\ UNCHANGED <<next_positional, rest_option, options_checked>>

\* What is known there: only values were handled, and none is positional yet.
LEMMA InFirstStatesOpened ==
  ASSUME NEW h, NEW stored, InFirstStates(h, stored)
  PROVE  /\ IInv /\ Reading /\ ovm' = stored /\ positional_tokens = <<>>
         /\ after_equal_sign' = FALSE
         /\ next_positional' = 1 /\ rest_option' = 0 /\ options_checked' = FALSE
         /\ h \in Nat /\ h <= Len(args) /\ DOMAIN args = 1..Len(args)
         /\ token.type = "EndOfInput" => h = Len(args)
         /\ \A i \in 1..h : args[i].type = "Value"
         /\ token.type \notin {"EqualSign", "DashDash"}
<1>1. /\ IInv /\ Reading /\ CInv /\ h = HandledCount /\ status = "running"
      /\ machine \in {"InitialState", "IdentifyCommandState"} /\ TokensFit
  BY ContextTypesOpened
  DEF InFirstStates, CInv, LoopTypeOK, CommandKnown
<1>2. machine # "FinalState" /\ machine # "ParseLongOptionState"
        /\ machine \notin CommandKnown
  BY <1>1 DEF CommandKnown
<1>3. options_checked \in BOOLEAN /\ after_equal_sign \in BOOLEAN
  BY <1>1, ContextTypesOpened DEF FinalTypeOK, OptionTypeOK
<1>4. /\ ovm = stored /\ positional_tokens = <<>> /\ after_equal_sign = FALSE
      /\ next_positional = 1 /\ rest_option = 0 /\ options_checked = FALSE
  BY <1>1, <1>2, <1>3 DEF InFirstStates, Follows
<1>5. h \in Nat /\ \A i \in 1..h : args[i].type = "Value"
  BY <1>1, <1>2, OnlyValuesBefore
<1>6. Len(args) \in Nat /\ DOMAIN args = 1..Len(args)
  BY <1>1, LineTypes
<1>7. h \in 0..Len(args) /\ (token.type = "EndOfInput" => h = Len(args))
  BY <1>1, PositionOfToken
<1>8. token.type # "EqualSign"
  <2>1. h \in DOMAIN args => args[h].type # "LongOption"
    BY <1>5, <1>6
  <2> QED
    BY <1>1, <2>1, NoSignBehind
<1>9. token.type # "DashDash"
  <2>1. SUFFICES ASSUME token.type = "DashDash" PROVE FALSE
    OBVIOUS
  <2>2. h + 1 \in 1..Len(args) /\ token = args[h + 1]
    BY <1>1, <2>1, PositionOfToken
  <2> QED
    BY <1>1, <1>6, <2>1, <2>2 DEF TokensFit
<1>10. h <= Len(args)
  <2>1. PICK n : n = Len(args)
    OBVIOUS
  <2>2. n \in Nat /\ h \in 0..n
    BY <1>6, <1>7, <2>1
  <2>3. h <= n
    BY <2>2
  <2> QED
    BY <2>1, <2>3
<1> QED
  BY <1>1, <1>4, <1>5, <1>6, <1>7, <1>8, <1>9, <1>10 DEF InFirstStates

\* The command is not known yet.
LEMMA StillIdentifying ==
  ASSUME NEW h, NEW stored, InFirstStates(h, stored),
         machine' = "IdentifyCommandState", status' = "running",
         positional_tokens' = positional_tokens
  PROVE  Follows(stored)'
<1>1. machine' \notin CommandKnown /\ machine' \notin OptionStates
        /\ machine' # "FinalState"
  BY DEF CommandKnown, OptionStates
<1>2. /\ ovm' = stored /\ positional_tokens' = <<>> /\ after_equal_sign' = FALSE
      /\ next_positional' = 1 /\ rest_option' = 0 /\ options_checked' = FALSE
  BY InFirstStatesOpened
<1> QED
  BY <1>1, <1>2 DEF Follows

\* There is no command.
LEMMA NoCommandIsRejected ==
  ASSUME NEW h, NEW stored, InFirstStates(h, stored), NoCommand,
         status' = "rejected"
  PROVE  Follows(stored)'
<1>1. IInv /\ Reading /\ UNCHANGED <<commands, args>> /\ after_equal_sign' = FALSE
  BY InFirstStatesOpened DEF InFirstStates
<1>2. Promised!Candidates = {}
  BY <1>1, CandidatePromised
<1>3. OutcomeNow' \in StoredOutcomes(stored)'
  BY <1>1, <1>2, RejectedAsPromised
<1> QED
  BY <1>1, <1>3, AfterReturn

\* The command is known, and its options are next.
LEMMA CommandIsKnown ==
  ASSUME NEW h, NEW stored, InFirstStates(h, stored),
         NEW c, c = active_command', Resolved(c), Settled(c, h, stored)',
         \/ EnterParseOptions
         \/ EnterFinal /\ token.type = "EndOfInput"
  PROVE  Follows(stored)'
<1>1. /\ IInv /\ Reading /\ UNCHANGED <<commands, args>> /\ status = "running"
      /\ h = HandledCount
      /\ stored \in [Keys -> Seq(OptionValues)]
  BY InFirstStatesOpened DEF InFirstStates
<1>2. /\ after_equal_sign' = FALSE
      /\ next_positional' = 1 /\ rest_option' = 0 /\ options_checked' = FALSE
  BY InFirstStatesOpened
<1>3. CASE status' = "aborted"
  BY <1>2, <1>3, AfterAbort
<1>4. CASE Reissue("ParseOptionsState")
  <2>1. machine' = "ParseOptionsState" /\ status' = "running" /\ token' = token
          /\ HandledCount' = h
    BY <1>1, <1>4, NoTokenRead DEF Reissue
  <2>2. token.type # "EqualSign"
    BY InFirstStatesOpened
  <2> QED
    BY <1>2, <2>1, <2>2, AfterOption
<1>5. CASE Reissue("FinalState") /\ token.type = "EndOfInput"
  <2>1. machine' = "FinalState" /\ status' = "running"
          /\ token'.type = "EndOfInput"
    BY <1>1, <1>5 DEF Reissue
  <2>2. Settled(c, Len(args), stored)'
    <3>1. PICK n : n = Len(args)
      OBVIOUS
    <3>2. n = h
      BY <1>1, <1>5, <3>1, PositionOfToken
    <3>3. n = Len(args)'
      BY <1>1, <3>1
    <3>4. Settled(c, n, stored)'
      BY <3>2
    <3> QED
      BY <3>3, <3>4, Zenon
  <2>3. c \in DOMAIN commands
    BY <1>1, StartOfCommand
  <2> QED
    BY <1>1, <1>2, <2>1, <2>2, <2>3, EndBegins
<1> QED
  BY <1>3, <1>4, <1>5 DEF EnterParseOptions, EnterFinal, Abort

\* Nothing but the path was handled.
LEMMA PathIsSettled ==
  ASSUME NEW h, NEW stored, InFirstStates(h, stored),
         NEW c, Resolved(c), Promised!Start(c) = h,
         positional_tokens' = <<>>
  PROVE  Settled(c, h, stored)'
<1>1. /\ IInv /\ Reading /\ UNCHANGED <<commands, args>>
      /\ ovm' = stored /\ h \in Nat
      /\ stored \in [Keys -> Seq(OptionValues)]
  BY InFirstStatesOpened DEF InFirstStates
<1>2. /\ \A k : ValuesBy(c, k, h) = <<>>
      /\ TextsBy(c, h) = <<>>
      /\ NamesRight(c, h, stored)
  BY <1>1, NothingBy
<1>3. \A k \in Keys : stored[k] \o <<>> = stored[k]
  BY <1>1, NothingBehind
<1>4. \A k \in Keys : ovm'[k] = stored[k] \o ValuesBy(c, k, h)
  BY <1>1, <1>2, <1>3
<1>5. h >= Promised!Start(c)
  BY <1>1
<1> QED
  BY <1>1, <1>2, <1>4, <1>5, SettledLater

\* The first values of the line, when no path takes them, are positional.
LEMMA ValuesArePositional ==
  ASSUME IInv, Reading, NEW c, Promised!Start(c) = 0,
         NEW h \in Nat, h <= Len(args),
         \A i \in 1..h : args[i].type = "Value"
  PROVE  /\ PositionalBy(c, h) = 1..h
         /\ \A k : NamesBy(c, k, h) = {}
         /\ \A stored : NamesRight(c, h, stored)
<1>1. Len(args) \in Nat /\ DOMAIN args = 1..Len(args)
  BY LineTypes
<1>2. \A i \in Promised!NamesAfterPath(c) : i \in DOMAIN args /\ ~(i <= h)
  <2> SUFFICES ASSUME NEW i \in Promised!NamesAfterPath(c), i <= h PROVE FALSE
    BY NamesAndValues
  <2>1. i \in DOMAIN args /\ args[i].type # "Value"
    BY NamesAndValues
  <2>2. i \in 1..h
    BY <1>1, <2>1
  <2> QED
    BY <2>1, <2>2
<1>3. ASSUME NEW i \in 1..h
      PROVE  i \in Promised!Positional(c)
  <2>1. i \in DOMAIN args /\ i > 0 /\ args[i].type = "Value" /\ i \in Nat
    BY <1>1
  <2>2. ASSUME NEW j \in Promised!NamesAfterPath(c) PROVE Promised!ValueOf(j) # i
    <3>1. Promised!ValueOf(j) \in {j + 1, j + 2} /\ j \in Nat /\ ~(j <= h)
      BY <1>1, <1>2, NamesAndValues
    <3> QED
      BY <2>1, <3>1
  <2> QED
    BY <2>1, <2>2 DEF Promised!Positional, Promised!IsValueAt
<1>4. PositionalBy(c, h) = 1..h
  <2>1. PositionalBy(c, h) \in SUBSET (1..h)
    BY ByPositions
  <2>2. \A i \in 1..h : i <= h
    OBVIOUS
  <2> QED
    BY <1>3, <2>1, <2>2 DEF PositionalBy
<1> QED
  BY <1>2, <1>4 DEF NamesBy, NamesRight

\* The segments collected are the texts of these values.
LEMMA SegmentsArePositional ==
  ASSUME IInv, Reading, NEW c, Promised!Start(c) = 0,
         SegmentsRead, \A i \in 1..HandledCount : args[i].type = "Value"
  PROVE  TextsBy(c, HandledCount) = path_segments
<1>1. PICK h : h = HandledCount
  OBVIOUS
<1>2. path_segments \in Seq(Texts \cup {""}) /\ h = Len(path_segments)
        /\ \A i \in DOMAIN path_segments : IsValue(i, path_segments[i])
  BY <1>1, ContextTypesOpened DEF SegmentsRead, IdentifyTypeOK
<1>3. /\ h \in Nat /\ DOMAIN path_segments = 1..h
      /\ path_segments = [n \in 1..h |-> path_segments[n]]
  <2>1. PICK S, s : s = path_segments /\ s \in Seq(S)
    BY <1>2
  <2>2. Len(s) \in Nat /\ DOMAIN s = 1..Len(s) /\ s = [n \in 1..Len(s) |-> s[n]]
    BY <2>1
  <2>3. h = Len(path_segments)
    BY <1>2
  <2> QED
    BY <2>1, <2>2, <2>3
<1>4. h <= Len(args) /\ Len(args) \in Nat /\ DOMAIN args = 1..Len(args)
  <2>1. PICK n : n = Len(args)
    OBVIOUS
  <2>2. n \in Nat /\ h \in 0..n /\ DOMAIN args = 1..n
    BY <1>1, <2>1, PositionOfToken, LineTypes
  <2>3. h <= n
    BY <2>2
  <2> QED
    BY <2>1, <2>2, <2>3
<1>5. PositionalBy(c, h) = 1..h
  BY <1>1, <1>3, <1>4, ValuesArePositional
<1>6. Cardinality(1..h) = h
  <2>1. h \in Nat /\ h \in Int /\ 1 \in Int
    BY <1>3
  <2>2. Cardinality(1..h) = IF 1 > h THEN 0 ELSE h - 1 + 1
    BY <2>1, FS_Interval
  <2> QED
    BY <2>1, <2>2
<1>7. \A n \in 1..h : Promised!InOrder(1..h)[n] = n
  BY <1>3, InOrderInterval
<1>8. TextsBy(c, h) = [n \in 1..h |-> TextOf[Promised!InOrder(1..h)[n]]]
  BY <1>5, <1>6 DEF TextsBy, Listed
<1>9. \A n \in 1..h : TextOf[Promised!InOrder(1..h)[n]] = path_segments[n]
  <2> SUFFICES ASSUME NEW n \in 1..h
               PROVE  TextOf[Promised!InOrder(1..h)[n]] = path_segments[n]
    OBVIOUS
  <2>1. n \in DOMAIN args /\ args[n].text = path_segments[n]
    <3>1. IsValue(n, path_segments[n])
      BY <1>2, <1>3
    <3>2. PICK m : m = Len(args)
      OBVIOUS
    <3>3. n \in 1..m
      <4>1. m \in Nat /\ h <= m
        BY <1>4, <3>2
      <4> QED
        BY <1>3, <4>1
    <3> QED
      BY <1>4, <3>1, <3>2, <3>3 DEF IsValue
  <2> QED
    BY <1>7, <2>1 DEF TextOf
<1> QED
  BY <1>1, <1>3, <1>8, <1>9

\* The segments collected become positional tokens of the default command.
LEMMA SegmentsAreSettled ==
  ASSUME NEW h, NEW stored, InFirstStates(h, stored), SegmentsRead,
         NEW c \in DefaultCommands(commands), Promised!Start(c) = 0,
         positional_tokens' = positional_tokens \o path_segments
  PROVE  Settled(c, h, stored)'
<1>1. /\ IInv /\ Reading /\ UNCHANGED <<commands, args>> /\ h = HandledCount
      /\ ovm' = stored /\ h \in Nat /\ h <= Len(args)
      /\ positional_tokens = <<>>
      /\ stored \in [Keys -> Seq(OptionValues)]
      /\ \A i \in 1..h : args[i].type = "Value"
  BY InFirstStatesOpened DEF InFirstStates
<1>2. positional_tokens' = path_segments
  <2>1. PICK S, s : s = path_segments /\ s \in Seq(S)
    BY <1>1, ContextTypesOpened DEF IdentifyTypeOK
  <2>2. <<>> \o s = s
    BY <2>1
  <2> QED
    BY <1>1, <2>1, <2>2
<1>3. TextsBy(c, h) = path_segments
  BY <1>1, SegmentsArePositional
<1>4. (\A k : NamesBy(c, k, h) = {}) /\ NamesRight(c, h, stored)
  BY <1>1, ValuesArePositional
<1>5. \A k : ValuesBy(c, k, h) = <<>>
  BY <1>4, ListedNone DEF ValuesBy
<1>6. \A k \in Keys : stored[k] \o <<>> = stored[k]
  BY <1>1, NothingBehind
<1>7. \A k \in Keys : ovm'[k] = stored[k] \o ValuesBy(c, k, h)
  BY <1>1, <1>5, <1>6
<1>8. h >= Promised!Start(c)
  BY <1>1
<1> QED
  BY <1>1, <1>2, <1>3, <1>4, <1>7, <1>8, SettledLater

\* The default command is where a path would end that has no segments.
LEMMA DefaultStart ==
  ASSUME IInv, Reading, NEW c \in DefaultCommands(commands),
         MatchingCommands = {}
  PROVE  Resolved(c) /\ Promised!Start(c) = 0
<1>1. Resolved(c) /\ IsDefault(commands[c])
  BY DEF Resolved, DefaultCommands
<1> QED
  BY <1>1, StartOfCommand

\* The path of the command found is what was handled.
LEMMA FoundStart ==
  ASSUME NoGaps, NEW h, NEW stored, InFirstStates(h, stored),
         machine = "IdentifyCommandState", last_matched_command # 0,
         Resolved(last_matched_command)
  PROVE  Promised!Start(last_matched_command) = h
<1>1. /\ IInv /\ CInv /\ Reading /\ h = HandledCount /\ TokensFit
      /\ DOMAIN args = 1..Len(args)
  BY InFirstStatesOpened DEF InFirstStates, CInv
<1>2. PICK c : c = last_matched_command
  OBVIOUS
<1>3. SegmentsRead /\ SegmentsMatched
  BY <1>1 DEF CInv, Identifying
<1>4. /\ c \in DOMAIN commands
      /\ Len(Path(c)) = Len(path_segments)
      /\ \A i \in 1..Len(Path(c)) : Path(c)[i] = path_segments[i]
  BY <1>1, <1>2, MatchedPath
<1>5. h = Len(path_segments)
  BY <1>1, <1>3 DEF SegmentsRead
<1>6. ~IsDefault(commands[c])
  <2> SUFFICES ASSUME IsDefault(commands[c]) PROVE FALSE
    OBVIOUS
  <2>1. Len(Path(c)) = 1 /\ Path(c)[1] = ""
    BY <1>1, <1>4, OnlyDefaultIsEmpty
  <2>2. path_segments[1] = ""
    <3>1. \A i \in 1..Len(Path(c)) : Path(c)[i] = path_segments[i]
      BY <1>4
    <3>2. 1 \in 1..Len(Path(c))
      <4>1. PICK n : n = Len(Path(c)) /\ n = 1
        BY <2>1, Zenon
      <4>2. 1 \in 1..n
        BY <4>1
      <4> QED
        BY <4>1, <4>2, Zenon
    <3> QED
      BY <2>1, <3>1, <3>2, Zenon
  <2>3. 1 \in DOMAIN path_segments
    <3>1. PICK S, s : s = path_segments /\ s \in Seq(S)
      BY <1>1, ContextTypesOpened DEF IdentifyTypeOK
    <3>2. Len(s) = 1
      BY <1>4, <2>1, <3>1
    <3>3. 1 \in DOMAIN s
      BY <3>1, <3>2
    <3> QED
      BY <3>1, <3>3
  <2>4. IsValue(1, path_segments[1])
    BY <1>3, <2>3 DEF SegmentsRead
  <2>5. 1 \in DOMAIN args
    <3>1. h = 1 /\ h \in 0..Len(args)
      BY <1>1, <1>4, <1>5, <2>1, PositionOfToken
    <3>2. Len(args) \in Nat
      BY <1>1, LineTypes
    <3>3. PICK n : n = Len(args)
      OBVIOUS
    <3>4. 1 \in 1..n
      BY <3>1, <3>2, <3>3
    <3> QED
      BY <1>1, <3>3, <3>4
  <2> QED
    BY <1>1, <2>2, <2>4, <2>5 DEF TokensFit, IsValue
<1>7. Promised!Start(c) = Len(Path(c))
  BY <1>1, <1>2, <1>6, StartOfCommand
<1> QED
  BY <1>2, <1>4, <1>5, <1>7

\* The ways out of IdentifyCommandState. The command is found:
LEMMA PathFoundFollows ==
  ASSUME NoGaps, NEW h, NEW stored, InFirstStates(h, stored),
         machine = "IdentifyCommandState", last_matched_command # 0,
         \/ token.type # "Value"
         \/ StillMatching(filtered_commands, token.text,
                          Len(path_segments) + 1) = {},
         active_command' = last_matched_command,
         positional_tokens' = positional_tokens,
         \/ EnterParseOptions
         \/ EnterFinal /\ token.type = "EndOfInput"
  PROVE  Follows(stored)'
<1>1. /\ IInv /\ Reading /\ positional_tokens = <<>>
      /\ SegmentsRead /\ SegmentsMatched
  BY InFirstStatesOpened DEF InFirstStates, CInv, Identifying
<1>2. PICK c : c = last_matched_command
  OBVIOUS
<1>3. Resolved(c)
  BY <1>1, <1>2, LastMatchedResolves DEF Resolved
<1>4. Promised!Start(c) = h
  BY <1>2, <1>3, FoundStart
<1>5. Settled(c, h, stored)'
  BY <1>1, <1>3, <1>4, PathIsSettled
<1> QED
  BY <1>2, <1>3, <1>5, CommandIsKnown

\* the default command is used instead:
LEMMA PathGivenUpFollows ==
  ASSUME NEW h, NEW stored, InFirstStates(h, stored),
         machine = "IdentifyCommandState", last_matched_command = 0,
         default_command # 0,
         \/ token.type # "Value"
         \/ StillMatching(filtered_commands, token.text,
                          Len(path_segments) + 1) = {},
         FallBackToDefault
  PROVE  Follows(stored)'
<1>1. /\ IInv /\ Reading /\ SegmentsRead /\ SegmentsMatched
  BY InFirstStatesOpened DEF InFirstStates, CInv, Identifying
<1>2. PICK c : c = default_command
  OBVIOUS
<1>3. MatchingCommands = {}
  BY <1>1, LastMatchedResolves
<1>4. c \in DefaultCommands(commands)
  BY <1>1, <1>2, DefaultIndex DEF SegmentsMatched
<1>5. Resolved(c) /\ Promised!Start(c) = 0
  BY <1>1, <1>3, <1>4, DefaultStart
<1>6. /\ active_command' = c /\ EnterParseOptions
      /\ positional_tokens' = positional_tokens \o path_segments
  BY <1>2 DEF FallBackToDefault
<1>7. Settled(c, h, stored)'
  BY <1>1, <1>4, <1>5, <1>6, SegmentsAreSettled
<1> QED
  BY <1>5, <1>6, <1>7, CommandIsKnown

\* there is no command.
LEMMA PathUnknownFollows ==
  ASSUME NEW h, NEW stored, InFirstStates(h, stored),
         machine = "IdentifyCommandState", last_matched_command = 0,
         default_command = 0,
         \/ token.type # "Value"
         \/ StillMatching(filtered_commands, token.text,
                          Len(path_segments) + 1) = {},
         ReportError("UnrecognizedCommand")
  PROVE  Follows(stored)'
<1>1. /\ IInv /\ Reading /\ SegmentsRead /\ SegmentsMatched
  BY InFirstStatesOpened DEF InFirstStates, CInv, Identifying
<1>2. MatchingCommands = {}
  BY <1>1, LastMatchedResolves
<1>3. DefaultCommands(commands) = {}
  BY <1>1, DefaultIndex DEF SegmentsMatched
<1>4. status' = "rejected"
  BY DEF ReportError
<1> QED
  BY <1>2, <1>3, <1>4, NoCommandIsRejected DEF NoCommand

\* Every step of IdentifyCommandState keeps to the promise.
LEMMA IdentifyFollows ==
  ASSUME IInv, CInv, TokensFit, NoGaps,
         NEW stored \in [Keys -> Seq(OptionValues)], Follows(stored),
         IdentifyCommand_Value \/ IdentifyCommand_Other
  PROVE  Follows(stored)'
<1>1. PICK h : h = HandledCount
  OBVIOUS
<1>2. /\ status = "running" /\ machine = "IdentifyCommandState"
      /\ UNCHANGED <<commands, args, ovm, after_equal_sign>>
      /\ UNCHANGED <<next_positional, rest_option, options_checked>>
  BY DEF IdentifyCommand_Value, IdentifyCommand_Other, Handling,
     fixedVars, optionVars, finalVars
<1>3. InFirstStates(h, stored)
  BY <1>1, <1>2 DEF InFirstStates, CommandKnown
<1>4. CASE IdentifyCommand_Value
  <2>1. PICK kept : kept = StillMatching(filtered_commands, token.text,
                                         Len(path_segments) + 1)
    OBVIOUS
  <2>2. token.type = "Value"
    BY <1>4 DEF IdentifyCommand_Value, Handling
  <2>3. \/ /\ Proceed("IdentifyCommandState")
           /\ positional_tokens' = positional_tokens
        \/ /\ kept = {} /\ last_matched_command # 0
           /\ active_command' = last_matched_command
           /\ EnterParseOptions
           /\ positional_tokens' = positional_tokens
        \/ /\ kept = {} /\ last_matched_command = 0 /\ default_command # 0
           /\ FallBackToDefault
        \/ /\ kept = {} /\ last_matched_command = 0 /\ default_command = 0
           /\ ReportError("UnrecognizedCommand")
    BY <1>4, <2>1, Zenon DEF IdentifyCommand_Value
  <2>4. CASE /\ Proceed("IdentifyCommandState")
             /\ positional_tokens' = positional_tokens
    <3>1. machine' = "IdentifyCommandState" /\ status' = "running"
      BY <1>2, <2>2, <2>4 DEF Proceed
    <3> QED
      BY <1>3, <2>4, <3>1, StillIdentifying
  <2> QED
    BY <1>2, <1>3, <2>1, <2>3, <2>4, PathFoundFollows, PathGivenUpFollows,
       PathUnknownFollows
<1>5. CASE IdentifyCommand_Other
  <2>1. token.type # "Value" /\ token.type # "DashDash"
    BY <1>3, <1>5, InFirstStatesOpened DEF IdentifyCommand_Other, Handling, NotValue
  <2>2. \/ /\ last_matched_command # 0
           /\ active_command' = last_matched_command
           /\ \/ EnterParseOptions
              \/ EnterFinal /\ token.type = "EndOfInput"
           /\ positional_tokens' = positional_tokens
        \/ /\ last_matched_command = 0 /\ default_command # 0
           /\ FallBackToDefault
        \/ /\ last_matched_command = 0 /\ default_command = 0
           /\ ReportError("UnrecognizedCommand")
    <3>1. \/ /\ last_matched_command # 0
             /\ active_command' = last_matched_command
             /\ \/ EnterParseOptions
                \/ EnterFinal /\ token.type = "EndOfInput"
                \/ token.type = "DashDash" /\ Proceed("DashDashState")
             /\ UNCHANGED positional_tokens
          \/ /\ last_matched_command = 0 /\ default_command # 0
             /\ FallBackToDefault
          \/ /\ last_matched_command = 0 /\ default_command = 0
             /\ ReportError("UnrecognizedCommand")
      BY <1>5, Zenon DEF IdentifyCommand_Other
    <3> QED
      BY <2>1, <3>1
  <2> QED
    BY <1>2, <1>3, <2>1, <2>2, PathFoundFollows, PathGivenUpFollows,
       PathUnknownFollows
<1> QED
  BY <1>4, <1>5

\* Every step of InitialState keeps to the promise.
LEMMA InitialFollows ==
  ASSUME IInv, CInv, TokensFit,
         NEW stored \in [Keys -> Seq(OptionValues)], Follows(stored),
         InitialState_Value \/ InitialState_Other
  PROVE  Follows(stored)'
<1>1. PICK h : h = HandledCount
  OBVIOUS
<1>2. /\ status = "running" /\ machine = "InitialState"
      /\ UNCHANGED <<commands, args, ovm, after_equal_sign>>
      /\ UNCHANGED <<next_positional, rest_option, options_checked>>
      /\ UNCHANGED <<active_command, positional_tokens>>
  BY DEF InitialState_Value, InitialState_Other, Handling,
     fixedVars, contextVars, optionVars, finalVars
<1>3. InFirstStates(h, stored)
  BY <1>1, <1>2 DEF InFirstStates, CommandKnown
<1>4. /\ h = 0 /\ Reading
      /\ MatchingCommands = {} =>
           active_command = FirstIndex(DefaultCommands(commands))
      /\ token.type # "DashDash" /\ positional_tokens = <<>>
  BY <1>1, <1>2, <1>3, InFirstStatesOpened DEF CInv, AtTheStart
<1>5. CASE InitialState_Value /\ MaybeCommand(token.text)
  <2>1. Proceed("IdentifyCommandState") /\ token.type = "Value"
    BY <1>5 DEF InitialState_Value, EnterIdentifyCommand, Handling
  <2>2. machine' = "IdentifyCommandState" /\ status' = "running"
    BY <1>2, <2>1 DEF Proceed
  <2> QED
    BY <1>2, <1>3, <2>2, StillIdentifying
<1>6. CASE ~(InitialState_Value /\ MaybeCommand(token.text))
  <2>1. MatchingCommands = {}
    <3>1. ~(token.type = "Value" /\ MaybeCommand(token.text))
      BY <1>6 DEF InitialState_Value, InitialState_Other, Handling, NotValue
    <3> QED
      BY <1>1, <1>4, <3>1, PathMustBegin
  <2>2. \/ /\ active_command = 0
           /\ \E e \in Errors : ReportError(e)
        \/ /\ active_command # 0
           /\ \/ EnterParseOptions
              \/ EnterFinal /\ token.type = "EndOfInput"
    <3>1. \/ /\ active_command = 0
             /\ \/ ReportError("UnrecognizedCommand")
                \/ ReportError("MissingCommand")
          \/ /\ active_command # 0
             /\ \/ EnterParseOptions
                \/ EnterFinal /\ token.type = "EndOfInput"
                \/ token.type = "DashDash" /\ Proceed("DashDashState")
      BY <1>6, Zenon DEF InitialState_Value, InitialState_Other
    <3> QED
      BY <1>4, <3>1 DEF Errors
  <2>3. CASE active_command = 0
    <3>1. DefaultCommands(commands) = {}
      BY <1>4, <2>1, <2>3, DefaultIndex
    <3>2. status' = "rejected"
      BY <2>2, <2>3 DEF ReportError
    <3> QED
      BY <1>3, <2>1, <3>1, <3>2, NoCommandIsRejected DEF NoCommand
  <2>4. CASE active_command # 0
    <3>1. PICK c : c = active_command
      OBVIOUS
    <3>2. c \in DefaultCommands(commands)
      BY <1>4, <2>1, <2>4, <3>1, DefaultIndex
    <3>3. Resolved(c) /\ Promised!Start(c) = 0
      BY <1>4, <2>1, <3>2, DefaultStart
    <3>4. positional_tokens' = <<>>
      BY <1>2, <1>4
    <3>5. Settled(c, h, stored)'
      BY <1>3, <1>4, <3>3, <3>4, PathIsSettled
    <3> QED
      BY <1>2, <1>3, <2>2, <2>4, <3>1, <3>3, <3>5, CommandIsKnown
  <2> QED
    BY <2>3, <2>4
<1> QED
  BY <1>5, <1>6

\* The positional arguments of a command, and the one that takes the rest.
LEMMA Declarations ==
  ASSUME IInv, PositionalsDeclared, NEW c \in DOMAIN commands,
         NEW declared, declared = commands[c].positionals,
         NEW D, D = Len(declared)
  PROVE  /\ D \in Nat /\ DOMAIN declared = 1..D /\ Promised!Declared(c) = 1..D
         /\ \A p \in 1..D : declared[p] \in Options /\ declared[p].key \in Keys
         /\ \A p, q \in 1..D : declared[p].key = declared[q].key => p = q
         /\ Promised!TakesRest(c) = {p \in 1..D : IsPositionalRest(declared[p])}
         /\ \A r \in Promised!TakesRest(c) :
              /\ Promised!TakesRest(c) = {r} /\ r \in 1..D
              /\ r = D \/ r + 1 = D
<1>1. declared \in Seq(Options)
  BY ContextTypesOpened, CommandTypes
<1>2. D \in Nat /\ DOMAIN declared = 1..D
  BY <1>1
<1>3. \A p \in 1..D : declared[p] \in Options /\ declared[p].key \in Keys
  <2>1. \A p \in 1..D : declared[p] \in Options
    BY <1>1, <1>2, ElementTypes
  <2> QED
    BY <2>1 DEF Options
<1>4. /\ \A p, q \in 1..D : declared[p].key = declared[q].key => p = q
      /\ \A p, q, r \in 1..D :
           IsPositionalRest(declared[r]) /\ r < p /\ r < q => p = q
  <2>1. LET list == commands[c].positionals
        IN  /\ \A p, q \in DOMAIN list : list[p].key = list[q].key => p = q
            /\ \A p, q, r \in DOMAIN list :
                 IsPositionalRest(list[r]) /\ r < p /\ r < q => p = q
    BY Zenon DEF PositionalsDeclared
  <2> QED
    BY <1>2, <2>1
<1>5. Promised!Declared(c) = 1..D
  BY <1>2 DEF Promised!Declared
<1>6. Promised!TakesRest(c) = {p \in 1..D : IsPositionalRest(declared[p])}
  BY <1>5 DEF Promised!TakesRest, IsPositionalRest, key_rest
<1>7. ASSUME NEW r \in Promised!TakesRest(c)
      PROVE  /\ Promised!TakesRest(c) = {r} /\ r \in 1..D
             /\ r = D \/ r + 1 = D
  <2>1. r \in 1..D /\ IsPositionalRest(declared[r])
    BY <1>6
  <2>2. \A q \in Promised!TakesRest(c) : q = r
    BY <1>4, <1>6, <2>1 DEF IsPositionalRest
  <2>3. r = D \/ r + 1 = D
    <3> SUFFICES ASSUME r + 2 <= D PROVE FALSE
      BY <1>2, <2>1
    <3>1. r + 1 \in 1..D /\ r + 2 \in 1..D /\ r < r + 1 /\ r < r + 2
            /\ r + 1 # r + 2
      BY <1>2, <2>1
    <3> QED
      BY <1>4, <2>1, <3>1
  <2> QED
    BY <2>1, <2>2, <2>3
<1> QED
  BY <1>2, <1>3, <1>4, <1>5, <1>6, <1>7

\* The share of each of them in T tokens.
SharesAre(c, D, T) ==
  /\ Promised!TakesRest(c) = {} =>
       \A p \in 1..D : Promised!Share(c, p, T) = {p}
  /\ \A r \in Promised!TakesRest(c) : \A p \in 1..D :
       /\ p < r => Promised!Share(c, p, T) = {p}
       /\ p = r => Promised!Share(c, p, T) = r..(T - (D - r))
       /\ p > r => p = D /\ Promised!Share(c, p, T) = {T}

\* The declared arguments share the tokens out: those before the rest take one
\* each from the front, those after it from the back, the rest what remains.
LEMMA Shares ==
  ASSUME IInv, PositionalsDeclared, NEW c \in DOMAIN commands,
         NEW D, D = Len(commands[c].positionals), NEW T \in Nat
  PROVE  SharesAre(c, D, T)
<1>1. /\ D \in Nat /\ Promised!Declared(c) = 1..D
      /\ \A r \in Promised!TakesRest(c) :
           /\ Promised!TakesRest(c) = {r} /\ r \in 1..D
           /\ r = D \/ r + 1 = D
  BY Declarations
<1>2. Promised!Cardinality(Promised!Declared(c)) = D
  <2>1. D \in Int /\ 1 \in Int
    BY <1>1
  <2>2. Cardinality(1..D) = IF 1 > D THEN 0 ELSE D - 1 + 1
    BY <2>1, FS_Interval
  <2>3. Cardinality(1..D) = D
    BY <1>1, <2>2
  <2> QED
    BY <1>1, <2>3, SameCardinality
<1>3. ASSUME NEW p
      PROVE  Promised!Share(c, p, T) =
               IF Promised!TakesRest(c) = {} \/ p < Promised!First(Promised!TakesRest(c))
                 THEN {p}
               ELSE IF p \in Promised!TakesRest(c) THEN p..(T - (D - p))
               ELSE {T - (D - p)}
  BY <1>2 DEF Promised!Share
<1>4. ASSUME Promised!TakesRest(c) = {}, NEW p \in 1..D
      PROVE  Promised!Share(c, p, T) = {p}
  BY <1>3, <1>4
<1>5. ASSUME NEW r \in Promised!TakesRest(c), NEW p \in 1..D
      PROVE  /\ p < r => Promised!Share(c, p, T) = {p}
             /\ p = r => Promised!Share(c, p, T) = r..(T - (D - r))
             /\ p > r => p = D /\ Promised!Share(c, p, T) = {T}
  <2>1. /\ Promised!TakesRest(c) = {r} /\ r \in 1..D
        /\ r = D \/ r + 1 = D
    BY <1>1
  <2>2. Promised!First(Promised!TakesRest(c)) = r
    <3>1. Promised!TakesRest(c) \in SUBSET Nat
      BY <1>1, <2>1
    <3>2. Promised!First(Promised!TakesRest(c)) \in Promised!TakesRest(c)
      BY <3>1, FirstIsMember
    <3> QED
      BY <2>1, <3>2
  <2>3. p \in Promised!TakesRest(c) <=> p = r
    BY <2>1
  <2>4. CASE p < r
    <3>1. p < Promised!First(Promised!TakesRest(c))
      BY <2>2, <2>4
    <3>2. Promised!Share(c, p, T) = {p}
      BY <1>3, <3>1, Zenon
    <3>3. p # r /\ ~(p > r)
      BY <1>1, <2>1, <2>4
    <3> QED
      BY <3>2, <3>3
  <2>5. CASE p = r
    <3>1. ~(p < r) /\ Promised!TakesRest(c) # {}
      BY <2>1, <2>5
    <3> QED
      BY <1>1, <1>3, <2>1, <2>2, <2>3, <2>5, <3>1
  <2>6. CASE p > r
    <3>1. p = D /\ ~(p < r) /\ p # r /\ T - (D - p) = T
      BY <1>1, <2>1, <2>6
    <3>2. Promised!Share(c, p, T) = {T - (D - p)}
      BY <1>3, <2>1, <2>2, <2>3, <3>1
    <3> QED
      BY <1>1, <2>1, <3>1, <3>2
  <2> QED
    BY <1>1, <2>1, <2>4, <2>5, <2>6
<1> QED
  BY <1>4, <1>5 DEF SharesAre

\* How many tokens are too few, and how many too many.
LEMMA Demand ==
  ASSUME IInv, Reading, PositionalsDeclared, NEW c \in DOMAIN commands,
         NEW D, D = Len(commands[c].positionals), NEW T, T = Total(c)
  PROVE  /\ Promised!TakesRest(c) = {} =>
              /\ Promised!TooFewTokens(c) <=> T < D
              /\ Promised!TooManyTokens(c) <=> T > D
         /\ Promised!TakesRest(c) # {} =>
              /\ Promised!TooFewTokens(c) <=> T < D - 1
              /\ ~Promised!TooManyTokens(c)
<1>1. /\ D \in Nat /\ Promised!Declared(c) = 1..D
      /\ \A r \in Promised!TakesRest(c) :
           Promised!TakesRest(c) = {r} /\ r \in 1..D
  BY Declarations
<1>2. Cardinality(1..D) = D /\ IsFiniteSet(1..D)
  <2>1. D \in Int /\ 1 \in Int
    BY <1>1
  <2>2. Cardinality(1..D) = (IF 1 > D THEN 0 ELSE D - 1 + 1) /\ IsFiniteSet(1..D)
    BY <2>1, FS_Interval
  <2> QED
    BY <1>1, <2>2
<1>3. /\ Promised!TooFewTokens(c) <=>
           T < Cardinality((1..D) \ Promised!TakesRest(c))
      /\ Promised!TooManyTokens(c) <=>
           Promised!TakesRest(c) = {} /\ T > Cardinality(1..D)
  BY <1>1, SameCardinality
  DEF Total, Promised!TooFewTokens, Promised!TooManyTokens
<1>4. CASE Promised!TakesRest(c) = {}
  <2>1. (1..D) \ Promised!TakesRest(c) = 1..D
    BY <1>4
  <2> QED
    BY <1>2, <1>3, <1>4, <2>1
<1>5. CASE Promised!TakesRest(c) # {}
  <2>1. PICK r \in Promised!TakesRest(c) : TRUE
    BY <1>5
  <2>2. Promised!TakesRest(c) = {r} /\ r \in 1..D
    BY <1>1, <2>1
  <2>3. Cardinality((1..D) \ {r}) = D - 1
    BY <1>2, <2>2, FS_RemoveElement
  <2> QED
    BY <1>3, <1>5, <2>2, <2>3
<1> QED
  BY <1>4, <1>5

\* The n-th positional token, and what it stores.
LEMMA TextAt ==
  ASSUME IInv, Reading, NEW c, NEW n \in 1..Total(c)
  PROVE  /\ ValueStored(c)[n] = PositionalValue(TextsBy(c, Len(args))[n])
         /\ TextsBy(c, Len(args))[n] =
              args[Promised!InOrder(Promised!Positional(c))[n]].text
         /\ TextsBy(c, Len(args))[n] \in Texts \cup {""}
         /\ ValueStored(c) \in [1..Total(c) -> OptionValues]
<1> DEFINE at == Promised!InOrder(Promised!Positional(c))
<1>1. /\ PositionalBy(c, Len(args)) = Promised!Positional(c)
      /\ Total(c) \in Nat /\ Len(args) \in Nat
      /\ Promised!Positional(c) \subseteq DOMAIN args
      /\ PositionalBy(c, Len(args)) \in SUBSET (1..Len(args))
      /\ DOMAIN at = 1..Total(c)
  <2>1. Len(args) \in Nat
    BY LineTypes
  <2> QED
    BY <2>1, AllTexts, NamesAndValues, ByPositions, TakenPositions
<1>2. ASSUME NEW m \in 1..Total(c)
      PROVE  /\ at[m] \in DOMAIN args
             /\ TextsBy(c, Len(args))[m] = args[at[m]].text
             /\ args[at[m]].text \in Texts \cup {""}
  <2>1. at[m] \in Promised!Positional(c)
    BY <1>1, <1>2, InOrderElements DEF Total
  <2>2. TextsBy(c, Len(args)) = [i \in 1..Total(c) |-> TextOf[at[i]]]
    BY <1>1, Zenon DEF TextsBy, Listed, Total
  <2>3. at[m] \in DOMAIN args
    BY <1>1, <2>1
  <2>4. TextOf[at[m]] = args[at[m]].text
    BY <2>3 DEF TextOf
  <2>5. args[at[m]].text \in Texts \cup {""}
    BY <2>3, LineTypes
  <2>6. TextsBy(c, Len(args))[m] = TextOf[at[m]]
    <3> HIDE DEF at
    <3> QED
      BY <1>2, <2>2
  <2> QED
    BY <2>3, <2>4, <2>5, <2>6
<1>3. ValueStored(c) = [m \in 1..Total(c) |-> PositionalValue(args[at[m]].text)]
  BY <1>1 DEF ValueStored
<1>4. ValueStored(c) \in [1..Total(c) -> OptionValues]
  <2>1. \A m \in 1..Total(c) : PositionalValue(args[at[m]].text) \in OptionValues
    BY <1>2, ValueTypes
  <2> HIDE DEF at
  <2> QED
    BY <1>3, <2>1
<1>5. ValueStored(c)[n] = PositionalValue(args[at[n]].text)
  <2> HIDE DEF at
  <2> QED
    BY <1>3
<1> QED
  BY <1>2, <1>4, <1>5

\* A token in the share of one argument alone is taken for that argument's
\* key, if the argument accepts it.
LEMMA TakenForIs ==
  ASSUME IInv, Reading, NEW c, NEW k,
         NEW declared, declared = commands[c].positionals,
         NEW n \in 1..Total(c), NEW p \in Promised!Declared(c),
         \A q \in Promised!Declared(c) :
           n \in Promised!Share(c, q, Total(c)) <=> q = p
  PROVE  n \in TakenFor(c, k) <=>
           /\ declared[p].key = k
           /\ TextsBy(c, Len(args))[n] \in declared[p].accepts
<1> DEFINE at == Promised!InOrder(Promised!Positional(c))
<1>1. DOMAIN at = 1..Total(c) /\ Len(at) = Total(c)
  BY TakenPositions
<1>2. TextsBy(c, Len(args))[n] = args[at[n]].text
  BY TextAt
<1>3. TakenFor(c, k) =
        {m \in DOMAIN at : \E q \in Promised!Declared(c) :
           /\ commands[c].positionals[q].key = k
           /\ m \in Promised!Share(c, q, Len(at))
           /\ args[at[m]].text \in commands[c].positionals[q].accepts}
  BY DEF TakenFor
<1> HIDE DEF at
<1> QED
  BY <1>1, <1>2, <1>3, Zenon

\* One more positional token is offered to the argument it is taken for.
LEMMA OfferedToken ==
  ASSUME IInv, Reading, NEW c \in DOMAIN commands, UNCHANGED <<commands, args>>,
         NEW declared, declared = commands[c].positionals,
         NEW stored \in [Keys -> Seq(OptionValues)],
         NEW p \in DOMAIN declared, NEW n \in 1..Total(c),
         declared[p].key \in Keys,
         StorePositional(declared[p], TextsBy(c, Len(args))[n]),
         \A k : n \in TakenFor(c, k) <=>
           /\ declared[p].key = k
           /\ TextsBy(c, Len(args))[n] \in declared[p].accepts,
         NEW a, NEW b, NEW a2, NEW b2,
         StoredSoFar(c, a, b, stored),
         \A k : TakenBy(c, k, a2, b2)
                  = TakenBy(c, k, a, b) \cup ({n} \cap TakenFor(c, k)),
         \A m \in TakenBy(c, declared[p].key, a, b) : m < n
  PROVE  StoredSoFar(c, a2, b2, stored)'
<1>1. PICK text, key : /\ text = TextsBy(c, Len(args))[n]
                       /\ key = declared[p].key
  OBVIOUS
<1>2. /\ Total(c) \in Nat /\ Len(args) \in Nat /\ n \in Nat \ {0}
      /\ ValueStored(c)[n] = PositionalValue(text)
      /\ ValueStored(c) \in [1..Total(c) -> OptionValues]
      /\ PositionalValue(text) \in OptionValues
  <2>1. Total(c) \in Nat /\ Len(args) \in Nat
    BY AllTexts, LineTypes
  <2>2. text \in Texts \cup {""}
    BY <1>1, TextAt
  <2>3. n \in Nat \ {0}
    BY <2>1
  <2> QED
    BY <1>1, <2>1, <2>2, <2>3, TextAt, ValueTypes
<1>3. ovm \in [Keys -> Seq(OptionValues)]
  BY ContextTypesOpened
<1> SUFFICES ASSUME NEW k \in Keys
             PROVE  ovm'[k] = (stored[k] \o ValuesBy(c, k, Len(args)))
                                \o Listed(TakenBy(c, k, a2, b2), ValueStored(c))
  BY StoredLater
<1> DEFINE old == TakenBy(c, k, a, b)
<1>4. ovm[k] = (stored[k] \o ValuesBy(c, k, Len(args)))
                 \o Listed(TakenBy(c, k, a, b), ValueStored(c))
  BY DEF StoredSoFar, TakenBy
<1>5. CASE n \notin TakenFor(c, k)
  <2>1. TakenBy(c, k, a2, b2) = TakenBy(c, k, a, b)
    BY <1>5
  <2>2. ovm'[k] = ovm[k]
    <3>1. CASE text \in declared[p].accepts
      <4>1. k # key
        BY <1>1, <1>5, <3>1
      <4>2. StoreValue(key, PositionalValue(text))
        BY <1>1, <3>1 DEF StorePositional
      <4> QED
        BY <1>1, <1>3, <4>1, <4>2, StoredIs
    <3>2. CASE text \notin declared[p].accepts
      BY <1>1, <3>2 DEF StorePositional
    <3> QED
      BY <3>1, <3>2
  <2> QED
    BY <1>4, <2>1, <2>2
<1>6. CASE n \in TakenFor(c, k)
  <2>1. k = key /\ text \in declared[p].accepts
    BY <1>1, <1>6
  <2>2. StoreValue(key, PositionalValue(text))
    BY <1>1, <2>1 DEF StorePositional
  <2>3. ovm'[k] = Append(ovm[k], PositionalValue(text))
    BY <1>1, <1>3, <2>1, <2>2, StoredIs
  <2>4. TakenBy(c, k, a2, b2) = old \cup {n}
    BY <1>6
  <2>5. PICK m \in Nat : n = m + 1 /\ m = n - 1
    BY <1>2
  <2>6. old \in SUBSET (1..m) /\ old \cup {m + 1} \subseteq 1..Total(c)
    <3>1. old \in SUBSET (1..Total(c))
      BY TakenPositions DEF TakenBy
    <3>2. \A i \in old : i < n
      BY <1>1, <2>1
    <3>3. \A i \in old : i \in 1..m
      BY <1>2, <2>5, <3>1, <3>2
    <3> QED
      BY <2>5, <3>1, <3>3
  <2>7. Listed(old \cup {m + 1}, ValueStored(c))
          = Append(Listed(old, ValueStored(c)), ValueStored(c)[m + 1])
    <3> HIDE DEF old
    <3>1. PICK S : S = old
      OBVIOUS
    <3>2. S \in SUBSET (1..m) /\ S \cup {m + 1} \subseteq 1..Total(c)
      BY <2>6, <3>1
    <3>3. ValueStored(c) \in [1..Total(c) -> OptionValues] /\ m \in Nat
      BY <1>2
    <3>4. Listed(S \cup {m + 1}, ValueStored(c))
            = Append(Listed(S, ValueStored(c)), ValueStored(c)[m + 1])
      BY <3>2, <3>3, ListedOneMore
    <3> QED
      BY <3>1, <3>4
  <2>8. Listed(TakenBy(c, k, a2, b2), ValueStored(c))
          = Added(Listed(old, ValueStored(c)), PositionalValue(text))
    BY <1>2, <2>4, <2>5, <2>7 DEF Added
  <2>9. PICK front : front = stored[k] \o ValuesBy(c, k, Len(args))
    OBVIOUS
  <2>10. front \in Seq(OptionValues)
    <3>1. PICK s, t : s = stored[k] /\ t = ValuesBy(c, k, Len(args))
      OBVIOUS
    <3>2. s \in Seq(OptionValues) /\ t \in Seq(OptionValues)
      BY <1>2, <3>1, ByTypes
    <3> QED
      BY <2>9, <3>1, <3>2
  <2>11. Listed(old, ValueStored(c)) \in Seq(OptionValues)
    <3> HIDE DEF old
    <3>1. old \in SUBSET (1..m) /\ old \subseteq 1..Total(c)
      BY <2>6
    <3> QED
      BY <1>2, <3>1, ListedTypes
  <2>12. Added(Joined(front, Listed(old, ValueStored(c))), PositionalValue(text))
          = Joined(front, Added(Listed(old, ValueStored(c)), PositionalValue(text)))
    BY <1>2, <2>10, <2>11, AddedBehind
  <2>13. ovm'[k] = Added(Joined(front, Listed(old, ValueStored(c))),
                         PositionalValue(text))
    BY <1>4, <2>3, <2>9 DEF Added, Joined
  <2>14. ovm'[k] = Joined(front, Listed(TakenBy(c, k, a2, b2), ValueStored(c)))
    BY <2>8, <2>12, <2>13
  <2> QED
    BY <2>9, <2>14 DEF Joined
<1> QED
  BY <1>5, <1>6

\* What is left of a sequence when a elements are taken from its front and b
\* from its back.
Counts(s, T) == T = Len(s)
Remains(s, m, a, b, T) == m = SubSeq(s, a + 1, T - b)
Left(s, m, a, b, T) ==
  /\ m = <<>> <=> a + b = T
  /\ m # <<>> =>
       /\ a + 1 \in 1..T /\ T - b \in 1..T
       /\ m[1] = s[a + 1] /\ Head(m) = s[a + 1]
       /\ m[Len(m)] = s[T - b]
       /\ Tail(m) = SubSeq(s, a + 2, T - b)
       /\ SubSeq(m, 1, Len(m) - 1) = SubSeq(s, a + 1, T - b - 1)

\* What remains of a list when some is taken from either end: its length and
\* its elements.
LEMMA MiddleOf ==
  ASSUME NEW S, NEW s \in Seq(S), NEW T, Counts(s, T), NEW a \in Nat, NEW b \in Nat,
         a + b <= T, NEW m, Remains(s, m, a, b, T)
  PROVE  Left(s, m, a, b, T)
<1>0. T = Len(s) /\ m = SubSeq(s, a + 1, T - b)
  BY DEF Counts, Remains
<1>1. T \in Nat
  BY <1>0
<1>2. m \in Seq(S) /\ Len(m) = T - a - b
        /\ \A i \in 1..T - a - b : m[i] = s[a + i]
  <2>1. SubSeq(s, a + 1, T - b) \in Seq(S)
          /\ Len(SubSeq(s, a + 1, T - b)) = T - a - b
    BY <1>0, <1>1
  <2>2. ASSUME NEW i \in 1..T - a - b PROVE SubSeq(s, a + 1, T - b)[i] = s[a + i]
    BY <1>0, <1>1
  <2> QED
    BY <1>0, <2>1, <2>2
<1>3. m = <<>> <=> a + b = T
  <2>1. m = <<>> <=> Len(m) = 0
    <3>1. m \in Seq(S)
      BY <1>2
    <3>2. \A t \in Seq(S) : t = <<>> <=> Len(t) = 0
      OBVIOUS
    <3> QED
      BY <3>1, <3>2, Zenon
  <2> QED
    BY <1>1, <1>2, <2>1
<1> SUFFICES ASSUME m # <<>>
             PROVE  /\ a + 1 \in 1..T /\ T - b \in 1..T
                    /\ m[1] = s[a + 1] /\ Head(m) = s[a + 1]
                    /\ m[Len(m)] = s[T - b]
                    /\ Tail(m) = SubSeq(s, a + 2, T - b)
                    /\ SubSeq(m, 1, Len(m) - 1) = SubSeq(s, a + 1, T - b - 1)
  BY <1>2, <1>3 DEF Left
<1>4. a + b < T /\ T - a - b \in Nat \ {0}
  BY <1>1, <1>3
<1>5. a + 1 \in 1..T /\ T - b \in 1..T
  BY <1>1, <1>4
<1>6. m[1] = s[a + 1] /\ Head(m) = s[a + 1]
  <2>1. m[1] = s[a + 1]
    BY <1>2, <1>4
  <2>2. Head(m) = m[1]
    BY <1>2
  <2> QED
    BY <2>1, <2>2
<1>7. m[Len(m)] = s[T - b]
  <2>1. m[T - a - b] = s[a + (T - a - b)]
    BY <1>2, <1>4
  <2>2. a + (T - a - b) = T - b
    BY <1>1
  <2> QED
    BY <1>2, <2>1, <2>2
<1>8. Tail(m) = SubSeq(s, a + 2, T - b)
  BY <1>0, <1>1, <1>2, <1>4
<1>9. SubSeq(m, 1, Len(m) - 1) = SubSeq(s, a + 1, T - b - 1)
  BY <1>0, <1>1, <1>2, <1>4
<1> QED
  BY <1>5, <1>6, <1>7, <1>8, <1>9

\* Where FinalState stands, with a tokens taken from the front and b from the
\* back, and what its steps leave alone.
InFinal(c, a, b, stored) ==
  /\ IInv /\ Reading /\ status = "running" /\ machine = "FinalState"
  /\ c = active_command /\ Resolved(c) /\ PositionalsDeclared
  /\ stored \in [Keys -> Seq(OptionValues)]
  /\ a \in 0..Len(args) /\ b \in 0..Len(args) /\ TakenSoFar(c, a, b)
  /\ ~options_checked /\ ~Promised!TooFewTokens(c) => StoredSoFar(c, a, b, stored)
  /\ Follows(stored)
  /\ UNCHANGED <<commands, args, active_command, after_equal_sign>>

\* It stands there for some a and b.
LEMMA FinalReached ==
  ASSUME IInv, Reading, Resolved(active_command), PositionalsDeclared,
         NEW stored \in [Keys -> Seq(OptionValues)], Follows(stored),
         status = "running", machine = "FinalState",
         UNCHANGED <<commands, args, active_command, after_equal_sign>>
  PROVE  \E a, b : InFinal(active_command, a, b, stored)
<1>1. EndReached(active_command, stored)
  BY DEF Follows
<1>2. PICK a, b \in 0..Len(args) :
        /\ TakenSoFar(active_command, a, b)
        /\ ~options_checked /\ ~Promised!TooFewTokens(active_command)
             => StoredSoFar(active_command, a, b, stored)
  BY <1>1, Zenon DEF EndReached
<1> QED
  BY <1>2 DEF InFinal

\* What is known there of the line and of the promise.
LEMMA InFinalOpened ==
  ASSUME NEW c, NEW a, NEW b, NEW stored, InFinal(c, a, b, stored)
  PROVE  /\ c \in DOMAIN commands /\ c \in Promised!Candidates
         /\ c = active_command'
         /\ token.type = "EndOfInput" /\ after_equal_sign' = FALSE
         /\ options_checked \in BOOLEAN
         /\ NamesRight(c, Len(args), stored)
         /\ ~Promised!WrongOption(c, stored)
         /\ options_checked => OptionsFilled(c, stored)
         /\ a \in Nat /\ b \in Nat
<1>1. /\ IInv /\ Reading /\ c = active_command /\ Resolved(c)
      /\ machine = "FinalState" /\ status = "running"
      /\ a \in 0..Len(args) /\ b \in 0..Len(args)
  BY DEF InFinal
<1>2. machine # "ParseLongOptionState"
  BY <1>1
<1>3. EndReached(c, stored) /\ after_equal_sign' = FALSE
        /\ options_checked \in BOOLEAN
  <2>1. after_equal_sign \in BOOLEAN /\ options_checked \in BOOLEAN
    BY <1>1, ContextTypesOpened DEF OptionTypeOK, FinalTypeOK
  <2> QED
    BY <1>1, <1>2, <2>1 DEF InFinal, Follows
<1>4. /\ token.type = "EndOfInput" /\ NamesRight(c, Len(args), stored)
      /\ options_checked => OptionsFilled(c, stored)
  BY <1>3 DEF EndReached
<1>5. ~Promised!WrongOption(c, stored)
  <2> SUFFICES ASSUME NEW i \in Promised!NamesAfterPath(c)
               PROVE  RightName(c, i, stored)
    BY DEF Promised!WrongOption, RightName
  <2>1. i \in DOMAIN args /\ DOMAIN args = 1..Len(args) /\ Len(args) \in Nat
    BY <1>1, LineTypes, NamesAndValues
  <2>2. i <= Len(args)
    <3>1. PICK n : n = Len(args)
      OBVIOUS
    <3>2. i \in 1..n /\ n \in Nat
      BY <2>1, <3>1
    <3>3. i <= n
      BY <3>2
    <3> QED
      BY <3>1, <3>3
  <2> QED
    BY <1>4, <2>2 DEF NamesRight
<1>6. c \in DOMAIN commands /\ c \in Promised!Candidates
  BY <1>1, StartOfCommand, CandidatePromised
<1>7. a \in Nat /\ b \in Nat
  <2>1. PICK n : n = Len(args)
    OBVIOUS
  <2>2. n \in Nat /\ a \in 0..n /\ b \in 0..n
    BY <1>1, <2>1, LineTypes
  <2> QED
    BY <2>2
<1> QED
  BY <1>3, <1>4, <1>5, <1>6, <1>7 DEF InFinal

\* How the iterator and the argument that takes the rest stand to the tokens
\* taken so far.
LEMMA FinalPlace ==
  ASSUME NEW c, NEW a, NEW b, NEW stored, InFinal(c, a, b, stored),
         NEW declared, declared = commands[c].positionals,
         NEW D, D = Len(declared), NEW T, T = Total(c)
  PROVE  /\ D \in Nat /\ T \in Nat /\ T <= Len(args)
         /\ a + b <= T /\ next_positional \in Nat \ {0}
         /\ next_positional <= D + 1
         /\ InPositionals <=> next_positional <= D
         /\ Positionals = declared
         /\ rest_option = 0 =>
              /\ b = 0 /\ a + 1 = next_positional
              /\ \A p \in 1..D : p < next_positional =>
                   p \notin Promised!TakesRest(c)
         /\ rest_option # 0 =>
              /\ rest_option \in Promised!TakesRest(c)
              /\ rest_option \in 1..D
              /\ rest_option + b + 1 = next_positional
              /\ rest_option <= a + 1
              /\ next_positional <= D => rest_option = a + 1
<1>1. /\ IInv /\ Reading /\ PositionalsDeclared /\ c = active_command
      /\ TakenSoFar(c, a, b)
      /\ c \in DOMAIN commands /\ a \in Nat /\ b \in Nat
  BY InFinalOpened DEF InFinal
<1>2. /\ D \in Nat /\ DOMAIN declared = 1..D
      /\ Promised!TakesRest(c) = {p \in 1..D : IsPositionalRest(declared[p])}
  BY <1>1, Declarations
<1>3. T \in Nat /\ T <= Len(args)
  BY <1>1, LineTypes, AllTexts
<1>4. next_positional \in Nat \ {0}
  BY <1>1, ContextTypesOpened DEF FinalTypeOK
<1>5. Positionals = declared
  BY <1>1 DEF Positionals
<1>6. TakenPlace(c, a, b, next_positional, rest_option)
  BY <1>1 DEF TakenSoFar
<1> QED
  BY <1>2, <1>3, <1>4, <1>5, <1>6 DEF TakenPlace, InPositionals

\* The tokens that are left.
LEMMA TokensLeft ==
  ASSUME NEW c, NEW a, NEW b, NEW stored, InFinal(c, a, b, stored),
         NEW texts, texts = TextsBy(c, Len(args)), NEW T, T = Total(c)
  PROVE  Left(texts, positional_tokens, a, b, T)
<1>1. /\ IInv /\ Reading /\ a \in Nat /\ b \in Nat /\ a + b <= T
      /\ positional_tokens = SubSeq(texts, a + 1, T - b)
  BY InFinalOpened, FinalPlace DEF InFinal, TakenSoFar
<1>2. T = Len(texts)
  BY <1>1, AllTexts
<1>3. PICK S : texts \in Seq(S)
  <2>1. Len(args) \in Nat
    BY <1>1, LineTypes
  <2> QED
    BY <1>1, <2>1, ByTypes
<1>4. PICK m : m = positional_tokens
  OBVIOUS
<1>5. Left(texts, m, a, b, T)
  <2>1. Counts(texts, T)
    BY <1>2, Zenon DEF Counts
  <2>2. Remains(texts, m, a, b, T)
    BY <1>1, <1>4, Zenon DEF Remains
  <2> QED
    BY <1>1, <1>3, <2>1, <2>2, MiddleOf, Zenon
<1> QED
  BY <1>4, <1>5, Zenon

\* How the invariant is met again, with the tokens of a2 and b2 taken.
LEMMA StillFinal ==
  ASSUME NEW c, NEW a, NEW b, NEW stored, InFinal(c, a, b, stored),
         NEW a2 \in Nat, NEW b2 \in Nat, NEW T, T = Total(c), a2 + b2 <= T,
         UNCHANGED <<machine, status, token, options_checked>>,
         positional_tokens' = SubSeq(TextsBy(c, Len(args)), a2 + 1, T - b2),
         TakenPlace(c, a2, b2, next_positional', rest_option'),
         ~options_checked,
         ~Promised!TooFewTokens(c) => StoredSoFar(c, a2, b2, stored)'
  PROVE  Follows(stored)'
<1>1. /\ UNCHANGED <<commands, args>> /\ status = "running"
      /\ machine = "FinalState" /\ IInv /\ Reading
  BY DEF InFinal
<1>2. /\ c = active_command' /\ token.type = "EndOfInput"
      /\ after_equal_sign' = FALSE /\ options_checked \in BOOLEAN
      /\ NamesRight(c, Len(args), stored)
  BY InFinalOpened
<1>3. TakenSoFar(c, a2, b2)'
  BY <1>1, TakenLater
<1>4. a2 \in 0..Len(args) /\ b2 \in 0..Len(args)
  <2>1. PICK n : n = Len(args)
    OBVIOUS
  <2>2. n \in Nat /\ T \in Nat /\ T <= n
    BY <1>1, <2>1, LineTypes, AllTexts
  <2>3. a2 \in 0..n /\ b2 \in 0..n
    BY <2>2
  <2> QED
    BY <2>1, <2>3
<1> QED
  BY <1>1, <1>2, <1>3, <1>4, AtEnd

\* While there are positional arguments to go through, or tokens left, the
\* options are not checked yet.
LEMMA NotChecked ==
  ASSUME NEW c, NEW a, NEW b, NEW stored, InFinal(c, a, b, stored),
         InPositionals \/ positional_tokens # <<>>
  PROVE  options_checked = FALSE
BY InFinalOpened DEF OptionsFilled

\* The argument that takes the rest is come to.
LEMMA RestFollows ==
  ASSUME NEW c, NEW a, NEW b, NEW stored, InFinal(c, a, b, stored),
         Final_RestDeclared
  PROVE  Follows(stored)'
<1>1. PICK declared, D, T : /\ declared = commands[c].positionals
                            /\ D = Len(declared) /\ T = Total(c)
  OBVIOUS
<1>2. PICK p : p = next_positional
  OBVIOUS
<1>3. /\ InPositionals /\ IsPositionalRest(Positionals[p])
      /\ rest_option' = p /\ next_positional' = p + 1
      /\ UNCHANGED <<machine, status, token, options_checked, ovm>>
      /\ UNCHANGED <<positional_tokens>>
  BY <1>2 DEF Final_RestDeclared, loopVars, contextVars
<1>4. /\ IInv /\ Reading /\ PositionalsDeclared /\ UNCHANGED <<commands, args>>
      /\ c \in DOMAIN commands /\ a \in Nat /\ b \in Nat
  BY InFinalOpened DEF InFinal
<1>5. /\ D \in Nat /\ T \in Nat /\ a + b <= T /\ p \in Nat \ {0} /\ p <= D
      /\ Positionals = declared
      /\ rest_option = 0 => b = 0 /\ a + 1 = p
      /\ rest_option # 0 =>
           /\ rest_option \in Promised!TakesRest(c)
           /\ rest_option \in 1..D
           /\ rest_option + b + 1 = p
  BY <1>1, <1>2, <1>3, FinalPlace
<1>6. /\ DOMAIN declared = 1..D
      /\ Promised!TakesRest(c) = {q \in 1..D : IsPositionalRest(declared[q])}
      /\ \A r \in Promised!TakesRest(c) : Promised!TakesRest(c) = {r}
  BY <1>1, <1>4, Declarations
<1>7. p \in Promised!TakesRest(c) /\ p \in 1..D
  BY <1>3, <1>5, <1>6
<1>8. rest_option = 0
  <2> SUFFICES ASSUME rest_option # 0 PROVE FALSE
    OBVIOUS
  <2>1. rest_option = p
    BY <1>5, <1>6, <1>7
  <2> QED
    BY <1>4, <1>5, <2>1
<1>9. b = 0 /\ a + 1 = p
  BY <1>5, <1>8
<1>10. TakenPlace(c, a, b, p + 1, p)
  <2>1. /\ a + b <= T /\ p + 1 <= D + 1 /\ p # 0
        /\ p + b + 1 = p + 1 /\ p <= a + 1
        /\ p \in DOMAIN declared /\ IsPositionalRest(declared[p])
    BY <1>3, <1>4, <1>5, <1>6, <1>7, <1>9
  <2> QED
    BY <1>1, <1>9, <2>1 DEF TakenPlace
<1>11. positional_tokens' = SubSeq(TextsBy(c, Len(args)), a + 1, T - b)
  BY <1>1, <1>3 DEF InFinal, TakenSoFar
<1>12. ~options_checked
  BY <1>3, NotChecked
<1>13. ~Promised!TooFewTokens(c) => StoredSoFar(c, a, b, stored)'
  <2> SUFFICES ASSUME StoredSoFar(c, a, b, stored)
               PROVE  StoredSoFar(c, a, b, stored)'
    BY <1>12 DEF InFinal
  <2> QED
    <3>1. \A k \in Keys :
            ovm[k] = (stored[k] \o ValuesBy(c, k, Len(args)))
                       \o Listed(TakenBy(c, k, a, b), ValueStored(c))
      BY Zenon DEF StoredSoFar, TakenBy
    <3>2. \A k \in Keys :
            ovm'[k] = (stored[k] \o ValuesBy(c, k, Len(args)))
                        \o Listed(TakenBy(c, k, a, b), ValueStored(c))
      BY <1>3, <3>1
    <3> QED
      BY <1>4, <3>2, StoredLater
<1> QED
  BY <1>1, <1>3, <1>4, <1>5, <1>10, <1>11, <1>12, <1>13, StillFinal

\* An argument that no token is left for: there were too few.
LEMMA NothingLeftIsTooFew ==
  ASSUME NEW c, NEW a, NEW b, NEW stored, InFinal(c, a, b, stored),
         InPositionals, ~IsPositionalRest(Positionals[next_positional]),
         positional_tokens = <<>>
  PROVE  Promised!TooFewTokens(c)
<1>1. PICK declared, D, T, p : /\ declared = commands[c].positionals
                               /\ D = Len(declared) /\ T = Total(c)
                               /\ p = next_positional
  OBVIOUS
<1>2. /\ IInv /\ Reading /\ PositionalsDeclared /\ c \in DOMAIN commands
      /\ a \in Nat /\ b \in Nat
  BY InFinalOpened DEF InFinal
<1>3. a + b = T
  <2>1. PICK texts : texts = TextsBy(c, Len(args))
    OBVIOUS
  <2>2. Left(texts, positional_tokens, a, b, T)
    BY <1>1, <2>1, TokensLeft
  <2> QED
    BY <2>2 DEF Left
<1>4. /\ D \in Nat /\ T \in Nat /\ p \in Nat \ {0} /\ p <= D
      /\ Positionals = declared
      /\ rest_option = 0 =>
           /\ b = 0 /\ a + 1 = p
           /\ \A q \in 1..D : q < p => q \notin Promised!TakesRest(c)
      /\ rest_option # 0 =>
           /\ rest_option \in Promised!TakesRest(c) /\ rest_option \in 1..D
           /\ rest_option + b + 1 = p /\ rest_option = a + 1
  BY <1>1, FinalPlace
<1>5. /\ Promised!TakesRest(c) = {q \in 1..D : IsPositionalRest(declared[q])}
      /\ \A r \in Promised!TakesRest(c) :
           r \in 1..D /\ (r = D \/ r + 1 = D)
  BY <1>1, <1>2, Declarations
<1>6. /\ Promised!TakesRest(c) = {} => (Promised!TooFewTokens(c) <=> T < D)
      /\ Promised!TakesRest(c) # {} => (Promised!TooFewTokens(c) <=> T < D - 1)
  BY <1>1, <1>2, Demand
<1>7. p \notin Promised!TakesRest(c)
  BY <1>1, <1>4, <1>5
<1>8. CASE Promised!TakesRest(c) = {}
  <2>1. rest_option = 0
    BY <1>4, <1>8
  <2>2. T < D
    BY <1>2, <1>3, <1>4, <2>1
  <2> QED
    BY <1>6, <1>8, <2>2
<1>9. CASE Promised!TakesRest(c) # {}
  <2>1. PICK r : r \in Promised!TakesRest(c)
    BY <1>9
  <2>2. r \in 1..D /\ (r = D \/ r + 1 = D) /\ r # p
    BY <1>5, <1>7, <2>1
  <2>3. CASE rest_option = 0
    <3>1. r > p
      BY <1>4, <2>1, <2>2, <2>3
    <3>2. T < D - 1
      BY <1>2, <1>3, <1>4, <2>2, <2>3, <3>1
    <3> QED
      BY <1>6, <1>9, <3>2
  <2>4. CASE rest_option # 0
    <3>1. PICK s : s = rest_option
      OBVIOUS
    <3>2. /\ s \in 1..D /\ (s = D \/ s + 1 = D)
          /\ s + b + 1 = p /\ s = a + 1
      BY <1>4, <1>5, <2>4, <3>1
    <3>3. T < D - 1
      BY <1>2, <1>3, <1>4, <3>2
    <3> QED
      BY <1>6, <1>9, <3>3
  <2> QED
    BY <2>3, <2>4
<1> QED
  BY <1>8, <1>9

\* The promise says so too.
LEMMA UndefinedFollows ==
  ASSUME NEW c, NEW a, NEW b, NEW stored, InFinal(c, a, b, stored),
         InPositionals, ~IsPositionalRest(Positionals[next_positional]),
         positional_tokens = <<>>, status' = "undefined"
  PROVE  Follows(stored)'
<1>1. Promised!TooFewTokens(c)
  BY NothingLeftIsTooFew
<1>2. /\ c \in Promised!Candidates /\ ~Promised!WrongOption(c, stored)
      /\ after_equal_sign' = FALSE /\ UNCHANGED <<commands, args>>
  BY InFinalOpened DEF InFinal
<1>3. StoredOutcome(c, stored) = Promised!Undefined
  BY <1>1, <1>2 DEF StoredOutcome
<1>4. OutcomeNow' = Promised!Undefined
  BY DEF OutcomeNow, Promised!Undefined, Promised!Outcome, Promised!NoValues
<1>5. StoredOutcomes(stored)' = StoredOutcomes(stored)
  BY <1>2, SameOutcomes
<1>6. Promised!Undefined \in StoredOutcomes(stored)
  BY <1>2, <1>3 DEF StoredOutcomes
<1> QED
  BY <1>2, <1>4, <1>5, <1>6, AfterReturn

\* One more token taken from the front, or from the back: the n-th of T.
OneMore(T, n, a, b, a2, b2) ==
  \/ n = a + 1 /\ a2 = a + 1 /\ b2 = b
  \/ n = T - b /\ a2 = a /\ b2 = b + 1

WithOneMore(c, k, n, a, b, a2, b2) ==
  TakenBy(c, k, a2, b2) = TakenBy(c, k, a, b) \cup ({n} \cap TakenFor(c, k))

\* One more token behind the front or before the back is the only one that may
\* join those taken.
LEMMA TakenOneMore ==
  ASSUME IInv, Reading, NEW c, NEW k, NEW T, T = Total(c),
         NEW a \in Nat, NEW b \in Nat, a + b < T, NEW n, NEW a2, NEW b2,
         OneMore(T, n, a, b, a2, b2)
  PROVE  WithOneMore(c, k, n, a, b, a2, b2)
<1>1. PICK S : S = TakenFor(c, k)
  OBVIOUS
<1>2. S \in SUBSET (1..T) /\ T \in Nat
  BY <1>1, TakenPositions, AllTexts
<1>3. \A x, y : TakenBy(c, k, x, y) = {m \in S : m <= x \/ m > T - y}
  BY <1>1 DEF TakenBy
<1>0. \A m \in S : m \in Nat /\ m <= T
  BY <1>2
<1>6. \A m \in S : /\ m <= a + 1 <=> m <= a \/ m = a + 1
                   /\ m > T - (b + 1) <=> m > T - b \/ m = T - b
  <2> SUFFICES ASSUME NEW m \in S
               PROVE  /\ m <= a + 1 <=> m <= a \/ m = a + 1
                      /\ m > T - (b + 1) <=> m > T - b \/ m = T - b
    OBVIOUS
  <2>1. m \in Nat
    BY <1>0
  <2> QED
    BY <1>2, <2>1
<1>4. {m \in S : m <= a + 1 \/ m > T - b}
        = {m \in S : m <= a \/ m > T - b} \cup ({a + 1} \cap S)
  BY <1>6
<1>5. {m \in S : m <= a \/ m > T - (b + 1)}
        = {m \in S : m <= a \/ m > T - b} \cup ({T - b} \cap S)
  BY <1>6
<1>7. CASE n = a + 1 /\ a2 = a + 1 /\ b2 = b
  BY <1>1, <1>3, <1>4, <1>7, Zenon DEF WithOneMore
<1>8. CASE n = T - b /\ a2 = a /\ b2 = b + 1
  BY <1>1, <1>3, <1>5, <1>8, Zenon DEF WithOneMore
<1> QED
  BY <1>7, <1>8 DEF OneMore, WithOneMore

\* A token offered to the argument it is meant for, and taken from the front
\* or from the back.
LEMMA OfferFollows ==
  ASSUME NEW c, NEW a, NEW b, NEW stored, InFinal(c, a, b, stored),
         UNCHANGED <<machine, status, token, options_checked>>,
         options_checked = FALSE,
         NEW declared, declared = commands[c].positionals,
         NEW p \in Promised!Declared(c), NEW T, T = Total(c), NEW n \in 1..T,
         StorePositional(declared[p], TextsBy(c, Len(args))[n]),
         NEW a2 \in Nat, NEW b2 \in Nat, a + b < T,
         OneMore(T, n, a, b, a2, b2),
         positional_tokens' = SubSeq(TextsBy(c, Len(args)), a2 + 1, T - b2),
         TakenPlace(c, a2, b2, next_positional', rest_option'),
         ~Promised!TooFewTokens(c) =>
           /\ \A q \in Promised!Declared(c) :
                n \in Promised!Share(c, q, T) <=> q = p
           /\ \A m \in TakenBy(c, declared[p].key, a, b) : m < n
  PROVE  Follows(stored)'
<1>1. /\ IInv /\ Reading /\ PositionalsDeclared /\ c \in DOMAIN commands
      /\ a \in Nat /\ b \in Nat /\ UNCHANGED <<commands, args>>
      /\ stored \in [Keys -> Seq(OptionValues)]
      /\ ~options_checked /\ ~Promised!TooFewTokens(c)
           => StoredSoFar(c, a, b, stored)
  BY InFinalOpened DEF InFinal
<1>2. T \in Nat /\ a2 + b2 <= T
  BY <1>1, AllTexts DEF OneMore
<1>3. p \in DOMAIN declared /\ declared[p].key \in Keys
  <2>1. PICK D : D = Len(declared)
    OBVIOUS
  <2> QED
    <3>1. Promised!Declared(c) = DOMAIN declared
      BY DEF Promised!Declared
    <3> QED
      BY <1>1, <2>1, <3>1, Declarations
<1>4. ASSUME ~Promised!TooFewTokens(c) PROVE StoredSoFar(c, a2, b2, stored)'
  <2>1. \A k : n \in TakenFor(c, k) <=>
          /\ declared[p].key = k
          /\ TextsBy(c, Len(args))[n] \in declared[p].accepts
    <3>1. /\ IInv /\ Reading /\ n \in 1..Total(c)
          /\ \A q \in Promised!Declared(c) :
               n \in Promised!Share(c, q, Total(c)) <=> q = p
      BY <1>1, <1>4, Zenon
    <3> QED
      BY <3>1, TakenForIs, SMTT(60)
  <2>2. \A k : TakenBy(c, k, a2, b2)
                 = TakenBy(c, k, a, b) \cup ({n} \cap TakenFor(c, k))
    <3> SUFFICES ASSUME NEW k PROVE WithOneMore(c, k, n, a, b, a2, b2)
      BY DEF WithOneMore
    <3> QED
      BY <1>1, TakenOneMore
  <2> QED
    BY <1>1, <1>3, <1>4, <2>1, <2>2, OfferedToken
<1> QED
  BY <1>2, <1>4, StillFinal

\* Before the argument that takes the rest has been come to, the next argument
\* takes the first token that is left.
LEMMA FrontIsTaken ==
  ASSUME NEW c, NEW a, NEW b, NEW stored, InFinal(c, a, b, stored),
         UNCHANGED <<machine, status, token, options_checked>>,
         InPositionals, ~IsPositionalRest(Positionals[next_positional]),
         positional_tokens # <<>>, rest_option = 0,
         StorePositional(Positionals[next_positional], positional_tokens[1]),
         positional_tokens' = Tail(positional_tokens),
         next_positional' = next_positional + 1, rest_option' = rest_option
  PROVE  Follows(stored)'
<1>1. PICK declared, D, T, p, texts :
        /\ declared = commands[c].positionals
        /\ D = Len(declared) /\ T = Total(c)
        /\ p = next_positional /\ texts = TextsBy(c, Len(args))
  OBVIOUS
<1>2. /\ IInv /\ Reading /\ PositionalsDeclared /\ c \in DOMAIN commands
      /\ a \in Nat /\ b \in Nat
  BY InFinalOpened DEF InFinal
<1>3. /\ a + b # T /\ a + 1 \in 1..T
      /\ positional_tokens[1] = texts[a + 1]
      /\ Tail(positional_tokens) = SubSeq(texts, a + 2, T - b)
  <2>1. Left(texts, positional_tokens, a, b, T)
    BY <1>1, TokensLeft
  <2> QED
    BY <2>1 DEF Left
<1>4. /\ D \in Nat /\ T \in Nat /\ a + b <= T /\ p \in Nat \ {0} /\ p <= D
      /\ Positionals = declared /\ b = 0 /\ a + 1 = p
      /\ \A q \in 1..D : q < p => q \notin Promised!TakesRest(c)
  BY <1>1, FinalPlace
<1>5. /\ Promised!TakesRest(c) = {q \in 1..D : IsPositionalRest(declared[q])}
      /\ DOMAIN declared = 1..D /\ Promised!Declared(c) = 1..D
      /\ \A r \in Promised!TakesRest(c) :
           r \in 1..D /\ (r = D \/ r + 1 = D)
  BY <1>1, <1>2, Declarations
<1>6. p \in 1..D /\ p \notin Promised!TakesRest(c) /\ a + b < T
  BY <1>1, <1>2, <1>3, <1>4, <1>5
<1>7. TakenPlace(c, a + 1, b, p + 1, 0)
  <2>1. \A q \in 1..D : q < p + 1 => q < p \/ q = p
    BY <1>4
  <2>2. \A q \in DOMAIN declared : q < p + 1 => ~IsPositionalRest(declared[q])
    BY <1>4, <1>5, <1>6, <2>1
  <2>3. (a + 1) + b <= T /\ p + 1 <= D + 1 /\ (a + 1) + 1 = p + 1
    BY <1>2, <1>4, <1>6
  <2> QED
    BY <1>1, <1>4, <2>2, <2>3 DEF TakenPlace
<1>8. ASSUME ~Promised!TooFewTokens(c)
      PROVE  \A q \in Promised!Declared(c) :
               a + 1 \in Promised!Share(c, q, T) <=> q = p
  <2>0. SharesAre(c, D, T)
    BY <1>1, <1>2, <1>4, Shares
  <2>1. /\ Promised!TakesRest(c) = {} =>
             \A q \in 1..D : Promised!Share(c, q, T) = {q}
        /\ \A r \in Promised!TakesRest(c) : \A q \in 1..D :
             /\ q < r => Promised!Share(c, q, T) = {q}
             /\ q = r => Promised!Share(c, q, T) = r..(T - (D - r))
             /\ q > r => q = D /\ Promised!Share(c, q, T) = {T}
    BY <2>0, Zenon DEF SharesAre
  <2>2. CASE Promised!TakesRest(c) = {}
    BY <1>4, <1>5, <2>1, <2>2
  <2>3. CASE Promised!TakesRest(c) # {}
    <3>1. PICK r : r \in Promised!TakesRest(c)
      BY <2>3
    <3>2. r \in 1..D /\ (r = D \/ r + 1 = D) /\ r > p
      <4>1. r \in 1..D /\ (r = D \/ r + 1 = D) /\ r # p
        BY <1>5, <1>6, <3>1
      <4> QED
        BY <1>4, <3>1, <4>1
    <3>3. T >= D - 1
      BY <1>1, <1>2, <1>4, <1>8, <2>3, Demand
    <3>4. ASSUME NEW q \in 1..D
          PROVE  a + 1 \in Promised!Share(c, q, T) <=> q = p
      <4>1. CASE q < r
        <5>1. Promised!Share(c, q, T) = {q}
          BY <2>1, <3>1, <4>1
        <5> QED
          BY <1>4, <5>1
      <4>2. CASE q = r
        <5>1. Promised!Share(c, q, T) = r..(T - (D - r))
          BY <2>1, <3>1, <4>2
        <5>2. p \notin r..(T - (D - r)) /\ q # p
          BY <1>4, <3>2, <4>2
        <5> QED
          BY <1>4, <5>1, <5>2
      <4>3. CASE q > r
        <5>1. q = D /\ Promised!Share(c, q, T) = {T}
          BY <2>1, <3>1, <4>3
        <5>2. p # T /\ q # p
          BY <1>4, <3>2, <3>3, <4>3, <5>1
        <5> QED
          BY <1>4, <5>1, <5>2
      <4> QED
        BY <3>2, <4>1, <4>2, <4>3
    <3> QED
      BY <1>5, <3>4
  <2> QED
    BY <2>2, <2>3
<1>9. \A m \in TakenBy(c, declared[p].key, a, b) : m < a + 1
  <2> SUFFICES ASSUME NEW m \in TakenBy(c, declared[p].key, a, b)
               PROVE  m < a + 1
    OBVIOUS
  <2>1. m \in TakenFor(c, declared[p].key) /\ (m <= a \/ m > T - b)
    BY <1>1 DEF TakenBy
  <2>2. m \in 1..T
    BY <1>1, <1>2, <2>1, TakenPositions
  <2> QED
    BY <1>2, <1>4, <2>1, <2>2
<1>10. StorePositional(declared[p], TextsBy(c, Len(args))[a + 1])
  BY <1>1, <1>3, <1>4
<1>11. positional_tokens' = SubSeq(TextsBy(c, Len(args)), (a + 1) + 1, T - b)
  <2>1. (a + 1) + 1 = a + 2
    BY <1>2
  <2> QED
    BY <1>1, <1>3, <2>1
<1>12. TakenPlace(c, a + 1, b, next_positional', rest_option')
  BY <1>1, <1>7
<1>13. OneMore(T, a + 1, a, b, a + 1, b) /\ a + 1 \in Nat
  BY <1>2 DEF OneMore
<1>14. options_checked = FALSE
  BY NotChecked
<1>15. p \in Promised!Declared(c)
  BY <1>5, <1>6
<1> QED
  BY <1>1, <1>2, <1>3, <1>6, <1>8, <1>9, <1>10, <1>11, <1>12, <1>13, <1>14,
     <1>15, OfferFollows

\* After it, the one argument that may follow takes the last token.
LEMMA BackIsTaken ==
  ASSUME NEW c, NEW a, NEW b, NEW stored, InFinal(c, a, b, stored),
         UNCHANGED <<machine, status, token, options_checked>>,
         InPositionals, ~IsPositionalRest(Positionals[next_positional]),
         positional_tokens # <<>>, rest_option # 0,
         StorePositional(Positionals[next_positional],
                         positional_tokens[Len(positional_tokens)]),
         positional_tokens' =
           SubSeq(positional_tokens, 1, Len(positional_tokens) - 1),
         next_positional' = next_positional + 1, rest_option' = rest_option
  PROVE  Follows(stored)'
<1>1. PICK declared, D, T, n, p, r, texts :
        /\ declared = commands[c].positionals
        /\ D = Len(declared) /\ T = Total(c) /\ n = T - b
        /\ p = next_positional /\ r = rest_option
        /\ texts = TextsBy(c, Len(args))
  OBVIOUS
<1>2. /\ IInv /\ Reading /\ PositionalsDeclared /\ c \in DOMAIN commands
      /\ a \in Nat /\ b \in Nat
  BY InFinalOpened DEF InFinal
<1>3. /\ a + b # T /\ n \in 1..T
      /\ positional_tokens[Len(positional_tokens)] = texts[n]
      /\ SubSeq(positional_tokens, 1, Len(positional_tokens) - 1)
           = SubSeq(texts, a + 1, T - b - 1)
  <2>1. Left(texts, positional_tokens, a, b, T)
    BY <1>1, TokensLeft
  <2> QED
    BY <1>1, <2>1 DEF Left
<1>4. /\ D \in Nat /\ T \in Nat /\ a + b <= T /\ p \in Nat \ {0} /\ p <= D
      /\ Positionals = declared /\ r \in Promised!TakesRest(c)
      /\ r \in 1..D /\ r + b + 1 = p /\ r = a + 1
  BY <1>1, FinalPlace
<1>5. /\ Promised!TakesRest(c) = {q \in 1..D : IsPositionalRest(declared[q])}
      /\ DOMAIN declared = 1..D /\ Promised!Declared(c) = 1..D
      /\ \A s \in Promised!TakesRest(c) :
           s \in 1..D /\ (s = D \/ s + 1 = D)
  BY <1>1, <1>2, Declarations
<1>6. /\ a + b < T /\ p = D /\ r + 1 = D /\ b = 0 /\ n = T
      /\ a + (b + 1) <= T /\ p + 1 = D + 1 /\ r + (b + 1) + 1 = p + 1
      /\ r <= T /\ ~(p + 1 <= D)
  <2>1. r = D \/ r + 1 = D
    BY <1>4, <1>5
  <2>2. p = D /\ r + 1 = D /\ b = 0
    BY <1>2, <1>4, <2>1
  <2>3. a + b < T /\ r <= T
    BY <1>2, <1>3, <1>4, <2>2
  <2> QED
    BY <1>1, <1>2, <1>4, <2>2, <2>3
<1>7. TakenPlace(c, a, b + 1, p + 1, r)
  <2>1. r \in DOMAIN declared /\ IsPositionalRest(declared[r]) /\ r # 0
    BY <1>4, <1>5
  <2>2. p + 1 <= D + 1 /\ r <= a + 1
    BY <1>2, <1>4, <1>6
  <2> QED
    BY <1>1, <1>6, <2>1, <2>2 DEF TakenPlace
<1>8. ASSUME NEW q \in Promised!Declared(c)
      PROVE  n \in Promised!Share(c, q, T) <=> q = p
  <2>0. SharesAre(c, D, T) /\ q \in 1..D /\ r \in Promised!TakesRest(c)
    BY <1>1, <1>2, <1>4, <1>5, Shares
  <2>1. /\ q < r => Promised!Share(c, q, T) = {q}
        /\ q = r => Promised!Share(c, q, T) = r..(T - (D - r))
        /\ q > r => q = D /\ Promised!Share(c, q, T) = {T}
    BY <2>0, Zenon DEF SharesAre
  <2>2. CASE q < r
    <3>1. T # q /\ q # p
      BY <1>4, <1>6, <2>0, <2>2
    <3> QED
      BY <1>6, <2>1, <2>2, <3>1
  <2>3. CASE q = r
    <3>1. T \notin r..(T - (D - r)) /\ q # p
      BY <1>4, <1>6, <2>3
    <3> QED
      BY <1>6, <2>1, <2>3, <3>1
  <2>4. CASE q > r
    BY <1>6, <2>1, <2>4
  <2> QED
    BY <1>4, <2>0, <2>2, <2>3, <2>4
<1>9. \A m \in TakenBy(c, declared[p].key, a, b) : m < n
  <2> SUFFICES ASSUME NEW m \in TakenBy(c, declared[p].key, a, b)
               PROVE  m < T
    BY <1>1, <1>6
  <2>1. m \in TakenFor(c, declared[p].key) /\ (m <= a \/ m > T - b)
    BY <1>1 DEF TakenBy
  <2>2. m \in 1..T
    BY <1>1, <1>2, <2>1, TakenPositions
  <2> QED
    BY <1>2, <1>4, <1>6, <2>1, <2>2
<1>10. StorePositional(declared[p], TextsBy(c, Len(args))[n])
  BY <1>1, <1>3, <1>4
<1>11. positional_tokens' = SubSeq(TextsBy(c, Len(args)), a + 1, T - (b + 1))
  <2>1. T - (b + 1) = T - b - 1
    BY <1>2, <1>4
  <2> QED
    BY <1>1, <1>3, <2>1
<1>12. TakenPlace(c, a, b + 1, next_positional', rest_option')
  BY <1>1, <1>7
<1>13. OneMore(T, n, a, b, a, b + 1) /\ b + 1 \in Nat
  BY <1>1, <1>2 DEF OneMore
<1>14. options_checked = FALSE
  BY NotChecked
<1>15. p \in Promised!Declared(c)
  BY <1>4, <1>5
<1>16. PICK b2 : b2 = b + 1
  OBVIOUS
<1>17. /\ positional_tokens' = SubSeq(TextsBy(c, Len(args)), a + 1, T - b2)
       /\ TakenPlace(c, a, b2, next_positional', rest_option')
       /\ OneMore(T, n, a, b, a, b2) /\ b2 \in Nat
  BY <1>11, <1>12, <1>13, <1>16
<1>18. a + b < T /\ n \in 1..T
  BY <1>3, <1>6
<1>19. T = Total(c) /\ declared = commands[c].positionals
  BY <1>1
<1> QED
  BY <1>2, <1>8, <1>9, <1>10, <1>14, <1>15, <1>17, <1>18, <1>19, OfferFollows

\* When every argument has been come to, the one that takes the rest takes the
\* tokens that are left, from the front.
LEMMA RestIsTaken ==
  ASSUME NEW c, NEW a, NEW b, NEW stored, InFinal(c, a, b, stored),
         UNCHANGED <<machine, status, token, options_checked>>,
         ~InPositionals, positional_tokens # <<>>, rest_option # 0,
         StorePositional(Positionals[rest_option], Head(positional_tokens)),
         positional_tokens' = Tail(positional_tokens),
         UNCHANGED <<next_positional, rest_option>>
  PROVE  Follows(stored)'
<1>1. PICK declared, D, T, p, r, texts :
        /\ declared = commands[c].positionals
        /\ D = Len(declared) /\ T = Total(c)
        /\ p = next_positional /\ r = rest_option
        /\ texts = TextsBy(c, Len(args))
  OBVIOUS
<1>2. /\ IInv /\ Reading /\ PositionalsDeclared /\ c \in DOMAIN commands
      /\ a \in Nat /\ b \in Nat
  BY InFinalOpened DEF InFinal
<1>3. /\ a + b # T /\ a + 1 \in 1..T
      /\ Head(positional_tokens) = texts[a + 1]
      /\ Tail(positional_tokens) = SubSeq(texts, a + 2, T - b)
  <2>1. Left(texts, positional_tokens, a, b, T)
    BY <1>1, TokensLeft
  <2> QED
    BY <2>1 DEF Left
<1>4. /\ D \in Nat /\ T \in Nat /\ a + b <= T /\ p \in Nat \ {0}
      /\ p <= D + 1 /\ ~(p <= D)
      /\ Positionals = declared /\ r \in Promised!TakesRest(c)
      /\ r \in 1..D /\ r + b + 1 = p /\ r <= a + 1
  BY <1>1, FinalPlace
<1>5. /\ Promised!TakesRest(c) = {q \in 1..D : IsPositionalRest(declared[q])}
      /\ DOMAIN declared = 1..D /\ Promised!Declared(c) = 1..D
      /\ \A s \in Promised!TakesRest(c) :
           s \in 1..D /\ (s = D \/ s + 1 = D)
      /\ \A q, s \in 1..D : declared[q].key = declared[s].key => q = s
  BY <1>1, <1>2, Declarations
<1>6. /\ a + b < T /\ r + b = D /\ (b = 0 \/ b = 1)
      /\ T - (D - r) = T - b /\ r < a + 2 /\ (a + 1) + b <= T
      /\ (b = 1 => r + 1 = D /\ a + 1 < T)
  <2>1. r = D \/ r + 1 = D
    BY <1>4, <1>5
  <2> QED
    BY <1>2, <1>3, <1>4, <2>1
<1>7. TakenPlace(c, a + 1, b, p, r)
  <2>1. r \in DOMAIN declared /\ IsPositionalRest(declared[r]) /\ r # 0
    BY <1>4, <1>5
  <2>2. r <= (a + 1) + 1
    BY <1>2, <1>4
  <2> QED
    BY <1>1, <1>4, <1>6, <2>1, <2>2 DEF TakenPlace
<1>8. ASSUME NEW q \in Promised!Declared(c)
      PROVE  /\ q < r => Promised!Share(c, q, T) = {q}
             /\ q = r => Promised!Share(c, q, T) = r..(T - b)
             /\ q > r => /\ q = D /\ b = 1
                         /\ Promised!Share(c, q, T) = {T}
  <2>0. SharesAre(c, D, T) /\ q \in 1..D /\ r \in Promised!TakesRest(c)
    BY <1>1, <1>2, <1>4, <1>5, Shares
  <2>1. /\ q < r => Promised!Share(c, q, T) = {q}
        /\ q = r => Promised!Share(c, q, T) = r..(T - (D - r))
        /\ q > r => q = D /\ Promised!Share(c, q, T) = {T}
    BY <2>0, Zenon DEF SharesAre
  <2>2. q > r => b = 1
    BY <1>2, <1>4, <1>6, <2>0
  <2> QED
    BY <1>6, <2>1, <2>2
<1>9. ASSUME NEW q \in Promised!Declared(c)
      PROVE  a + 1 \in Promised!Share(c, q, T) <=> q = r
  <2>0. q \in 1..D
    BY <1>5
  <2>2. CASE q < r
    <3>1. a + 1 # q /\ q # r
      BY <1>2, <1>4, <2>0, <2>2
    <3> QED
      BY <1>8, <2>2, <3>1
  <2>3. CASE q = r
    <3>1. a + 1 \in r..(T - b)
      BY <1>2, <1>4, <1>6
    <3> QED
      BY <1>8, <2>3, <3>1
  <2>4. CASE q > r
    <3>1. b = 1 /\ a + 1 # T /\ q # r
      BY <1>2, <1>4, <1>6, <1>8, <2>0, <2>4
    <3> QED
      BY <1>8, <2>4, <3>1
  <2> QED
    BY <1>4, <2>0, <2>2, <2>3, <2>4
<1>10. ASSUME b = 1 PROVE T \notin TakenFor(c, declared[r].key)
  <2>1. ASSUME NEW q \in Promised!Declared(c)
        PROVE  T \in Promised!Share(c, q, T) <=> q = D
    <3>0. q \in 1..D /\ r + 1 = D /\ r < T
      BY <1>2, <1>4, <1>5, <1>6, <1>10
    <3>1. CASE q < r
      <4>1. T # q /\ q # D
        BY <1>4, <3>0, <3>1
      <4> QED
        BY <1>8, <3>1, <4>1
    <3>2. CASE q = r
      <4>1. T \notin r..(T - b) /\ q # D
        BY <1>4, <1>10, <3>0, <3>2
      <4> QED
        BY <1>8, <3>2, <4>1
    <3>3. CASE q > r
      BY <1>8, <3>3
    <3> QED
      BY <1>4, <3>0, <3>1, <3>2, <3>3
  <2>2. /\ T \in 1..T /\ D \in Promised!Declared(c) /\ r \in 1..D
        /\ D \in 1..D /\ r # D
    BY <1>2, <1>4, <1>5, <1>6, <1>10
  <2>3. T \in TakenFor(c, declared[r].key) <=>
          /\ declared[D].key = declared[r].key
          /\ TextsBy(c, Len(args))[T] \in declared[D].accepts
    BY <1>1, <1>2, <2>1, <2>2, TakenForIs
  <2> QED
    BY <1>5, <2>2, <2>3
<1>11. \A m \in TakenBy(c, declared[r].key, a, b) : m < a + 1
  <2> SUFFICES ASSUME NEW m \in TakenBy(c, declared[r].key, a, b)
               PROVE  m < a + 1
    OBVIOUS
  <2>1. m \in TakenFor(c, declared[r].key) /\ (m <= a \/ m > T - b)
    BY <1>1 DEF TakenBy
  <2>2. m \in 1..T
    BY <1>1, <1>2, <2>1, TakenPositions
  <2>3. ~(m > T - b)
    <3>1. m > T - b => b = 1 /\ m = T
      BY <1>4, <1>6, <2>2
    <3> QED
      BY <1>10, <2>1, <3>1
  <2> QED
    BY <1>2, <2>1, <2>2, <2>3
<1>12. StorePositional(declared[r], TextsBy(c, Len(args))[a + 1])
  BY <1>1, <1>3, <1>4
<1>13. positional_tokens' = SubSeq(TextsBy(c, Len(args)), (a + 1) + 1, T - b)
  <2>1. (a + 1) + 1 = a + 2
    BY <1>2
  <2> QED
    BY <1>1, <1>3, <2>1
<1>14. TakenPlace(c, a + 1, b, next_positional', rest_option')
  BY <1>1, <1>7
<1>15. OneMore(T, a + 1, a, b, a + 1, b) /\ a + 1 \in Nat
  BY <1>2 DEF OneMore
<1>16. options_checked = FALSE
  BY NotChecked
<1>17. r \in Promised!Declared(c)
  BY <1>4, <1>5
<1> QED
  BY <1>1, <1>2, <1>3, <1>6, <1>9, <1>11, <1>12, <1>13, <1>14, <1>15, <1>16,
     <1>17, OfferFollows

\* When none does, there are too many.
LEMMA TooManyFollows ==
  ASSUME NEW c, NEW a, NEW b, NEW stored, InFinal(c, a, b, stored),
         ~InPositionals, positional_tokens # <<>>, rest_option = 0,
         status' = "rejected"
  PROVE  Follows(stored)'
<1>1. PICK declared, D, T, p, texts :
        /\ declared = commands[c].positionals
        /\ D = Len(declared) /\ T = Total(c)
        /\ p = next_positional /\ texts = TextsBy(c, Len(args))
  OBVIOUS
<1>2. /\ IInv /\ Reading /\ PositionalsDeclared /\ c \in DOMAIN commands
      /\ a \in Nat /\ b \in Nat /\ c \in Promised!Candidates
      /\ ~Promised!WrongOption(c, stored)
      /\ after_equal_sign' = FALSE /\ UNCHANGED <<commands, args>>
  BY InFinalOpened DEF InFinal
<1>3. a + b # T
  <2>1. Left(texts, positional_tokens, a, b, T)
    BY <1>1, TokensLeft
  <2> QED
    BY <2>1 DEF Left
<1>4. /\ D \in Nat /\ T \in Nat /\ a + b <= T /\ p \in Nat \ {0}
      /\ p <= D + 1 /\ ~(p <= D) /\ b = 0 /\ a + 1 = p
      /\ \A q \in 1..D : q < p => q \notin Promised!TakesRest(c)
  BY <1>1, FinalPlace
<1>5. \A s \in Promised!TakesRest(c) : s \in 1..D
  BY <1>1, <1>2, Declarations
<1>6. Promised!TakesRest(c) = {}
  <2>1. \A q \in 1..D : q < p
    BY <1>4
  <2> QED
    BY <1>4, <1>5, <2>1
<1>7. T > D /\ ~(T < D)
  BY <1>2, <1>3, <1>4
<1>8. Promised!TooManyTokens(c) /\ ~Promised!TooFewTokens(c)
  BY <1>1, <1>2, <1>6, <1>7, Demand
<1>9. StoredOutcome(c, stored) = Promised!Rejected
  BY <1>2, <1>8 DEF StoredOutcome
<1>10. OutcomeNow' \in StoredOutcomes(stored)'
  BY <1>2, <1>9, RejectedAsPromised
<1> QED
  BY <1>2, <1>10, AfterReturn

\* An argument that takes one token.
LEMMA PositionalFollows ==
  ASSUME NEW c, NEW a, NEW b, NEW stored, InFinal(c, a, b, stored),
         Final_Positional
  PROVE  Follows(stored)'
<1>1. /\ InPositionals /\ ~IsPositionalRest(Positionals[next_positional])
      /\ rest_option' = rest_option /\ UNCHANGED options_checked
  BY Zenon DEF Final_Positional
<1>2. \/ positional_tokens = <<>> /\ status' = "undefined"
      \/ /\ positional_tokens # <<>>
         /\ StorePositional(Positionals[next_positional],
                            positional_tokens[PickedPosition])
         /\ positional_tokens' =
              IF rest_option = 0
                THEN Tail(positional_tokens)
                ELSE SubSeq(positional_tokens, 1, Len(positional_tokens) - 1)
         /\ next_positional' = next_positional + 1
         /\ UNCHANGED <<machine, status, token>>
  BY Zenon DEF Final_Positional, Undefined, loopVars
<1>3. CASE positional_tokens = <<>> /\ status' = "undefined"
  BY <1>1, <1>3, UndefinedFollows
<1>4. CASE /\ positional_tokens # <<>>
           /\ StorePositional(Positionals[next_positional],
                              positional_tokens[PickedPosition])
           /\ positional_tokens' =
                IF rest_option = 0
                  THEN Tail(positional_tokens)
                  ELSE SubSeq(positional_tokens, 1, Len(positional_tokens) - 1)
           /\ next_positional' = next_positional + 1
           /\ UNCHANGED <<machine, status, token>>
  <2>0. UNCHANGED <<machine, status, token, options_checked>>
    BY <1>1, <1>4
  <2>1. CASE rest_option = 0
    <3>1. /\ positional_tokens' = Tail(positional_tokens)
          /\ PickedPosition = 1
      BY <1>4, <2>1, Zenon DEF PickedPosition
    <3>2. StorePositional(Positionals[next_positional], positional_tokens[1])
      BY <1>4, <3>1, Zenon
    <3> QED
      BY <1>1, <1>4, <2>0, <2>1, <3>1, <3>2, FrontIsTaken, Zenon
  <2>2. CASE rest_option # 0
    <3>1. /\ positional_tokens' =
               SubSeq(positional_tokens, 1, Len(positional_tokens) - 1)
          /\ PickedPosition = Len(positional_tokens)
      BY <1>4, <2>2, Zenon DEF PickedPosition
    <3>2. StorePositional(Positionals[next_positional],
                          positional_tokens[Len(positional_tokens)])
      BY <1>4, <3>1, Zenon
    <3> QED
      BY <1>1, <1>4, <2>0, <2>2, <3>1, <3>2, BackIsTaken, Zenon
  <2> QED
    BY <2>1, <2>2
<1> QED
  BY <1>2, <1>3, <1>4

\* The tokens left when all arguments have been come to.
LEMMA LeftoverFollows ==
  ASSUME NEW c, NEW a, NEW b, NEW stored, InFinal(c, a, b, stored),
         Final_Leftover
  PROVE  Follows(stored)'
<1>1. /\ ~InPositionals /\ positional_tokens # <<>>
      /\ UNCHANGED <<next_positional, rest_option, options_checked>>
  BY Zenon DEF Final_Leftover, finalVars
<1>2. \/ /\ rest_option # 0
         /\ StorePositional(Positionals[rest_option], Head(positional_tokens))
         /\ positional_tokens' = Tail(positional_tokens)
         /\ UNCHANGED <<machine, status, token>>
      \/ rest_option = 0 /\ status' = "rejected"
  BY Zenon DEF Final_Leftover, loopVars, ReportError
<1>3. CASE /\ rest_option # 0
           /\ StorePositional(Positionals[rest_option], Head(positional_tokens))
           /\ positional_tokens' = Tail(positional_tokens)
           /\ UNCHANGED <<machine, status, token>>
  <2>1. /\ UNCHANGED <<machine, status, token, options_checked>>
        /\ UNCHANGED <<next_positional, rest_option>>
    BY <1>1, <1>3
  <2> QED
    BY <1>1, <1>3, <2>1, RestIsTaken, Zenon
<1>4. CASE rest_option = 0 /\ status' = "rejected"
  BY <1>1, <1>4, TooManyFollows
<1> QED
  BY <1>2, <1>3, <1>4

-----------------------------------------------------------------------------
(* Defaults *)

\* When every argument has been come to and no token is left, there were
\* neither too few nor too many.
LEMMA AllAreTaken ==
  ASSUME NEW c, NEW a, NEW b, NEW stored, InFinal(c, a, b, stored),
         ~InPositionals, positional_tokens = <<>>
  PROVE  /\ a + b = Total(c)
         /\ ~Promised!TooFewTokens(c) /\ ~Promised!TooManyTokens(c)
<1>1. PICK declared, D, T, p, texts :
        /\ declared = commands[c].positionals
        /\ D = Len(declared) /\ T = Total(c)
        /\ p = next_positional /\ texts = TextsBy(c, Len(args))
  OBVIOUS
<1>2. /\ IInv /\ Reading /\ PositionalsDeclared /\ c \in DOMAIN commands
      /\ a \in Nat /\ b \in Nat
  BY InFinalOpened DEF InFinal
<1>3. a + b = T
  <2>1. Left(texts, positional_tokens, a, b, T)
    BY <1>1, TokensLeft
  <2> QED
    BY <2>1 DEF Left
<1>4. /\ D \in Nat /\ T \in Nat /\ p \in Nat \ {0}
      /\ p <= D + 1 /\ ~(p <= D)
      /\ rest_option = 0 =>
           /\ b = 0 /\ a + 1 = p
           /\ \A q \in 1..D : q < p => q \notin Promised!TakesRest(c)
      /\ rest_option # 0 =>
           /\ rest_option \in Promised!TakesRest(c)
           /\ rest_option \in 1..D
           /\ rest_option + b + 1 = p
           /\ rest_option <= a + 1
  BY <1>1, FinalPlace
<1>5. \A s \in Promised!TakesRest(c) : s \in 1..D
  BY <1>1, <1>2, Declarations
<1>6. CASE rest_option = 0
  <2>1. Promised!TakesRest(c) = {}
    <3>1. \A q \in 1..D : q < p
      BY <1>4
    <3> QED
      BY <1>4, <1>5, <1>6, <3>1
  <2>2. ~(T < D) /\ ~(T > D)
    BY <1>2, <1>3, <1>4, <1>6
  <2> QED
    BY <1>1, <1>2, <1>3, <2>1, <2>2, Demand
<1>7. CASE rest_option # 0
  <2>1. Promised!TakesRest(c) # {}
    BY <1>4, <1>7
  <2>2. PICK r : r = rest_option
    OBVIOUS
  <2>3. r \in 1..D /\ r + b + 1 = p /\ r <= a + 1
    BY <1>4, <1>7, <2>2
  <2>4. ~(T < D - 1)
    BY <1>2, <1>3, <1>4, <2>3
  <2> QED
    BY <1>1, <1>2, <1>3, <2>1, <2>4, Demand
<1> QED
  BY <1>6, <1>7

\* The values given by name, listed as the machine stores them.
LEMMA NamedAreListed ==
  ASSUME IInv, Reading, NEW c, NEW k
  PROVE  StoredByName(c, k) = ValuesBy(c, k, Len(args))
<1>1. PICK S : S = {i \in Promised!NamesAfterPath(c) :
                      Promised!OptionAt(c, i).key = k}
  OBVIOUS
<1>2. NamesBy(c, k, Len(args)) = S /\ NamesOfKey(c, k) = Promised!InOrder(S)
  BY <1>1, AllTexts DEF NamesOfKey
<1>3. Len(args) \in Nat /\ DOMAIN args = 1..Len(args)
  BY LineTypes
<1>4. S \in SUBSET (1..Len(args))
  BY <1>1, <1>3, NamesAndValues
<1>5. DOMAIN Promised!InOrder(S) = 1..Cardinality(S)
  BY InOrderIs
<1>6. \A n \in 1..Cardinality(S) : Promised!InOrder(S)[n] \in DOMAIN args
  <2>1. PICK m : m = Len(args)
    OBVIOUS
  <2>2. m \in Nat /\ S \in SUBSET (1..m)
    BY <1>3, <1>4, <2>1
  <2>3. \A n \in 1..Cardinality(S) : Promised!InOrder(S)[n] \in S
    BY <2>2, InOrderElements
  <2> QED
    BY <1>3, <1>4, <2>3
<1>7. \A i \in DOMAIN args : ValueGiven(c)[i] = NameStores(c, i)
  BY DEF ValueGiven, NameStores
<1>8. ValuesBy(c, k, Len(args))
        = [n \in 1..Cardinality(S) |-> ValueGiven(c)[Promised!InOrder(S)[n]]]
  BY <1>2, Zenon DEF ValuesBy, Listed
<1>9. StoredByName(c, k)
        = [n \in 1..Cardinality(S) |-> NameStores(c, Promised!InOrder(S)[n])]
  BY <1>2, <1>5, Zenon DEF StoredByName
<1>10. \A n \in 1..Cardinality(S) :
         ValueGiven(c)[Promised!InOrder(S)[n]]
           = NameStores(c, Promised!InOrder(S)[n])
  BY <1>6, <1>7, Zenon
<1> QED
  BY <1>8, <1>9, <1>10

\* The values given by position, likewise.
LEMMA PositionalsAreListed ==
  ASSUME IInv, Reading, NEW c, NEW k
  PROVE  StoredByPosition(c, k) = Listed(TakenFor(c, k), ValueStored(c))
<1>1. PICK S : S = TakenFor(c, k)
  OBVIOUS
<1>2. PICK m : m = Total(c)
  OBVIOUS
<1>3. /\ m \in Nat /\ S \in SUBSET (1..m)
      /\ DOMAIN Promised!InOrder(Promised!Positional(c)) = 1..m
  BY <1>1, <1>2, TakenPositions, AllTexts
<1>4. DOMAIN Promised!InOrder(S) = 1..Cardinality(S)
  BY InOrderIs
<1>5. \A n \in 1..Cardinality(S) : Promised!InOrder(S)[n] \in 1..m
  BY <1>3, InOrderElements
<1>6. \A n \in 1..m : ValueStored(c)[n] = PositionStores(c, n)
  BY <1>3 DEF ValueStored, PositionStores
<1>7. Listed(S, ValueStored(c))
        = [n \in 1..Cardinality(S) |-> ValueStored(c)[Promised!InOrder(S)[n]]]
  BY DEF Listed
<1>8. StoredByPosition(c, k)
        = [n \in 1..Cardinality(S) |-> PositionStores(c, Promised!InOrder(S)[n])]
  <2>1. TokensOfKey(c, k) = Promised!InOrder(S)
    BY <1>1 DEF TokensOfKey
  <2> QED
    BY <1>4, <2>1, Zenon DEF StoredByPosition
<1>9. \A n \in 1..Cardinality(S) :
        ValueStored(c)[Promised!InOrder(S)[n]]
          = PositionStores(c, Promised!InOrder(S)[n])
  BY <1>5, <1>6, Zenon
<1> QED
  BY <1>1, <1>7, <1>8, <1>9

\* Before the options are checked, the values stored are those given.
LEMMA GivenIsStored ==
  ASSUME NEW c, NEW a, NEW b, NEW stored, InFinal(c, a, b, stored),
         ~InPositionals, positional_tokens = <<>>, options_checked = FALSE
  PROVE  \A k \in Keys : ovm[k] = StoredGiven(c, stored)[k]
<1>1. /\ IInv /\ Reading /\ a \in Nat /\ b \in Nat
      /\ ~options_checked /\ ~Promised!TooFewTokens(c)
           => StoredSoFar(c, a, b, stored)
  BY InFinalOpened DEF InFinal
<1>2. a + b = Total(c) /\ ~Promised!TooFewTokens(c)
  BY AllAreTaken
<1>3. StoredSoFar(c, a, b, stored)
  BY <1>1, <1>2
<1> SUFFICES ASSUME NEW k \in Keys
             PROVE  ovm[k] = StoredGiven(c, stored)[k]
  OBVIOUS
<1>4. ovm[k] = (stored[k] \o ValuesBy(c, k, Len(args)))
                 \o Listed(TakenBy(c, k, a, b), ValueStored(c))
  BY <1>3, Zenon DEF StoredSoFar, TakenBy
<1>5. TakenBy(c, k, a, b) = TakenFor(c, k)
  <2>1. PICK T, S : T = Total(c) /\ S = TakenFor(c, k)
    OBVIOUS
  <2>2. T \in Nat /\ S \in SUBSET (1..T)
    BY <1>1, <2>1, AllTexts, TakenPositions
  <2>3. \A n \in S : n <= a \/ n > T - b
    BY <1>1, <1>2, <2>1, <2>2
  <2> QED
    BY <2>1, <2>3 DEF TakenBy
<1>6. StoredGiven(c, stored)[k]
        = (stored[k] \o StoredByName(c, k))
            \o StoredByPosition(c, k)
  BY DEF StoredGiven
<1> QED
  BY <1>1, <1>4, <1>5, <1>6, NamedAreListed, PositionalsAreListed, Zenon

\* An argument of the list with key k has a default value.
HasDefault(list, k) == \E i \in DOMAIN list : list[i].key = k /\ list[i].default

\* What CheckRequiredOptions stores when nothing is missing.
LEMMA DefaultsStored ==
  ASSUME IInv, active_command # 0, NEW list \in {CommandOptions, Positionals},
         Missing(list) = {}, ApplyDefaults(list)
  PROVE  ovm' = [k \in Keys |->
                   IF ovm[k] = <<>> /\ HasDefault(list, k)
                     THEN <<DefaultValue>> ELSE ovm[k]]
<1> DEFINE stop == Len(list) + 1
           K == {list[i].key : i \in Defaulted(list, stop)}
<1>1. ovm' = [k \in Keys |-> IF k \in K THEN <<DefaultValue>> ELSE ovm[k]]
  BY Zenon DEF ApplyDefaults
<1>2. Len(list) \in Nat /\ DOMAIN list = 1..Len(list)
  BY ListTypes
<1>3. \A i : i \in Defaulted(list, stop) <=>
             i \in DOMAIN list /\ list[i].default /\ ovm[list[i].key] = <<>>
  <2>1. \A i \in DOMAIN list : i < stop
    BY <1>2
  <2> QED
    BY <2>1, Zenon DEF Defaulted
<1>4. \A k : k \in K <=> ovm[k] = <<>> /\ HasDefault(list, k)
  BY <1>3, Zenon DEF HasDefault
<1> HIDE DEF K
<1> QED
  BY <1>1, <1>4, Zenon

\* An argument that is missing: required, without a value, and without a
\* default value for it.
LEMMA MissingIs ==
  ASSUME NEW list, NEW i \in Missing(list),
         \A j, l \in DOMAIN list : list[j].key = list[l].key => j = l
  PROVE  /\ i \in DOMAIN list /\ list[i].required
         /\ ovm[list[i].key] = <<>> /\ ~HasDefault(list, list[i].key)
<1>1. /\ i \in DOMAIN list /\ list[i].required /\ ~list[i].default
      /\ ovm[list[i].key] = <<>>
  BY Zenon DEF Missing
<1>2. ~HasDefault(list, list[i].key)
  BY <1>1, Zenon DEF HasDefault
<1> QED
  BY <1>1, <1>2, Zenon

\* The arguments of the promise, as options and positional arguments.
Lacks(list, values) ==
  \E i \in DOMAIN list : list[i].required /\ values[list[i].key] = <<>>

Filled(given, options, positionals) ==
  [k \in Keys |->
     IF given[k] = <<>> /\ (HasDefault(options, k) \/ HasDefault(positionals, k))
       THEN <<DefaultValue>> ELSE given[k]]

\* Defaults and completeness, list by list.
LEMMA ArgumentsAre ==
  ASSUME NEW c, NEW options, options = commands[c].options,
         NEW positionals, positionals = commands[c].positionals
  PROVE  /\ \A given : StoredWithDefaults(c, given)
                         = Filled(given, options, positionals)
         /\ \A values : Promised!Complete(c, values) <=>
              ~Lacks(options, values) /\ ~Lacks(positionals, values)
<1> SUFFICES ASSUME NEW given, NEW values
             PROVE  /\ StoredWithDefaults(c, given)
                         = Filled(given, options, positionals)
                    /\ Promised!Complete(c, values) <=>
                         ~Lacks(options, values) /\ ~Lacks(positionals, values)
  OBVIOUS
<1>1. \A x : x \in Promised!Arguments(c) <=>
              \/ \E o \in DOMAIN options : x = options[o]
              \/ \E p \in DOMAIN positionals : x = positionals[p]
  BY DEF Promised!Arguments, Promised!Declared
<1>2. \A k : (\E x \in Promised!Arguments(c) : x.key = k /\ x.default)
               <=> HasDefault(options, k) \/ HasDefault(positionals, k)
  <2> SUFFICES ASSUME NEW k
               PROVE  (\E x \in Promised!Arguments(c) : x.key = k /\ x.default)
                        <=> HasDefault(options, k) \/ HasDefault(positionals, k)
    OBVIOUS
  <2>1. ASSUME NEW x \in Promised!Arguments(c), x.key = k, x.default
        PROVE  HasDefault(options, k) \/ HasDefault(positionals, k)
    <3>1. CASE \E o \in DOMAIN options : x = options[o]
      BY <2>1, <3>1 DEF HasDefault
    <3>2. CASE \E p \in DOMAIN positionals : x = positionals[p]
      BY <2>1, <3>2 DEF HasDefault
    <3> QED
      BY <1>1, <3>1, <3>2
  <2>2. ASSUME NEW list \in {options, positionals}, NEW i \in DOMAIN list,
               list[i].key = k, list[i].default
        PROVE  \E x \in Promised!Arguments(c) : x.key = k /\ x.default
    <3>1. list[i] \in Promised!Arguments(c)
      BY <1>1
    <3> QED
      BY <2>2, <3>1
  <2> QED
    BY <2>1, <2>2 DEF HasDefault
<1>3. Promised!Complete(c, values) <=>
        ~Lacks(options, values) /\ ~Lacks(positionals, values)
  <2>1. ASSUME NEW list \in {options, positionals}, Lacks(list, values)
        PROVE  ~Promised!Complete(c, values)
    <3>1. PICK i \in DOMAIN list : list[i].required /\ values[list[i].key] = <<>>
      BY <2>1 DEF Lacks
    <3>2. list[i] \in Promised!Arguments(c)
      BY <1>1
    <3> QED
      BY <3>1, <3>2 DEF Promised!Complete
  <2>2. ASSUME ~Promised!Complete(c, values)
        PROVE  Lacks(options, values) \/ Lacks(positionals, values)
    <3>1. PICK x \in Promised!Arguments(c) : x.required /\ values[x.key] = <<>>
      BY <2>2 DEF Promised!Complete
    <3>2. CASE \E o \in DOMAIN options : x = options[o]
      BY <3>1, <3>2 DEF Lacks
    <3>3. CASE \E p \in DOMAIN positionals : x = positionals[p]
      BY <3>1, <3>3 DEF Lacks
    <3> QED
      BY <1>1, <3>2, <3>3
  <2> QED
    BY <2>1, <2>2
<1>4. StoredWithDefaults(c, given)
        = [k \in Keys |->
             IF given[k] = <<>>
                  /\ \E x \in Promised!Arguments(c) : x.key = k /\ x.default
               THEN <<DefaultValue>> ELSE given[k]]
  BY Zenon DEF StoredWithDefaults
<1> QED
  BY <1>2, <1>3, <1>4, Zenon DEF Filled

\* The keys of one command.
KeysOwn(options, positionals) ==
  /\ \A i, j \in DOMAIN options : options[i].key = options[j].key => i = j
  /\ \A i, j \in DOMAIN positionals :
       positionals[i].key = positionals[j].key => i = j
  /\ \A i \in DOMAIN options : \A j \in DOMAIN positionals :
       options[i].key # positionals[j].key
  /\ \A i \in DOMAIN options : options[i].key \in Keys
  /\ \A i \in DOMAIN positionals : positionals[i].key \in Keys

\* No two arguments of a command share a key.
LEMMA KeysOfCommand ==
  ASSUME IInv, PositionalsDeclared, NEW c \in DOMAIN commands,
         NEW options, options = commands[c].options,
         NEW positionals, positionals = commands[c].positionals
  PROVE  KeysOwn(options, positionals)
<1>1. commands \in CLIs
  BY ContextTypesOpened DEF ContextTypeOK
<1>2. /\ \A i, j \in DOMAIN options : options[i].key = options[j].key => i = j
      /\ \A i \in DOMAIN options : \A j \in DOMAIN positionals :
           options[i].key # positionals[j].key
  BY <1>1, KeysAssumption
<1>3. PICK D : D = Len(positionals)
  OBVIOUS
<1>4. /\ DOMAIN positionals = 1..D
      /\ \A p \in 1..D : positionals[p].key \in Keys
      /\ \A p, q \in 1..D : positionals[p].key = positionals[q].key => p = q
  BY <1>3, Declarations
<1>5. options \in Seq(Options)
  BY <1>1, OptionsInCLI
<1>6. \A i \in DOMAIN options : options[i].key \in Keys
  <2>1. \A i \in DOMAIN options : options[i] \in Options
    BY <1>5, ElementTypes
  <2> QED
    BY <2>1 DEF Options
<1> QED
  BY <1>2, <1>4, <1>6 DEF KeysOwn

\* OptionsFilled, in the words of this section, here and after a step.
LEMMA OptionsFilledIs ==
  ASSUME NEW c, NEW stored
  PROVE  OptionsFilled(c, stored) <=>
           /\ ~InPositionals /\ positional_tokens = <<>>
           /\ \A k \in Keys :
                ovm[k] = IF /\ StoredGiven(c, stored)[k] = <<>>
                            /\ HasDefault(CommandOptions, k)
                           THEN <<DefaultValue>> ELSE StoredGiven(c, stored)[k]
           /\ ~Lacks(CommandOptions, ovm)
<1>1. (\A o \in DOMAIN CommandOptions :
         CommandOptions[o].required => ovm[CommandOptions[o].key] # <<>>)
      <=> ~Lacks(CommandOptions, ovm)
  BY DEF Lacks
<1>2. \A k : HasDefault(CommandOptions, k) <=>
               \E o \in DOMAIN CommandOptions :
                 CommandOptions[o].key = k /\ CommandOptions[o].default
  BY Zenon DEF HasDefault
<1> QED
  BY <1>1, <1>2, Zenon DEF OptionsFilled

\* What OptionsFilled says of the next state.
LEMMA OptionsFilledLater ==
  ASSUME NEW c, NEW stored,
         UNCHANGED <<commands, args, active_command, next_positional>>
  PROVE  OptionsFilled(c, stored)' <=>
           /\ ~InPositionals /\ positional_tokens' = <<>>
           /\ \A k \in Keys :
                ovm'[k] = IF /\ StoredGiven(c, stored)[k] = <<>>
                             /\ HasDefault(CommandOptions, k)
                            THEN <<DefaultValue>> ELSE StoredGiven(c, stored)[k]
           /\ ~Lacks(CommandOptions, ovm')
<1>1. StoredGiven(c, stored)' = StoredGiven(c, stored)
  BY SameOutcomes
<1>2. CommandOptions' = CommandOptions /\ InPositionals' = InPositionals
  BY DEF CommandOptions, InPositionals, Positionals
<1>3. PICK options : options = CommandOptions
  OBVIOUS
<1>4. options = CommandOptions'
  BY <1>2, <1>3
<1>5. (\A o \in DOMAIN options :
         options[o].required => ovm'[options[o].key] # <<>>)
      <=> ~Lacks(options, ovm')
  BY DEF Lacks
<1>6. \A k : HasDefault(options, k) <=>
               \E o \in DOMAIN options : options[o].key = k /\ options[o].default
  BY Zenon DEF HasDefault
<1>7. OptionsFilled(c, stored)' <=>
        /\ ~InPositionals' /\ positional_tokens' = <<>>
        /\ \A k \in Keys :
             ovm'[k] = IF /\ StoredGiven(c, stored)'[k] = <<>>
                          /\ \E o \in DOMAIN options :
                               options[o].key = k /\ options[o].default
                         THEN <<DefaultValue>> ELSE StoredGiven(c, stored)'[k]
        /\ \A o \in DOMAIN options :
             options[o].required => ovm'[options[o].key] # <<>>
  BY <1>4, Zenon DEF OptionsFilled
<1>8. OptionsFilled(c, stored)' <=>
        /\ ~InPositionals /\ positional_tokens' = <<>>
        /\ \A k \in Keys :
             ovm'[k] = IF /\ StoredGiven(c, stored)[k] = <<>>
                          /\ HasDefault(options, k)
                         THEN <<DefaultValue>> ELSE StoredGiven(c, stored)[k]
        /\ ~Lacks(options, ovm')
  BY <1>1, <1>2, <1>5, <1>6, <1>7, Zenon
<1> QED
  BY <1>3, <1>8, Zenon

\* A key without a default is left without a value.
LEMMA LeftWithout ==
  ASSUME NEW c, NEW options, options = commands[c].options,
         NEW positionals, positionals = commands[c].positionals,
         NEW given, NEW k \in Keys, given[k] = <<>>,
         ~HasDefault(options, k), ~HasDefault(positionals, k)
  PROVE  StoredWithDefaults(c, given)[k] = <<>>
<1>1. StoredWithDefaults(c, given) = Filled(given, options, positionals)
  BY ArgumentsAre
<1> QED
  BY <1>1 DEF Filled

\* What Parse() has come to when an argument is missing.
LEMMA MissingFollows ==
  ASSUME NEW c, NEW a, NEW b, NEW stored, InFinal(c, a, b, stored),
         NEW list \in {CommandOptions, Positionals}, NEW i \in Missing(list),
         NEW k, k = list[i].key,
         ~InPositionals, positional_tokens = <<>>,
         StoredGiven(c, stored)[k] = <<>>, status' = "rejected"
  PROVE  Follows(stored)'
<1>1. PICK options, positionals, given, values :
        /\ options = commands[c].options
        /\ positionals = commands[c].positionals
        /\ given = StoredGiven(c, stored)
        /\ values = StoredWithDefaults(c, given)
  OBVIOUS
<1>2. /\ IInv /\ PositionalsDeclared /\ c \in DOMAIN commands
      /\ c = active_command
      /\ c \in Promised!Candidates /\ after_equal_sign' = FALSE
      /\ UNCHANGED <<commands, args>>
  BY InFinalOpened DEF InFinal
<1>3. CommandOptions = options /\ Positionals = positionals
  BY <1>1, <1>2 DEF CommandOptions, Positionals
<1>4. /\ \A j, l \in DOMAIN options : options[j].key = options[l].key => j = l
      /\ \A j, l \in DOMAIN positionals :
           positionals[j].key = positionals[l].key => j = l
      /\ \A j \in DOMAIN options : \A l \in DOMAIN positionals :
           options[j].key # positionals[l].key
      /\ \A j \in DOMAIN options : options[j].key \in Keys
      /\ \A j \in DOMAIN positionals : positionals[j].key \in Keys
  <2>1. KeysOwn(options, positionals)
    BY <1>1, <1>2, KeysOfCommand
  <2> QED
    BY <2>1, Zenon DEF KeysOwn
<1>5. list = options \/ list = positionals
  BY <1>3
<1>6. \A j, l \in DOMAIN list : list[j].key = list[l].key => j = l
  BY <1>4, <1>5
<1>7. /\ i \in DOMAIN list /\ list[i].required /\ ~HasDefault(list, k)
  BY <1>6, MissingIs
<1>8. ~HasDefault(options, k) /\ ~HasDefault(positionals, k) /\ k \in Keys
  <2>1. CASE list = options
    <3>1. \A l \in DOMAIN positionals : positionals[l].key # k
      BY <1>4, <1>7, <2>1
    <3>2. ~HasDefault(positionals, k)
      BY <3>1 DEF HasDefault
    <3> QED
      BY <1>4, <1>7, <2>1, <3>2
  <2>2. CASE list = positionals
    <3>1. \A j \in DOMAIN options : options[j].key # k
      BY <1>4, <1>7, <2>2
    <3>2. ~HasDefault(options, k)
      BY <3>1 DEF HasDefault
    <3> QED
      BY <1>4, <1>7, <2>2, <3>2
  <2> QED
    BY <1>5, <2>1, <2>2
<1>9. values[k] = <<>>
  BY <1>1, <1>8, LeftWithout
<1>10. ~Promised!Complete(c, values)
  <2>1. Lacks(list, values)
    BY <1>7, <1>9 DEF Lacks
  <2> QED
    BY <1>1, <1>5, <2>1, ArgumentsAre
<1>11. StoredOutcome(c, stored) = Promised!Rejected
  <2>1. ~Promised!WrongOption(c, stored) /\ ~Promised!TooFewTokens(c)
    BY InFinalOpened, AllAreTaken
  <2> QED
    BY <1>1, <1>10, <2>1 DEF StoredOutcome
<1>12. OutcomeNow' \in StoredOutcomes(stored)'
  BY <1>2, <1>11, RejectedAsPromised
<1> QED
  BY <1>2, <1>12, AfterReturn

\* The options are checked, and get their defaults.
LEMMA CheckOptionsFollows ==
  ASSUME NEW c, NEW a, NEW b, NEW stored, InFinal(c, a, b, stored),
         Final_CheckOptions
  PROVE  Follows(stored)'
<1>1. PICK options, given : /\ options = CommandOptions
                            /\ given = StoredGiven(c, stored)
  OBVIOUS
<1>2. /\ ~options_checked /\ ~InPositionals /\ positional_tokens = <<>>
      /\ ApplyDefaults(CommandOptions)
      /\ UNCHANGED <<commands, args, active_command, positional_tokens>>
      /\ UNCHANGED <<next_positional, rest_option, after_equal_sign>>
  BY Zenon DEF Final_CheckOptions, CheckRequiredOptions, fixedVars, optionVars
<1>3. \/ Missing(CommandOptions) # {} /\ status' = "rejected"
      \/ /\ Missing(CommandOptions) = {} /\ options_checked' = TRUE
         /\ UNCHANGED <<machine, token, status>>
  BY Zenon DEF Final_CheckOptions, ReportError, loopVars
<1>4. /\ IInv /\ PositionalsDeclared /\ c = active_command /\ active_command # 0
      /\ machine = "FinalState" /\ status = "running" /\ TakenSoFar(c, a, b)
      /\ a \in 0..Len(args) /\ b \in 0..Len(args)
      /\ token.type = "EndOfInput" /\ NamesRight(c, Len(args), stored)
      /\ after_equal_sign' = FALSE /\ c = active_command'
      /\ options_checked = FALSE
  <2>1. IInv /\ machine = "FinalState"
    BY DEF InFinal
  <2>2. active_command # 0
    BY <2>1, ContextTypesOpened DEF CommandKnown, MachineStates
  <2> QED
    BY <1>2, <2>1, <2>2, InFinalOpened DEF InFinal
<1>5. \A k \in Keys : ovm[k] = given[k]
  BY <1>1, <1>2, <1>4, GivenIsStored
<1>6. CASE Missing(CommandOptions) # {} /\ status' = "rejected"
  <2>0. PICK i \in Missing(CommandOptions) : TRUE
    BY <1>6
  <2>1. PICK k : k = options[i].key
    OBVIOUS
  <2>2. i \in DOMAIN CommandOptions /\ ovm[k] = <<>>
    BY <1>1, <2>1, Zenon DEF Missing
  <2>3. k \in Keys
    BY <1>1, <1>4, <2>1, <2>2, ListTypes
  <2>4. StoredGiven(c, stored)[k] = <<>> /\ k = CommandOptions[i].key
    BY <1>1, <1>5, <2>1, <2>2, <2>3
  <2>5. CommandOptions \in {CommandOptions, Positionals}
    OBVIOUS
  <2> QED
    BY <1>2, <1>6, <2>1, <2>4, <2>5, MissingFollows
<1>7. CASE /\ Missing(CommandOptions) = {} /\ options_checked' = TRUE
           /\ UNCHANGED <<machine, token, status>>
  <2>0. CommandOptions \in {CommandOptions, Positionals}
    OBVIOUS
  <2>1. ovm' = [k \in Keys |-> IF ovm[k] = <<>> /\ HasDefault(CommandOptions, k)
                                 THEN <<DefaultValue>> ELSE ovm[k]]
    BY <1>2, <1>4, <1>7, <2>0, DefaultsStored, Zenon
  <2>2. \A k \in Keys :
          ovm'[k] = IF /\ StoredGiven(c, stored)[k] = <<>>
                       /\ HasDefault(CommandOptions, k)
                      THEN <<DefaultValue>> ELSE StoredGiven(c, stored)[k]
    BY <1>1, <1>5, <2>1
  <2>3. ~Lacks(CommandOptions, ovm')
    <3>1. \A i \in DOMAIN CommandOptions :
            CommandOptions[i].required \/ CommandOptions[i].default
              => ovm'[CommandOptions[i].key] # <<>>
      BY <1>2, <1>4, <1>7, <2>0, NothingMissing
    <3>2. \A i \in DOMAIN options :
            options[i].required => ovm'[options[i].key] # <<>>
      BY <1>1, <3>1, Zenon
    <3>3. ~Lacks(options, ovm')
      BY <3>2 DEF Lacks
    <3> QED
      BY <1>1, <3>3, Zenon
  <2>4. OptionsFilled(c, stored)'
    <3>1. positional_tokens' = <<>>
      BY <1>2
    <3> QED
      BY <1>2, <2>2, <2>3, <3>1, OptionsFilledLater, Zenon
  <2>5. TakenSoFar(c, a, b)'
    <3>1. /\ positional_tokens = SubSeq(TextsBy(c, Len(args)), a + 1, Total(c) - b)
          /\ TakenPlace(c, a, b, next_positional, rest_option)
      BY <1>4 DEF TakenSoFar
    <3>2. /\ positional_tokens' = SubSeq(TextsBy(c, Len(args)), a + 1, Total(c) - b)
          /\ TakenPlace(c, a, b, next_positional', rest_option')
      BY <1>2, <3>1
    <3> QED
      BY <1>2, <3>2, TakenLater
  <2>6. /\ machine' = "FinalState" /\ status' = "running"
        /\ token'.type = "EndOfInput" /\ UNCHANGED <<commands, args>>
    BY <1>2, <1>4, <1>7
  <2> QED
    BY <1>4, <1>7, <2>4, <2>5, <2>6, AtEnd
<1> QED
  BY <1>3, <1>6, <1>7

\* The positional arguments are, and Parse() returns.
LEMMA CheckPositionalsFollows ==
  ASSUME NEW c, NEW a, NEW b, NEW stored, InFinal(c, a, b, stored),
         Final_CheckPositionals
  PROVE  Follows(stored)'
<1>1. PICK options, positionals, given :
        /\ options = CommandOptions /\ positionals = Positionals
        /\ given = StoredGiven(c, stored)
  OBVIOUS
<1>2. /\ options_checked /\ ~InPositionals /\ positional_tokens = <<>>
      /\ ApplyDefaults(Positionals)
      /\ UNCHANGED <<commands, args, active_command>>
  BY Zenon DEF Final_CheckPositionals, CheckRequiredOptions, fixedVars
<1>3. \/ Missing(Positionals) # {} /\ status' = "rejected"
      \/ Missing(Positionals) = {} /\ status' = "accepted"
  BY Zenon DEF Final_CheckPositionals, ReportError
<1>4. /\ IInv /\ c = active_command /\ active_command # 0
      /\ after_equal_sign' = FALSE /\ c = active_command'
      /\ c \in Promised!Candidates /\ ~Promised!WrongOption(c, stored)
      /\ OptionsFilled(c, stored)
  <2>1. IInv /\ machine = "FinalState"
    BY DEF InFinal
  <2>2. active_command # 0
    BY <2>1, ContextTypesOpened DEF CommandKnown, MachineStates
  <2> QED
    BY <1>2, <2>1, <2>2, InFinalOpened DEF InFinal
<1>5. options = commands[c].options /\ positionals = commands[c].positionals
  BY <1>1, <1>4 DEF CommandOptions, Positionals
<1>6. /\ \A k \in Keys : ovm[k] = IF given[k] = <<>> /\ HasDefault(options, k)
                                    THEN <<DefaultValue>> ELSE given[k]
      /\ ~Lacks(options, ovm)
  BY <1>1, <1>4, OptionsFilledIs, Zenon
<1>7. <<DefaultValue>> # <<>>
  OBVIOUS
<1>8. CASE Missing(Positionals) # {} /\ status' = "rejected"
  <2>0. PICK i \in Missing(Positionals) : TRUE
    BY <1>8
  <2>1. PICK k : k = positionals[i].key
    OBVIOUS
  <2>2. i \in DOMAIN Positionals /\ ovm[k] = <<>>
    BY <1>1, <2>1, Zenon DEF Missing
  <2>3. k \in Keys
    BY <1>1, <1>4, <2>1, <2>2, ListTypes
  <2>4. StoredGiven(c, stored)[k] = <<>> /\ k = Positionals[i].key
    BY <1>1, <1>6, <1>7, <2>1, <2>2, <2>3
  <2>5. Positionals \in {CommandOptions, Positionals}
    OBVIOUS
  <2> QED
    BY <1>2, <1>8, <2>1, <2>4, <2>5, MissingFollows
<1>9. CASE Missing(Positionals) = {} /\ status' = "accepted"
  <2>0. Positionals \in {CommandOptions, Positionals}
    OBVIOUS
  <2>1. ovm' = [k \in Keys |-> IF ovm[k] = <<>> /\ HasDefault(positionals, k)
                                 THEN <<DefaultValue>> ELSE ovm[k]]
    BY <1>1, <1>2, <1>4, <1>9, <2>0, DefaultsStored, Zenon
  <2>2. ovm' = Filled(given, options, positionals)
    BY <1>6, <1>7, <2>1 DEF Filled
  <2>3. ovm' = StoredWithDefaults(c, given)
    BY <1>5, <2>2, ArgumentsAre
  <2>4. ~Lacks(positionals, ovm')
    <3>1. \A i \in DOMAIN Positionals :
            Positionals[i].required \/ Positionals[i].default
              => ovm'[Positionals[i].key] # <<>>
      BY <1>2, <1>4, <1>9, <2>0, NothingMissing
    <3>2. \A i \in DOMAIN positionals :
            positionals[i].required => ovm'[positionals[i].key] # <<>>
      BY <1>1, <3>1, Zenon
    <3> QED
      BY <3>2 DEF Lacks
  <2>5. ~Lacks(options, ovm')
    <3> SUFFICES ASSUME NEW i \in DOMAIN options, options[i].required
                 PROVE  ovm'[options[i].key] # <<>>
      BY DEF Lacks
    <3>1. ovm[options[i].key] # <<>>
      BY <1>6 DEF Lacks
    <3>2. options[i].key \in Keys
      BY <1>1, <1>4, ListTypes
    <3> QED
      BY <2>1, <3>1, <3>2
  <2>6. Promised!Complete(c, StoredWithDefaults(c, given))
    BY <1>5, <2>3, <2>4, <2>5, ArgumentsAre
  <2>7. StoredOutcome(c, stored) = Promised!Outcome("accepted", c, ovm')
    <3>1. ~Promised!TooFewTokens(c) /\ ~Promised!TooManyTokens(c)
      BY <1>2, AllAreTaken
    <3> QED
      BY <1>1, <1>4, <2>3, <2>6, <3>1 DEF StoredOutcome
  <2>8. OutcomeNow' = Promised!Outcome("accepted", c, ovm')
    BY <1>4, <1>9 DEF OutcomeNow, Promised!Outcome
  <2>9. StoredOutcomes(stored)' = StoredOutcomes(stored)
    BY <1>2, SameOutcomes
  <2>10. StoredOutcome(c, stored) \in StoredOutcomes(stored)
    BY <1>4 DEF StoredOutcomes
  <2>11. OutcomeNow' \in StoredOutcomes(stored)'
    BY <2>7, <2>8, <2>9, <2>10, Zenon
  <2> QED
    BY <1>4, <1>9, <2>11, AfterReturn
<1> QED
  BY <1>3, <1>8, <1>9

\* The steps of FinalState.
LEMMA FinalFollows ==
  ASSUME IInv, Reading, Resolved(active_command), PositionalsDeclared,
         NEW stored \in [Keys -> Seq(OptionValues)], Follows(stored),
         \/ Final_RestDeclared \/ Final_Positional \/ Final_Leftover
         \/ Final_CheckOptions \/ Final_CheckPositionals
  PROVE  Follows(stored)'
<1>1. /\ status = "running" /\ machine = "FinalState"
      /\ UNCHANGED <<commands, args, active_command, after_equal_sign>>
  <2>1. Finishing
    BY Zenon DEF Final_RestDeclared, Final_Positional, Final_Leftover,
                 Final_CheckOptions, Final_CheckPositionals, CheckRequiredOptions
  <2>2. UNCHANGED <<fixedVars, active_command, optionVars>>
    BY DEF Final_RestDeclared, Final_Positional, Final_Leftover,
           Final_CheckOptions, Final_CheckPositionals, CheckRequiredOptions,
           contextVars
  <2> QED
    BY <2>1, <2>2 DEF Finishing, Handling, fixedVars, optionVars
<1>2. PICK a, b : InFinal(active_command, a, b, stored)
  BY <1>1, FinalReached
<1>3. PICK c : c = active_command
  OBVIOUS
<1>4. InFinal(c, a, b, stored)
  BY <1>2, <1>3, Zenon
<1> QED
  BY <1>4, RestFollows, PositionalFollows, LeftoverFollows, CheckOptionsFollows,
     CheckPositionalsFollows

-----------------------------------------------------------------------------
(* What a parse comes to *)

\* What the promise is made for: see PositionalsDeclared and TokensFit.
PromiseApplies == PositionalsDeclared /\ TokensFit

\* Whether the promise is made depends on commands and tokens only.
LEMMA AppliesLater ==
  ASSUME UNCHANGED <<commands, args>>
  PROVE  PromiseApplies' <=> PromiseApplies
BY DEF PromiseApplies, PositionalsDeclared, TokensFit

\* No step changes the commands or the tokens, and none is taken once Parse()
\* has returned.
LEMMA StepKeepsLine ==
  ASSUME Step
  PROVE  status = "running" /\ UNCHANGED <<commands, args>>
BY DEF Step, Handling, fixedVars, InitialState_Value, InitialState_Other,
   IdentifyCommand_Value, IdentifyCommand_Other, ParseOptions_Value,
   ParseOptions_EndOfInput, ParseOptions_DashDash, ParseOptions_EqualSign,
   ParseOptions_ShortOption, ParseOptions_LongOption, ParseShortOption_Value,
   ParseShortOption_Other, ParseLongOption_EqualSign, ParseLongOption_Value,
   ParseLongOption_Other, DashDash_Any, Final_RestDeclared, Final_Positional,
   Final_Leftover, Final_CheckOptions, Final_CheckPositionals,
   CheckRequiredOptions, Finishing

\* What the parse has come to so far follows from the whole command line, and
\* still does after a step.
LEMMA StepFollows ==
  ASSUME IInv, CInv, ValueFlags, PromiseApplies, NoGaps,
         NEW stored \in [Keys -> Seq(OptionValues)], Follows(stored), Step
  PROVE  Follows(stored)'
<1>1. status = "running"
  BY StepKeepsLine
<1>2. Reading /\ (machine \in CommandKnown => Resolved(active_command))
  BY ResolutionIs DEF CInv
<1>3. CASE \/ InitialState_Value \/ InitialState_Other
  BY <1>3, InitialFollows DEF PromiseApplies
<1>4. CASE \/ IdentifyCommand_Value \/ IdentifyCommand_Other
  BY <1>4, IdentifyFollows DEF PromiseApplies
<1>5. CASE \/ ParseOptions_Value    \/ ParseOptions_EndOfInput
           \/ ParseOptions_DashDash \/ ParseOptions_EqualSign
           \/ ParseOptions_ShortOption \/ ParseOptions_LongOption
  <2>1. machine \in CommandKnown
    BY <1>5 DEF ParseOptions_Value, ParseOptions_EndOfInput,
       ParseOptions_DashDash, ParseOptions_EqualSign, ParseOptions_ShortOption,
       ParseOptions_LongOption, Handling, CommandKnown, MachineStates
  <2> QED
    BY <1>2, <1>5, <2>1, ParseOptionsFollows DEF PromiseApplies
<1>6. CASE \/ ParseShortOption_Value   \/ ParseShortOption_Other
           \/ ParseLongOption_EqualSign
           \/ ParseLongOption_Value    \/ ParseLongOption_Other
  <2>1. machine \in CommandKnown
    BY <1>6 DEF ParseShortOption_Value, ParseShortOption_Other,
       ParseLongOption_EqualSign, ParseLongOption_Value,
       ParseLongOption_Other, Handling, CommandKnown, MachineStates
  <2> QED
    BY <1>2, <1>6, <2>1, OptionStateFollows DEF PromiseApplies
<1>7. CASE DashDash_Any
  <2>1. machine = "DashDashState"
    BY <1>7 DEF DashDash_Any, Handling
  <2>2. machine # "DashDashState"
    BY <1>1 DEF Follows
  <2> QED
    BY <2>1, <2>2
<1>8. CASE \/ Final_RestDeclared \/ Final_Positional \/ Final_Leftover
           \/ Final_CheckOptions \/ Final_CheckPositionals
  <2>1. machine = "FinalState"
    BY <1>8 DEF Final_RestDeclared, Final_Positional, Final_Leftover,
       Final_CheckOptions, Final_CheckPositionals, CheckRequiredOptions,
       Finishing, Handling
  <2>2. machine \in CommandKnown
    BY <2>1 DEF CommandKnown, MachineStates
  <2> QED
    BY <1>2, <1>8, <2>2, FinalFollows DEF PromiseApplies
<1> QED
  BY <1>3, <1>4, <1>5, <1>6, <1>7, <1>8 DEF Step

\* A state that is left alone is as far as it was.
LEMMA AwaitedKept ==
  ASSUME NEW c, NEW p, NEW stored, Awaited(c, p, stored), UNCHANGED vars
  PROVE  Awaited(c, p, stored)'
<1>1. /\ UNCHANGED <<commands, args, machine, input, token, active_option>>
      /\ UNCHANGED <<positional_tokens, ovm, after_equal_sign>>
  BY DEF vars, fixedVars, loopVars, contextVars, optionVars
<1>2. PICK h : h = HandledCount /\ h = HandledCount'
  BY <1>1 DEF HandledCount
<1>3. PICK n : n = p - 1
  OBVIOUS
<1>4. Settled(c, n, stored)
  BY <1>3, Zenon DEF Awaited
<1>5. Settled(c, n, stored)'
  <2>1. Settled(c, n, stored)' <=>
          /\ n >= Promised!Start(c)
          /\ NamesRight(c, n, stored)
          /\ \A k \in Keys : ovm'[k] = stored[k] \o ValuesBy(c, k, n)
          /\ positional_tokens' = TextsBy(c, n)
    BY <1>1, SettledLater
  <2> QED
    BY <1>1, <1>4, <2>1 DEF Settled
<1>6. Settled(c, p - 1, stored)'
  BY <1>3, <1>5, Zenon
<1>7. /\ p \in Promised!NamesAfterPath(c)
      /\ Promised!OptionsNamed(c, p) # {}
      /\ active_option = Promised!First(Promised!OptionsNamed(c, p))
      /\ ~Promised!GivenBefore(c, p, stored)
      /\ machine = "ParseLongOptionState" <=> args[p].type = "LongOption"
      /\ IF after_equal_sign
           THEN h = p + 1 /\ Promised!WithEqualSign(p)
           ELSE h = p
  BY <1>2 DEF Awaited
<1> QED
  BY <1>1, <1>2, <1>6, <1>7, AwaitedLater

\* The same of the end of the line.
LEMMA EndKept ==
  ASSUME NEW c, c = active_command, NEW stored, EndReached(c, stored), UNCHANGED vars
  PROVE  EndReached(c, stored)'
<1>1. /\ UNCHANGED <<commands, args, token, active_command, positional_tokens, ovm>>
      /\ UNCHANGED <<next_positional, rest_option, options_checked>>
  BY DEF vars, fixedVars, loopVars, contextVars, finalVars
<1>2. PICK n : n = Len(args) /\ n = Len(args)'
  BY <1>1
<1>3. NamesRight(c, n, stored)'
  <2>1. NamesRight(c, n, stored)
    BY <1>2, Zenon DEF EndReached
  <2> QED
    BY <1>1, <2>1, SameDemands
<1>4. PICK a, b \in 0..n :
        /\ TakenSoFar(c, a, b)
        /\ ~options_checked /\ ~Promised!TooFewTokens(c)
             => StoredSoFar(c, a, b, stored)
  BY <1>2, Zenon DEF EndReached
<1>5. TakenSoFar(c, a, b)'
  BY <1>1, <1>4, TakenLater DEF TakenSoFar
<1>6. StoredSoFar(c, a, b, stored) => StoredSoFar(c, a, b, stored)'
  <2>1. StoredSoFar(c, a, b, stored) =>
          \A k \in Keys : ovm[k] = (stored[k] \o ValuesBy(c, k, Len(args)))
                                     \o Listed(TakenBy(c, k, a, b), ValueStored(c))
    BY Zenon DEF StoredSoFar, TakenBy
  <2>2. StoredSoFar(c, a, b, stored)' <=>
          \A k \in Keys : ovm'[k] = (stored[k] \o ValuesBy(c, k, Len(args)))
                                      \o Listed(TakenBy(c, k, a, b), ValueStored(c))
    BY <1>1, StoredLater
  <2> QED
    BY <1>1, <2>1, <2>2
<1>7. Promised!TooFewTokens(c)' <=> Promised!TooFewTokens(c)
  BY <1>1, SameEnd
<1>8. options_checked => OptionsFilled(c, stored)'
  <2>1. ASSUME options_checked PROVE OptionsFilled(c, stored)
    BY <2>1, Zenon DEF EndReached
  <2>2. OptionsFilled(c, stored) => OptionsFilled(c, stored)'
    BY <1>1, OptionsFilledLater DEF OptionsFilled, HasDefault, Lacks
  <2> QED
    BY <2>1, <2>2
<1>9. NamesRight(c, Len(args), stored)'
  BY <1>2, <1>3, Zenon
<1>10. token.type = "EndOfInput"
  BY Zenon DEF EndReached
<1>11. \E a_1, b_1 \in 0..n :
         /\ TakenSoFar(c, a_1, b_1)'
         /\ ~options_checked' /\ ~Promised!TooFewTokens(c)'
              => StoredSoFar(c, a_1, b_1, stored)'
  BY <1>1, <1>4, <1>5, <1>6, <1>7, Zenon
<1> QED
  BY <1>1, <1>2, <1>8, <1>9, <1>10, <1>11, Zenon DEF EndReached

\* A stuttering step keeps what follows.
LEMMA FollowsKept ==
  ASSUME NEW stored, Follows(stored), UNCHANGED vars
  PROVE  Follows(stored)'
<1>1. /\ UNCHANGED <<commands, args, machine, input, token, status>>
      /\ UNCHANGED <<active_command, positional_tokens, ovm, value_>>
      /\ UNCHANGED <<after_equal_sign, next_positional, rest_option>>
      /\ UNCHANGED <<options_checked>>
  BY DEF vars, fixedVars, loopVars, contextVars, optionVars, finalVars
<1>2. PICK c : c = active_command /\ c = active_command'
  BY <1>1
<1>3. PICK h : h = HandledCount /\ h = HandledCount'
  BY <1>1 DEF HandledCount
<1>4. Settled(c, h, stored) => Settled(c, h, stored)'
  BY <1>1, SettledLater DEF Settled
<1>5. CASE status \notin {"running", "accepted", "rejected", "undefined"}
  <2>1. after_equal_sign => machine = "ParseLongOptionState"
    BY DEF Follows
  <2> QED
    BY <1>1, <1>5, <2>1 DEF Follows
<1>6. CASE status \in {"accepted", "rejected", "undefined"}
  <2>1. OutcomeNow \in StoredOutcomes(stored)
    BY <1>6 DEF Follows
  <2>2. OutcomeNow' = OutcomeNow
    BY <1>1 DEF OutcomeNow
  <2>3. StoredOutcomes(stored)' = StoredOutcomes(stored)
    BY <1>1, SameOutcomes
  <2>4. after_equal_sign => machine = "ParseLongOptionState"
    BY DEF Follows
  <2> QED
    BY <1>1, <1>6, <2>1, <2>2, <2>3, <2>4, AfterReturn
<1>7. CASE status = "running"
  <2>1. /\ after_equal_sign => machine = "ParseLongOptionState"
        /\ machine \notin CommandKnown => ovm = stored /\ positional_tokens = <<>>
        /\ machine # "DashDashState"
        /\ machine # "FinalState" => /\ next_positional = 1 /\ rest_option = 0
                                     /\ ~options_checked
    BY <1>7 DEF Follows
  <2>2. machine = "ParseOptionsState"
          => Settled(c, h, stored)' /\ token.type # "EqualSign"
    BY <1>2, <1>3, <1>4, <1>7, Zenon DEF Follows
  <2>3. machine \in OptionStates /\ value_[machine] => ValueTaken(c, stored)'
    <3>1. ASSUME machine \in OptionStates, value_[machine]
          PROVE  Settled(c, h, stored) /\ h # 0 /\ args[h].type = "Value"
      BY <1>2, <1>3, <1>7, <3>1, Zenon DEF Follows, ValueTaken
    <3> QED
      BY <1>1, <1>3, <1>4, <3>1, Zenon DEF ValueTaken
  <2>4. machine \in OptionStates /\ ~value_[machine]
          => \E p \in DOMAIN args : Awaited(c, p, stored)'
    <3>1. ASSUME machine \in OptionStates, ~value_[machine]
          PROVE  \E p \in DOMAIN args : Awaited(c, p, stored)
      BY <1>2, <1>7, <3>1, Zenon DEF Follows
    <3> QED
      BY <3>1, AwaitedKept
  <2>5. machine = "FinalState" => EndReached(c, stored)'
    <3>1. ASSUME machine = "FinalState" PROVE EndReached(c, stored)
      BY <1>2, <1>7, <3>1, Zenon DEF Follows
    <3> QED
      BY <1>2, <3>1, EndKept
  <2> QED
    BY <1>1, <1>2, <1>3, <1>7, <2>1, <2>2, <2>3, <2>4, <2>5, Zenon DEF Follows
<1> QED
  BY <1>5, <1>6, <1>7

\* What a parse begins with.
LEMMA NoValuesBefore ==
  /\ Promised!NoValues \in [Keys -> Seq(OptionValues)]
  /\ Promised!NoValues = [k \in Keys |-> <<>>]
<1>1. <<>> \in Seq(OptionValues)
  OBVIOUS
<1> QED
  BY <1>1 DEF Promised!NoValues

\* It does at the start.
LEMMA InitFollows ==
  ASSUME Init
  PROVE  Follows(Promised!NoValues)
<1>1. /\ status = "running" /\ machine = "InitialState" /\ after_equal_sign = FALSE
      /\ ovm = [k \in Keys |-> <<>>] /\ positional_tokens = <<>>
      /\ next_positional = 1 /\ rest_option = 0 /\ options_checked = FALSE
  BY DEF Init
<1>2. machine \notin OptionStates
  BY <1>1 DEF OptionStates
<1> QED
  BY <1>1, <1>2, NoValuesBefore DEF Follows

\* For every CLI and command line the promise is made for, at every step: what
\* the state holds follows from the whole command line.
LEMMA FollowsHolds ==
  ASSUME NoGaps
  PROVE  Spec => [](PromiseApplies => Follows(Promised!NoValues))
<1> DEFINE Promising == PromiseApplies => Follows(Promised!NoValues)
<1>1. Init => Promising
  BY InitFollows
<1>2. IInv /\ CInv /\ OInv /\ Promising /\ [Next]_vars => Promising'
  <2> SUFFICES ASSUME IInv, CInv, OInv, Promising, [Next]_vars, PromiseApplies'
               PROVE  Follows(Promised!NoValues)'
    OBVIOUS
  <2>1. PICK stored \in [Keys -> Seq(OptionValues)] : stored = Promised!NoValues
    BY NoValuesBefore
  <2>2. stored = Promised!NoValues'
    BY <2>1 DEF Promised!NoValues
  <2>3. CASE Step
    <3>1. PromiseApplies
      BY <2>3, StepKeepsLine, AppliesLater
    <3>2. Follows(stored)
      BY <2>1, <3>1, Zenon
    <3>3. Follows(stored)'
      BY <2>3, <3>1, <3>2, StepFollows DEF OInv
    <3> QED
      BY <2>2, <3>3, Zenon
  <2>4. CASE UNCHANGED vars
    <3>1. PromiseApplies
      BY <2>4, AppliesLater DEF vars, fixedVars
    <3>2. Follows(stored)
      BY <2>1, <3>1, Zenon
    <3>3. Follows(stored)'
      BY <2>4, <3>2, FollowsKept
    <3> QED
      BY <2>2, <3>3, Zenon
  <2> QED
    BY <2>3, <2>4 DEF Next, Stopped
<1> QED
  BY <1>1, <1>2, InvariantHolds, CommandInvariant, AnswersHold, PTL DEF Spec

-----------------------------------------------------------------------------
(* The promise leaves the flag out *)

SeenOutcome(o) == Promised!Outcome(o.status, o.command, Seen(o.values))

\* A list looks empty when it is, and lists one after the other look like what
\* they look like one after the other.
LEMMA SeenLists ==
  ASSUME NEW S, NEW s \in Seq(S), NEW t \in Seq(S)
  PROVE  /\ SeenList(s) = <<>> <=> s = <<>>
         /\ SeenList(s \o t) = SeenList(s) \o SeenList(t)
<1> DEFINE Look(v) == [from |-> v.from, text |-> v.text]
           Looks   == {Look(v) : v \in S}
<1>1. ASSUME NEW u \in Seq(S)
      PROVE  /\ SeenList(u) \in Seq(Looks) /\ Len(SeenList(u)) = Len(u)
             /\ \A n \in 1..Len(u) : SeenList(u)[n] = Look(u[n])
  <2>1. /\ SeenList(u) = [n \in 1..Len(u) |-> Look(u[n])]
        /\ Len(u) \in Nat /\ \A n \in 1..Len(u) : u[n] \in S
    BY DEF SeenList
  <2>2. \A n \in 1..Len(u) : Look(u[n]) \in Looks
    BY <2>1
  <2> HIDE DEF Look, Looks
  <2>3. [n \in 1..Len(u) |-> Look(u[n])] \in Seq(Looks)
    BY <2>1, <2>2, IsASeq
  <2> QED
    BY <2>1, <2>3
<1> HIDE DEF Look, Looks
<1>2. /\ s \o t \in Seq(S) /\ Len(s \o t) = Len(s) + Len(t)
      /\ \A n \in 1..Len(s) + Len(t) :
           (s \o t)[n] = IF n <= Len(s) THEN s[n] ELSE t[n - Len(s)]
  BY ConcatProperties
<1>3. /\ SeenList(s) \o SeenList(t) \in Seq(Looks)
      /\ Len(SeenList(s) \o SeenList(t)) = Len(s) + Len(t)
      /\ \A n \in 1..Len(s) + Len(t) :
           (SeenList(s) \o SeenList(t))[n] =
             IF n <= Len(s) THEN SeenList(s)[n] ELSE SeenList(t)[n - Len(s)]
  <2>1. PICK p \in Seq(Looks), q \in Seq(Looks) :
          p = SeenList(s) /\ q = SeenList(t) /\ Len(p) = Len(s) /\ Len(q) = Len(t)
    BY <1>1, Zenon
  <2>2. /\ p \o q \in Seq(Looks) /\ Len(p \o q) = Len(p) + Len(q)
        /\ \A n \in 1..Len(p) + Len(q) :
             (p \o q)[n] = IF n <= Len(p) THEN p[n] ELSE q[n - Len(p)]
    BY ConcatProperties
  <2> QED
    BY <2>1, <2>2, Zenon
<1>4. /\ SeenList(s \o t) \in Seq(Looks)
      /\ Len(SeenList(s \o t)) = Len(s) + Len(t)
      /\ \A n \in 1..Len(s) + Len(t) : SeenList(s \o t)[n] = Look((s \o t)[n])
  BY <1>1, <1>2
<1>5. ASSUME NEW n \in 1..Len(s) + Len(t)
      PROVE  SeenList(s \o t)[n] = (SeenList(s) \o SeenList(t))[n]
  BY <1>1, <1>2, <1>3, <1>4
<1>6. SeenList(s \o t) = SeenList(s) \o SeenList(t)
  BY <1>3, <1>4, <1>5, SeqEqual
<1>7. SeenList(s) = <<>> <=> s = <<>>
  BY <1>1
<1> QED
  BY <1>6, <1>7

\* What is stored for a key, seen without the flags, is what is promised.
LEMMA SeenValues ==
  ASSUME NEW c, NEW k
  PROVE  /\ SeenList(StoredByName(c, k)) = Promised!NamedValues(c, k)
         /\ SeenList(StoredByPosition(c, k)) = Promised!PositionalValues(c, k)
<1> DEFINE Look(v) == [from |-> v.from, text |-> v.text]
<1>1. PICK none : none = ""
  BY Zenon
<1>2. ASSUME NEW f, NEW x, NEW d
      PROVE  Look([from |-> f, text |-> x, defaulted |-> d]) = Promised!Value(f, x)
  BY DEF Promised!Value
<1>3. ASSUME NEW i
      PROVE  Look(NameStores(c, i)) =
               IF Promised!HasExplicitValue(c, i)
                 THEN Promised!Value("token", args[Promised!ValueOf(i)].text)
                 ELSE Promised!Value("implicit", none)
  <2>1. ImplicitValue = [from |-> "implicit", text |-> none, defaulted |-> FALSE]
    BY <1>1, Zenon DEF ImplicitValue
  <2> HIDE DEF Look
  <2> QED
    BY <1>2, <2>1, Zenon DEF NameStores, TokenValue
<1>4. ASSUME NEW n
      PROVE  Look(PositionStores(c, n)) =
               Promised!Value("token", args[Promised!InOrder(Promised!Positional(c))[n]].text)
  <2> HIDE DEF Look
  <2> QED
    BY <1>2, Zenon DEF PositionStores, PositionalValue
<1>5. \A list : SeenList(list) = [n \in DOMAIN list |-> Look(list[n])]
  BY DEF SeenList
<1> HIDE DEF Look
<1>6. SeenList(StoredByName(c, k)) = Promised!NamedValues(c, k)
  <2>1. PICK at : at = NamesOfKey(c, k)
    OBVIOUS
  <2>2. StoredByName(c, k) = [n \in DOMAIN at |-> NameStores(c, at[n])]
    BY <2>1, Zenon DEF StoredByName
  <2>3. SeenList(StoredByName(c, k)) = [n \in DOMAIN at |-> Look(NameStores(c, at[n]))]
    BY <1>5, <2>2
  <2>4. Promised!NamedValues(c, k) =
          [n \in DOMAIN at |->
             IF Promised!HasExplicitValue(c, at[n])
               THEN Promised!Value("token", args[Promised!ValueOf(at[n])].text)
               ELSE Promised!Value("implicit", none)]
    BY <1>1, <2>1, Zenon DEF Promised!NamedValues, NamesOfKey
  <2> QED
    BY <1>3, <2>3, <2>4, Zenon
<1>7. SeenList(StoredByPosition(c, k)) = Promised!PositionalValues(c, k)
  <2>1. PICK at : at = TokensOfKey(c, k)
    OBVIOUS
  <2>2. StoredByPosition(c, k) = [n \in DOMAIN at |-> PositionStores(c, at[n])]
    BY <2>1, Zenon DEF StoredByPosition
  <2>3. SeenList(StoredByPosition(c, k))
          = [n \in DOMAIN at |-> Look(PositionStores(c, at[n]))]
    BY <1>5, <2>2
  <2>4. Promised!PositionalValues(c, k) =
          [n \in DOMAIN at |->
             Promised!Value("token",
               args[Promised!InOrder(Promised!Positional(c))[at[n]]].text)]
    BY <2>1, Zenon DEF Promised!PositionalValues, TokensOfKey, TakenFor
  <2> QED
    BY <1>4, <2>3, <2>4, Zenon
<1> QED
  BY <1>6, <1>7

\* Where nothing is stored, nothing is seen.
LEMMA NothingSeen == Seen(Promised!NoValues) = Promised!NoValues
<1>1. SeenList(<<>>) = <<>>
  BY DEF SeenList
<1> QED
  BY <1>1 DEF Seen, Promised!NoValues

\* What is stored by name or by position is a list of values.
LEMMA StoredLists ==
  ASSUME IInv, Reading, NEW c, NEW k
  PROVE  /\ StoredByName(c, k) \in Seq(OptionValues)
         /\ StoredByPosition(c, k) \in Seq(OptionValues)
<1>1. PICK m : m = Len(args)
  OBVIOUS
<1>2. m \in Nat /\ DOMAIN args = 1..m
  BY <1>1, LineTypes
<1>3. StoredByName(c, k) \in Seq(OptionValues)
  <2>1. ValuesBy(c, k, m) \in Seq(OptionValues)
    BY <1>2, ByTypes
  <2> QED
    BY <1>1, <2>1, NamedAreListed, Zenon
<1>4. PICK T, P, K : /\ T = Total(c) /\ P = Promised!Positional(c)
                     /\ K = TakenFor(c, k)
  OBVIOUS
<1>5. /\ T \in Nat /\ K \in SUBSET (1..T) /\ T = Cardinality(P)
      /\ P \in SUBSET (1..m) /\ DOMAIN ValueStored(c) = 1..T
  BY <1>2, <1>4, AllTexts, TakenPositions, NamesAndValues DEF Total
<1>6. ASSUME NEW n \in 1..T PROVE ValueStored(c)[n] \in OptionValues
  <2>1. PICK i : i = Promised!InOrder(P)[n]
    OBVIOUS
  <2>2. i \in DOMAIN args
    BY <1>2, <1>5, <2>1, InOrderElements
  <2>3. args[i].text \in Texts \cup {""}
    BY <2>2, LineTypes
  <2>4. ValueStored(c)[n] = PositionalValue(args[i].text)
    BY <1>4, <1>5, <2>1 DEF ValueStored
  <2> QED
    BY <2>3, <2>4, ValueTypes
<1>7. ValueStored(c) \in [1..T -> OptionValues]
  <2>1. ValueStored(c) = [n \in 1..T |-> ValueStored(c)[n]]
    BY <1>5 DEF ValueStored
  <2> QED
    BY <1>6, <2>1
<1>8. Listed(K, ValueStored(c)) \in Seq(OptionValues)
  BY <1>5, <1>7, ListedTypes
<1>9. StoredByPosition(c, k) \in Seq(OptionValues)
  BY <1>4, <1>8, PositionalsAreListed, Zenon
<1> QED
  BY <1>3, <1>9

\* Values look empty where they are.
LEMMA SeenEmpty ==
  ASSUME NEW values \in [Keys -> Seq(OptionValues)], NEW k \in Keys
  PROVE  Seen(values)[k] = <<>> <=> values[k] = <<>>
<1>1. values[k] \in Seq(OptionValues)
  OBVIOUS
<1>2. SeenList(values[k]) = <<>> <=> values[k] = <<>>
  BY <1>1, SeenLists
<1> QED
  BY <1>2, Zenon DEF Seen

\* What the promise asks of values depends on which keys have some.
LEMMA SeenDemands ==
  ASSUME IInv, Reading, NEW c \in DOMAIN commands,
         NEW values \in [Keys -> Seq(OptionValues)]
  PROVE  /\ Promised!WrongOption(c, Seen(values)) <=> Promised!WrongOption(c, values)
         /\ Promised!Complete(c, Seen(values)) <=> Promised!Complete(c, values)
<1>1. Promised!WrongOption(c, Seen(values)) <=> Promised!WrongOption(c, values)
  <2>1. ASSUME NEW i \in Promised!NamesAfterPath(c),
               Promised!OptionsNamed(c, i) # {}
        PROVE  Promised!GivenBefore(c, i, Seen(values))
                 <=> Promised!GivenBefore(c, i, values)
    <3>1. i \in DOMAIN args
      BY NamesAndValues
    <3>2. Promised!OptionAt(c, i).key \in Keys
      BY <2>1, <3>1, OptionFound
    <3>3. Seen(values)[Promised!OptionAt(c, i).key] = <<>>
            <=> values[Promised!OptionAt(c, i).key] = <<>>
      BY <3>2, SeenEmpty
    <3> QED
      BY <3>3, Zenon DEF Promised!GivenBefore
  <2> QED
    BY <2>1, Zenon DEF Promised!WrongOption
<1>2. Promised!Complete(c, Seen(values)) <=> Promised!Complete(c, values)
  <2>1. /\ commands[c].options \in Seq(Options)
        /\ commands[c].positionals \in Seq(Options)
    BY CommandTypes, ContextTypesOpened
  <2>2. ASSUME NEW a \in Promised!Arguments(c) PROVE a.key \in Keys
    <3>1. a \in Options
      BY <2>1, ElementTypes DEF Promised!Arguments, Promised!Declared
    <3> QED
      BY <3>1 DEF Options
  <2>3. ASSUME NEW a \in Promised!Arguments(c)
        PROVE  Seen(values)[a.key] = <<>> <=> values[a.key] = <<>>
    BY <2>2, SeenEmpty
  <2> QED
    BY <2>3, Zenon DEF Promised!Complete
<1> QED
  BY <1>1, <1>2

\* Whatever was stored before: the outcome for a command, seen without the
\* flags, is the one promised.
LEMMA SeenAsPromised ==
  ASSUME IInv, Reading, NEW c \in DOMAIN commands,
         NEW stored \in [Keys -> Seq(OptionValues)]
  PROVE  SeenOutcome(StoredOutcome(c, stored)) = Promised!OutcomeFor(c, Seen(stored))
<1>1. PICK given : given = StoredGiven(c, stored)
  OBVIOUS
<1>2. given \in [Keys -> Seq(OptionValues)] /\ Seen(given) = Promised!Given(c, Seen(stored))
  <2>1. ASSUME NEW k \in Keys
        PROVE  /\ given[k] \in Seq(OptionValues)
               /\ SeenList(given[k]) = Seen(stored)[k] \o Promised!NamedValues(c, k)
                                         \o Promised!PositionalValues(c, k)
    <3>1. PICK s, n, p : /\ s = stored[k] /\ n = StoredByName(c, k)
                         /\ p = StoredByPosition(c, k)
      OBVIOUS
    <3>2. s \in Seq(OptionValues) /\ n \in Seq(OptionValues) /\ p \in Seq(OptionValues)
      BY <3>1, StoredLists
    <3>3. given[k] = (s \o n) \o p
      BY <1>1, <3>1, Zenon DEF StoredGiven
    <3>4. s \o n \in Seq(OptionValues) /\ (s \o n) \o p \in Seq(OptionValues)
      BY <3>2
    <3>5. SeenList((s \o n) \o p) = (SeenList(s) \o SeenList(n)) \o SeenList(p)
      <4>1. SeenList((s \o n) \o p) = SeenList(s \o n) \o SeenList(p)
        BY <3>2, <3>4, SeenLists
      <4>2. SeenList(s \o n) = SeenList(s) \o SeenList(n)
        BY <3>2, SeenLists
      <4> QED
        BY <4>1, <4>2, Zenon
    <3>6. SeenList(s) = Seen(stored)[k]
      BY <3>1, Zenon DEF Seen
    <3> QED
      BY <3>1, <3>3, <3>4, <3>5, <3>6, SeenValues, Zenon
  <2>2. given = [k \in Keys |-> given[k]]
    BY <1>1 DEF StoredGiven
  <2>3. given \in [Keys -> Seq(OptionValues)]
    BY <2>1, <2>2
  <2>4. Seen(given) = Promised!Given(c, Seen(stored))
    BY <2>1, Zenon DEF Seen, Promised!Given
  <2> QED
    BY <2>3, <2>4
<1>3. PICK values : values = StoredWithDefaults(c, given)
  OBVIOUS
<1>4. /\ values \in [Keys -> Seq(OptionValues)]
      /\ Seen(values) = Promised!WithDefaults(c, Seen(given))
  <2>1. /\ <<DefaultValue>> \in Seq(OptionValues)
        /\ SeenList(<<DefaultValue>>) = <<Promised!Value("default", "")>>
    <3>1. PICK none : none = ""
      BY Zenon
    <3>2. PICK v : v = DefaultValue
      OBVIOUS
    <3>3. v = [from |-> "default", text |-> none, defaulted |-> FALSE]
      BY <3>1, <3>2, Zenon DEF DefaultValue
    <3>4. v \in OptionValues
      BY <3>2, ValueTypes
    <3>5. SeenList(<<v>>) = <<Promised!Value("default", none)>>
      BY <3>3 DEF SeenList, Promised!Value
    <3>6. <<v>> \in Seq(OptionValues)
      BY <3>4
    <3> QED
      BY <3>1, <3>2, <3>5, <3>6, Zenon
  <2>2. \A k \in Keys :
          values[k] = IF given[k] = <<>> /\ \E a \in Promised!Arguments(c) :
                                              a.key = k /\ a.default
                        THEN <<DefaultValue>> ELSE given[k]
    BY <1>3, Zenon DEF StoredWithDefaults
  <2>3. values = [k \in Keys |-> values[k]]
    BY <1>3 DEF StoredWithDefaults
  <2>4. \A k \in Keys : values[k] \in Seq(OptionValues)
    BY <1>2, <2>1, <2>2
  <2>5. values \in [Keys -> Seq(OptionValues)]
    BY <2>3, <2>4
  <2>6. ASSUME NEW k \in Keys
        PROVE  SeenList(values[k]) =
                 IF Seen(given)[k] = <<>> /\ \E a \in Promised!Arguments(c) :
                                               a.key = k /\ a.default
                   THEN <<Promised!Value("default", "")>> ELSE Seen(given)[k]
    <3>1. Seen(given)[k] = <<>> <=> given[k] = <<>>
      BY <1>2, SeenEmpty
    <3>2. Seen(given)[k] = SeenList(given[k])
      BY Zenon DEF Seen
    <3> QED
      BY <2>1, <2>2, <3>1, <3>2, Zenon
  <2>7. Seen(values) = Promised!WithDefaults(c, Seen(given))
    BY <2>6, Zenon DEF Seen, Promised!WithDefaults
  <2> QED
    BY <2>5, <2>7
<1>5. /\ Promised!WrongOption(c, Seen(stored)) <=> Promised!WrongOption(c, stored)
      /\ Promised!Complete(c, Seen(values)) <=> Promised!Complete(c, values)
  BY <1>4, SeenDemands
<1>6. Seen(Promised!NoValues) = Promised!NoValues
  BY NothingSeen
<1>7. ASSUME NEW st, NEW d, NEW vs
      PROVE  SeenOutcome(Promised!Outcome(st, d, vs)) = Promised!Outcome(st, d, Seen(vs))
  BY DEF SeenOutcome, Promised!Outcome
<1>8. /\ SeenOutcome(Promised!Rejected) = Promised!Rejected
      /\ SeenOutcome(Promised!Undefined) = Promised!Undefined
      /\ SeenOutcome(Promised!Outcome("accepted", c, values))
           = Promised!Outcome("accepted", c, Seen(values))
  BY <1>6, <1>7, Zenon DEF Promised!Rejected, Promised!Undefined
<1>9. StoredOutcome(c, stored) =
        IF Promised!WrongOption(c, stored) THEN Promised!Rejected
        ELSE IF Promised!TooFewTokens(c) THEN Promised!Undefined
        ELSE IF Promised!TooManyTokens(c) \/ ~Promised!Complete(c, values)
          THEN Promised!Rejected
        ELSE Promised!Outcome("accepted", c, values)
  BY <1>1, <1>3, Zenon DEF StoredOutcome
<1>10. Promised!OutcomeFor(c, Seen(stored)) =
        IF Promised!WrongOption(c, stored) THEN Promised!Rejected
        ELSE IF Promised!TooFewTokens(c) THEN Promised!Undefined
        ELSE IF Promised!TooManyTokens(c) \/ ~Promised!Complete(c, values)
          THEN Promised!Rejected
        ELSE Promised!Outcome("accepted", c, Seen(values))
  <2>1. Seen(values) = Promised!WithDefaults(c, Promised!Given(c, Seen(stored)))
    BY <1>2, <1>4, Zenon
  <2> QED
    BY <1>5, <2>1, Zenon DEF Promised!OutcomeFor
<1> QED
  BY <1>8, <1>9, <1>10, Zenon

\* So are all the outcomes there may be, and the one of the parse.
LEMMA SeenOutcomes ==
  ASSUME IInv, Reading, NEW stored \in [Keys -> Seq(OptionValues)],
         NEW o \in StoredOutcomes(stored)
  PROVE  SeenOutcome(o) \in Promised!Outcomes(Seen(stored))
<1>1. CASE Promised!Candidates = {}
  <2>1. o = Promised!Rejected
    BY <1>1 DEF StoredOutcomes
  <2>2. SeenOutcome(Promised!Rejected) = Promised!Rejected
    <3>1. SeenOutcome(Promised!Rejected)
            = Promised!Outcome("rejected", 0, Seen(Promised!NoValues))
      BY DEF SeenOutcome, Promised!Rejected, Promised!Outcome
    <3> QED
      BY <3>1, NothingSeen, Zenon DEF Promised!Rejected
  <2> QED
    BY <1>1, <2>1, <2>2, Zenon DEF Promised!Outcomes
<1>2. CASE Promised!Candidates # {}
  <2>1. PICK c \in Promised!Candidates : o = StoredOutcome(c, stored)
    BY <1>2, Zenon DEF StoredOutcomes
  <2>2. c \in DOMAIN commands
    BY DEF Promised!Candidates, Promised!Deepest, Promised!Named
  <2>3. SeenOutcome(o) = Promised!OutcomeFor(c, Seen(stored))
    BY <2>1, <2>2, SeenAsPromised
  <2> QED
    BY <1>2, <2>3, Zenon DEF Promised!Outcomes
<1> QED
  BY <1>1, <1>2

\* What the parse has come to, without the flags.
LEMMA OutcomeSeen == Outcome = SeenOutcome(OutcomeNow)
<1>1. SeenOutcome(OutcomeNow)
        = Promised!Outcome(status, IF status = "accepted" THEN active_command ELSE 0,
            Seen(IF status = "accepted" THEN ovm ELSE [k \in Keys |-> <<>>]))
  BY DEF SeenOutcome, OutcomeNow
<1>2. Seen([k \in Keys |-> <<>>]) = [k \in Keys |-> <<>>]
  BY NothingSeen DEF Promised!NoValues
<1>3. Seen(IF status = "accepted" THEN ovm ELSE [k \in Keys |-> <<>>])
        = IF status = "accepted" THEN Seen(ovm) ELSE [k \in Keys |-> <<>>]
  BY <1>2, Zenon
<1> QED
  BY <1>1, <1>3, Zenon DEF Outcome, Promised!Outcome

\* The same in the next state.
LEMMA OutcomeSeenLater == (Outcome = SeenOutcome(OutcomeNow))'
BY OutcomeSeen, PTL

\* A step of the parser is the one step of the promise, or none that can be
\* seen from outside.
LEMMA StepReturns ==
  ASSUME IInv, Reading, Follows(Promised!NoValues)', Step, status' # "aborted", IInv'
  PROVE  \/ Promised!Return
         \/ UNCHANGED <<commands, args, Outcome>>
<1>1. status = "running" /\ UNCHANGED <<commands, args>>
  BY StepKeepsLine
<1>2. Outcome = Promised!Running
  BY <1>1 DEF Outcome, Promised!Running, Promised!Outcome, Promised!NoValues
<1>3. CASE status' = "running"
  BY <1>1, <1>3 DEF Outcome
<1>4. CASE status' # "running"
  <2>1. status' \in {"accepted", "rejected", "undefined"}
    BY <1>4 DEF IInv, TypeOK, LoopTypeOK, Statuses
  <2>2. PICK stored \in [Keys -> Seq(OptionValues)] : stored = Promised!NoValues
    BY NoValuesBefore
  <2>3. stored = Promised!NoValues'
    BY <2>2 DEF Promised!NoValues
  <2>4. Follows(stored)'
    BY <2>3, Zenon
  <2>5. PICK o : o = OutcomeNow'
    OBVIOUS
  <2>6. o \in StoredOutcomes(stored)'
    BY <2>1, <2>4, <2>5 DEF Follows
  <2>7. StoredOutcomes(stored)' = StoredOutcomes(stored)
    BY <1>1, SameOutcomes
  <2>8. SeenOutcome(o) \in Promised!Outcomes(Seen(stored))
    BY <2>6, <2>7, SeenOutcomes
  <2>9. Outcome' = SeenOutcome(o)
    <3>1. Outcome' = SeenOutcome(OutcomeNow)'
      BY OutcomeSeenLater
    <3>2. SeenOutcome(OutcomeNow)' = SeenOutcome(o)
      BY <2>5 DEF SeenOutcome, Promised!Outcome, Seen, SeenList
    <3> QED
      BY <3>1, <3>2, Zenon
  <2>10. Outcome' \in Promised!Outcomes(Promised!NoValues)
    BY <2>2, <2>8, <2>9, NothingSeen, Zenon
  <2> QED
    BY <1>1, <1>2, <2>10 DEF Promised!Return
<1> QED
  BY <1>3, <1>4

\* For every list of commands and every command line that the promise is made
\* for, and unless a contract stops it: a parse comes to nothing before it
\* returns, and then to what ParseSpec promises from the whole command line -
\* the command, every value of every option and positional argument, and
\* whether it is rejected.
THEOREM ParseIsImplemented ==
  ASSUME NoGaps
  PROVE  Spec /\ PromiseApplies /\ []ContractsKept => Promised!Safety
<1> DEFINE Promising == PromiseApplies => Follows(Promised!NoValues)
<1>1. Init => Promised!Init
  BY DEF Init, Outcome, Promised!Init, Promised!Running, Promised!Outcome,
         Promised!NoValues
<1>2. [Next]_vars /\ PromiseApplies => PromiseApplies'
  BY StepKeepsLine, AppliesLater DEF Next, Stopped, vars, fixedVars
<1>3. /\ IInv /\ CInv
      /\ IInv' /\ Promising' /\ PromiseApplies' /\ ContractsKept' /\ [Next]_vars
      => [Promised!Return]_<<commands, args, Outcome>>
  <2> SUFFICES ASSUME IInv, CInv, IInv', Promising', PromiseApplies', ContractsKept', [Next]_vars
               PROVE  [Promised!Return]_<<commands, args, Outcome>>
    OBVIOUS
  <2>1. CASE Step
    <3>1. Follows(Promised!NoValues)' /\ status' # "aborted"
      BY Zenon DEF ContractsKept
    <3>2. Reading
      BY <2>1, StepKeepsLine DEF CInv
    <3> QED
      BY <2>1, <3>1, <3>2, StepReturns
  <2>2. CASE UNCHANGED vars
    <3>1. UNCHANGED <<commands, args, status, active_command, ovm>>
      BY <2>2 DEF vars, fixedVars, loopVars, contextVars
    <3> QED
      BY <3>1 DEF Outcome, Seen, SeenList
  <2> QED
    BY <2>1, <2>2 DEF Next, Stopped
<1>4. Spec => []IInv /\ []CInv /\ []Promising
  BY InvariantHolds, CommandInvariant, FollowsHolds
<1> QED
  BY <1>1, <1>2, <1>3, <1>4, PTL DEF Spec, Promised!Safety

\* A release build checks no contracts, and no step of it aborts.
LEMMA ReleaseStep ==
  ASSUME ~ContractsEnforced, Step
  PROVE  status' # "aborted"
<1>1. status = "running"
  BY StepKeepsLine
<1>2. /\ \A s : Proceed(s) => status' # "aborted"
      /\ \A s : Reissue(s) => status' # "aborted"
      /\ \A e : ReportError(e) => status' # "aborted"
      /\ Undefined => status' # "aborted"
      /\ EnterParseOptions => status' # "aborted"
      /\ UNCHANGED loopVars => status' # "aborted"
  BY <1>1 DEF Proceed, Reissue, ReportError, Undefined, EnterParseOptions, loopVars
<1>3. CASE \/ InitialState_Value \/ InitialState_Other
  BY <1>3, StartAborts
<1>4. CASE \/ IdentifyCommand_Value \/ IdentifyCommand_Other
  <2>1. CASE IdentifyCommand_Value
    BY <1>2, <2>1, Zenon DEF IdentifyCommand_Value, EnterFinal, FallBackToDefault
  <2>2. CASE IdentifyCommand_Other
    BY <1>2, <2>2, Zenon DEF IdentifyCommand_Other, EnterFinal, FallBackToDefault
  <2> QED
    BY <1>4, <2>1, <2>2
<1>5. CASE \/ ParseOptions_Value    \/ ParseOptions_EndOfInput
           \/ ParseOptions_DashDash \/ ParseOptions_EqualSign
           \/ ParseOptions_ShortOption \/ ParseOptions_LongOption
  BY <1>2, <1>5, Zenon DEF ParseOptions_Value, ParseOptions_EndOfInput,
     ParseOptions_DashDash, ParseOptions_EqualSign, ParseOptions_ShortOption,
     ParseOptions_LongOption, EnterOption, EnterFinal
<1>6. CASE \/ ParseShortOption_Value   \/ ParseShortOption_Other
           \/ ParseLongOption_EqualSign
           \/ ParseLongOption_Value    \/ ParseLongOption_Other
  BY <1>2, <1>6, Zenon DEF ParseShortOption_Value, ParseShortOption_Other,
     ParseLongOption_EqualSign, ParseLongOption_Value,
     ParseLongOption_Other, LeaveOption, TakeValue
<1>7. CASE DashDash_Any
  BY <1>2, <1>7, Zenon DEF DashDash_Any
<1>8. CASE \/ Final_RestDeclared \/ Final_Positional \/ Final_Leftover
           \/ Final_CheckOptions \/ Final_CheckPositionals
  BY <1>1, <1>2, <1>8 DEF Final_RestDeclared, Final_Positional,
     Final_Leftover, Final_CheckOptions, Final_CheckPositionals,
     CheckRequiredOptions
<1> QED
  BY <1>3, <1>4, <1>5, <1>6, <1>7, <1>8 DEF Step

\* The promise of ParseSpec is kept in full by a release build, for every list
\* of commands and every command line that the promise is made for, provided
\* that the parse returns: whatever TLC finds of the returning on small command
\* lines, the outcome is proved for all.
THEOREM ParseKeepsItsPromise ==
  ASSUME NoGaps, ~ContractsEnforced
  PROVE  Spec /\ PromiseApplies /\ <>(status # "running") => ImplementsParseSpec
<1>1. Spec => []ContractsKept
  <2>1. Init => ContractsKept
    BY DEF Init, ContractsKept
  <2>2. ContractsKept /\ [Next]_vars => ContractsKept'
    BY ReleaseStep DEF Next, Stopped, ContractsKept, vars, loopVars
  <2> QED
    BY <2>1, <2>2, PTL DEF Spec
<1>2. Spec /\ PromiseApplies /\ []ContractsKept => Promised!Safety
  BY ParseIsImplemented
<1>3. status # "running" => Outcome # Promised!Running
  BY DEF Outcome, Promised!Running, Promised!Outcome
<1> QED
  BY <1>1, <1>2, <1>3, PTL DEF ImplementsParseSpec, Promised!Spec

=============================================================================

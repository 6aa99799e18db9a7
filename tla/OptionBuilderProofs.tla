------------------------ MODULE OptionBuilderProofs ------------------------
(***************************************************************************)
(* Proofs about OptionBuilder, for every order and number of the calls on  *)
(* builders, every set of types and every text.                            *)
(***************************************************************************)
EXTENDS OptionBuilder, Lemmas

-----------------------------------------------------------------------------
(* Sequences of objects *)

\* A new object is the last one; the others keep their number.
LEMMA NewObject ==
  ASSUME NEW S, NEW s \in Seq(S), NEW e \in S
  PROVE  /\ Append(s, e) \in Seq(S)
         /\ Len(Append(s, e)) = Len(s) + 1
         /\ DOMAIN Append(s, e) = 1..Len(s) + 1
         /\ DOMAIN s = 1..Len(s) /\ Len(s) \in Nat
         /\ \A i \in DOMAIN s : Append(s, e)[i] = s[i]
         /\ Append(s, e)[Len(s) + 1] = e
  BY AppendProperties

\* Changing one object leaves the others, and their number.
LEMMA ChangedObject ==
  ASSUME NEW S, NEW s \in Seq(S), NEW i \in DOMAIN s, NEW e \in S
  PROVE  LET changed == [s EXCEPT ![i] = e]
         IN  /\ changed \in Seq(S)
             /\ Len(changed) = Len(s)
             /\ DOMAIN changed = DOMAIN s
             /\ changed[i] = e
             /\ \A j \in DOMAIN s \ {i} : changed[j] = s[j]
  BY ExceptSeq

\* Sequences over a set are sequences over a larger one.
LEMMA SeqOfLarger ==
  ASSUME NEW S, NEW T, S \subseteq T, NEW s \in Seq(S)
  PROVE  s \in Seq(T)
  OBVIOUS

LEMMA ElementsOf ==
  ASSUME NEW S, NEW s \in Seq(S)
  PROVE  /\ Len(s) \in Nat /\ DOMAIN s = 1..Len(s)
         /\ \A i \in DOMAIN s : s[i] \in S
  OBVIOUS

-----------------------------------------------------------------------------
(* The invariant *)

\* What the program has is not in a builder any more.
GivenAway ==
  \A b \in DOMAIN builders, n \in DOMAIN given :
    given[n] # 0 => builders[b].option_ # given[n]

\* No two builders own the same option.
OneBuilderEach ==
  \A a, b \in DOMAIN builders :
    builders[a].option_ # 0 /\ builders[a].option_ = builders[b].option_ => a = b

IInv ==
  /\ TypeOK
  /\ OneBuilderEach
  /\ GivenAway
  /\ ValueBuilderReachesOption

OptionRecords(descriptor_count) ==
  [named : BOOLEAN, required : BOOLEAN, value_semantic_ : 0..descriptor_count]

DescriptorRecords ==
  [type : Types, implicit : BOOLEAN, default : BOOLEAN, repeatable : BOOLEAN]

BuilderRecords(option_count, descriptor_count) ==
  [option_ : 0..option_count, value_descriptor_ : 0..descriptor_count]

\* The type invariant, in the parts that the proofs need.
LEMMA TypeParts ==
  ASSUME TypeOK
  PROVE  /\ options \in Seq(OptionRecords(Len(descriptors)))
         /\ descriptors \in Seq(DescriptorRecords)
         /\ builders \in Seq(BuilderRecords(Len(options), Len(descriptors)))
         /\ given \in Seq(0..Len(options))
  BY DEF TypeOK, Pointers, OptionRecords, DescriptorRecords, BuilderRecords

LEMMA TypeElements ==
  ASSUME TypeOK
  PROVE  /\ Len(options) \in Nat /\ DOMAIN options = 1..Len(options)
         /\ Len(descriptors) \in Nat /\ DOMAIN descriptors = 1..Len(descriptors)
         /\ Len(builders) \in Nat /\ DOMAIN builders = 1..Len(builders)
         /\ Len(given) \in Nat /\ DOMAIN given = 1..Len(given)
         /\ \A i \in DOMAIN options :
              /\ options[i] \in OptionRecords(Len(descriptors))
              /\ options[i].value_semantic_ \in 0..Len(descriptors)
         /\ \A i \in DOMAIN descriptors : descriptors[i] \in DescriptorRecords
         /\ \A i \in DOMAIN builders :
              /\ builders[i] \in BuilderRecords(Len(options), Len(descriptors))
              /\ builders[i].option_ \in 0..Len(options)
              /\ builders[i].value_descriptor_ \in 0..Len(descriptors)
         /\ \A n \in DOMAIN given : given[n] \in 0..Len(options)
<1>1. /\ Len(options) \in Nat /\ DOMAIN options = 1..Len(options)
      /\ \A i \in DOMAIN options : options[i] \in OptionRecords(Len(descriptors))
  BY TypeParts, ElementsOf
<1>2. /\ Len(descriptors) \in Nat /\ DOMAIN descriptors = 1..Len(descriptors)
      /\ \A i \in DOMAIN descriptors : descriptors[i] \in DescriptorRecords
  BY TypeParts, ElementsOf
<1>3. /\ Len(builders) \in Nat /\ DOMAIN builders = 1..Len(builders)
      /\ \A i \in DOMAIN builders :
           builders[i] \in BuilderRecords(Len(options), Len(descriptors))
  BY TypeParts, ElementsOf
<1>4. /\ Len(given) \in Nat /\ DOMAIN given = 1..Len(given)
      /\ \A n \in DOMAIN given : given[n] \in 0..Len(options)
  BY TypeParts, ElementsOf
<1>5. \A i \in DOMAIN options : options[i].value_semantic_ \in 0..Len(descriptors)
  BY <1>1 DEF OptionRecords
<1>6. \A i \in DOMAIN builders :
        /\ builders[i].option_ \in 0..Len(options)
        /\ builders[i].value_descriptor_ \in 0..Len(descriptors)
  BY <1>3 DEF BuilderRecords
<1> QED
  BY <1>1, <1>2, <1>3, <1>4, <1>5, <1>6

\* And put together again after a step.
LEMMA TypeFromParts ==
  ASSUME options' \in Seq(OptionRecords(Len(descriptors'))),
         descriptors' \in Seq(DescriptorRecords),
         builders' \in Seq(BuilderRecords(Len(options'), Len(descriptors'))),
         given' \in Seq(0..Len(options')),
         status' \in {"running", "aborted", "undefined"},
         calls' \in 0..MaxCalls, Len(answer') <= 1
  PROVE  TypeOK'
  BY DEF TypeOK, Pointers, OptionRecords, DescriptorRecords, BuilderRecords

\* Pointers stay in range when there are more objects.
LEMMA MoreObjects ==
  ASSUME NEW n \in Nat, NEW m \in Nat
  PROVE  /\ OptionRecords(m) \subseteq OptionRecords(m + 1)
         /\ BuilderRecords(n, m) \subseteq BuilderRecords(n + 1, m)
         /\ BuilderRecords(n, m) \subseteq BuilderRecords(n, m + 1)
         /\ 0..n \subseteq 0..n + 1
  BY DEF OptionRecords, BuilderRecords

\* Nothing but the outcome of the program changes.
LEMMA NothingChanges ==
  ASSUME IInv,
         UNCHANGED <<objectVars, builders, given>>,
         status' \in {"running", "aborted", "undefined"},
         calls' \in 0..MaxCalls, Len(answer') <= 1
  PROVE  IInv' /\ BuiltOptionsKept
<1> USE DEF IInv, objectVars
<1>1. TypeOK'
  BY DEF TypeOK, Pointers
<1>2. OneBuilderEach' /\ GivenAway'
  BY DEF OneBuilderEach, GivenAway
<1>3. ValueBuilderReachesOption'
  BY DEF ValueBuilderReachesOption
<1>4. BuiltOptionsKept
  BY DEF BuiltOptionsKept
<1> QED
  BY <1>1, <1>2, <1>3, <1>4

\* A call counts.
LEMMA CallCounts ==
  ASSUME TypeOK, Call
  PROVE  calls' \in 0..MaxCalls /\ Len(answer') <= 1
  BY MaxCallsAssumption DEF TypeOK, Call

\* A contract that fails.
LEMMA MisusedKeeps ==
  ASSUME IInv, Misused, calls' \in 0..MaxCalls, Len(answer') <= 1
  PROVE  IInv' /\ BuiltOptionsKept
  BY NothingChanges DEF Misused

-----------------------------------------------------------------------------
(* The calls *)

\* A new builder has a new option, which nobody has yet.
LEMMA WithKeyKeeps ==
  ASSUME IInv, WithKey
  PROVE  IInv' /\ BuiltOptionsKept
<1> DEFINE o == Option(FALSE, FALSE, 0)
           b == Builder(Len(options) + 1, 0)
           n == Len(options)
           m == Len(descriptors)
<1>0. TypeOK /\ OneBuilderEach /\ GivenAway /\ ValueBuilderReachesOption
  BY DEF IInv
<1>1. Call /\ options' = Append(options, o) /\ builders' = Append(builders, b)
        /\ UNCHANGED <<descriptors, given, status>>
  BY DEF WithKey
<1>2. o \in OptionRecords(m)
  BY <1>0, TypeElements DEF Option, OptionRecords
<1>3. /\ b \in BuilderRecords(n + 1, m)
      /\ b.option_ = n + 1 /\ b.value_descriptor_ = 0
  BY <1>0, TypeElements DEF Builder, BuilderRecords
<1> HIDE DEF o, b
<1>4. /\ options' \in Seq(OptionRecords(m))
      /\ Len(options') = n + 1
      /\ \A i \in DOMAIN options : options'[i] = options[i]
  BY <1>0, <1>1, <1>2, TypeParts, NewObject
<1>5. /\ builders' \in Seq(BuilderRecords(n + 1, m))
      /\ DOMAIN builders' = 1..Len(builders) + 1
      /\ \A i \in DOMAIN builders : builders'[i] = builders[i]
      /\ builders'[Len(builders) + 1] = b
  <2>1. builders \in Seq(BuilderRecords(n + 1, m))
    BY <1>0, TypeParts, TypeElements, MoreObjects, SeqOfLarger, SMTT(30)
  <2> QED
    BY <1>1, <1>3, <2>1, NewObject
<1>6. TypeOK'
  <2>1. given' \in Seq(0..n + 1)
    BY <1>0, <1>1, TypeParts, TypeElements, MoreObjects, SeqOfLarger, SMTT(30)
  <2> QED
    BY <1>0, <1>1, <1>4, <1>5, <2>1, TypeParts, CallCounts, TypeFromParts DEF TypeOK
<1>7. \A i \in DOMAIN builders' :
        \/ i \in DOMAIN builders /\ builders'[i] = builders[i]
           /\ builders[i].option_ \in 0..n
        \/ i = Len(builders) + 1 /\ builders'[i].option_ = n + 1
           /\ builders'[i].value_descriptor_ = 0
  BY <1>0, <1>3, <1>5, TypeElements
<1>8. n \in Nat
  BY <1>0, TypeElements
<1> HIDE DEF n, m
<1>9. OneBuilderEach'
  BY <1>0, <1>7, <1>8 DEF OneBuilderEach
<1>10. GivenAway'
  <2>1. \A k \in DOMAIN given : given[k] \in 0..n
    BY <1>0, TypeElements DEF n
  <2> QED
    BY <1>0, <1>1, <1>7, <1>8, <2>1 DEF GivenAway
<1>11. ValueBuilderReachesOption'
  <2>1. \A i \in DOMAIN builders : builders[i].option_ # 0 =>
          options'[builders[i].option_] = options[builders[i].option_]
    BY <1>0, <1>4, TypeElements
  <2> QED
    BY <1>0, <1>7, <2>1 DEF ValueBuilderReachesOption
<1>12. BuiltOptionsKept
  <2>1. \A k \in DOMAIN given : given[k] # 0 => options'[given[k]] = options[given[k]]
    BY <1>0, <1>4, TypeElements
  <2> QED
    BY <1>1, <2>1 DEF BuiltOptionsKept
<1> QED
  BY <1>6, <1>9, <1>10, <1>11, <1>12 DEF IInv

\* What changes an option, but not its descriptor, changes one that a builder
\* owns.
LEMMA ChangeOptionKeeps ==
  ASSUME IInv, Call, NEW b \in DOMAIN builders, builders[b].option_ # 0,
         NEW changed \in OptionRecords(Len(descriptors)),
         changed.value_semantic_ = options[builders[b].option_].value_semantic_,
         ChangeOption(b, changed)
  PROVE  IInv' /\ BuiltOptionsKept
<1> DEFINE o == builders[b].option_
<1>0. TypeOK /\ OneBuilderEach /\ GivenAway /\ ValueBuilderReachesOption
  BY DEF IInv
<1>1. options' = [options EXCEPT ![o] = changed]
        /\ UNCHANGED <<descriptors, builders, given, status>>
  BY DEF ChangeOption
<1>2. o \in DOMAIN options
  BY <1>0, TypeElements
<1>3. /\ options' \in Seq(OptionRecords(Len(descriptors)))
      /\ Len(options') = Len(options)
      /\ options'[o] = changed
      /\ \A i \in DOMAIN options \ {o} : options'[i] = options[i]
  <2> HIDE DEF o
  <2> QED
    BY <1>0, <1>1, <1>2, TypeParts, ChangedObject
<1>4. TypeOK'
  BY <1>0, <1>1, <1>3, TypeParts, CallCounts, TypeFromParts DEF TypeOK
<1>5. OneBuilderEach' /\ GivenAway'
  BY <1>0, <1>1 DEF OneBuilderEach, GivenAway
<1>6. ValueBuilderReachesOption'
  <2>1. \A i \in DOMAIN options :
          options'[i].value_semantic_ = options[i].value_semantic_
    BY <1>3
  <2>2. \A i \in DOMAIN builders :
          builders[i].option_ # 0 => builders[i].option_ \in DOMAIN options
    BY <1>0, TypeElements
  <2> QED
    BY <1>0, <1>1, <2>1, <2>2 DEF ValueBuilderReachesOption
<1>7. BuiltOptionsKept
  <2>1. \A k \in DOMAIN given : given[k] # 0 => given[k] \in DOMAIN options \ {o}
    BY <1>0, TypeElements DEF GivenAway
  <2> QED
    BY <1>1, <1>3, <2>1 DEF BuiltOptionsKept
<1> QED
  BY <1>4, <1>5, <1>6, <1>7 DEF IInv

\* Short, Long and Required.
LEMMA NameKeeps ==
  ASSUME IInv, NEW b \in DOMAIN builders, Name(b)
  PROVE  IInv' /\ BuiltOptionsKept
<1> DEFINE o == builders[b].option_
           changed == [options[o] EXCEPT !.named = TRUE]
<1>0. TypeOK /\ Call
  BY DEF IInv, Name
<1>1. CASE o = 0
  BY <1>0, <1>1, CallCounts, MisusedKeeps DEF Name
<1>2. CASE o # 0
  <2>1. o \in DOMAIN options
    BY <1>0, <1>2, TypeElements
  <2>2. changed \in OptionRecords(Len(descriptors))
          /\ changed.value_semantic_ = options[o].value_semantic_
    BY <1>0, <2>1, TypeElements DEF OptionRecords
  <2>3. ChangeOption(b, changed)
    BY <1>2 DEF Name
  <2> HIDE DEF changed
  <2> QED
    BY <1>0, <1>2, <2>2, <2>3, ChangeOptionKeeps
<1> QED
  BY <1>1, <1>2

LEMMA RequiredKeeps ==
  ASSUME IInv, NEW b \in DOMAIN builders, Required(b)
  PROVE  IInv' /\ BuiltOptionsKept
<1> DEFINE o == builders[b].option_
           changed == [options[o] EXCEPT !.required = TRUE]
<1>0. TypeOK /\ Call
  BY DEF IInv, Required
<1>1. CASE o = 0
  BY <1>0, <1>1, CallCounts, MisusedKeeps DEF Required
<1>2. CASE o # 0
  <2>1. o \in DOMAIN options
    BY <1>0, <1>2, TypeElements
  <2>2. changed \in OptionRecords(Len(descriptors))
          /\ changed.value_semantic_ = options[o].value_semantic_
    BY <1>0, <2>1, TypeElements DEF OptionRecords
  <2>3. ChangeOption(b, changed)
    BY <1>2 DEF Required
  <2> HIDE DEF changed
  <2> QED
    BY <1>0, <1>2, <2>2, <2>3, ChangeOptionKeeps
<1> QED
  BY <1>1, <1>2

\* A builder gives its option away, and keeps the rest.
LEMMA OptionMoved ==
  ASSUME TypeOK, NEW b \in DOMAIN builders
  PROVE  /\ MoveOption(b) \in Seq(BuilderRecords(Len(options), Len(descriptors)))
         /\ Len(MoveOption(b)) = Len(builders)
         /\ DOMAIN MoveOption(b) = DOMAIN builders
         /\ MoveOption(b)[b].option_ = 0
         /\ MoveOption(b)[b].value_descriptor_ = builders[b].value_descriptor_
         /\ \A i \in DOMAIN builders \ {b} : MoveOption(b)[i] = builders[i]
<1> DEFINE moved == [builders[b] EXCEPT !.option_ = 0]
<1>1. /\ moved \in BuilderRecords(Len(options), Len(descriptors))
      /\ moved.option_ = 0
      /\ moved.value_descriptor_ = builders[b].value_descriptor_
  BY TypeElements DEF BuilderRecords
<1>2. MoveOption(b) = [builders EXCEPT ![b] = moved]
  BY DEF MoveOption
<1> HIDE DEF moved
<1> QED
  BY <1>1, <1>2, TypeParts, ChangedObject

\* Build gives the option to the program.
LEMMA BuildKeeps ==
  ASSUME IInv, NEW b \in DOMAIN builders, Build(b)
  PROVE  IInv' /\ BuiltOptionsKept
<1> DEFINE o == builders[b].option_
<1>0. TypeOK /\ OneBuilderEach /\ GivenAway /\ ValueBuilderReachesOption
  BY DEF IInv
<1>1. Call /\ given' = Append(given, o) /\ builders' = MoveOption(b)
        /\ UNCHANGED <<options, descriptors, status>>
  BY DEF Build, objectVars
<1>2. /\ given' \in Seq(0..Len(options))
      /\ DOMAIN given' = 1..Len(given) + 1
      /\ \A k \in DOMAIN given : given'[k] = given[k]
      /\ given'[Len(given) + 1] = o
  BY <1>0, <1>1, TypeParts, TypeElements, NewObject
<1>3. TypeOK'
  BY <1>0, <1>1, <1>2, OptionMoved, TypeParts, CallCounts, TypeFromParts DEF TypeOK
<1>4. /\ DOMAIN builders' = DOMAIN builders
      /\ builders'[b].option_ = 0
      /\ \A i \in DOMAIN builders \ {b} : builders'[i] = builders[i]
  BY <1>0, <1>1, OptionMoved
<1>5. OneBuilderEach'
  BY <1>0, <1>4 DEF OneBuilderEach
<1>6. GivenAway'
  <2> SUFFICES ASSUME NEW i \in DOMAIN builders', NEW k \in DOMAIN given',
                      given'[k] # 0
               PROVE  builders'[i].option_ # given'[k]
    BY DEF GivenAway
  <2>1. CASE i = b
    BY <1>4, <2>1
  <2>2. CASE i # b /\ k \in DOMAIN given
    BY <1>0, <1>2, <1>4, <2>2 DEF GivenAway
  <2>3. CASE i # b /\ k \notin DOMAIN given
    <3>1. given'[k] = o
      BY <1>0, <1>2, <2>3, TypeElements
    <3> QED
      BY <1>0, <1>4, <2>3, <3>1 DEF OneBuilderEach
  <2> QED
    BY <2>1, <2>2, <2>3
<1>7. ValueBuilderReachesOption'
  BY <1>0, <1>1, <1>4 DEF ValueBuilderReachesOption
<1>8. BuiltOptionsKept
  BY <1>0, <1>1 DEF BuiltOptionsKept
<1> QED
  BY <1>3, <1>5, <1>6, <1>7, <1>8 DEF IInv

\* Calls on a value builder change a descriptor, but not its type.
LEMMA ChangeDescriptorKeeps ==
  ASSUME IInv, NEW b \in DOMAIN builders, NEW changed,
         ChangeDescriptor(b, changed),
         DescriptorOf(b) \in DescriptorRecords =>
           /\ changed \in DescriptorRecords
           /\ changed.type = DescriptorOf(b).type
  PROVE  IInv' /\ BuiltOptionsKept
<1> DEFINE d == builders[b].value_descriptor_
<1>0. TypeOK /\ OneBuilderEach /\ GivenAway /\ ValueBuilderReachesOption
  BY DEF IInv
<1>1. Call /\ d # 0 /\ descriptors' = [descriptors EXCEPT ![d] = changed]
        /\ UNCHANGED <<options, builders, given, status>>
  BY DEF ChangeDescriptor
<1>2. d \in DOMAIN descriptors
  BY <1>0, <1>1, TypeElements
<1>3. /\ changed \in DescriptorRecords
      /\ changed.type = descriptors[d].type
  BY <1>0, <1>2, TypeElements DEF DescriptorOf
<1>4. /\ descriptors' \in Seq(DescriptorRecords)
      /\ Len(descriptors') = Len(descriptors)
      /\ DOMAIN descriptors' = DOMAIN descriptors
      /\ descriptors'[d] = changed
      /\ \A i \in DOMAIN descriptors \ {d} : descriptors'[i] = descriptors[i]
  <2> HIDE DEF d
  <2> QED
    BY <1>0, <1>1, <1>2, <1>3, TypeParts, ChangedObject
<1>5. TypeOK'
  BY <1>0, <1>1, <1>4, TypeParts, CallCounts, TypeFromParts DEF TypeOK
<1>6. OneBuilderEach' /\ GivenAway' /\ ValueBuilderReachesOption'
  BY <1>0, <1>1 DEF OneBuilderEach, GivenAway, ValueBuilderReachesOption
<1>7. BuiltOptionsKept
  <2>1. \A i \in DOMAIN descriptors : descriptors'[i].type = descriptors[i].type
    BY <1>3, <1>4
  <2>2. \A k \in DOMAIN given :
          given[k] # 0 /\ options[given[k]].value_semantic_ # 0 =>
            options[given[k]].value_semantic_ \in DOMAIN descriptors
    BY <1>0, TypeElements
  <2> QED
    BY <1>1, <2>1, <2>2 DEF BuiltOptionsKept
<1> QED
  BY <1>5, <1>6, <1>7 DEF IInv

LEMMA ValueBuilderKeeps ==
  ASSUME IInv, NEW b \in DOMAIN builders,
         DefaultValue(b) \/ ImplicitValue(b) \/ Repeatable(b)
  PROVE  IInv' /\ BuiltOptionsKept
<1>1. CASE DefaultValue(b)
  BY <1>1, ChangeDescriptorKeeps DEF DefaultValue, DescriptorRecords
<1>2. CASE ImplicitValue(b)
  BY <1>2, ChangeDescriptorKeeps DEF ImplicitValue, DescriptorRecords
<1>3. CASE Repeatable(b)
  BY <1>3, ChangeDescriptorKeeps DEF Repeatable, DescriptorRecords
<1> QED
  BY <1>1, <1>2, <1>3

\* A new value builder takes the option over, with a new descriptor. The option
\* was with a builder, so that the program does not have it.
LEMMA NewValueBuilderKeeps ==
  ASSUME IInv, Call, NEW b \in DOMAIN builders, NEW type \in Types,
         builders[b].option_ # 0,
         descriptors' = Append(descriptors, Descriptor(type, FirstImplicit(type))),
         options' = SetSemantic(builders[b].option_, Len(descriptors) + 1),
         builders' = Append(MoveOption(b),
                            Builder(builders[b].option_, Len(descriptors) + 1)),
         UNCHANGED <<given, status>>
  PROVE  IInv' /\ BuiltOptionsKept
<1> DEFINE o == builders[b].option_
           n == Len(options)
           m == Len(descriptors)
           new == Descriptor(type, FirstImplicit(type))
           option == [options[o] EXCEPT !.value_semantic_ = m + 1]
           builder == Builder(o, m + 1)
<1>0. TypeOK /\ OneBuilderEach /\ GivenAway /\ ValueBuilderReachesOption
  BY DEF IInv
<1>1. n \in Nat /\ m \in Nat /\ o \in DOMAIN options
  BY <1>0, TypeElements
<1>2. new \in DescriptorRecords
  BY DEF Descriptor, DescriptorRecords, FirstImplicit
<1>3. /\ descriptors' \in Seq(DescriptorRecords)
      /\ Len(descriptors') = m + 1
      /\ DOMAIN descriptors' = 1..m + 1
      /\ \A i \in DOMAIN descriptors : descriptors'[i] = descriptors[i]
      /\ descriptors'[m + 1] = new
  <2> HIDE DEF new
  <2> QED
    BY <1>0, <1>2, TypeParts, NewObject DEF new
<1>4. option \in OptionRecords(m + 1) /\ option.value_semantic_ = m + 1
  <2>1. options[o] \in OptionRecords(m)
    BY <1>0, <1>1, TypeElements
  <2> HIDE DEF o, m
  <2> QED
    BY <1>1, <2>1 DEF OptionRecords
<1>5. /\ options' \in Seq(OptionRecords(m + 1))
      /\ Len(options') = n
      /\ options'[o] = option
      /\ \A i \in DOMAIN options \ {o} : options'[i] = options[i]
  <2>1. options' = [options EXCEPT ![o] = option]
    BY DEF SetSemantic
  <2>2. options \in Seq(OptionRecords(m + 1))
    <3>1. options \in Seq(OptionRecords(m))
      BY <1>0, TypeParts
    <3>2. OptionRecords(m) \subseteq OptionRecords(m + 1)
      BY <1>1, MoreObjects
    <3> HIDE DEF m
    <3> QED
      BY <3>1, <3>2, SeqOfLarger
  <2>3. o \in DOMAIN options /\ option \in OptionRecords(m + 1)
    BY <1>1, <1>4
  <2> HIDE DEF o, m, option
  <2> QED
    BY <2>1, <2>2, <2>3, ChangedObject, SMTT(30)
<1>6. /\ builder \in BuilderRecords(n, m + 1)
      /\ builder.option_ = o /\ builder.value_descriptor_ = m + 1
  BY <1>0, <1>1, TypeElements DEF Builder, BuilderRecords
<1>7. /\ builders' \in Seq(BuilderRecords(n, m + 1))
      /\ DOMAIN builders' = 1..Len(builders) + 1
      /\ builders'[b].option_ = 0
      /\ \A i \in DOMAIN builders \ {b} : builders'[i] = builders[i]
      /\ builders'[Len(builders) + 1] = builder
  <2>1. MoveOption(b) \in Seq(BuilderRecords(n, m + 1))
    BY <1>0, <1>1, OptionMoved, MoreObjects, SeqOfLarger, SMTT(30)
  <2>2. builders' = Append(MoveOption(b), builder)
    OBVIOUS
  <2> HIDE DEF builder
  <2>3. /\ builders' \in Seq(BuilderRecords(n, m + 1))
        /\ DOMAIN builders' = 1..Len(MoveOption(b)) + 1
        /\ \A i \in DOMAIN MoveOption(b) : builders'[i] = MoveOption(b)[i]
        /\ builders'[Len(MoveOption(b)) + 1] = builder
    BY <1>6, <2>1, <2>2, NewObject
  <2> QED
    BY <1>0, <2>3, OptionMoved
<1> HIDE DEF new, option, builder
<1>8. TypeOK'
  BY <1>0, <1>3, <1>5, <1>7, TypeParts, CallCounts, TypeFromParts DEF TypeOK
<1>9. \A i \in DOMAIN builders' :
        \/ i = b /\ builders'[i].option_ = 0
        \/ i \in DOMAIN builders \ {b} /\ builders'[i] = builders[i]
        \/ i = Len(builders) + 1 /\ builders'[i].option_ = o
           /\ builders'[i].value_descriptor_ = m + 1
  BY <1>0, <1>6, <1>7, TypeElements
<1>10. OneBuilderEach'
  BY <1>0, <1>9 DEF OneBuilderEach
<1>11. GivenAway'
  BY <1>0, <1>9 DEF GivenAway
<1>12. ValueBuilderReachesOption'
  <2> SUFFICES ASSUME NEW i \in DOMAIN builders', builders'[i].option_ # 0,
                      builders'[i].value_descriptor_ # 0
               PROVE  options'[builders'[i].option_].value_semantic_
                        = builders'[i].value_descriptor_
    BY DEF ValueBuilderReachesOption
  <2>1. CASE i \in DOMAIN builders \ {b}
    <3>1. builders'[i] = builders[i]
      BY <1>7, <2>1
    <3>2. builders[i].option_ \in DOMAIN options \ {o}
      BY <1>0, <2>1, <3>1, TypeElements DEF OneBuilderEach
    <3> QED
      BY <1>0, <1>5, <2>1, <3>1, <3>2 DEF ValueBuilderReachesOption
  <2>2. CASE i \notin DOMAIN builders \ {b}
    BY <1>4, <1>5, <1>9, <2>2
  <2> QED
    BY <2>1, <2>2
<1>13. BuiltOptionsKept
  <2>1. \A k \in DOMAIN given : given[k] # 0 => given[k] \in DOMAIN options \ {o}
    BY <1>0, TypeElements DEF GivenAway
  <2>2. \A k \in DOMAIN given : given[k] # 0 => options'[given[k]] = options[given[k]]
    BY <1>5, <2>1
  <2>3. \A k \in DOMAIN given :
          given[k] # 0 /\ options[given[k]].value_semantic_ # 0 =>
            options[given[k]].value_semantic_ \in DOMAIN descriptors
    BY <1>0, <2>1, TypeElements
  <2> QED
    BY <1>3, <2>2, <2>3 DEF BuiltOptionsKept
<1> QED
  BY <1>8, <1>10, <1>11, <1>12, <1>13 DEF IInv

LEMMA WithValueKeeps ==
  ASSUME IInv, NEW b \in DOMAIN builders, NEW type \in Types, WithValue(b, type)
  PROVE  IInv' /\ BuiltOptionsKept
<1>0. TypeOK /\ Call
  BY DEF IInv, WithValue
<1>1. CASE builders[b].option_ = 0
  <2>1. status' = "undefined" /\ UNCHANGED <<objectVars, builders, given>>
    BY <1>1 DEF WithValue
  <2> QED
    BY <1>0, <2>1, CallCounts, NothingChanges
<1>2. CASE builders[b].option_ # 0
  BY <1>0, <1>2, NewValueBuilderKeeps DEF WithValue
<1> QED
  BY <1>1, <1>2

\* The parser asks, and changes nothing.
LEMMA ParseKeeps ==
  ASSUME IInv, NEW o, NEW text, Parse(o, text)
  PROVE  IInv' /\ BuiltOptionsKept
<1>0. calls' \in 0..MaxCalls /\ Len(answer) <= 1
  BY DEF IInv, TypeOK, Parse
<1>1. CASE Misused /\ UNCHANGED answer
  BY <1>0, <1>1, MisusedKeeps
<1>2. CASE ~(Misused /\ UNCHANGED answer)
  <2>1. UNCHANGED <<objectVars, builders, given, status>>
          /\ \E a : answer' = <<a>>
    BY <1>2 DEF Parse
  <2>2. Len(answer') <= 1
    BY <2>1
  <2> QED
    BY <1>0, <2>1, <2>2, NothingChanges DEF IInv, TypeOK
<1> QED
  BY <1>1, <1>2

-----------------------------------------------------------------------------
(* The specification *)

LEMMA InitEstablishes == Init => IInv
  BY MaxCallsAssumption
  DEF Init, IInv, TypeOK, Pointers, OneBuilderEach, GivenAway,
      ValueBuilderReachesOption

LEMMA StepKeeps == IInv /\ [Next]_vars => IInv' /\ [BuiltOptionsKept]_vars
<1> SUFFICES ASSUME IInv, [Next]_vars
             PROVE  IInv' /\ BuiltOptionsKept
  OBVIOUS
<1>1. CASE WithKey
  BY <1>1, WithKeyKeeps
<1>2. ASSUME NEW b \in DOMAIN builders,
             \/ Name(b) \/ Required(b) \/ Build(b)
             \/ DefaultValue(b) \/ ImplicitValue(b) \/ Repeatable(b)
      PROVE  IInv' /\ BuiltOptionsKept
  BY <1>2, NameKeeps, RequiredKeeps, BuildKeeps, ValueBuilderKeeps
<1>3. ASSUME NEW b \in DOMAIN builders, NEW type \in Types, WithValue(b, type)
      PROVE  IInv' /\ BuiltOptionsKept
  BY <1>3, WithValueKeeps
<1>4. ASSUME NEW o \in Range(given), NEW text \in Texts, Parse(o, text)
      PROVE  IInv' /\ BuiltOptionsKept
  BY <1>4, ParseKeeps
<1>5. CASE UNCHANGED vars
  BY <1>5, NothingChanges DEF IInv, TypeOK, vars
<1> QED
  BY <1>1, <1>2, <1>3, <1>4, <1>5 DEF Next, BuilderCall, Finished

\* Whatever the program does with builders, pointers are null or point to an
\* object that exists (option_builder.h, option_value_builder.h).
THEOREM BuildersTypeCorrect == Spec => []TypeOK
<1>1. IInv => TypeOK
  BY DEF IInv
<1> QED
  BY <1>1, InitEstablishes, StepKeeps, PTL DEF Spec

\* A value builder that owns an option has the descriptor of that option, also
\* when other value builders, for other types, had the option before.
THEOREM OwnersReachDescriptor == Spec => []ValueBuilderReachesOption
<1>1. IInv => ValueBuilderReachesOption
  BY DEF IInv
<1> QED
  BY <1>1, InitEstablishes, StepKeeps, PTL DEF Spec

\* The options of the program keep names and type, however many builders still
\* share their descriptors.
THEOREM BuiltOptionsFixed == Spec => BuiltOptionsStay
<1> QED
  BY InitEstablishes, StepKeeps, PTL DEF Spec, BuiltOptionsStay

-----------------------------------------------------------------------------
(* Who owns an option *)

\* No option is given to the program twice.
GivenOnce ==
  \A m, n \in DOMAIN given : given[m] # 0 /\ given[m] = given[n] => m = n

\* Every option is with a builder or with the program.
NeverLost ==
  \A o \in DOMAIN options : \/ \E b \in DOMAIN builders : builders[b].option_ = o
                            \/ \E n \in DOMAIN given : given[n] = o

Owners == GivenOnce /\ NeverLost

\* A set with one element, described by what its elements have in common.
LEMMA SingletonCounted ==
  ASSUME NEW S, NEW e \in S, \A x \in S : x = e
  PROVE  Cardinality(S) = 1
<1>1. S = {e}
  OBVIOUS
<1> QED
  BY <1>1, FS_Singleton

LEMMA OwnersCounted ==
  ASSUME IInv, Owners
  PROVE  OneOwner
<1> SUFFICES ASSUME NEW o \in DOMAIN options
             PROVE  Cardinality({b \in DOMAIN builders : builders[b].option_ = o})
                      + Cardinality({n \in DOMAIN given : given[n] = o}) = 1
  BY DEF OneOwner
<1> DEFINE B == {b \in DOMAIN builders : builders[b].option_ = o}
           G == {n \in DOMAIN given : given[n] = o}
<1>1. o # 0
  BY TypeElements DEF IInv
<1>2. CASE \E b \in DOMAIN builders : builders[b].option_ = o
  <2>1. PICK b \in DOMAIN builders : builders[b].option_ = o
    BY <1>2
  <2>2. b \in B /\ \A x \in B : x = b
    BY <1>1, <2>1 DEF IInv, OneBuilderEach
  <2>3. G = {}
    BY <1>1, <2>1 DEF IInv, GivenAway
  <2> HIDE DEF B, G
  <2>4. Cardinality(B) = 1 /\ Cardinality(G) = 0
    BY <2>2, <2>3, SingletonCounted, FS_EmptySet
  <2> QED
    BY <2>4 DEF B, G
<1>3. CASE ~\E b \in DOMAIN builders : builders[b].option_ = o
  <2>1. PICK n \in DOMAIN given : given[n] = o
    BY <1>3 DEF Owners, NeverLost
  <2>2. n \in G /\ \A x \in G : x = n
    BY <1>1, <2>1 DEF Owners, GivenOnce
  <2>3. B = {}
    BY <1>3
  <2> HIDE DEF B, G
  <2>4. Cardinality(B) = 0 /\ Cardinality(G) = 1
    BY <2>2, <2>3, SingletonCounted, FS_EmptySet
  <2> QED
    BY <2>4 DEF B, G
<1> QED
  BY <1>2, <1>3

\* A step that neither makes an option nor moves one.
LEMMA NobodyMoves ==
  ASSUME Owners, DOMAIN options' = DOMAIN options, UNCHANGED given,
         DOMAIN builders' = DOMAIN builders,
         \A b \in DOMAIN builders : builders'[b].option_ = builders[b].option_
  PROVE  Owners'
<1>1. GivenOnce'
  BY DEF Owners, GivenOnce
<1>2. NeverLost'
  BY DEF Owners, NeverLost
<1> QED
  BY <1>1, <1>2 DEF Owners

\* An object is added to a sequence, of whatever kind it is.
LEMMA Appended ==
  ASSUME NEW S, NEW s \in Seq(S), NEW e
  PROVE  /\ DOMAIN s = 1..Len(s)
         /\ DOMAIN Append(s, e) = 1..Len(s) + 1
         /\ \A i \in DOMAIN s : Append(s, e)[i] = s[i]
         /\ Append(s, e)[Len(s) + 1] = e
  OBVIOUS

\* A new option belongs to its builder.
LEMMA WithKeyOwned ==
  ASSUME IInv, Owners, WithKey
  PROVE  Owners'
<1> DEFINE o == Option(FALSE, FALSE, 0)
           b == Builder(Len(options) + 1, 0)
<1>0. TypeOK
  BY DEF IInv
<1>1. UNCHANGED given /\ options' = Append(options, o)
        /\ builders' = Append(builders, b) /\ b.option_ = Len(options) + 1
  BY DEF WithKey, Builder
<1> HIDE DEF o, b
<1>2. DOMAIN options = 1..Len(options) /\ DOMAIN options' = 1..Len(options) + 1
  BY <1>0, <1>1, Appended, TypeParts
<1>3. /\ DOMAIN builders = 1..Len(builders)
      /\ DOMAIN builders' = 1..Len(builders) + 1
      /\ \A i \in DOMAIN builders : builders'[i] = builders[i]
      /\ builders'[Len(builders) + 1] = b
  BY <1>0, <1>1, Appended, TypeParts
<1>4. Len(options) \in Nat /\ Len(builders) \in Nat
  BY <1>0, TypeElements
<1>5. NeverLost'
  <2> SUFFICES ASSUME NEW p \in DOMAIN options'
               PROVE  \/ \E i \in DOMAIN builders' : builders'[i].option_ = p
                      \/ \E n \in DOMAIN given : given[n] = p
    BY <1>1 DEF NeverLost
  <2>1. CASE p \in DOMAIN options
    <3>1. CASE \E i \in DOMAIN builders : builders[i].option_ = p
      BY <1>3, <1>4, <3>1
    <3>2. CASE \E n \in DOMAIN given : given[n] = p
      BY <3>2
    <3> QED
      BY <2>1, <3>1, <3>2 DEF Owners, NeverLost
  <2>2. CASE p \notin DOMAIN options
    <3>1. p = Len(options) + 1
      BY <1>2, <1>4, <2>2
    <3>2. Len(builders) + 1 \in DOMAIN builders'
      BY <1>3, <1>4
    <3> QED
      BY <1>1, <1>3, <3>1, <3>2
  <2> QED
    BY <2>1, <2>2
<1>6. GivenOnce'
  BY <1>1 DEF Owners, GivenOnce
<1> QED
  BY <1>5, <1>6 DEF Owners

\* WithValue: the new builder owns what the first one owned.
LEMMA WithValueOwned ==
  ASSUME IInv, Owners, NEW b \in DOMAIN builders, NEW type \in Types,
         WithValue(b, type)
  PROVE  Owners'
<1> DEFINE o == builders[b].option_
           new == Builder(o, Len(descriptors) + 1)
<1>0. TypeOK
  BY DEF IInv
<1>1. CASE o = 0
  BY <1>1, NobodyMoves DEF WithValue, objectVars
<1>2. CASE o # 0
  <2>1. /\ UNCHANGED given /\ DOMAIN options' = DOMAIN options
        /\ builders' = Append(MoveOption(b), new) /\ new.option_ = o
    BY <1>2 DEF WithValue, SetSemantic, Builder
  <2> HIDE DEF new
  <2>2. /\ DOMAIN builders' = 1..Len(builders) + 1
        /\ \A i \in DOMAIN builders \ {b} : builders'[i] = builders[i]
        /\ builders'[Len(builders) + 1] = new
    <3>1. /\ DOMAIN builders' = 1..Len(MoveOption(b)) + 1
          /\ \A i \in DOMAIN MoveOption(b) : builders'[i] = MoveOption(b)[i]
          /\ builders'[Len(MoveOption(b)) + 1] = new
      BY <1>0, <2>1, OptionMoved, Appended
    <3> QED
      BY <1>0, <3>1, OptionMoved
  <2>3. DOMAIN builders = 1..Len(builders) /\ Len(builders) \in Nat
    BY <1>0, TypeElements
  <2>4. NeverLost'
    <3> SUFFICES ASSUME NEW p \in DOMAIN options
                 PROVE  \/ \E i \in DOMAIN builders' : builders'[i].option_ = p
                        \/ \E n \in DOMAIN given : given[n] = p
      BY <2>1 DEF NeverLost
    <3>1. CASE p = o
      <4>1. Len(builders) + 1 \in DOMAIN builders'
        BY <2>2, <2>3
      <4> QED
        BY <2>1, <2>2, <3>1, <4>1
    <3>2. CASE \E i \in DOMAIN builders \ {b} : builders[i].option_ = p
      BY <2>2, <2>3, <3>2
    <3>3. CASE \E n \in DOMAIN given : given[n] = p
      BY <3>3
    <3> QED
      BY <3>1, <3>2, <3>3 DEF Owners, NeverLost
  <2>5. GivenOnce'
    BY <2>1 DEF Owners, GivenOnce
  <2> QED
    BY <2>4, <2>5 DEF Owners
<1> QED
  BY <1>1, <1>2

\* Build: the program gets an option that it does not have yet, or a null
\* pointer.
LEMMA BuildOwned ==
  ASSUME IInv, Owners, NEW b \in DOMAIN builders, Build(b)
  PROVE  Owners'
<1> DEFINE o == builders[b].option_
<1>0. TypeOK
  BY DEF IInv
<1>1. UNCHANGED options /\ given' = Append(given, o) /\ builders' = MoveOption(b)
  BY DEF Build, objectVars
<1>2. /\ DOMAIN given = 1..Len(given)
      /\ DOMAIN given' = 1..Len(given) + 1
      /\ \A n \in DOMAIN given : given'[n] = given[n]
      /\ given'[Len(given) + 1] = o
  BY <1>0, <1>1, TypeParts, Appended
<1>3. /\ DOMAIN builders' = DOMAIN builders
      /\ \A i \in DOMAIN builders \ {b} : builders'[i] = builders[i]
  BY <1>0, <1>1, OptionMoved
<1>4. Len(given) \in Nat
  BY <1>0, TypeElements
<1>5. GivenOnce'
  <2>1. \A n \in DOMAIN given : given[n] # 0 => given[n] # o
    BY DEF IInv, GivenAway
  <2>2. \A n \in DOMAIN given' : n \in DOMAIN given \/ n = Len(given) + 1
    BY <1>2, <1>4
  <2> QED
    BY <1>2, <2>1, <2>2 DEF Owners, GivenOnce
<1>6. NeverLost'
  <2> SUFFICES ASSUME NEW p \in DOMAIN options
               PROVE  \/ \E i \in DOMAIN builders' : builders'[i].option_ = p
                      \/ \E n \in DOMAIN given' : given'[n] = p
    BY <1>1 DEF NeverLost
  <2>1. CASE p = o
    <3>1. Len(given) + 1 \in DOMAIN given'
      BY <1>2, <1>4
    <3> QED
      BY <1>2, <2>1, <3>1
  <2>2. CASE \E i \in DOMAIN builders \ {b} : builders[i].option_ = p
    BY <1>3, <2>2
  <2>3. CASE \E n \in DOMAIN given : given[n] = p
    BY <1>2, <1>4, <2>3
  <2> QED
    BY <2>1, <2>2, <2>3 DEF Owners, NeverLost
<1> QED
  BY <1>5, <1>6 DEF Owners

\* All other calls leave the option where it is.
LEMMA OthersOwned ==
  ASSUME Owners,
         \/ \E b \in DOMAIN builders :
              \/ Name(b) \/ Required(b)
              \/ DefaultValue(b) \/ ImplicitValue(b) \/ Repeatable(b)
         \/ \E o \in Range(given), text \in Texts : Parse(o, text)
         \/ UNCHANGED vars
  PROVE  Owners'
<1>1. DOMAIN options' = DOMAIN options /\ UNCHANGED <<builders, given>>
  <2>1. CASE \E b \in DOMAIN builders : Name(b) \/ Required(b)
    BY <2>1 DEF Name, Required, ChangeOption, Misused, objectVars
  <2>2. CASE \E b \in DOMAIN builders :
               DefaultValue(b) \/ ImplicitValue(b) \/ Repeatable(b)
    BY <2>2 DEF DefaultValue, ImplicitValue, Repeatable, ChangeDescriptor
  <2>3. CASE \E o \in Range(given), text \in Texts : Parse(o, text)
    BY <2>3 DEF Parse, Misused, objectVars
  <2>4. CASE UNCHANGED vars
    BY <2>4 DEF vars, objectVars
  <2> QED
    BY <2>1, <2>2, <2>3, <2>4
<1> QED
  BY <1>1, NobodyMoves

LEMMA StepKeepsOwners == IInv /\ Owners /\ [Next]_vars => Owners'
<1> SUFFICES ASSUME IInv, Owners, [Next]_vars
             PROVE  Owners'
  OBVIOUS
<1>1. CASE WithKey
  BY <1>1, WithKeyOwned
<1>2. ASSUME NEW b \in DOMAIN builders, Build(b) PROVE Owners'
  BY <1>2, BuildOwned
<1>3. ASSUME NEW b \in DOMAIN builders, NEW type \in Types, WithValue(b, type)
      PROVE  Owners'
  BY <1>3, WithValueOwned
<1> QED
  BY <1>1, <1>2, <1>3, OthersOwned DEF Next, BuilderCall, Finished

\* std::move never loses an option and never copies it: in every order of the
\* calls, and with several value builders after one another for the same
\* option, exactly one builder or one result of Build() has it
\* (option_builder.h, option_value_builder.h).
THEOREM OneOwnerAlways == Spec => []OneOwner
<1>1. Init => Owners
  BY DEF Init, Owners, GivenOnce, NeverLost
<1>2. IInv /\ Owners => OneOwner
  BY OwnersCounted
<1> QED
  BY <1>1, <1>2, InitEstablishes, StepKeeps, StepKeepsOwners, PTL DEF Spec

-----------------------------------------------------------------------------
(* Widths of integers *)

LEMMA PowersDefined ==
  PowerOf2 = [n \in Nat |-> IF n = 0 THEN 1 ELSE 2 * PowerOf2[n - 1]]
<1> DEFINE double == [k \in Nat |-> [v \in Nat |-> 2 * v]]
<1>1. PICK f : f = [n \in Nat |-> IF n = 0 THEN 1 ELSE double[n][f[n - 1]]]
  <2> HIDE DEF double
  <2>1. RecursionExists(double, 1)
    BY RecursionDefined
  <2> QED
    BY <2>1 DEF RecursionExists
<1>2. ASSUME NEW n \in Nat PROVE f[n] \in Nat
  <2> DEFINE T == {k \in Nat : f[k] \in Nat}
  <2>1. 0 \in T
    BY <1>1
  <2>2. ASSUME NEW k \in Nat, k \in T PROVE k + 1 \in T
    <3>1. f[k + 1] = double[k + 1][f[(k + 1) - 1]]
      BY <1>1
    <3>2. (k + 1) - 1 = k /\ f[k] \in Nat
      BY <2>2
    <3> QED
      BY <3>1, <3>2
  <2> HIDE DEF T
  <2>3. n \in T
    BY <2>1, <2>2, Induction
  <2> QED
    BY <2>3 DEF T
<1>3. f = [n \in Nat |-> IF n = 0 THEN 1 ELSE 2 * f[n - 1]]
  <2>1. ASSUME NEW n \in Nat, n # 0 PROVE double[n][f[n - 1]] = 2 * f[n - 1]
    <3>1. f[n - 1] \in Nat
      BY <1>2, <2>1
    <3> QED
      BY <3>1
  <2> HIDE DEF double
  <2> QED
    BY <1>1, <2>1
<1> QED
  BY <1>3 DEF PowerOf2

LEMMA Powers ==
  ASSUME NEW n \in Nat
  PROVE  /\ PowerOf2[n] \in Nat \ {0}
         /\ PowerOf2[n + 1] = 2 * PowerOf2[n]
<1>1. PowerOf2[0] = 1
  BY PowersDefined
<1>2. ASSUME NEW k \in Nat PROVE PowerOf2[k + 1] = 2 * PowerOf2[k]
  <2>1. PowerOf2[k + 1] = 2 * PowerOf2[(k + 1) - 1]
    BY PowersDefined
  <2> QED
    BY <2>1
<1> DEFINE T == {k \in Nat : PowerOf2[k] \in Nat \ {0}}
<1>3. 0 \in T
  BY <1>1
<1>4. ASSUME NEW k \in Nat, k \in T PROVE k + 1 \in T
  BY <1>2, <1>4
<1> HIDE DEF T
<1>5. n \in T
  BY <1>3, <1>4, Induction
<1> QED
  BY <1>2, <1>5 DEF T

\* More bits hold more values.
LEMMA PowersGrow ==
  ASSUME NEW m \in Nat, NEW n \in Nat, m <= n
  PROVE  PowerOf2[m] <= PowerOf2[n]
<1> DEFINE T == {k \in Nat : PowerOf2[m] <= PowerOf2[m + k]}
<1>1. 0 \in T
  BY Powers
<1>2. ASSUME NEW k \in Nat, k \in T PROVE k + 1 \in T
  <2>1. m + k \in Nat /\ m + (k + 1) = (m + k) + 1
    OBVIOUS
  <2>2. PowerOf2[(m + k) + 1] = 2 * PowerOf2[m + k] /\ PowerOf2[m + k] \in Nat
    BY <2>1, Powers
  <2>3. PowerOf2[m] <= PowerOf2[m + k] /\ PowerOf2[m] \in Nat
    BY <1>2, Powers
  <2> QED
    BY <2>1, <2>2, <2>3
<1> HIDE DEF T
<1>3. n - m \in T
  BY <1>1, <1>2, Induction
<1>4. m + (n - m) = n
  OBVIOUS
<1> QED
  BY <1>3, <1>4 DEF T

LEMMA RangesNested ==
  ASSUME NEW bits \in 1..LongBits
  PROVE  /\ SignedRange(bits) \subseteq SignedRange(LongBits)
         /\ UnsignedRange(bits) \subseteq UnsignedRange(LongBits)
<1>1. LongBits \in Nat /\ LongBits - 1 \in Nat /\ bits \in Nat /\ bits - 1 \in Nat
  BY LongBitsAssumption
<1>2. /\ PowerOf2[bits] <= PowerOf2[LongBits]
      /\ PowerOf2[bits - 1] <= PowerOf2[LongBits - 1]
  BY <1>1, PowersGrow
<1>3. /\ PowerOf2[bits] \in Nat /\ PowerOf2[LongBits] \in Nat
      /\ PowerOf2[bits - 1] \in Nat /\ PowerOf2[LongBits - 1] \in Nat
  BY <1>1, Powers
<1>4. SignedRange(bits) \subseteq SignedRange(LongBits)
  BY <1>2, <1>3 DEF SignedRange
<1>5. UnsignedRange(bits) \subseteq UnsignedRange(LongBits)
  BY <1>2, <1>3 DEF UnsignedRange
<1> QED
  BY <1>4, <1>5

LEMMA ModuloIs ==
  ASSUME NEW m \in Nat \ {0}, NEW a \in Int
  PROVE  /\ a % m \in 0..m - 1
         /\ a \in 0..m - 1 => a % m = a
  OBVIOUS

\* A cast leaves the numbers in the range of the type, and only these, as
\* they are.
LEMMA CastsExact ==
  ASSUME NEW bits \in 1..LongBits, NEW v \in Int
  PROVE  /\ CastSigned(v, bits) = v <=> v \in SignedRange(bits)
         /\ CastUnsigned(v, bits) = v <=> v \in UnsignedRange(bits)
<1>1. bits \in Nat /\ bits - 1 \in Nat /\ (bits - 1) + 1 = bits
  BY LongBitsAssumption
<1> DEFINE h == PowerOf2[bits - 1]
           m == PowerOf2[bits]
<1>2. h \in Nat \ {0} /\ m \in Nat \ {0}
  BY <1>1, Powers
<1>3. m = 2 * h
  <2>1. PowerOf2[(bits - 1) + 1] = 2 * PowerOf2[bits - 1]
    BY <1>1, Powers
  <2> QED
    BY <1>1, <2>1
<1>4. CastSigned(v, bits) = ((v + h) % m) - h /\ SignedRange(bits) = -h .. h - 1
  BY DEF CastSigned, SignedRange
<1>5. CastUnsigned(v, bits) = v % m /\ UnsignedRange(bits) = 0 .. m - 1
  BY DEF CastUnsigned, UnsignedRange
<1> HIDE DEF h, m
<1>6. /\ (v + h) % m \in 0..m - 1
      /\ v + h \in 0..m - 1 => (v + h) % m = v + h
  <2>1. v + h \in Int
    BY <1>2
  <2> QED
    BY <1>2, <2>1, ModuloIs
<1>7. /\ v % m \in 0..m - 1
      /\ v \in 0..m - 1 => v % m = v
  BY <1>2, ModuloIs
<1>8. CastSigned(v, bits) = v <=> v \in SignedRange(bits)
  <2>1. v \in -h .. h - 1 <=> v + h \in 0..m - 1
    BY <1>2, <1>3
  <2>2. ASSUME NEW r \in 0..m - 1, v + h \in 0..m - 1 => r = v + h
        PROVE  r - h = v <=> v + h \in 0..m - 1
    BY <1>2, <2>2
  <2>3. ((v + h) % m) - h = v <=> v + h \in 0..m - 1
    BY <1>6, <2>2
  <2> QED
    BY <1>4, <2>1, <2>3
<1>9. CastUnsigned(v, bits) = v <=> v \in UnsignedRange(bits)
  BY <1>5, <1>7
<1> QED
  BY <1>8, <1>9

-----------------------------------------------------------------------------
(* The number that a sequence of digits denotes *)

LEMMA DigitIsNatural == \A d \in Digits : DigitOf[d] \in 0..9
<1>1. DigitOf \in [Digits -> 0..9]
  BY DEF Digits, DigitOf
<1> QED
  BY <1>1

LEMMA OneMoreDigit ==
  ASSUME NEW a \in Nat, NEW b \in 0..9
  PROVE  10 * a + b \in Nat
  OBVIOUS

LEMMA GreatestOf ==
  ASSUME NEW n \in Nat, NEW S \in SUBSET (0..n), S # {}
  PROVE  Max(S) \in S /\ \A x \in S : Max(S) >= x
<1>1. PICK x \in S : \A y \in S : x >= y
  BY GreatestExists
<1> QED
  BY <1>1 DEF Max

\* One step of the fold: the digit at the last of the positions in s.
Fold1(digits, g, s) ==
  IF s = {} THEN 0 ELSE 10 * g[s \ {Max(s)}] + DigitOf[digits[Max(s)]]

LEMMA FoldOfNone ==
  ASSUME NEW digits, NEW g, NEW s, s = {}
  PROVE  Fold1(digits, g, s) = 0
  BY Zenon DEF Fold1

Folded(digits, g) == g = [s \in SUBSET DOMAIN digits |-> Fold1(digits, g, s)]

LEMMA NumberIsFolded ==
  ASSUME NEW digits
  PROVE  Number(digits) = (CHOOSE g : Folded(digits, g))[DOMAIN digits]
  BY DEF Number, FoldLeft, MapThenFoldSet, Folded, Fold1

\* Repeating the step gives the fold: one more step changes nothing for the
\* positions up to k after k steps.
LEMMA FoldExists ==
  ASSUME NEW digits \in Seq(Digits)
  PROVE  \E g : Folded(digits, g)
<1> DEFINE n == Len(digits)
           P == SUBSET (1..n)
           V == [P -> Nat]
           step == [k \in Nat |-> [g \in V |-> [s \in P |-> Fold1(digits, g, s)]]]
           start == [s \in P |-> 0]
<1>1. n \in Nat /\ DOMAIN digits = 1..n
  OBVIOUS
<1>2. ASSUME NEW s \in P, s # {}
      PROVE  Max(s) \in s /\ s \ {Max(s)} \in P /\ \A x \in s : Max(s) >= x
  <2>1. s \in SUBSET (0..n)
    BY <1>1
  <2> QED
    BY <1>1, <1>2, <2>1, GreatestOf
<1>3. ASSUME NEW g \in V, NEW s \in P PROVE Fold1(digits, g, s) \in Nat
  <2>1. CASE s = {}
    BY <2>1, FoldOfNone
  <2>2. CASE s # {}
    <3>1. digits[Max(s)] \in Digits /\ g[s \ {Max(s)}] \in Nat
      <4>1. Max(s) \in 1..n /\ s \ {Max(s)} \in P
        BY <1>2, <2>2
      <4>2. g[s \ {Max(s)}] \in Nat
        BY <4>1
      <4>3. digits[Max(s)] \in Digits
        BY <1>1, <4>1, ElementsOf
      <4> QED
        BY <4>2, <4>3
    <3>2. DigitOf[digits[Max(s)]] \in 0..9
      BY <3>1, DigitIsNatural
    <3>3. 10 * g[s \ {Max(s)}] + DigitOf[digits[Max(s)]] \in Nat
      BY <3>1, <3>2, OneMoreDigit, Zenon
    <3> QED
      BY <2>2, <3>3 DEF Fold1
  <2> QED
    BY <2>1, <2>2
<1>4. PICK f : f = [k \in Nat |-> IF k = 0 THEN start ELSE step[k][f[k - 1]]]
  <2> HIDE DEF step, start
  <2>1. RecursionExists(step, start)
    BY RecursionDefined
  <2> QED
    BY <2>1 DEF RecursionExists
<1>5. ASSUME NEW g \in V, NEW k \in Nat
      PROVE  step[k][g] = [s \in P |-> Fold1(digits, g, s)] /\ step[k][g] \in V
  BY <1>3
<1>6. f[0] = start /\ \A k \in Nat : f[k + 1] = step[k + 1][f[k]]
  <2> HIDE DEF step, start
  <2>1. f[0] = start
    BY <1>4
  <2>2. ASSUME NEW k \in Nat PROVE f[k + 1] = step[k + 1][f[k]]
    <3>1. f[k + 1] = step[k + 1][f[(k + 1) - 1]]
      BY <1>4
    <3> QED
      BY <3>1
  <2> QED
    BY <2>1, <2>2
<1>7. \A k \in Nat : f[k] \in V
  <2> DEFINE T == {k \in Nat : f[k] \in V}
  <2>1. start \in V
    OBVIOUS
  <2> HIDE DEF V, step, start
  <2>2. 0 \in T
    BY <1>6, <2>1
  <2>3. ASSUME NEW k \in Nat, k \in T PROVE k + 1 \in T
    <3>1. f[k] \in V /\ k + 1 \in Nat
      BY <2>3
    <3>2. step[k + 1][f[k]] \in V
      BY <1>5, <3>1
    <3> QED
      BY <1>6, <3>1, <3>2
  <2> HIDE DEF T
  <2>4. \A k \in Nat : k \in T
    BY <2>2, <2>3, Induction
  <2> QED
    BY <2>4 DEF T
<1>8. ASSUME NEW k \in Nat, NEW s \in P
      PROVE  f[k + 1][s] = Fold1(digits, f[k], s)
  <2>1. f[k + 1] = step[k + 1][f[k]]
    BY <1>6
  <2>2. step[k + 1][f[k]] = [t \in P |-> Fold1(digits, f[k], t)]
    <3> HIDE DEF step, V
    <3>1. f[k] \in V /\ k + 1 \in Nat
      BY <1>7
    <3> QED
      BY <1>5, <3>1
  <2> HIDE DEF step
  <2> QED
    BY <2>1, <2>2
<1> HIDE DEF step, start, V
<1>9. \A k \in Nat : \A s \in P : s \subseteq 1..k => f[k + 1][s] = f[k][s]
  <2> DEFINE T == {k \in Nat : \A s \in P : s \subseteq 1..k => f[k + 1][s] = f[k][s]}
  <2>1. 0 \in T
    <3>1. ASSUME NEW s \in P, s \subseteq 1..0 PROVE f[0 + 1][s] = f[0][s]
      <4>1. s = {}
        BY <3>1
      <4>2. f[0 + 1][s] = 0
        BY <1>8, <4>1 DEF Fold1
      <4>3. f[0][s] = 0
        BY <1>6 DEF start
      <4> QED
        BY <4>2, <4>3
    <3> QED
      BY <3>1
  <2>2. ASSUME NEW k \in Nat, k \in T PROVE k + 1 \in T
    <3>1. ASSUME NEW s \in P, s \subseteq 1..k + 1
          PROVE  f[(k + 1) + 1][s] = f[k + 1][s]
      <4>1. f[(k + 1) + 1][s] = Fold1(digits, f[k + 1], s)
        BY <1>8
      <4>2. f[k + 1][s] = Fold1(digits, f[k], s)
        BY <1>8
      <4>3. CASE s = {}
        BY <4>1, <4>2, <4>3 DEF Fold1
      <4>4. CASE s # {}
        <5> DEFINE r == s \ {Max(s)}
        <5>1. r \in P
          BY <1>2, <4>4
        <5>2. r \subseteq 1..k
          <6>1. Max(s) \in s /\ \A x \in s : Max(s) >= x
            BY <1>2, <4>4
          <6>2. ASSUME NEW x \in s, x # Max(s) PROVE x \in 1..k
            <7>1. x \in 1..k + 1 /\ Max(s) \in 1..k + 1
              BY <3>1, <6>1
            <7> QED
              BY <6>1, <6>2, <7>1
          <6> QED
            BY <6>2
        <5>3. f[k + 1][r] = f[k][r]
          <6> HIDE DEF r
          <6> QED
            BY <2>2, <5>1, <5>2
        <5>4. Fold1(digits, f[k + 1], s) = Fold1(digits, f[k], s)
          BY <5>3 DEF Fold1
        <5> QED
          BY <4>1, <4>2, <5>4
      <4> QED
        BY <4>3, <4>4
    <3> QED
      BY <3>1
  <2> HIDE DEF T
  <2>3. \A k \in Nat : k \in T
    BY <2>1, <2>2, Induction
  <2> QED
    BY <2>3 DEF T
<1>10. ASSUME NEW s \in P PROVE f[n][s] = Fold1(digits, f[n], s)
  <2>1. f[n + 1][s] = f[n][s]
    BY <1>1, <1>9
  <2>2. f[n + 1][s] = Fold1(digits, f[n], s)
    BY <1>1, <1>8
  <2> QED
    BY <2>1, <2>2
<1>11. f[n] = [s \in P |-> f[n][s]]
  BY <1>1, <1>7 DEF V
<1>12. f[n] = [s \in P |-> Fold1(digits, f[n], s)]
  BY <1>10, <1>11
<1>13. Folded(digits, f[n])
  BY <1>1, <1>12 DEF Folded
<1> QED
  BY <1>13

LEMMA FoldIsNatural ==
  ASSUME NEW digits \in Seq(Digits), NEW g, Folded(digits, g)
  PROVE  \A s \in SUBSET DOMAIN digits : g[s] \in Nat
<1> DEFINE n == Len(digits)
           P == SUBSET (1..n)
           T == {k \in Nat : \A s \in P : s \subseteq 1..k => g[s] \in Nat}
<1>1. n \in Nat /\ DOMAIN digits = 1..n
  OBVIOUS
<1>2. ASSUME NEW s \in P PROVE g[s] = Fold1(digits, g, s)
  BY <1>1 DEF Folded
<1>3. 0 \in T
  <2>1. ASSUME NEW s \in P, s \subseteq 1..0 PROVE g[s] \in Nat
    <3>1. s = {}
      BY <2>1
    <3>2. g[s] = 0
      BY <1>2, <3>1, FoldOfNone
    <3> QED
      BY <3>2
  <2> QED
    BY <2>1
<1>4. ASSUME NEW k \in Nat, k \in T PROVE k + 1 \in T
  <2>1. ASSUME NEW s \in P, s \subseteq 1..k + 1 PROVE g[s] \in Nat
    <3>1. CASE s = {}
      <4>1. g[s] = 0
        BY <1>2, <3>1, FoldOfNone
      <4> QED
        BY <4>1
    <3>2. CASE s # {}
      <4> DEFINE r == s \ {Max(s)}
      <4>1. Max(s) \in s /\ \A x \in s : Max(s) >= x
        <5>1. s \in SUBSET (0..n)
          BY <1>1
        <5> QED
          BY <1>1, <3>2, <5>1, GreatestOf
      <4>2. r \in P /\ r \subseteq 1..k
        <5>1. ASSUME NEW x \in s, x # Max(s) PROVE x \in 1..k
          <6>1. x \in 1..k + 1 /\ Max(s) \in 1..k + 1
            BY <2>1, <4>1
          <6> QED
            BY <4>1, <5>1, <6>1
        <5> QED
          BY <5>1
      <4>3. g[r] \in Nat
        <5> HIDE DEF r
        <5> QED
          BY <1>4, <4>2
      <4>4. DigitOf[digits[Max(s)]] \in 0..9
        <5>1. digits[Max(s)] \in Digits
          <6>1. Max(s) \in 1..n
            BY <4>1
          <6> QED
            BY <1>1, <6>1, ElementsOf
        <5> QED
          BY <5>1, DigitIsNatural
      <4>5. g[s] = 10 * g[r] + DigitOf[digits[Max(s)]]
        BY <1>2, <3>2 DEF Fold1
      <4> HIDE DEF r
      <4>6. 10 * g[r] + DigitOf[digits[Max(s)]] \in Nat
        BY <4>3, <4>4, OneMoreDigit, Zenon
      <4> QED
        BY <4>5, <4>6, Zenon
    <3> QED
      BY <3>1, <3>2
  <2> QED
    BY <2>1
<1> HIDE DEF T
<1>5. n \in T
  BY <1>1, <1>3, <1>4, Induction
<1> QED
  BY <1>1, <1>5 DEF T

LEMMA NumberIsNatural ==
  ASSUME NEW digits \in Seq(Digits)
  PROVE  Number(digits) \in Nat
<1> DEFINE g == CHOOSE g : Folded(digits, g)
<1>1. Folded(digits, g)
  BY FoldExists
<1>2. Number(digits) = g[DOMAIN digits]
  BY NumberIsFolded
<1> HIDE DEF g
<1> QED
  BY <1>1, <1>2, FoldIsNatural

LEMMA NumberOfOneDigit ==
  ASSUME NEW d \in Digits
  PROVE  Number(<<d>>) = DigitOf[d]
<1> DEFINE digits == <<d>>
           g == CHOOSE g : Folded(digits, g)
<1>1. digits \in Seq(Digits) /\ DOMAIN digits = {1} /\ digits[1] = d
  OBVIOUS
<1> HIDE DEF digits
<1>2. Folded(digits, g)
  BY <1>1, FoldExists
<1>3. Number(digits) = g[DOMAIN digits]
  BY NumberIsFolded
<1> HIDE DEF g
<1>4. \A s \in SUBSET {1} : g[s] = Fold1(digits, g, s)
  BY <1>1, <1>2 DEF Folded
<1>5. Max({1}) = 1
  <2>1. {1} \in SUBSET (0..1) /\ {1} # {}
    OBVIOUS
  <2>2. Max({1}) \in {1}
    BY <2>1, GreatestOf
  <2> QED
    BY <2>2
<1>6. g[{}] = 0
  BY <1>4 DEF Fold1
<1>7. g[{1}] = 10 * g[{} ] + DigitOf[d]
  <2>1. {1} \ {1} = {} /\ {1} # {}
    OBVIOUS
  <2> QED
    BY <1>1, <1>4, <1>5, <2>1 DEF Fold1
<1>8. DigitOf[d] \in 0..9
  BY DigitIsNatural
<1>9. g[{1}] = DigitOf[d]
  BY <1>6, <1>7, <1>8
<1> QED
  BY <1>1, <1>3, <1>9 DEF digits

-----------------------------------------------------------------------------
(* What std::stoll consumes *)

Longest(text, from, S) ==
  Max({n \in from..Len(text) : \A i \in from + 1..n : text[i] \in S})

LEMMA LongestIs ==
  ASSUME NEW C, NEW text \in Seq(C), NEW from \in 0..Len(text), NEW S
  PROVE  LET n == Longest(text, from, S)
         IN  /\ n \in from..Len(text)
             /\ \A i \in from + 1..n : text[i] \in S
             /\ n < Len(text) => text[n + 1] \notin S
<1> DEFINE P == {n \in from..Len(text) : \A i \in from + 1..n : text[i] \in S}
           m == Max(P)
<1>1. Len(text) \in Nat
  OBVIOUS
<1>2. from \in P /\ P \in SUBSET (0..Len(text))
  BY <1>1
<1>3. m \in P /\ \A x \in P : m >= x
  <2> HIDE DEF P
  <2> QED
    BY <1>1, <1>2, GreatestOf
<1>4. ASSUME m < Len(text), text[m + 1] \in S PROVE FALSE
  <2>1. PICK k \in P : k = m
    BY <1>3
  <2>2. k + 1 \in from..Len(text)
    BY <1>1, <1>4, <2>1
  <2>3. ASSUME NEW i \in from + 1..k + 1 PROVE text[i] \in S
    <3>1. i = k + 1 \/ i \in from + 1..k
      BY <2>1, <2>2
    <3> QED
      BY <1>4, <2>1, <3>1
  <2>4. k + 1 \in P
    BY <2>2, <2>3
  <2>5. m >= k + 1
    BY <1>3, <2>4
  <2> QED
    BY <2>1, <2>5
<1>5. Longest(text, from, S) = m
  BY DEF Longest
<1> QED
  BY <1>3, <1>4, <1>5

\* A prefix that is followed by something else is the longest one.
LEMMA LongestUnique ==
  ASSUME NEW C, NEW text \in Seq(C), NEW from \in 0..Len(text), NEW S,
         NEW n \in from..Len(text),
         \A i \in from + 1..n : text[i] \in S,
         n < Len(text) => text[n + 1] \notin S
  PROVE  Longest(text, from, S) = n
<1>1. PICK m : m = Longest(text, from, S)
  OBVIOUS
<1>2. /\ m \in from..Len(text)
      /\ \A i \in from + 1..m : text[i] \in S
      /\ m < Len(text) => text[m + 1] \notin S
  BY <1>1, LongestIs
<1>3. Len(text) \in Nat
  OBVIOUS
<1>4. ~(m < n)
  <2> SUFFICES ASSUME m < n PROVE FALSE
    OBVIOUS
  <2>1. m + 1 \in from + 1..n /\ m < Len(text)
    BY <1>2, <1>3
  <2> QED
    BY <1>2, <2>1
<1>5. ~(n < m)
  <2> SUFFICES ASSUME n < m PROVE FALSE
    OBVIOUS
  <2>1. n + 1 \in from + 1..m /\ n < Len(text)
    BY <1>2, <1>3
  <2> QED
    BY <1>2, <2>1
<1> QED
  BY <1>1, <1>2, <1>3, <1>4, <1>5

Blanks(text) == Longest(text, 0, {Blank})
Start(text) ==
  IF Blanks(text) < Len(text) /\ text[Blanks(text) + 1] \in Signs
    THEN Blanks(text) + 1 ELSE Blanks(text)
End(text) == Longest(text, Start(text), Digits)

ScanResult(digits, negative, consumed) ==
  [digits |-> digits, negative |-> negative, consumed |-> consumed]

LEMMA ScanFields ==
  ASSUME NEW d, NEW n, NEW c
  PROVE  /\ ScanResult(d, n, c).digits = d
         /\ ScanResult(d, n, c).negative = n
         /\ ScanResult(d, n, c).consumed = c
  BY DEF ScanResult

LEMMA ScanIs ==
  ASSUME NEW text
  PROVE  /\ Scan(text).digits = SubSeq(text, Start(text) + 1, End(text))
         /\ Scan(text).negative
              = (Start(text) > Blanks(text) /\ text[Start(text)] = "-")
         /\ Scan(text).consumed = End(text)
<1> DEFINE d == SubSeq(text, Start(text) + 1, End(text))
           n == Start(text) > Blanks(text) /\ text[Start(text)] = "-"
           c == End(text)
<1>1. Scan(text) = ScanResult(d, n, c)
  BY DEF Scan, Start, End, Blanks, Longest, ScanResult
<1> HIDE DEF d, n, c
<1>2. /\ ScanResult(d, n, c).digits = d
      /\ ScanResult(d, n, c).negative = n
      /\ ScanResult(d, n, c).consumed = c
  BY ScanFields
<1>3. Scan(text).digits = d /\ Scan(text).negative = n /\ Scan(text).consumed = c
  BY <1>1, <1>2, Zenon
<1> QED
  BY <1>3, Zenon DEF d, n, c

\* Where the parts of a text end.
LEMMA PartsOf ==
  ASSUME NEW C, NEW text \in Seq(C)
  PROVE  /\ Blanks(text) \in 0..Len(text)
         /\ \A i \in 1..Blanks(text) : text[i] = Blank
         /\ Blanks(text) < Len(text) => text[Blanks(text) + 1] # Blank
         /\ Start(text) \in Blanks(text)..Len(text)
         /\ Start(text) # Blanks(text) =>
              Start(text) = Blanks(text) + 1 /\ text[Start(text)] \in Signs
         /\ End(text) \in Start(text)..Len(text)
         /\ \A i \in Start(text) + 1..End(text) : text[i] \in Digits
<1>1. Len(text) \in Nat /\ 0 \in 0..Len(text)
  OBVIOUS
<1>2. PICK b : b = Blanks(text)
  OBVIOUS
<1>3. /\ b \in 0..Len(text)
      /\ \A i \in 0 + 1..b : text[i] \in {Blank}
      /\ b < Len(text) => text[b + 1] \notin {Blank}
  BY <1>1, <1>2, LongestIs DEF Blanks
<1>4. PICK s : s = Start(text)
  OBVIOUS
<1>5. s = IF b < Len(text) /\ text[b + 1] \in Signs THEN b + 1 ELSE b
  BY <1>2, <1>4 DEF Start
<1>6. s \in b..Len(text) /\ (s # b => s = b + 1 /\ text[s] \in Signs)
  BY <1>1, <1>3, <1>5
<1>7. s \in 0..Len(text)
  BY <1>1, <1>3, <1>6
<1>8. PICK e : e = End(text)
  OBVIOUS
<1>9. e \in s..Len(text) /\ \A i \in s + 1..e : text[i] \in Digits
  BY <1>4, <1>7, <1>8, LongestIs DEF End
<1> QED
  BY <1>2, <1>3, <1>4, <1>6, <1>8, <1>9

LEMMA SegmentOf ==
  ASSUME NEW C, NEW text \in Seq(C), NEW S,
         NEW m \in 0..Len(text), NEW n \in m..Len(text),
         \A i \in m + 1..n : text[i] \in S
  PROVE  SubSeq(text, m + 1, n) \in Seq(S)
<1>1. Len(text) \in Nat /\ m \in Nat /\ n \in Nat /\ (n + 1) - (m + 1) = n - m
      /\ n - m \in Nat
  OBVIOUS
<1>2. PICK s : s = SubSeq(text, m + 1, n)
  OBVIOUS
<1>3. s = [i \in 1..n - m |-> text[i + (m + 1) - 1]]
  BY <1>1, <1>2
<1>4. ASSUME NEW i \in 1..n - m PROVE s[i] \in S
  <2>1. i + (m + 1) - 1 = m + i /\ m + i \in m + 1..n
    BY <1>1
  <2>2. s[i] = text[m + i]
    BY <1>3, <2>1
  <2> QED
    BY <2>1, <2>2
<1>5. s \in [1..n - m -> S]
  BY <1>3, <1>4
<1>6. s \in Seq(S)
  BY <1>1, <1>5
<1> QED
  BY <1>2, <1>6

LEMMA MagnitudeIsNatural ==
  ASSUME NEW C, NEW text \in Seq(C)
  PROVE  Magnitude(text) \in Nat /\ stoll(text) \in Int
<1>1. PICK s, e : s = Start(text) /\ e = End(text)
  OBVIOUS
<1>2. Len(text) \in Nat /\ s \in 0..Len(text) /\ e \in s..Len(text)
      /\ \A i \in s + 1..e : text[i] \in Digits
  BY <1>1, PartsOf
<1>3. SubSeq(text, s + 1, e) \in Seq(Digits)
  BY <1>2, SegmentOf
<1>4. Magnitude(text) \in Nat
  BY <1>1, <1>3, ScanIs, NumberIsNatural DEF Magnitude
<1>5. stoll(text) = Magnitude(text) \/ stoll(text) = -Magnitude(text)
  BY DEF stoll
<1> QED
  BY <1>4, <1>5

\* There are digits if the number ends behind its start.
LEMMA IsNumberIff ==
  ASSUME NEW C, NEW text \in Seq(C)
  PROVE  IsNumber(text) <=> Start(text) < End(text)
<1>1. PICK s, e : s = Start(text) /\ e = End(text)
  OBVIOUS
<1>2. Len(text) \in Nat /\ s \in 0..Len(text) /\ e \in s..Len(text)
  BY <1>1, PartsOf
<1>3. Len(SubSeq(text, s + 1, e)) = e - s
  BY <1>2
<1>4. SubSeq(text, s + 1, e) \in Seq(C)
  BY <1>2
<1>5. SubSeq(text, s + 1, e) # <<>> <=> s < e
  BY <1>2, <1>3, <1>4
<1> QED
  BY <1>1, <1>5, ScanIs DEF IsNumber

-----------------------------------------------------------------------------
(* Numerals *)

LEMMA CharactersDiffer ==
  /\ Blank \notin Digits /\ Blank \notin Signs
  /\ "-" \in Signs /\ "+" \in Signs /\ "+" # "-"
  /\ \A c \in Signs : c \notin Digits /\ (c = "+" \/ c = "-")
  BY DEF Blank, Digits, Signs, DigitOf

BlankUpTo(text, n) == \A i \in 1..n : text[i] = Blank
DigitsAfter(text, n) == \A i \in n + 1..Len(text) : text[i] \in Digits
NumberAfter(text, n) == Number(SubSeq(text, n + 1, Len(text)))

\* The parts of a numeral: n characters are in front of the digits.
Numeral(text, n, sign) ==
  /\ n \in 0..Len(text) - 1
  /\ DigitsAfter(text, n)
  /\ IF sign = Blank THEN BlankUpTo(text, n)
       ELSE n # 0 /\ BlankUpTo(text, n - 1) /\ text[n] = sign

LEMMA DenotedIs ==
  ASSUME NEW text
  PROVE  \A v : v \in Denoted(text) <=>
           \E n \in 0..Len(text) - 1 :
             \/ Numeral(text, n, Blank) /\ v = NumberAfter(text, n)
             \/ Numeral(text, n, "+") /\ v = NumberAfter(text, n)
             \/ Numeral(text, n, "-") /\ v = -NumberAfter(text, n)
<1>1. Blank # "+" /\ Blank # "-"
  BY DEF Blank
<1>2. ASSUME NEW n \in 0..Len(text) - 1
      PROVE  /\ Numeral(text, n, Blank) <=>
                  DigitsAfter(text, n) /\ BlankUpTo(text, n)
             /\ Numeral(text, n, "+") <=>
                  DigitsAfter(text, n) /\ n # 0 /\ BlankUpTo(text, n - 1) /\ text[n] = "+"
             /\ Numeral(text, n, "-") <=>
                  DigitsAfter(text, n) /\ n # 0 /\ BlankUpTo(text, n - 1) /\ text[n] = "-"
  BY <1>1 DEF Numeral
<1> DEFINE before == {n \in 0..Len(text) - 1 : DigitsAfter(text, n)}
           signed(s) == {n \in before \ {0} : BlankUpTo(text, n - 1) /\ text[n] = s}
<1>3. Denoted(text) =
        {NumberAfter(text, n) :
           n \in {n \in before : BlankUpTo(text, n)} \cup signed("+")}
          \cup {-NumberAfter(text, n) : n \in signed("-")}
  BY DEF Denoted, DigitsAfter, BlankUpTo, NumberAfter
<1> QED
  BY <1>2, <1>3

\* A numeral is what std::stoll consumes, and the number that it returns.
LEMMA NumeralConsumed ==
  ASSUME NEW C, NEW text \in Seq(C), NEW n \in 0..Len(text) - 1,
         NEW sign \in {Blank} \cup Signs, Numeral(text, n, sign)
  PROVE  /\ IsNumber(text) /\ WhollyConsumed(text)
         /\ Scan(text).negative <=> sign = "-"
         /\ Magnitude(text) = NumberAfter(text, n)
<1>1. Len(text) \in Nat /\ n + 1 \in 1..Len(text) /\ text[n + 1] \in Digits
  BY DEF Numeral, DigitsAfter
<1>2. text[n + 1] # Blank /\ text[n + 1] \notin Signs
  BY <1>1, CharactersDiffer
<1> DEFINE b == IF sign = Blank THEN n ELSE n - 1
<1>3. b \in 0..Len(text) /\ b < Len(text) /\ (sign # Blank => n = b + 1)
  BY <1>1 DEF Numeral
<1>4. BlankUpTo(text, b) /\ text[b + 1] # Blank
  <2>1. CASE sign = Blank
    BY <1>2, <2>1 DEF Numeral
  <2>2. CASE sign # Blank
    BY <1>3, <2>2, CharactersDiffer DEF Numeral
  <2> QED
    BY <2>1, <2>2
<1>5. PICK m \in 0..Len(text) : m = b
  BY <1>3
<1>6. Blanks(text) = m
  <2>1. Len(text) \in Nat /\ 0 \in 0..Len(text) /\ m \in 0..Len(text)
        /\ (\A i \in 0 + 1..m : text[i] \in {Blank})
        /\ (m < Len(text) => text[m + 1] \notin {Blank})
    BY <1>1, <1>4, <1>5 DEF BlankUpTo
  <2>2. Longest(text, 0, {Blank}) = m
    BY <2>1, LongestUnique
  <2> QED
    BY <2>2 DEF Blanks
<1>7. Start(text) = n
  <2>1. CASE sign = Blank
    <3>1. m = n /\ text[m + 1] \notin Signs
      BY <1>2, <1>5, <2>1
    <3> QED
      BY <1>6, <3>1 DEF Start
  <2>2. CASE sign # Blank
    <3>1. n = m + 1 /\ m < Len(text) /\ text[m + 1] = sign
      BY <1>3, <1>5, <2>2 DEF Numeral
    <3> QED
      BY <1>6, <2>2, <3>1 DEF Start
  <2> QED
    BY <2>1, <2>2
<1>8. End(text) = Len(text)
  <2>1. n \in 0..Len(text) /\ Len(text) \in n..Len(text)
    BY <1>1
  <2>2. \A i \in n + 1..Len(text) : text[i] \in Digits
    BY DEF Numeral, DigitsAfter
  <2>3. Longest(text, n, Digits) = Len(text)
    BY <2>1, <2>2, LongestUnique
  <2> QED
    BY <1>7, <2>3 DEF End
<1>9. IsNumber(text)
  BY <1>1, <1>7, <1>8, IsNumberIff
<1>10. WhollyConsumed(text)
  BY <1>8, ScanIs DEF WhollyConsumed
<1>11. Magnitude(text) = NumberAfter(text, n)
  BY <1>7, <1>8, ScanIs DEF Magnitude, NumberAfter
<1>12. (Start(text) > Blanks(text) /\ text[Start(text)] = "-") <=> sign = "-"
  <2>1. CASE sign = Blank
    <3>1. Start(text) = n /\ Blanks(text) = n /\ ~(n > n)
      BY <1>1, <1>5, <1>6, <1>7, <2>1
    <3> QED
      BY <2>1, <3>1, CharactersDiffer
  <2>2. CASE sign # Blank
    <3>1. n > m /\ text[n] = sign
      BY <1>3, <1>5, <2>2 DEF Numeral
    <3> QED
      BY <1>6, <1>7, <3>1
  <2> QED
    BY <2>1, <2>2
<1>13. Scan(text).negative <=> sign = "-"
  BY <1>12, ScanIs, Zenon
<1> QED
  BY <1>9, <1>10, <1>11, <1>13

\* What is consumed up to the end of the text is a numeral.
LEMMA ConsumedIsNumeral ==
  ASSUME NEW C, NEW text \in Seq(C), IsNumber(text), WhollyConsumed(text)
  PROVE  \E n \in 0..Len(text) - 1, sign \in {Blank} \cup Signs :
           Numeral(text, n, sign)
<1>1. PICK b, s : b = Blanks(text) /\ s = Start(text)
  OBVIOUS
<1>2. End(text) = Len(text)
  BY ScanIs DEF WhollyConsumed
<1>3. s < Len(text)
  BY <1>1, <1>2, IsNumberIff
<1>4. /\ Len(text) \in Nat /\ b \in 0..Len(text)
      /\ \A i \in 1..b : text[i] = Blank
      /\ s \in b..Len(text)
      /\ s # b => s = b + 1 /\ text[s] \in Signs
      /\ \A i \in s + 1..Len(text) : text[i] \in Digits
  BY <1>1, <1>2, PartsOf
<1>5. s \in 0..Len(text) - 1
  BY <1>3, <1>4
<1>6. CASE s = b
  <2>1. Numeral(text, s, Blank)
    BY <1>4, <1>5, <1>6 DEF Numeral, DigitsAfter, BlankUpTo
  <2> QED
    BY <1>5, <2>1
<1>7. CASE s # b
  <2>1. s - 1 = b /\ s # 0 /\ text[s] \in Signs
    BY <1>4, <1>7
  <2>2. text[s] # Blank
    BY <2>1, CharactersDiffer
  <2>3. Numeral(text, s, text[s])
    BY <1>4, <1>5, <2>1, <2>2 DEF Numeral, DigitsAfter, BlankUpTo
  <2> QED
    BY <1>5, <2>1, <2>3
<1> QED
  BY <1>6, <1>7

\* A text denotes a number if std::stoll consumes all of it, and then the
\* number that std::stoll returns.
LEMMA DenotedIsParsed ==
  ASSUME NEW C, NEW text \in Seq(C)
  PROVE  Denoted(text) =
           IF IsNumber(text) /\ WhollyConsumed(text) THEN {stoll(text)} ELSE {}
<1>1. ASSUME NEW v, v \in Denoted(text)
      PROVE  IsNumber(text) /\ WhollyConsumed(text) /\ v = stoll(text)
  <2>1. PICK n \in 0..Len(text) - 1 :
             \/ Numeral(text, n, Blank) /\ v = NumberAfter(text, n)
             \/ Numeral(text, n, "+") /\ v = NumberAfter(text, n)
             \/ Numeral(text, n, "-") /\ v = -NumberAfter(text, n)
    BY <1>1, DenotedIs
  <2>2. Blank # "-" /\ Blank \in {Blank} \cup Signs
        /\ "+" \in {Blank} \cup Signs /\ "-" \in {Blank} \cup Signs
    BY CharactersDiffer
  <2>3. CASE Numeral(text, n, Blank) /\ v = NumberAfter(text, n)
    BY <2>2, <2>3, NumeralConsumed DEF stoll
  <2>4. CASE Numeral(text, n, "+") /\ v = NumberAfter(text, n)
    BY <2>2, <2>4, NumeralConsumed, CharactersDiffer DEF stoll
  <2>5. CASE Numeral(text, n, "-") /\ v = -NumberAfter(text, n)
    BY <2>2, <2>5, NumeralConsumed DEF stoll
  <2> QED
    BY <2>1, <2>3, <2>4, <2>5
<1>2. ASSUME IsNumber(text), WhollyConsumed(text)
      PROVE  stoll(text) \in Denoted(text)
  <2>1. PICK n \in 0..Len(text) - 1, sign \in {Blank} \cup Signs :
           Numeral(text, n, sign)
    BY <1>2, ConsumedIsNumeral
  <2>2. /\ Scan(text).negative <=> sign = "-"
        /\ Magnitude(text) = NumberAfter(text, n)
    BY <2>1, NumeralConsumed
  <2>3. CASE sign = "-"
    <3>1. stoll(text) = -NumberAfter(text, n)
      BY <2>2, <2>3 DEF stoll
    <3> QED
      BY <2>1, <2>3, <3>1, DenotedIs
  <2>4. CASE sign # "-"
    <3>1. stoll(text) = NumberAfter(text, n)
      BY <2>2, <2>4 DEF stoll
    <3>2. sign = Blank \/ sign = "+"
      BY <2>4, CharactersDiffer
    <3> QED
      BY <2>1, <3>1, <3>2, DenotedIs
  <2> QED
    BY <2>3, <2>4
<1> QED
  BY <1>1, <1>2

-----------------------------------------------------------------------------
(* The values *)

LEMMA Accepted ==
  /\ Refused.ok = FALSE
  /\ \A v : Accept(v).ok = TRUE /\ Accept(v).value = v
  /\ \A v, w : Accept(v) = Accept(w) <=> v = w
  /\ \A v : AcceptIf(TRUE, v) = Accept(v) /\ AcceptIf(FALSE, v) = Refused
  BY DEF Refused, Accept, AcceptIf

\* What a text gives for an integer type with the range S.
Exact(text, S) ==
  IF Denoted(text) \cap S = {} THEN Refused
    ELSE Accept(CHOOSE n \in Denoted(text) : TRUE)

LEMMA ExactIs ==
  ASSUME NEW C, NEW text \in Seq(C), NEW S
  PROVE  Exact(text, S) =
           IF IsNumber(text) /\ WhollyConsumed(text) /\ stoll(text) \in S
             THEN Accept(stoll(text)) ELSE Refused
<1>1. CASE IsNumber(text) /\ WhollyConsumed(text)
  <2>1. Denoted(text) = {stoll(text)}
    BY <1>1, DenotedIsParsed
  <2>2. (CHOOSE n \in Denoted(text) : TRUE) = stoll(text)
    BY <2>1
  <2>3. Denoted(text) \cap S = {} <=> stoll(text) \notin S
    BY <2>1
  <2> QED
    BY <1>1, <2>2, <2>3 DEF Exact
<1>2. CASE ~(IsNumber(text) /\ WhollyConsumed(text))
  <2>1. Denoted(text) \cap S = {}
    BY <1>2, DenotedIsParsed
  <2> QED
    BY <1>2, <2>1 DEF Exact
<1> QED
  BY <1>1, <1>2

LEMMA SignedExact ==
  ASSUME NEW C, NEW text \in Seq(C), NEW bits \in 1..LongBits
  PROVE  NumberConversion(text, bits) = Exact(text, SignedRange(bits))
<1>1. stoll(text) \in Int
  BY MagnitudeIsNatural
<1>2. CastSigned(stoll(text), bits) = stoll(text) <=> stoll(text) \in SignedRange(bits)
  BY <1>1, CastsExact
<1>3. stoll(text) \in SignedRange(bits) => FitsLong(text)
  BY RangesNested DEF FitsLong
<1>4. CASE IsNumber(text) /\ WhollyConsumed(text) /\ stoll(text) \in SignedRange(bits)
  <2>1. Exact(text, SignedRange(bits)) = Accept(stoll(text))
    BY <1>4, ExactIs
  <2>2. NumberConversion(text, bits) = Accept(stoll(text))
    BY <1>2, <1>3, <1>4, Accepted DEF NumberConversion
  <2> QED
    BY <2>1, <2>2
<1>5. CASE ~(IsNumber(text) /\ WhollyConsumed(text) /\ stoll(text) \in SignedRange(bits))
  <2>1. Exact(text, SignedRange(bits)) = Refused
    BY <1>5, ExactIs
  <2>2. NumberConversion(text, bits) = Refused
    BY <1>2, <1>5, Accepted DEF NumberConversion
  <2> QED
    BY <2>1, <2>2
<1> QED
  BY <1>4, <1>5

LEMMA UnsignedExact ==
  ASSUME NEW C, NEW text \in Seq(C), NEW bits \in 1..LongBits,
         "-" \notin Range(text)
  PROVE  UnsignedNumberConversion(text, bits) = Exact(text, UnsignedRange(bits))
<1>1. \A i \in 1..Len(text) : text[i] # "-"
  BY DEF Range
<1>2. ~Scan(text).negative
  <2>1. PICK b, s : b = Blanks(text) /\ s = Start(text)
    OBVIOUS
  <2>2. b \in 0..Len(text) /\ s \in b..Len(text) /\ Len(text) \in Nat
    BY <2>1, PartsOf
  <2>3. ~(s > b /\ text[s] = "-")
    BY <1>1, <2>2
  <2> QED
    BY <2>1, <2>3, ScanIs, Zenon
<1>3. stoll(text) = Magnitude(text) /\ stoull(text) = Magnitude(text)
  BY <1>2 DEF stoll, stoull
<1>4. stoull(text) = stoll(text) /\ stoll(text) \in Int
  BY <1>3, MagnitudeIsNatural
<1>5. ~(text # <<>> /\ text[1] = "-")
  <2> SUFFICES ASSUME text # <<>> PROVE text[1] # "-"
    OBVIOUS
  <2>1. 1 \in 1..Len(text)
    OBVIOUS
  <2> QED
    BY <1>1, <2>1
<1>6. CastUnsigned(stoull(text), bits) = stoull(text)
        <=> stoll(text) \in UnsignedRange(bits)
  BY <1>4, CastsExact
<1>7. stoll(text) \in UnsignedRange(bits) => FitsUnsignedLong(text)
  BY <1>3, RangesNested DEF FitsUnsignedLong
<1>8. CASE IsNumber(text) /\ WhollyConsumed(text) /\ stoll(text) \in UnsignedRange(bits)
  <2>1. Exact(text, UnsignedRange(bits)) = Accept(stoll(text))
    BY <1>8, ExactIs
  <2>2. UnsignedNumberConversion(text, bits) = Accept(stoll(text))
    BY <1>4, <1>5, <1>6, <1>7, <1>8, Accepted DEF UnsignedNumberConversion
  <2> QED
    BY <2>1, <2>2
<1>9. CASE ~(IsNumber(text) /\ WhollyConsumed(text) /\ stoll(text) \in UnsignedRange(bits))
  <2>1. Exact(text, UnsignedRange(bits)) = Refused
    BY <1>9, ExactIs
  <2>2. UnsignedNumberConversion(text, bits) = Refused
    BY <1>6, <1>9, Accepted DEF UnsignedNumberConversion
  <2> QED
    BY <2>1, <2>2
<1> QED
  BY <1>8, <1>9

\* The characters of a numeral have no case, and the last one is a digit.
LEMMA NumeralHasNoCase ==
  ASSUME NEW C, NEW text \in Seq(C), Denoted(text) # {}
  PROVE  /\ ToLower(text) = text
         /\ text # <<>> /\ text[1] \in NumberBegins
         /\ text[Len(text)] \in Digits
<1>1. PICK n \in 0..Len(text) - 1, sign \in {Blank} \cup Signs :
        Numeral(text, n, sign)
  BY DenotedIsParsed, ConsumedIsNumeral
<1>2. Len(text) \in Nat /\ Len(text) > 0
  BY <1>1
<1>3. ASSUME NEW i \in 1..Len(text) PROVE text[i] \in NumberBegins
  <2>1. CASE i \in n + 1..Len(text)
    BY <1>1, <2>1 DEF Numeral, DigitsAfter, NumberBegins
  <2>2. CASE i \in 1..n /\ sign = Blank
    BY <1>1, <2>2 DEF Numeral, BlankUpTo, NumberBegins
  <2>3. CASE i \in 1..n /\ sign # Blank
    <3>1. i \in 1..n - 1 \/ i = n
      BY <1>1, <2>3
    <3>2. (\A j \in 1..n - 1 : text[j] = Blank) /\ text[n] = sign
      BY <1>1, <2>3 DEF Numeral, BlankUpTo
    <3> QED
      BY <2>3, <3>1, <3>2 DEF NumberBegins
  <2> QED
    BY <1>1, <1>2, <2>1, <2>2, <2>3
<1>4. \A i \in 1..Len(text) : text[i] \notin DOMAIN LowerCase
  BY <1>3, LowerCaseAssumption
<1>5. ToLower(text) = text
  <2>1. DOMAIN text = 1..Len(text) /\ text = [i \in DOMAIN text |-> text[i]]
    OBVIOUS
  <2> QED
    BY <1>4, <2>1 DEF ToLower
<1>6. text[Len(text)] \in Digits
  BY <1>1, <1>2 DEF Numeral, DigitsAfter
<1>7. text # <<>> /\ text[1] \in NumberBegins
  BY <1>2, <1>3
<1> QED
  BY <1>5, <1>6, <1>7

LEMMA WordsDiffer ==
  /\ TrueWords \cap FalseWords = {}
  /\ \A word \in TrueWords : word[Len(word)] \notin Digits
  /\ \A word \in FalseWords : word[Len(word)] \in Digits => word = <<"0">>
<1> DEFINE Last_(word) == word[Len(word)]
<1>1. TrueWords \cap FalseWords = {}
  BY DEF TrueWords, FalseWords
<1>2. Digits = {"0", "1", "2", "3", "4", "5", "6", "7", "8", "9"}
  BY DEF Digits, DigitOf
<1>3. /\ Last_(<<"f", "a", "l", "s", "e">>) = "e" /\ Last_(<<"o", "f", "f">>) = "f"
      /\ Last_(<<"n", "o">>) = "o" /\ Last_(<<"f">>) = "f" /\ Last_(<<"n">>) = "n"
      /\ Last_(<<"d", "i", "s", "a", "b", "l", "e">>) = "e" /\ Last_(<<"-">>) = "-"
  OBVIOUS
<1>4. /\ Last_(<<"t", "r", "u", "e">>) = "e" /\ Last_(<<"o", "n">>) = "n"
      /\ Last_(<<"y", "e", "s">>) = "s" /\ Last_(<<"e", "n", "a", "b", "l", "e">>) = "e"
      /\ Last_(<<"t">>) = "t" /\ Last_(<<"y">>) = "y" /\ Last_(<<"+">>) = "+"
  OBVIOUS
<1> HIDE DEF Last_
<1>5. ASSUME NEW word \in FalseWords, word # <<"0">>
      PROVE  Last_(word) \in {"e", "f", "o", "n", "-"}
  BY <1>3, <1>5 DEF FalseWords
<1>6. ASSUME NEW word \in TrueWords
      PROVE  Last_(word) \in {"e", "n", "s", "t", "y", "+"}
  BY <1>4 DEF TrueWords
<1>7. \A c \in {"e", "f", "o", "n", "-", "s", "t", "y", "+"} : c \notin Digits
  BY <1>2
<1> QED
  BY <1>1, <1>5, <1>6, <1>7 DEF Last_

LEMMA ZeroIsZero ==
  ASSUME NEW C, NEW text \in Seq(C), Len(text) = 1, text[1] = "0",
         NEW n, n \in Denoted(text)
  PROVE  n = 0
<1>1. DigitOf["0"] = 0 /\ "0" \in Digits
  BY DEF Digits, DigitOf
<1>2. PICK k \in 0..Len(text) - 1 :
        n = NumberAfter(text, k) \/ n = -NumberAfter(text, k)
  BY DenotedIs
<1>3. k = 0
  BY <1>2
<1>4. SubSeq(text, 1, 1) = <<text[1]>>
  BY OneElement
<1>5. NumberAfter(text, 0) = Number(<<text[1]>>)
  <2>1. SubSeq(text, 0 + 1, Len(text)) = <<text[1]>>
    BY <1>4
  <2> QED
    BY <2>1, Zenon DEF NumberAfter
<1>6. NumberAfter(text, 0) = 0
  BY <1>1, <1>5, NumberOfOneDigit
<1> QED
  BY <1>2, <1>3, <1>6

LEMMA CasesOfBool ==
  ASSUME NEW text
  PROVE  /\ ToLower(text) \in TrueWords => ParseBool(text) = Accept(TRUE)
         /\ ToLower(text) \in FalseWords => ParseBool(text) = Accept(FALSE)
         /\ ToLower(text) \notin TrueWords \cup FalseWords
              /\ IsNumber(ToLower(text)) =>
              ParseBool(text) =
                Accept(IF FitsLong(ToLower(text)) THEN stoll(ToLower(text)) > 0
                         ELSE text[1] # "-")
<1> DEFINE val == ToLower(text)
           byNumber == IF ~IsNumber(val) THEN Refused
                       ELSE Accept(IF FitsLong(val) THEN stoll(val) > 0
                                     ELSE text[1] # "-")
<1>1. ParseBool(text) = CASE val \in TrueWords  -> Accept(TRUE)
                          [] val \in FalseWords -> Accept(FALSE)
                          [] OTHER -> byNumber
  BY DEF ParseBool
<1> HIDE DEF val, byNumber
<1>2. val \in TrueWords => val \notin FalseWords
  BY WordsDiffer
<1>3. CASE val \in TrueWords
  <2>1. ParseBool(text) = Accept(TRUE)
    BY <1>1, <1>2, <1>3
  <2> QED
    BY <1>2, <1>3, <2>1 DEF val
<1>4. CASE val \in FalseWords
  <2>1. ParseBool(text) = Accept(FALSE)
    BY <1>1, <1>2, <1>4
  <2> QED
    BY <1>2, <1>4, <2>1 DEF val
<1>5. CASE val \notin TrueWords \cup FalseWords
  <2>1. ParseBool(text) = byNumber
    BY <1>1, <1>5
  <2> QED
    BY <1>5, <2>1, Zenon DEF val, byNumber
<1> QED
  BY <1>3, <1>4, <1>5

LEMMA BoolBySign ==
  ASSUME NEW C, NEW text \in Seq(C), text[1] # Blank,
         NEW n, n \in Denoted(text)
  PROVE  ParseBool(text) = Accept(n > 0)
<1>1. /\ ToLower(text) = text /\ text # <<>>
      /\ text[Len(text)] \in Digits
  BY NumeralHasNoCase
<1>2. IsNumber(text) /\ n = stoll(text)
  BY DenotedIsParsed
<1>3. text \notin TrueWords
  BY <1>1, WordsDiffer
<1>4. CASE text \in FalseWords
  <2>1. text = <<"0">>
    BY <1>1, <1>4, WordsDiffer
  <2>2. n = 0
    <3>1. Len(text) = 1 /\ text[1] = "0"
      BY <2>1
    <3> QED
      BY <3>1, ZeroIsZero
  <2>3. (n > 0) = FALSE
    BY <2>2
  <2>4. ParseBool(text) = Accept(FALSE)
    BY <1>1, <1>4, CasesOfBool
  <2> QED
    BY <2>3, <2>4
<1>5. CASE text \notin FalseWords
  <2> DEFINE sign == IF FitsLong(text) THEN stoll(text) > 0 ELSE text[1] # "-"
  <2>1. ParseBool(text) = Accept(sign)
    BY <1>1, <1>2, <1>3, <1>5, CasesOfBool
  <2>2. ASSUME ~FitsLong(text) PROVE n > 0 <=> text[1] # "-"
    <3>1. PICK s, b : s = Start(text) /\ b = Blanks(text)
      OBVIOUS
    <3>2. Len(text) \in Nat /\ b \in 0..Len(text)
          /\ (\A i \in 1..b : text[i] = Blank)
          /\ s \in b..Len(text)
          /\ (s # b => s = b + 1 /\ text[s] \in Signs)
          /\ End(text) \in s..Len(text)
          /\ \A i \in s + 1..End(text) : text[i] \in Digits
      BY <3>1, PartsOf
    <3>3. b = 0
      BY <3>2
    <3>4. s < End(text)
      BY <1>2, <3>1, IsNumberIff
    <3>5. (s > b /\ text[s] = "-") <=> text[1] = "-"
      <4>1. CASE s = b
        <5>1. text[1] \in Digits
          BY <3>2, <3>3, <3>4, <4>1
        <5> QED
          BY <3>2, <4>1, <5>1, CharactersDiffer
      <4>2. CASE s # b
        BY <3>2, <3>3, <4>2
      <4> QED
        BY <4>1, <4>2
    <3>6. Scan(text).negative <=> text[1] = "-"
      BY <3>1, <3>5, ScanIs, Zenon
    <3>7. PICK h : h = PowerOf2[LongBits - 1]
      OBVIOUS
    <3>8. h \in Nat \ {0} /\ stoll(text) \notin -h .. h - 1
      <4>1. LongBits - 1 \in Nat
        BY LongBitsAssumption
      <4>2. h \in Nat \ {0}
        BY <3>7, <4>1, Powers
      <4> QED
        BY <2>2, <3>7, <4>2 DEF FitsLong, SignedRange
    <3>9. Magnitude(text) \in Nat
      BY MagnitudeIsNatural
    <3>10. CASE Scan(text).negative
      <4>1. n = -Magnitude(text)
        BY <1>2, <3>10 DEF stoll
      <4> QED
        BY <3>6, <3>9, <3>10, <4>1
    <3>11. CASE ~Scan(text).negative
      <4>1. n = Magnitude(text)
        BY <1>2, <3>11 DEF stoll
      <4>2. n > 0
        BY <1>2, <3>8, <3>9, <4>1
      <4> QED
        BY <3>6, <3>11, <4>2
    <3> QED
      BY <3>10, <3>11
  <2>3. (n > 0) = sign
    BY <1>2, <2>2
  <2> HIDE DEF sign
  <2> QED
    BY <2>1, <2>3, Zenon
<1> QED
  BY <1>4, <1>5

\* No enumerator has the name of a number.
LEMMA NumeralIsNoName ==
  ASSUME NEW C, NEW text \in Seq(C), Denoted(text) # {}
  PROVE  ToLower(text) \notin DOMAIN Enumerators
  BY NumeralHasNoCase, EnumeratorsAssumption

-----------------------------------------------------------------------------
(* The answer of an option *)

\* What was asked, and that the answer is the conversion of the text.
AnswerIsParsed ==
  answer # <<>> =>
    /\ answer[1].type \in Types
    /\ answer[1].text \in Texts
    /\ answer[1].parsed = ParseValueAs(answer[1].type, answer[1].text)

LEMMA StepKeepsAnswer == TypeOK /\ AnswerIsParsed /\ [Next]_vars => AnswerIsParsed'
<1> SUFFICES ASSUME TypeOK, AnswerIsParsed, [Next]_vars
             PROVE  AnswerIsParsed'
  OBVIOUS
<1>1. CASE UNCHANGED answer
  BY <1>1 DEF AnswerIsParsed
<1>2. ASSUME NEW o \in Range(given), NEW text \in Texts, Parse(o, text)
      PROVE  AnswerIsParsed'
  <2>1. CASE UNCHANGED answer
    BY <1>1, <2>1
  <2>2. CASE ~(o = 0 \/ options[o].value_semantic_ = 0)
    <3> DEFINE d == options[o].value_semantic_
               type == descriptors[d].type
    <3>1. o \in 1..Len(options)
      BY <2>2, TypeElements DEF Range
    <3>2. d \in 1..Len(descriptors)
      BY <2>2, <3>1, TypeElements
    <3>3. type \in Types
      BY <3>2, TypeElements DEF DescriptorRecords
    <3>4. answer' = << [type |-> type, text |-> text,
                        parsed |-> ParseValueAs(type, text),
                        implicit |-> descriptors[d].implicit] >>
      BY <1>2, <2>2 DEF Parse
    <3> HIDE DEF d, type
    <3>5. answer'[1].type = type /\ answer'[1].text = text
          /\ answer'[1].parsed = ParseValueAs(type, text)
      BY <3>4
    <3> QED
      BY <3>3, <3>5 DEF AnswerIsParsed
  <2> QED
    BY <1>2, <2>1, <2>2 DEF Parse
<1>3. CASE BuilderCall \/ Finished \/ UNCHANGED vars
  <2>1. UNCHANGED answer
    BY <1>3 DEF BuilderCall, Finished, vars, WithKey, Name, Required, Build,
         DefaultValue, ImplicitValue, Repeatable, ChangeDescriptor, WithValue, Call
  <2> QED
    BY <1>1, <2>1
<1> QED
  BY <1>2, <1>3 DEF Next

LEMMA AnswersParsed == Spec => []AnswerIsParsed
<1>1. Init => AnswerIsParsed
  BY DEF Init, AnswerIsParsed
<1> QED
  BY <1>1, BuildersTypeCorrect, StepKeepsAnswer, PTL DEF Spec

LEMMA TypeFacts ==
  ASSUME NEW type \in Types
  PROVE  /\ type.kind \in {"signed", "unsigned", "bool", "char", "enum", "string"}
         /\ type.bits \in 1..LongBits
  BY TypesAssumption

\* The conversion of a text is chosen by the kind of the type.
LEMMA ParsedByKind ==
  ASSUME NEW type \in Types, NEW text
  PROVE  /\ type.kind = "signed" =>
              ParseValueAs(type, text) = NumberConversion(text, type.bits)
         /\ type.kind = "unsigned" =>
              ParseValueAs(type, text) = UnsignedNumberConversion(text, type.bits)
         /\ type.kind = "bool" => ParseValueAs(type, text) = ParseBool(text)
         /\ type.kind = "enum" => ParseValueAs(type, text) = ParseEnum(text, type.bits)
  BY DEF ParseValueAs

LEMMA TextIsSequence ==
  ASSUME NEW text \in Texts
  PROVE  text \in Seq(DOMAIN CodeOf)
  BY TextsAssumption

LEMMA NumbersExact == AnswerIsParsed => NumbersAreExact
<1> SUFFICES ASSUME AnswerIsParsed, Answered({"signed", "unsigned"}),
                    answer[1].type.kind = "signed" \/ "-" \notin Range(answer[1].text)
             PROVE  answer[1].parsed
                      = Exact(answer[1].text, TypeRange(answer[1].type))
  BY DEF NumbersAreExact, Exact
<1>1. PICK type \in Types, text \in Texts :
        /\ type = answer[1].type /\ text = answer[1].text
        /\ answer[1].parsed = ParseValueAs(type, text)
  BY DEF AnswerIsParsed, Answered
<1>2. type.bits \in 1..LongBits /\ text \in Seq(DOMAIN CodeOf)
  BY TypeFacts, TextIsSequence
<1>3. type.kind = "signed" \/ type.kind = "unsigned"
  BY <1>1 DEF Answered
<1>4. CASE type.kind = "signed"
  <2>1. TypeRange(type) = SignedRange(type.bits)
    BY <1>4 DEF TypeRange
  <2>2. NumberConversion(text, type.bits) = Exact(text, SignedRange(type.bits))
    BY <1>2, SignedExact
  <2> QED
    BY <1>1, <1>4, <2>1, <2>2, ParsedByKind
<1>5. CASE type.kind = "unsigned"
  <2>1. TypeRange(type) = UnsignedRange(type.bits)
    BY <1>5 DEF TypeRange
  <2>2. "-" \notin Range(text)
    BY <1>1, <1>5
  <2>3. UnsignedNumberConversion(text, type.bits) = Exact(text, UnsignedRange(type.bits))
    BY <1>2, <2>2, UnsignedExact
  <2> QED
    BY <1>1, <1>5, <2>1, <2>3, ParsedByKind
<1> QED
  BY <1>3, <1>4, <1>5

LEMMA BooleansSigned == AnswerIsParsed => BooleansBySign
<1> SUFFICES ASSUME AnswerIsParsed, Answered({"bool"})
             PROVE  BooleansBySign
  BY DEF BooleansBySign
<1>1. PICK type \in Types, text \in Texts :
        /\ type = answer[1].type /\ text = answer[1].text
        /\ answer[1].parsed = ParseValueAs(type, text)
  BY DEF AnswerIsParsed, Answered
<1>2. answer[1].parsed = ParseBool(text)
  <2>1. type.kind = "bool"
    BY <1>1 DEF Answered
  <2> QED
    BY <1>1, <2>1, ParsedByKind
<1>3. text \in Seq(DOMAIN CodeOf)
  BY TextIsSequence
<1>4. text # <<>> /\ text[1] # Blank =>
        \A n \in Denoted(text) : answer[1].parsed = Accept(n > 0)
  BY <1>2, <1>3, BoolBySign, Zenon
<1>5. /\ ToLower(text) \in TrueWords => answer[1].parsed = Accept(TRUE)
      /\ ToLower(text) \in FalseWords => answer[1].parsed = Accept(FALSE)
  BY <1>2, CasesOfBool, Zenon
<1> QED
  BY <1>1, <1>4, <1>5, Zenon DEF BooleansBySign

\* A numeral of an enumerator's value is accepted, and nothing else that is
\* not a name.
LEMMA EnumeratorByNumber ==
  ASSUME NEW C, NEW text \in Seq(C), NEW bits \in 1..LongBits,
         Range(Enumerators) \subseteq SignedRange(bits),
         NEW name \in DOMAIN Enumerators, Denoted(text) = {Enumerators[name]}
  PROVE  ParseEnum(text, bits) = Accept(Enumerators[name])
<1> DEFINE v == Enumerators[name]
<1>1. ToLower(text) \notin DOMAIN Enumerators
  BY NumeralIsNoName
<1>2. v \in Range(Enumerators)
  BY DEF Range
<1>3. Exact(text, SignedRange(bits)) = Accept(v)
  <2>1. Denoted(text) \cap SignedRange(bits) # {}
    BY <1>2
  <2>2. (CHOOSE n \in Denoted(text) : TRUE) = v
    OBVIOUS
  <2> QED
    BY <2>1, <2>2 DEF Exact
<1>4. NumberConversion(text, bits) = Accept(v)
  BY <1>3, SignedExact
<1> HIDE DEF v
<1>5. Accept(v).ok /\ Accept(v).value = v
  BY Accepted
<1>6. ParseEnum(text, bits) = Accept(v)
  BY <1>1, <1>2, <1>4, <1>5 DEF ParseEnum
<1> QED
  BY <1>6 DEF v

LEMMA EnumeratorsReached == AnswerIsParsed => EnumeratorsOnly
<1> SUFFICES ASSUME AnswerIsParsed, Answered({"enum"})
             PROVE  EnumeratorsOnly
  BY DEF EnumeratorsOnly
<1>1. PICK type \in Types, text \in Texts :
        /\ type = answer[1].type /\ text = answer[1].text
        /\ answer[1].parsed = ParseValueAs(type, text)
  BY DEF AnswerIsParsed, Answered
<1>2. type.kind = "enum"
  BY <1>1 DEF Answered
<1>3. answer[1].parsed = ParseEnum(text, type.bits)
  BY <1>1, <1>2, ParsedByKind
<1>4. type.bits \in 1..LongBits /\ text \in Seq(DOMAIN CodeOf)
      /\ Range(Enumerators) \subseteq SignedRange(type.bits)
  BY <1>2, TypeFacts, TextIsSequence, UnderlyingTypeAssumption
<1> DEFINE parsed == ParseEnum(text, type.bits)
           number == NumberConversion(text, type.bits)
<1>5. parsed.ok => parsed.value \in Range(Enumerators)
  <2>1. CASE ToLower(text) \in DOMAIN Enumerators
    <3>1. parsed = Accept(Enumerators[ToLower(text)])
      BY <2>1 DEF ParseEnum
    <3>2. parsed.value = Enumerators[ToLower(text)]
      BY <3>1, Accepted
    <3> HIDE DEF parsed
    <3> QED
      BY <2>1, <3>2 DEF Range
  <2>2. CASE ToLower(text) \notin DOMAIN Enumerators
    <3>1. parsed = IF number.ok /\ number.value \in Range(Enumerators)
                     THEN number ELSE Refused
      BY <2>2 DEF ParseEnum
    <3> HIDE DEF parsed, number
    <3> QED
      BY <3>1, Accepted
  <2> QED
    BY <2>1, <2>2
<1>6. ASSUME NEW name \in DOMAIN Enumerators, ToLower(name) = name,
             text = name \/ Denoted(text) = {Enumerators[name]}
      PROVE  parsed = Accept(Enumerators[name])
  <2>1. CASE text = name
    <3>1. ToLower(text) = name
      BY <1>6, <2>1
    <3> QED
      BY <3>1 DEF ParseEnum
  <2>2. CASE Denoted(text) = {Enumerators[name]}
    BY <1>4, <2>2, EnumeratorByNumber
  <2> QED
    BY <1>6, <2>1, <2>2
<1> HIDE DEF parsed
<1>7. answer[1].parsed = parsed
  BY <1>3 DEF parsed
<1> QED
  BY <1>1, <1>5, <1>6, <1>7, Zenon DEF EnumeratorsOnly

\* An integer option takes exactly the numerals of the numbers in the range of
\* its type, and takes the number itself, for every width of the type up to
\* that of long long and for texts of every length: NumberConversion() and
\* UnsignedNumberConversion() compare the number with what the cast made of it
\* (parse_value.h:33-36, 54-57), and that is enough.
THEOREM IntegersAreExact == Spec => []NumbersAreExact
  BY AnswersParsed, NumbersExact, PTL

\* A numeral of any size stands for its sign when it is given to a Boolean,
\* out of the range of long long too, and the words do in any case
\* (StringToFlagValue, parse_value.h:82-127).
THEOREM BooleansTakeSigns == Spec => []BooleansBySign
  BY AnswersParsed, BooleansSigned, PTL

\* What comes out of a text for an enumeration is one of its enumerators, and
\* each of them can be given by its name in lower case and by any numeral of
\* its value: names and numerals are not mixed up (parse_value.h:178-197).
THEOREM OnlyEnumerators == Spec => []EnumeratorsOnly
  BY AnswersParsed, EnumeratorsReached, PTL

=============================================================================

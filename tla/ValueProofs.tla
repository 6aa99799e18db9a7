---------------------------- MODULE ValueProofs ----------------------------
(***************************************************************************)
(* Proofs about the values that CmdLineParser stores: they are never       *)
(* changed or removed, an accepted command line has all those it must      *)
(* have, every occurrence of an option gives exactly one, none is used     *)
(* twice or lost, and positional arguments get theirs in order.            *)
(***************************************************************************)
EXTENDS CmdLineParserProofs

-----------------------------------------------------------------------------
(* How a step changes the map of values *)

\* One of the lists that CheckRequiredOptions is called with gets its defaults.
FillsIn == \E opts \in {CommandOptions, Positionals} : ApplyDefaults(opts)

\* The token handled is stored for a positional argument of the command.
StoresPositional ==
  \E p \in DOMAIN Positionals : \E text \in Segments :
    StorePositional(Positionals[p], text)

\* An option state stores its value.
StoresForOption ==
  \E v \in {ImplicitValue, TokenValue(token.text)} :
    StoreValue(ActiveOption.key, v)

LEMMA OptionStateStores ==
  ASSUME \/ ParseShortOption_Value   \/ ParseShortOption_Other
         \/ ParseLongOption_EqualSign
         \/ ParseLongOption_Value    \/ ParseLongOption_Other
  PROVE  machine \in OptionStates /\ (ovm' = ovm \/ StoresForOption)
<1>1. machine \in OptionStates
  BY DEF ParseShortOption_Value, ParseShortOption_Other,
     ParseLongOption_EqualSign, ParseLongOption_Value, ParseLongOption_Other,
     Handling, OptionStates
<1>2. \/ LeaveOption
      \/ \E may_imply \in BOOLEAN : TakeValue(may_imply)
      \/ ovm' = ovm
  <2>1. (~after_equal_sign) \in BOOLEAN
    OBVIOUS
  <2> QED
    BY <2>1, Zenon DEF ParseShortOption_Value, ParseShortOption_Other,
       ParseLongOption_EqualSign, ParseLongOption_Value, ParseLongOption_Other,
       contextVars
<1> QED
  BY <1>1, <1>2 DEF LeaveOption, TakeValue, StoresForOption

LEMMA FinalStateStores ==
  ASSUME IInv,
         \/ Final_RestDeclared  \/ Final_Positional
         \/ Final_Leftover
         \/ Final_CheckOptions  \/ Final_CheckPositionals
  PROVE  /\ machine = "FinalState"
         /\ ovm' = ovm \/ StoresPositional \/ FillsIn
<1>1. machine = "FinalState" /\ active_command # 0
  <2>1. machine = "FinalState"
    BY DEF Final_RestDeclared, Final_Positional, Final_Leftover,
       Final_CheckOptions, Final_CheckPositionals, CheckRequiredOptions,
       Finishing, Handling
  <2> QED
    BY <2>1, ContextTypesOpened DEF CommandKnown, MachineStates
<1>2. positional_tokens \in Seq(Segments) /\ Positionals \in Seq(Options)
  BY <1>1, ContextTypesOpened, CommandTypes DEF Segments
<1>3. CASE Final_RestDeclared
  BY <1>1, <1>3 DEF Final_RestDeclared, contextVars
<1>4. CASE Final_Positional
  <2>1. CASE positional_tokens = <<>>
    BY <1>1, <1>4, <2>1 DEF Final_Positional
  <2>2. CASE positional_tokens # <<>>
    <3>1. next_positional \in DOMAIN Positionals
      <4>1. next_positional \in Nat \ {0} /\ next_positional <= Len(Positionals)
        BY <1>4, ContextTypesOpened DEF Final_Positional, InPositionals, FinalTypeOK
      <4> QED
        BY <1>2, <4>1
    <3>2. PickedPosition \in DOMAIN positional_tokens
      <4>1. Len(positional_tokens) \in Nat \ {0}
              /\ DOMAIN positional_tokens = 1..Len(positional_tokens)
        BY <1>2, <2>2, EmptySeq
      <4> QED
        BY <4>1 DEF PickedPosition
    <3>3. positional_tokens[PickedPosition] \in Segments
      BY <1>2, <3>2, ElementTypes
    <3>4. StorePositional(Positionals[next_positional],
                          positional_tokens[PickedPosition])
      BY <1>4, <2>2 DEF Final_Positional
    <3> QED
      BY <1>1, <3>1, <3>3, <3>4 DEF StoresPositional
  <2> QED
    BY <2>1, <2>2
<1>5. CASE Final_Leftover
  <2>1. Head(positional_tokens) \in Segments
    BY <1>2, <1>5 DEF Final_Leftover
  <2>2. rest_option # 0 => rest_option \in DOMAIN Positionals
    BY ContextTypesOpened DEF FinalTypeOK
  <2> QED
    BY <1>1, <1>5, <2>1, <2>2 DEF Final_Leftover, StoresPositional
<1>6. CASE Final_CheckOptions \/ Final_CheckPositionals
  BY <1>1, <1>6 DEF Final_CheckOptions, Final_CheckPositionals,
     CheckRequiredOptions, FillsIn
<1> QED
  BY <1>3, <1>4, <1>5, <1>6

\* The steps of the other states store nothing.
LEMMA StepStores ==
  ASSUME IInv, Next
  PROVE  \/ ovm' = ovm
         \/ machine \in OptionStates /\ StoresForOption
         \/ machine = "FinalState" /\ (StoresPositional \/ FillsIn)
<1>1. CASE \/ InitialState_Value    \/ InitialState_Other
           \/ IdentifyCommand_Value \/ IdentifyCommand_Other
           \/ ParseOptions_Value    \/ ParseOptions_EndOfInput
           \/ ParseOptions_DashDash \/ ParseOptions_EqualSign
           \/ ParseOptions_ShortOption \/ ParseOptions_LongOption
           \/ DashDash_Any
  BY <1>1 DEF InitialState_Value, InitialState_Other, IdentifyCommand_Value,
     IdentifyCommand_Other, ParseOptions_Value, ParseOptions_EndOfInput,
     ParseOptions_DashDash, ParseOptions_EqualSign, ParseOptions_ShortOption,
     ParseOptions_LongOption, DashDash_Any, contextVars
<1>2. CASE Stopped
  BY <1>2 DEF Stopped, vars, contextVars
<1> QED
  BY <1>1, <1>2, OptionStateStores, FinalStateStores DEF Next, Step

\* Which keys ApplyDefaults changes: only such as have no value.
LEMMA DefaultsFill ==
  ASSUME ovm \in [Keys -> Seq(OptionValues)], NEW opts, ApplyDefaults(opts)
  PROVE  \A k \in Keys : \/ ovm'[k] = ovm[k]
                         \/ ovm[k] = <<>> /\ ovm'[k] = <<DefaultValue>>
<1> DEFINE stop == IF Missing(opts) = {} THEN Len(opts) + 1 ELSE Min(Missing(opts))
           K == {opts[i].key : i \in Defaulted(opts, stop)}
<1>1. ovm' = [k \in Keys |-> IF k \in K THEN <<DefaultValue>> ELSE ovm[k]]
  BY Zenon DEF ApplyDefaults
<1>2. \A k \in K : ovm[k] = <<>>
  BY DEF Defaulted
<1> HIDE DEF K
<1> QED
  BY <1>1, <1>2

\* A value of the map after a value was stored under a key.
LEMMA StoredIs ==
  ASSUME ovm \in [Keys -> Seq(OptionValues)], NEW key \in Keys, NEW v,
         StoreValue(key, v)
  PROVE  /\ ovm'[key] = Append(ovm[key], v)
         /\ \A k \in Keys : k # key => ovm'[k] = ovm[k]
<1>1. ovm' = [ovm EXCEPT ![key] = Append(@, v)]
  BY DEF StoreValue
<1> HIDE DEF StoreValue
<1> QED
  BY <1>1, Zenon

-----------------------------------------------------------------------------
(* Values are never changed or removed *)

\* The values of key k are still there, where they were.
Keeps(k) == /\ Len(ovm[k]) <= Len(ovm'[k])
            /\ SubSeq(ovm'[k], 1, Len(ovm[k])) = ovm[k]

\* A sequence with one value more begins with the sequence.
LEMMA AppendBegins ==
  ASSUME NEW S, NEW s \in Seq(S), NEW e \in S
  PROVE  Len(s) <= Len(Append(s, e)) /\ SubSeq(Append(s, e), 1, Len(s)) = s
<1>1. Len(s) \in Nat /\ Append(s, e) \in Seq(S) /\ Len(Append(s, e)) = Len(s) + 1
  OBVIOUS
<1>2. \A i \in 1..Len(s) : Append(s, e)[i] = s[i]
  OBVIOUS
<1> DEFINE t == Append(s, e)
<1> HIDE DEF t
<1>3. Len(t) = Len(s) + 1 /\ t \in Seq(S) /\ \A i \in 1..Len(s) : t[i] = s[i]
  BY <1>1, <1>2 DEF t
<1>4. SubSeq(t, 1, Len(s)) = s
  BY <1>1, <1>3
<1> QED
  BY <1>1, <1>3, <1>4 DEF t

LEMMA StoringKeeps ==
  ASSUME IInv, NEW key \in Keys, NEW v \in OptionValues, StoreValue(key, v)
  PROVE  \A k \in Keys : Keeps(k)
<1>1. ovm \in [Keys -> Seq(OptionValues)]
  BY ContextTypesOpened
<1> SUFFICES ASSUME NEW k \in Keys PROVE Keeps(k)
  OBVIOUS
<1>2. ovm[k] \in Seq(OptionValues)
  BY <1>1
<1>3. CASE k = key
  BY <1>1, <1>2, <1>3, StoredIs, AppendBegins DEF Keeps
<1>4. CASE k # key
  <2>1. ovm'[k] = ovm[k]
    BY <1>1, <1>4, StoredIs
  <2> QED
    BY <1>2, <2>1 DEF Keeps
<1> QED
  BY <1>3, <1>4

\* Whatever happens on the command line, a value that was stored stays where
\* it is while the parser runs, and the command stays the one that was found.
THEOREM ResultsGrow == Spec => ResultsOnlyGrow
<1>1. IInv /\ [Next]_vars =>
        [/\ \A k \in Keys : /\ Len(ovm[k]) <= Len(ovm'[k])
                            /\ SubSeq(ovm'[k], 1, Len(ovm[k])) = ovm[k]
         /\ machine \in CommandKnown => active_command' = active_command]_vars
  <2> SUFFICES ASSUME IInv, Next
               PROVE  /\ \A k \in Keys : Keeps(k)
                      /\ machine \in CommandKnown => active_command' = active_command
    BY DEF Keeps
  <2>1. ovm \in [Keys -> Seq(OptionValues)]
    BY ContextTypesOpened
  <2>2. ASSUME ovm' = ovm PROVE \A k \in Keys : Keeps(k)
    <3>1. ASSUME NEW k \in Keys PROVE Keeps(k)
      <4>1. ovm[k] \in Seq(OptionValues)
        BY <2>1
      <4> QED
        BY <2>2, <4>1 DEF Keeps
    <3> QED
      BY <3>1
  <2>3. ASSUME machine \in OptionStates, StoresForOption
        PROVE  \A k \in Keys : Keeps(k)
    <3>1. ActiveOption.key \in Keys /\ token.text \in Texts \cup {""}
      BY <2>3, ContextTypesOpened
    <3> QED
      BY <2>3, <3>1, ValueTypes, StoringKeeps DEF StoresForOption
  <2>4. ASSUME machine = "FinalState", StoresPositional
        PROVE  \A k \in Keys : Keeps(k)
    <3>1. PICK p \in DOMAIN Positionals, text \in Segments :
            StorePositional(Positionals[p], text)
      BY <2>4 DEF StoresPositional
    <3>2. active_command # 0
      BY <2>4, ContextTypesOpened DEF CommandKnown, MachineStates
    <3>3. Positionals[p].key \in Keys /\ PositionalValue(text) \in OptionValues
      BY <3>2, OptionOfCommand, ValueTypes DEF Segments
    <3> QED
      BY <2>2, <3>1, <3>3, StoringKeeps DEF StorePositional
  <2>5. ASSUME machine = "FinalState", FillsIn
        PROVE  \A k \in Keys : Keeps(k)
    <3> SUFFICES ASSUME NEW k \in Keys PROVE Keeps(k)
      OBVIOUS
    <3>1. PICK opts : ApplyDefaults(opts)
      BY <2>5 DEF FillsIn
    <3>2. \/ ovm'[k] = ovm[k]
          \/ ovm[k] = <<>> /\ ovm'[k] = <<DefaultValue>>
      BY <2>1, <3>1, DefaultsFill
    <3>3. ovm[k] \in Seq(OptionValues)
      BY <2>1
    <3>4. CASE ovm'[k] = ovm[k]
      BY <3>3, <3>4 DEF Keeps
    <3>5. CASE ovm[k] = <<>> /\ ovm'[k] = <<DefaultValue>>
      <4>1. /\ Len(<<>>) <= Len(<<DefaultValue>>)
            /\ SubSeq(<<DefaultValue>>, 1, Len(<<>>)) = <<>>
        OBVIOUS
      <4> QED
        BY Zenon, <3>5, <4>1 DEF Keeps
    <3> QED
      BY <3>2, <3>4, <3>5
  <2>6. \A k \in Keys : Keeps(k)
    BY <2>2, <2>3, <2>4, <2>5, StepStores
  <2>7. machine \in CommandKnown => active_command' = active_command
    BY KnownSteps DEF Next, Stopped, vars, contextVars
  <2> QED
    BY <2>6, <2>7
<1> QED
  BY <1>1, InvariantHolds, PTL DEF Spec, ResultsOnlyGrow

-----------------------------------------------------------------------------
(* An accepted command line is complete *)

\* Every option of the list that must have a value or has a default has one.
Complete(list) ==
  \A i \in DOMAIN list :
    list[i].required \/ list[i].default => ovm[list[i].key] # <<>>

\* Once the options were checked, only the positional arguments are left to be.
OptionsChecked ==
  options_checked => /\ machine = "FinalState" /\ positional_tokens = <<>>
                     /\ Complete(CommandOptions)

KInv == OptionsChecked /\ AcceptedIsComplete

\* Options of the active command, whatever the list.
LEMMA ListTypes ==
  ASSUME IInv, active_command # 0, NEW list \in {CommandOptions, Positionals}
  PROVE  /\ list \in Seq(Options)
         /\ Len(list) \in Nat /\ DOMAIN list = 1..Len(list)
         /\ \A i \in DOMAIN list : list[i].key \in Keys
<1>1. list \in Seq(Options)
  BY ContextTypesOpened, CommandTypes
<1>2. \A i \in DOMAIN list : list[i] \in Options
  BY <1>1
<1>3. \A option \in Options : option.key \in Keys
  BY DEF Options
<1> QED
  BY <1>1, <1>2, <1>3

\* What CheckRequiredOptions leaves when it reports no missing option.
LEMMA NothingMissing ==
  ASSUME IInv, active_command # 0, NEW list \in {CommandOptions, Positionals},
         Missing(list) = {}, ApplyDefaults(list)
  PROVE  \A i \in DOMAIN list :
           list[i].required \/ list[i].default => ovm'[list[i].key] # <<>>
<1> DEFINE stop == Len(list) + 1
           K == {list[i].key : i \in Defaulted(list, stop)}
<1>1. ovm' = [k \in Keys |-> IF k \in K THEN <<DefaultValue>> ELSE ovm[k]]
  BY Zenon DEF ApplyDefaults
<1>2. /\ Len(list) \in Nat /\ DOMAIN list = 1..Len(list)
      /\ \A i \in DOMAIN list : list[i].key \in Keys
  BY ListTypes
<1>3. <<DefaultValue>> # <<>>
  OBVIOUS
<1> SUFFICES ASSUME NEW i \in DOMAIN list, list[i].required \/ list[i].default,
                    ovm[list[i].key] = <<>>
             PROVE  list[i].key \in K
  <2> HIDE DEF K
  <2> QED
    BY <1>1, <1>2, <1>3
<1>4. CASE list[i].default
  <2>1. i < stop
    BY <1>2
  <2>2. i \in Defaulted(list, stop)
    BY <1>4, <2>1 DEF Defaulted
  <2> QED
    BY <2>2
<1>5. CASE ~list[i].default
  <2>1. i \notin Missing(list)
    OBVIOUS
  <2>2. PICK j \in Defaulted(list, i) : list[j].key = list[i].key
    BY <1>5, <2>1 DEF Missing
  <2>3. j \in DOMAIN list /\ j < i /\ list[j].default /\ ovm[list[j].key] = <<>>
    BY <2>2 DEF Defaulted
  <2>4. j < stop
    BY <1>2, <2>3
  <2>5. j \in Defaulted(list, stop)
    BY <2>3, <2>4 DEF Defaulted
  <2> QED
    BY <2>2, <2>5
<1> QED
  BY <1>4, <1>5

\* Filling in defaults of one list takes nothing away from another.
LEMMA DefaultsKeepComplete ==
  ASSUME IInv, active_command # 0, NEW list \in {CommandOptions, Positionals},
         Complete(list), NEW opts, ApplyDefaults(opts)
  PROVE  \A i \in DOMAIN list :
           list[i].required \/ list[i].default => ovm'[list[i].key] # <<>>
<1>1. \A i \in DOMAIN list : list[i].key \in Keys
  BY ListTypes
<1>2. \A k \in Keys : \/ ovm'[k] = ovm[k]
                      \/ ovm[k] = <<>> /\ ovm'[k] = <<DefaultValue>>
  BY ContextTypesOpened, DefaultsFill
<1> QED
  BY <1>1, <1>2 DEF Complete

\* Before the last check no step accepts, and none touches options_checked.
LEMMA NotYetChecked ==
  ASSUME Step, ~Final_CheckOptions, ~Final_CheckPositionals
  PROVE  status' # "accepted" /\ UNCHANGED options_checked
<1>1. CASE \/ InitialState_Value    \/ InitialState_Other
           \/ IdentifyCommand_Value \/ IdentifyCommand_Other
  <2>1. status = "running" /\ UNCHANGED options_checked
    BY <1>1 DEF InitialState_Value, InitialState_Other, IdentifyCommand_Value,
       IdentifyCommand_Other, Handling, finalVars
  <2>2. \/ EnterParseOptions
        \/ \E s : Reissue(s)
        \/ \E s : Proceed(s)
        \/ \E e : ReportError(e)
    BY <1>1 DEF InitialState_Value, InitialState_Other, IdentifyCommand_Value,
       IdentifyCommand_Other, EnterIdentifyCommand, FallBackToDefault,
       EnterFinal
  <2> QED
    BY <2>1, <2>2 DEF EnterParseOptions, Reissue, Proceed, Abort, ReportError
<1>2. CASE \/ ParseOptions_Value    \/ ParseOptions_EndOfInput
           \/ ParseOptions_DashDash \/ ParseOptions_EqualSign
           \/ ParseOptions_ShortOption \/ ParseOptions_LongOption
           \/ DashDash_Any
  <2>1. status = "running" /\ UNCHANGED options_checked
    BY <1>2 DEF ParseOptions_Value, ParseOptions_EndOfInput,
       ParseOptions_DashDash, ParseOptions_EqualSign, ParseOptions_ShortOption,
       ParseOptions_LongOption, DashDash_Any, Handling, finalVars
  <2>2. \/ \E s : Reissue(s)
        \/ \E s : Proceed(s)
        \/ \E e : ReportError(e)
        \/ Undefined
    BY <1>2 DEF ParseOptions_Value, ParseOptions_EndOfInput,
       ParseOptions_DashDash, ParseOptions_EqualSign, ParseOptions_ShortOption,
       ParseOptions_LongOption, DashDash_Any, EnterOption, EnterFinal
  <2> QED
    BY <2>1, <2>2 DEF Reissue, Proceed, Abort, ReportError, Undefined
<1>3. CASE \/ ParseShortOption_Value   \/ ParseShortOption_Other
           \/ ParseLongOption_EqualSign
           \/ ParseLongOption_Value    \/ ParseLongOption_Other
  <2>1. status = "running" /\ UNCHANGED options_checked
    BY <1>3 DEF ParseShortOption_Value, ParseShortOption_Other,
       ParseLongOption_EqualSign, ParseLongOption_Value,
       ParseLongOption_Other, Handling, finalVars
  <2>2. \/ \E s : Reissue(s)
        \/ \E s : Proceed(s)
        \/ \E e : ReportError(e)
    BY <1>3 DEF ParseShortOption_Value, ParseShortOption_Other,
       ParseLongOption_EqualSign, ParseLongOption_Value,
       ParseLongOption_Other, LeaveOption, TakeValue
  <2> QED
    BY <2>1, <2>2 DEF Reissue, Proceed, Abort, ReportError
<1>4. CASE Final_RestDeclared \/ Final_Positional \/ Final_Leftover
  BY <1>4 DEF Final_RestDeclared, Final_Positional, Final_Leftover, Finishing,
     Handling, Undefined, ReportError, loopVars, finalVars
<1> QED
  BY <1>1, <1>2, <1>3, <1>4 DEF Step

\* In FinalState only its own steps are possible.
LEMMA FinalStepsOnly ==
  ASSUME Step, machine = "FinalState"
  PROVE  \/ Final_RestDeclared  \/ Final_Positional
         \/ Final_Leftover
         \/ Final_CheckOptions  \/ Final_CheckPositionals
BY DEF Step, Handling, InitialState_Value, InitialState_Other,
   IdentifyCommand_Value, IdentifyCommand_Other, ParseOptions_Value,
   ParseOptions_EndOfInput, ParseOptions_DashDash, ParseOptions_EqualSign,
   ParseOptions_ShortOption, ParseOptions_LongOption, ParseShortOption_Value,
   ParseShortOption_Other, ParseLongOption_EqualSign, ParseLongOption_Value,
   ParseLongOption_Other, DashDash_Any

LEMMA NextCompletes == IInv /\ KInv /\ IInv' /\ [Next]_vars => KInv'
<1> SUFFICES ASSUME IInv, KInv, IInv', [Next]_vars PROVE KInv'
  OBVIOUS
<1>1. CASE Final_CheckOptions
  <2>1. /\ machine = "FinalState" /\ machine' = "FinalState" /\ active_command # 0
        /\ status = "running" /\ status' # "accepted"
        /\ positional_tokens = <<>> /\ ApplyDefaults(CommandOptions)
        /\ UNCHANGED <<commands, active_command, positional_tokens>>
    <3>1. /\ machine = "FinalState" /\ UNCHANGED machine
          /\ status = "running" /\ status' # "accepted"
          /\ positional_tokens = <<>> /\ ApplyDefaults(CommandOptions)
          /\ UNCHANGED <<commands, active_command, positional_tokens>>
      BY <1>1 DEF Final_CheckOptions, CheckRequiredOptions, Finishing, Handling,
         ReportError, loopVars, fixedVars
    <3> QED
      BY <3>1, ContextTypesOpened DEF CommandKnown, MachineStates
  <2>2. CommandOptions' = CommandOptions
    BY <2>1 DEF CommandOptions
  <2>3. ~options_checked
    BY <1>1 DEF Final_CheckOptions
  <2>4. options_checked' => Missing(CommandOptions) = {}
    BY <1>1, <2>3 DEF Final_CheckOptions
  <2>5. options_checked' => Complete(CommandOptions)'
    BY <2>1, <2>2, <2>4, NothingMissing DEF Complete
  <2> QED
    BY <2>1, <2>5 DEF KInv, OptionsChecked, AcceptedIsComplete
<1>2. CASE Final_CheckPositionals
  <2>1. /\ options_checked /\ machine = "FinalState" /\ machine' = "FinalState"
        /\ active_command # 0
        /\ positional_tokens = <<>> /\ ApplyDefaults(Positionals)
        /\ status' = "accepted" => Missing(Positionals) = {}
        /\ UNCHANGED <<commands, active_command, positional_tokens>>
    <3>1. /\ options_checked /\ machine = "FinalState" /\ UNCHANGED machine
          /\ positional_tokens = <<>> /\ ApplyDefaults(Positionals)
          /\ status' = "accepted" => Missing(Positionals) = {}
          /\ UNCHANGED <<commands, active_command, positional_tokens>>
      BY <1>2 DEF Final_CheckPositionals, CheckRequiredOptions, Finishing,
         Handling, ReportError, fixedVars
    <3> QED
      BY <3>1, ContextTypesOpened DEF CommandKnown, MachineStates
  <2>2. CommandOptions' = CommandOptions /\ Positionals' = Positionals
    BY <2>1 DEF CommandOptions, Positionals
  <2>3. Complete(CommandOptions)
    BY <2>1 DEF KInv, OptionsChecked
  <2>4. Complete(CommandOptions)'
    BY <2>1, <2>2, <2>3, DefaultsKeepComplete DEF Complete
  <2>5. status' = "accepted" => Complete(Positionals)'
    BY <2>1, <2>2, NothingMissing DEF Complete
  <2>6. OptionsChecked'
    BY <2>1, <2>4 DEF OptionsChecked
  <2>7. AcceptedIsComplete'
    BY <2>1, <2>4, <2>5 DEF AcceptedIsComplete, Complete
  <2> QED
    BY <2>6, <2>7 DEF KInv
<1>3. CASE Step /\ ~Final_CheckOptions /\ ~Final_CheckPositionals
  <2>1. status' # "accepted" /\ UNCHANGED options_checked
    BY <1>3, NotYetChecked
  <2>2. CASE ~options_checked
    BY <2>1, <2>2 DEF KInv, OptionsChecked, AcceptedIsComplete
  <2>3. CASE options_checked
    <3>1. machine = "FinalState" /\ positional_tokens = <<>>
            /\ Complete(CommandOptions)
      BY <2>3 DEF KInv, OptionsChecked
    <3>2. Final_RestDeclared \/ Final_Positional
      BY <1>3, <3>1, FinalStepsOnly DEF Final_Leftover
    <3>3. /\ UNCHANGED <<machine, positional_tokens, ovm, commands, active_command>>
      BY <3>1, <3>2 DEF Final_RestDeclared, Final_Positional, Undefined,
         loopVars, contextVars, fixedVars
    <3> QED
      BY <2>1, <3>1, <3>3
      DEF KInv, OptionsChecked, AcceptedIsComplete, Complete, CommandOptions
  <2> QED
    BY <2>2, <2>3
<1>4. CASE UNCHANGED vars
  BY <1>4 DEF KInv, OptionsChecked, AcceptedIsComplete, Complete,
     CommandOptions, Positionals, vars, fixedVars, loopVars, contextVars,
     finalVars
<1> QED
  BY <1>1, <1>2, <1>3, <1>4 DEF Next, Stopped

\* A command line is accepted only when every option and every positional
\* argument that is required or has a default has a value and no positional
\* token is left, for every CLI: the check of the options happens before that
\* of the positional arguments, which takes nothing away from them.
THEOREM AcceptedComplete == Spec => []AcceptedIsComplete
<1>1. Init => KInv
  BY DEF Init, KInv, OptionsChecked, AcceptedIsComplete
<1>2. KInv => AcceptedIsComplete
  BY DEF KInv
<1> QED
  BY <1>1, <1>2, NextCompletes, InvariantHolds, PTL DEF Spec

-----------------------------------------------------------------------------
(* Every occurrence of an option gives one value *)

LEMMA StoredInvariant == Spec => []SInv
BY InvariantHolds, InitSingle, NextSingle, PTL DEF Spec

\* An option state remembers a value only while it is in charge.
ValueFlags == \A s \in OptionStates : value_[s] => machine = s

OInv == ValueFlags /\ OneValuePerOccurrence

\* The current token names option o.
TokenNames(o) ==
  \/ token.type \in {"ShortOption", "LoneDash"} /\ FindShortOption(token.text) = o
  \/ token.type = "LongOption" /\ FindLongOption(token.text) = o

\* The positions that name option o.
Named(o) == {i \in Nat : NamesOption(i, o)}

LEMMA OccurrencesCounted ==
  ASSUME NEW o
  PROVE  /\ Occurrences(o) = CountTo(Named(o), HandledCount)
         /\ HandledCount \in Nat => Occurrences(o) \in Nat
<1>1. {i \in 1..HandledCount : NamesOption(i, o)} = Named(o) \cap (1..HandledCount)
  BY DEF Named
<1>2. Occurrences(o) = CountTo(Named(o), HandledCount)
  BY <1>1 DEF Occurrences, CountTo
<1> QED
  BY <1>2, CountIsNatural

\* What names an option depends on the commands and the tokens alone.
LEMMA SameNames ==
  ASSUME UNCHANGED <<commands, args, active_command>>, NEW o
  PROVE  Named(o)' = Named(o) /\ CommandOptions' = CommandOptions
<1>1. CommandOptions' = CommandOptions
  BY DEF CommandOptions
<1>2. \A name : /\ FindShortOption(name)' = FindShortOption(name)
                /\ FindLongOption(name)' = FindLongOption(name)
  BY <1>1 DEF FindShortOption, FindLongOption
<1>3. \A i : NamesOption(i, o)' <=> NamesOption(i, o)
  BY <1>2 DEF NamesOption
<1> QED
  BY <1>1, <1>3 DEF Named

\* A token offered again is not counted twice, and one that is done with
\* counts for the option it names.
LEMMA SameOccurrences ==
  ASSUME UNCHANGED <<commands, args, active_command, input, token>>, NEW o
  PROVE  Occurrences(o)' = Occurrences(o)
<1>1. HandledCount' = HandledCount
  BY NoTokenRead
<1>2. Occurrences(o)' = CountTo(Named(o), HandledCount)'
  BY OccurrencesCounted DEF Occurrences, CountTo, Named
<1>3. Occurrences(o)' = CountTo(Named(o), HandledCount)
  BY <1>1, <1>2, SameNames DEF CountTo
<1> QED
  BY <1>3, OccurrencesCounted

LEMMA NextOccurrences ==
  ASSUME Reading, NextToken, token.type # "EndOfInput",
         UNCHANGED <<commands, args, active_command>>, NEW o
  PROVE  Occurrences(o)' = Occurrences(o) + IF TokenNames(o) THEN 1 ELSE 0
<1>1. HandledCount \in Nat /\ token = args[HandledCount + 1]
  BY PositionOfToken
<1>2. HandledCount' = HandledCount + 1
  BY NextTokenReads
<1>3. HandledCount + 1 \in Named(o) <=> TokenNames(o)
  BY <1>1 DEF Named, NamesOption, TokenNames
<1>4. Occurrences(o)' = CountTo(Named(o), HandledCount + 1)
  <2>1. Occurrences(o)' = CountTo(Named(o), HandledCount)'
    BY OccurrencesCounted DEF Occurrences, CountTo, Named
  <2> QED
    BY <1>2, <2>1, SameNames DEF CountTo
<1> QED
  BY <1>1, <1>3, <1>4, OccurrencesCounted, CountOneMore

\* Before the command is known every token handled was a value, and names no
\* option.
LEMMA OnlyValuesBefore ==
  ASSUME IInv, CInv, machine \notin CommandKnown
  PROVE  /\ HandledCount \in Nat
         /\ \A i \in 1..HandledCount : args[i].type = "Value"
<1>1. HandledCount \in Nat
  BY PositionOfToken DEF CInv
<1>2. CASE machine = "InitialState"
  BY <1>1, <1>2 DEF CInv, AtTheStart
<1>3. CASE machine = "IdentifyCommandState"
  <2>1. path_segments \in Seq(Segments)
    BY ContextTypesOpened DEF IdentifyTypeOK, Segments
  <2>2. DOMAIN path_segments = 1..HandledCount
    BY <1>3, <2>1 DEF CInv, Identifying, SegmentsRead
  <2> QED
    BY <1>1, <1>3, <2>2 DEF CInv, Identifying, SegmentsRead, IsValue
<1> QED
  BY <1>2, <1>3, ContextTypesOpened DEF CommandKnown, LoopTypeOK

LEMMA NoOccurrenceInValues ==
  HandledCount \in Nat /\ (\A i \in 1..HandledCount : args[i].type = "Value")
    => \A o : Occurrences(o) = 0
<1> SUFFICES ASSUME HandledCount \in Nat, NEW o,
                    \A i \in 1..HandledCount : args[i].type = "Value"
             PROVE  Occurrences(o) = 0
  OBVIOUS
<1>1. Named(o) \cap (1..HandledCount) = {}
  BY DEF Named, NamesOption
<1> QED
  BY <1>1, OccurrencesCounted, CountIsNatural

LEMMA NoOccurrenceLater ==
  (HandledCount \in Nat /\ (\A i \in 1..HandledCount : args[i].type = "Value")
    => \A o : Occurrences(o) = 0)'
BY NoOccurrenceInValues, PTL

\* The keys of the options, in the state after a step.
LEMMA KeysOfOptions ==
  ASSUME IInv', active_command' # 0, NEW o \in DOMAIN CommandOptions'
  PROVE  CommandOptions'[o].key \in Keys
<1>1. commands' \in CLIs /\ active_command' \in DOMAIN commands'
  BY DEF IInv, TypeOK, ContextTypeOK
<1>2. CommandOptions' \in Seq(Options)
  BY <1>1, OptionsInCLI DEF CommandOptions
<1>3. CommandOptions'[o] \in Options
  BY Zenon, <1>2, ElementTypes
<1> QED
  BY <1>3 DEF Options

\* Steps that find the command: the tokens they are done with are values.
LEMMA IdentifyReads ==
  ASSUME \/ InitialState_Value    \/ InitialState_Other
         \/ IdentifyCommand_Value \/ IdentifyCommand_Other
  PROVE  /\ UNCHANGED <<commands, args, ovm, value_>>
         /\ \/ UNCHANGED <<input, token>>
            \/ token.type = "Value" /\ NextToken
            \/ machine' = "DashDashState"
         /\ machine' \notin OptionStates
<1>1. /\ UNCHANGED <<commands, args, ovm, value_>>
      /\ machine \notin OptionStates
  BY DEF InitialState_Value, InitialState_Other, IdentifyCommand_Value,
     IdentifyCommand_Other, Handling, fixedVars, contextVars, optionVars,
     OptionStates
<1>2. \/ EnterParseOptions
      \/ token.type = "Value" /\ Proceed("IdentifyCommandState")
      \/ Proceed("DashDashState")
      \/ Reissue("FinalState")
      \/ \E e \in Errors : ReportError(e)
  BY DEF InitialState_Value, InitialState_Other, IdentifyCommand_Value,
     IdentifyCommand_Other, Handling, EnterIdentifyCommand, FallBackToDefault,
     EnterFinal, Errors
<1> QED
  BY <1>1, <1>2 DEF EnterParseOptions, Proceed, Abort, Reissue, ReportError,
     OptionStates

LEMMA IdentifyAnswers ==
  ASSUME IInv, IInv', SInv, CInv, OInv,
         \/ InitialState_Value    \/ InitialState_Other
         \/ IdentifyCommand_Value \/ IdentifyCommand_Other
  PROVE  OInv'
<1>1. machine \notin CommandKnown
  BY DEF InitialState_Value, InitialState_Other, IdentifyCommand_Value,
     IdentifyCommand_Other, Handling, CommandKnown
<1>2. /\ UNCHANGED <<commands, args, ovm, value_>>
      /\ \/ UNCHANGED <<input, token>>
         \/ token.type = "Value" /\ NextToken
         \/ machine' = "DashDashState"
      /\ machine' \notin OptionStates
  BY IdentifyReads
<1>3. \A k \in Keys : ovm'[k] = <<>>
  BY <1>1, <1>2 DEF SInv, NothingStored
<1>4. /\ HandledCount \in Nat
      /\ \A i \in 1..HandledCount : args[i].type = "Value"
  BY <1>1, OnlyValuesBefore
<1>5. ValueFlags'
  <2>1. \A s \in OptionStates : ~value_[s]
    BY <1>1 DEF OInv, ValueFlags, CommandKnown, OptionStates, MachineStates
  <2> QED
    BY <1>2, <2>1 DEF ValueFlags
<1>6. CASE machine' = "DashDashState"
  BY <1>5, <1>6 DEF OInv, OneValuePerOccurrence
<1>7. CASE machine' # "DashDashState"
  <2>1. /\ HandledCount' \in Nat
        /\ \A i \in 1..HandledCount' : args'[i].type = "Value"
    <3>1. CASE UNCHANGED <<input, token>>
      BY <1>2, <1>4, <3>1, NoTokenRead
    <3>2. CASE token.type = "Value" /\ NextToken
      <4>1. HandledCount' = HandledCount + 1
        BY <1>2, <3>2, NextTokenReads DEF CInv
      <4>2. args[HandledCount + 1].type = "Value"
        BY <3>2, PositionOfToken DEF CInv
      <4>3. \A i \in 1..HandledCount + 1 : i \in 1..HandledCount \/ i = HandledCount + 1
        BY <1>4
      <4> QED
        BY <1>2, <1>4, <4>1, <4>2, <4>3
    <3> QED
      BY <1>2, <1>7, <3>1, <3>2
  <2>2. ASSUME active_command' # 0, NEW o \in DOMAIN CommandOptions'
        PROVE  Len(ovm'[CommandOptions'[o].key]) + Pending(o)' = Occurrences(o)'
    <3>1. Occurrences(o)' = 0
      BY <2>1, NoOccurrenceLater
    <3>2. Pending(o)' = 0
      BY <1>2 DEF Pending
    <3>3. CommandOptions'[o].key \in Keys
      BY <2>2, KeysOfOptions
    <3>4. Len(ovm'[CommandOptions'[o].key]) = 0
      BY <1>3, <3>3, EmptySeq
    <3> QED
      BY <3>1, <3>2, <3>4
  <2>3. OneValuePerOccurrence'
    BY <2>2 DEF OneValuePerOccurrence
  <2> QED
    BY <1>5, <2>3 DEF OInv
<1> QED
  BY <1>6, <1>7

\* A step that stores nothing, after which as many occurrences are answered or
\* wait as before.
LEMMA SameAnswers ==
  ASSUME IInv, OInv, machine \in CommandKnown,
         UNCHANGED <<commands, args, active_command, ovm>>,
         machine # "DashDashState",
         machine = "FinalState" => machine' = "FinalState",
         \A o \in DOMAIN CommandOptions :
           Occurrences(o)' + Pending(o) = Occurrences(o) + Pending(o)',
         \A o \in DOMAIN CommandOptions : Occurrences(o)' \in Nat
  PROVE  OneValuePerOccurrence'
<1>1. active_command # 0
  BY ContextTypesOpened
<1>2. CommandOptions' = CommandOptions
  BY DEF CommandOptions
<1>3. ASSUME NEW o \in DOMAIN CommandOptions
      PROVE  \/ Len(ovm[CommandOptions[o].key]) + Pending(o)' = Occurrences(o)'
             \/ /\ Occurrences(o)' = 0
                /\ ovm[CommandOptions[o].key] = <<DefaultValue>>
                /\ machine' = "FinalState"
  <2>1. \/ Len(ovm[CommandOptions[o].key]) + Pending(o) = Occurrences(o)
        \/ /\ Occurrences(o) = 0
           /\ ovm[CommandOptions[o].key] = <<DefaultValue>>
           /\ machine = "FinalState"
    BY <1>1 DEF OInv, OneValuePerOccurrence
  <2>2. /\ Pending(o) \in {0, 1} /\ Pending(o)' \in {0, 1}
        /\ machine = "FinalState" => Pending(o) = 0 /\ Pending(o)' = 0
    BY DEF Pending, OptionStates
  <2>3. Len(ovm[CommandOptions[o].key]) \in Nat
    BY <1>1, OptionOfCommand
  <2>4. CASE Len(ovm[CommandOptions[o].key]) + Pending(o) = Occurrences(o)
    BY <2>2, <2>3, <2>4
  <2>5. CASE /\ Occurrences(o) = 0
             /\ ovm[CommandOptions[o].key] = <<DefaultValue>>
             /\ machine = "FinalState"
    BY <2>2, <2>5
  <2> QED
    BY <2>1, <2>4, <2>5
<1> QED
  BY <1>2, <1>3 DEF OneValuePerOccurrence

\* A step that stores the value that an occurrence was waiting for.
LEMMA StoreAnswers ==
  ASSUME IInv, OInv, machine \in OptionStates, ~value_[machine],
         UNCHANGED <<commands, args, active_command>>,
         NEW v \in OptionValues, StoreValue(ActiveOption.key, v),
         \A o \in DOMAIN CommandOptions : Occurrences(o)' = Occurrences(o),
         \A o \in DOMAIN CommandOptions : Pending(o)' = 0
  PROVE  OneValuePerOccurrence'
<1>1. active_command # 0 /\ active_option \in DOMAIN CommandOptions
      /\ ActiveOption = CommandOptions[active_option] /\ ActiveOption.key \in Keys
  BY ContextTypesOpened DEF CommandKnown, MachineStates, OptionStates, ActiveOption
<1>2. CommandOptions' = CommandOptions
  BY DEF CommandOptions
<1>3. /\ ovm'[ActiveOption.key] = Append(ovm[ActiveOption.key], v)
      /\ \A k \in Keys : k # ActiveOption.key => ovm'[k] = ovm[k]
  BY <1>1, StoredIs, ContextTypesOpened
<1>4. ASSUME NEW o \in DOMAIN CommandOptions
      PROVE  Len(ovm'[CommandOptions[o].key]) + Pending(o)' = Occurrences(o)'
  <2>1. Len(ovm[CommandOptions[o].key]) + Pending(o) = Occurrences(o)
    BY <1>1 DEF OInv, OneValuePerOccurrence, OptionStates
  <2>2. CommandOptions[o].key \in Keys
          /\ ovm[CommandOptions[o].key] \in Seq(OptionValues)
          /\ Len(ovm[CommandOptions[o].key]) \in Nat
    BY <1>1, OptionOfCommand
  <2>3. CASE o = active_option
    <3>1. Pending(o) = 1
      BY <2>3 DEF Pending
    <3>2. ovm'[CommandOptions[o].key] = Append(ovm[CommandOptions[o].key], v)
      BY <1>1, <1>3, <2>3
    <3>3. Len(ovm'[CommandOptions[o].key]) = Len(ovm[CommandOptions[o].key]) + 1
      BY <2>2, <3>2
    <3> QED
      BY <2>1, <2>2, <3>1, <3>3
  <2>4. CASE o # active_option
    <3>1. Pending(o) = 0
      BY <2>4 DEF Pending
    <3>2. CommandOptions[o].key # ActiveOption.key
      BY <1>1, <2>4, KeysDiffer, ContextTypesOpened
    <3>3. ovm'[CommandOptions[o].key] = ovm[CommandOptions[o].key]
      BY <1>3, <2>2, <3>2
    <3> QED
      BY <2>1, <2>2, <3>1, <3>3
  <2> QED
    BY <2>3, <2>4
<1> QED
  BY <1>2, <1>4 DEF OneValuePerOccurrence

\* Whether an option waits, outside the option states and in them.
LEMMA PendingIs ==
  /\ \A o : Pending(o) \in {0, 1}
  /\ machine \notin OptionStates => \A o : Pending(o) = 0
  /\ machine' \notin OptionStates => \A o : Pending(o)' = 0
  /\ \A o : Pending(o)' \in {0, 1}
BY DEF Pending

LEMMA OccurrencesAreNatural ==
  ASSUME Reading, NEW o
  PROVE  Occurrences(o) \in Nat
BY PositionOfToken, OccurrencesCounted

\* Steps of ParseOptionsState and DashDashState.
LEMMA ParseOptionsAnswers ==
  ASSUME IInv, CInv, OInv,
         \/ ParseOptions_Value    \/ ParseOptions_EndOfInput
         \/ ParseOptions_DashDash \/ ParseOptions_EqualSign
         \/ ParseOptions_ShortOption \/ ParseOptions_LongOption
         \/ DashDash_Any
  PROVE  OInv'
<1>1. /\ machine \in {"ParseOptionsState", "DashDashState"}
      /\ UNCHANGED <<commands, args, active_command, ovm, value_>>
  BY DEF ParseOptions_Value, ParseOptions_EndOfInput, ParseOptions_DashDash,
     ParseOptions_EqualSign, ParseOptions_ShortOption, ParseOptions_LongOption,
     DashDash_Any, Handling, fixedVars, contextVars, optionVars
<1>2. ValueFlags' /\ \A s \in OptionStates : ~value_[s]
  BY <1>1 DEF OInv, ValueFlags, OptionStates
<1>3. CASE machine' = "DashDashState"
  BY <1>2, <1>3 DEF OInv, OneValuePerOccurrence
<1>4. \A o : Occurrences(o) \in Nat /\ Pending(o) = 0
  BY <1>1, OccurrencesAreNatural, PendingIs DEF CInv, OptionStates
<1>5. ASSUME machine' # "DashDashState", UNCHANGED <<input, token>>,
             machine' \notin OptionStates, machine = "ParseOptionsState"
      PROVE  OneValuePerOccurrence'
  <2>1. \A o : Occurrences(o)' = Occurrences(o) /\ Pending(o)' = 0
    BY <1>1, <1>5, SameOccurrences, PendingIs
  <2> QED
    BY <1>1, <1>4, <1>5, <2>1, SameAnswers DEF CommandKnown, MachineStates
<1>6. CASE ParseOptions_Value
  <2>1. NextToken /\ token.type = "Value" /\ machine' = "ParseOptionsState"
          /\ machine = "ParseOptionsState"
    BY <1>6 DEF ParseOptions_Value, Handling, Proceed
  <2>2. \A o : ~TokenNames(o)
    BY <2>1 DEF TokenNames
  <2>3. \A o : Occurrences(o)' = Occurrences(o) /\ Pending(o)' = 0
    BY <1>1, <1>4, <2>1, <2>2, NextOccurrences, PendingIs DEF CInv, OptionStates
  <2>4. OneValuePerOccurrence'
    BY <1>1, <1>4, <2>1, <2>3, SameAnswers DEF CommandKnown, MachineStates
  <2> QED
    BY <1>2, <2>4 DEF OInv
<1>7. CASE ParseOptions_EndOfInput \/ ParseOptions_EqualSign
  <2>1. /\ UNCHANGED <<input, token>> /\ machine = "ParseOptionsState"
        /\ machine' \in {"ParseOptionsState", "FinalState"}
    BY <1>7 DEF ParseOptions_EndOfInput, ParseOptions_EqualSign, Handling,
       EnterFinal, Reissue, Undefined, ReportError
  <2> QED
    BY <1>2, <1>5, <2>1 DEF OInv, OptionStates
<1>8. CASE ParseOptions_DashDash \/ DashDash_Any
  <2>1. machine' = "DashDashState"
    BY <1>8 DEF ParseOptions_DashDash, DashDash_Any, Proceed, Abort
  <2> QED
    BY <1>3, <2>1
<1>9. ASSUME NEW s \in OptionStates, NEW found, EnterOption(s, found),
             machine = "ParseOptionsState", token.type # "EndOfInput",
             \A o \in DOMAIN CommandOptions : TokenNames(o) <=> o = found
      PROVE  OInv'
  <2>1. CASE \E e \in Errors : ReportError(e)
    <3>1. UNCHANGED <<machine, input, token>>
      BY <2>1 DEF ReportError
    <3> QED
      BY <1>2, <1>5, <1>9, <3>1 DEF OInv, OptionStates
  <2>2. CASE active_option' = found /\ Proceed(s)
    <3>1. NextToken /\ machine' = s
      BY <1>9, <2>2 DEF Proceed
    <3>2. ASSUME NEW o \in DOMAIN CommandOptions
          PROVE  Pending(o)' = IF o = found THEN 1 ELSE 0
      BY <1>1, <1>2, <1>9, <2>2, <3>1 DEF Pending
    <3>3. ASSUME NEW o \in DOMAIN CommandOptions
          PROVE  Occurrences(o)' = Occurrences(o) + IF o = found THEN 1 ELSE 0
      BY <1>1, <1>9, <3>1, NextOccurrences DEF CInv
    <3>4. ASSUME NEW o \in DOMAIN CommandOptions
          PROVE  /\ Occurrences(o)' + Pending(o) = Occurrences(o) + Pending(o)'
                 /\ Occurrences(o)' \in Nat
      BY <1>4, <3>2, <3>3
    <3>5. OneValuePerOccurrence'
      BY <1>1, <1>9, <3>4, SameAnswers DEF CommandKnown, MachineStates
    <3> QED
      BY <1>2, <3>5 DEF OInv
  <2> QED
    BY <1>9, <2>1, <2>2 DEF EnterOption, Errors
<1>10. CASE ParseOptions_ShortOption
  <2>1. /\ EnterOption("ParseShortOptionState", FindShortOption(token.text))
        /\ machine = "ParseOptionsState" /\ token.type # "EndOfInput"
        /\ \A o \in DOMAIN CommandOptions :
             TokenNames(o) <=> o = FindShortOption(token.text)
    BY <1>10 DEF ParseOptions_ShortOption, Handling, TokenNames
  <2> QED
    BY <1>9, <2>1 DEF OptionStates
<1>11. CASE ParseOptions_LongOption
  <2>1. /\ EnterOption("ParseLongOptionState", FindLongOption(token.text))
        /\ machine = "ParseOptionsState" /\ token.type # "EndOfInput"
        /\ \A o \in DOMAIN CommandOptions :
             TokenNames(o) <=> o = FindLongOption(token.text)
    BY <1>11 DEF ParseOptions_LongOption, Handling, TokenNames
  <2> QED
    BY <1>9, <2>1 DEF OptionStates
<1> QED
  BY <1>6, <1>7, <1>8, <1>10, <1>11

\* What an option state can do, with the token and its value.
LEMMA OptionStateSteps ==
  ASSUME IInv,
         \/ ParseShortOption_Value   \/ ParseShortOption_Other
         \/ ParseLongOption_EqualSign
         \/ ParseLongOption_Value    \/ ParseLongOption_Other
  PROVE  /\ machine \in OptionStates
         /\ UNCHANGED <<commands, args, active_command, active_option>>
         /\ \/ \* nothing is stored, and the state stays
               /\ UNCHANGED <<machine, ovm, value_, input, token>>
            \/ \* an '=' is done with
               /\ UNCHANGED <<machine, ovm, value_>>
               /\ NextToken /\ token.type = "EqualSign"
            \/ \* the value was taken before
               /\ value_[machine] /\ UNCHANGED <<ovm, input, token>>
               /\ machine' = "ParseOptionsState"
               /\ value_' = [value_ EXCEPT ![machine] = FALSE]
            \/ \* the implicit value
               /\ ~value_[machine] /\ UNCHANGED <<input, token>>
               /\ StoreValue(ActiveOption.key, ImplicitValue)
               /\ machine' = "ParseOptionsState"
               /\ value_' = [value_ EXCEPT ![machine] = FALSE]
            \/ \* the token's value
               /\ ~value_[machine] /\ NextToken /\ token.type = "Value"
               /\ token.text \in ActiveOption.accepts
               /\ StoreValue(ActiveOption.key, TokenValue(token.text))
               /\ machine' = machine
               /\ value_' = [value_ EXCEPT ![machine] = TRUE]
<1>1. /\ machine \in OptionStates
      /\ UNCHANGED <<commands, args, active_command, active_option>>
  BY DEF ParseShortOption_Value, ParseShortOption_Other,
     ParseLongOption_EqualSign, ParseLongOption_Value, ParseLongOption_Other,
     Handling, fixedVars, contextVars, OptionStates
<1>2. CASE LeaveOption
  BY <1>1, <1>2 DEF LeaveOption, ResetOption, Reissue, ReportError, optionVars
<1>3. ASSUME NEW may_imply \in BOOLEAN, TakeValue(may_imply), ~value_[machine],
             token.type = "Value"
      PROVE  \/ UNCHANGED <<machine, ovm, value_, input, token>>
             \/ /\ UNCHANGED <<input, token>>
                /\ StoreValue(ActiveOption.key, ImplicitValue)
                /\ machine' = "ParseOptionsState"
                /\ value_' = [value_ EXCEPT ![machine] = FALSE]
             \/ /\ NextToken
                /\ token.text \in ActiveOption.accepts
                /\ StoreValue(ActiveOption.key, TokenValue(token.text))
                /\ machine' = machine
                /\ value_' = [value_ EXCEPT ![machine] = TRUE]
  BY <1>3 DEF TakeValue, ResetOption, Reissue, ReportError, Proceed, optionVars
<1>4. CASE ParseLongOption_EqualSign
  <2>1. /\ machine = "ParseLongOptionState" /\ token.type = "EqualSign"
        /\ Proceed("ParseLongOptionState") /\ UNCHANGED <<ovm, value_>>
    BY <1>4 DEF ParseLongOption_EqualSign, Handling, contextVars
  <2>2. NextToken /\ machine' = machine
    BY <2>1 DEF Proceed
  <2> QED
    BY <1>1, <2>1, <2>2
<1>5. CASE ~ParseLongOption_EqualSign
  <2>1. (~after_equal_sign) \in BOOLEAN
    OBVIOUS
  <2>2. \/ LeaveOption
        \/ /\ token.type = "Value" /\ ~value_[machine]
           /\ \E may_imply \in BOOLEAN : TakeValue(may_imply)
    BY <1>5, <2>1, Zenon DEF ParseShortOption_Value, ParseShortOption_Other,
       ParseLongOption_Value, ParseLongOption_Other, Handling
  <2> QED
    BY <1>1, <1>2, <1>3, <2>2
<1> QED
  BY <1>4, <1>5

LEMMA OptionStateAnswers ==
  ASSUME IInv, CInv, OInv,
         \/ ParseShortOption_Value   \/ ParseShortOption_Other
         \/ ParseLongOption_EqualSign
         \/ ParseLongOption_Value    \/ ParseLongOption_Other
  PROVE  OInv'
<1>1. /\ machine \in OptionStates /\ machine \in CommandKnown
      /\ machine # "DashDashState" /\ machine # "FinalState"
      /\ UNCHANGED <<commands, args, active_command, active_option>>
  BY OptionStateSteps DEF OptionStates, CommandKnown, MachineStates
<1>2. /\ value_ \in [OptionStates -> BOOLEAN]
      /\ \A s \in OptionStates : s # machine => ~value_[s]
  BY ContextTypesOpened DEF OInv, ValueFlags, OptionTypeOK
<1>3. Reading /\ \A o : Occurrences(o) \in Nat
  BY OccurrencesAreNatural DEF CInv
<1>4. ASSUME UNCHANGED <<input, token>>
      PROVE  \A o : Occurrences(o)' = Occurrences(o)
  BY <1>1, <1>4, SameOccurrences
<1>5. ASSUME NextToken, token.type \in {"Value", "EqualSign"}
      PROVE  \A o : Occurrences(o)' = Occurrences(o)
  <2>1. \A o : ~TokenNames(o)
    BY <1>5 DEF TokenNames
  <2> QED
    BY <1>1, <1>3, <1>5, <2>1, NextOccurrences
<1>6. ASSUME UNCHANGED <<machine, ovm, value_>>,
             \A o : Occurrences(o)' = Occurrences(o)
      PROVE  OInv'
  <2>1. \A o : Pending(o)' = Pending(o)
    BY <1>1, <1>6 DEF Pending
  <2>2. \A o : Pending(o) \in {0, 1}
    BY PendingIs
  <2>3. \A o : /\ Occurrences(o)' + Pending(o) = Occurrences(o) + Pending(o)'
               /\ Occurrences(o)' \in Nat
    BY <1>3, <1>6, <2>1, <2>2
  <2>4. OneValuePerOccurrence'
    BY <1>1, <1>6, <2>3, SameAnswers
  <2> QED
    BY <1>6, <2>4 DEF OInv, ValueFlags
<1>7. ASSUME value_' = [value_ EXCEPT ![machine] = FALSE]
      PROVE  ValueFlags'
  BY <1>1, <1>2, <1>7 DEF ValueFlags
<1>8. CASE /\ value_[machine] /\ UNCHANGED <<ovm, input, token>>
           /\ machine' = "ParseOptionsState"
           /\ value_' = [value_ EXCEPT ![machine] = FALSE]
  <2>1. \A o : Pending(o) = 0 /\ Pending(o)' = 0
    BY <1>8 DEF Pending, OptionStates
  <2>2. \A o : /\ Occurrences(o)' + Pending(o) = Occurrences(o) + Pending(o)'
               /\ Occurrences(o)' \in Nat
    BY <1>3, <1>4, <1>8, <2>1
  <2>3. OneValuePerOccurrence'
    BY <1>1, <1>8, <2>2, SameAnswers
  <2> QED
    BY <1>7, <1>8, <2>3 DEF OInv
<1>9. CASE /\ ~value_[machine] /\ UNCHANGED <<input, token>>
           /\ StoreValue(ActiveOption.key, ImplicitValue)
           /\ machine' = "ParseOptionsState"
           /\ value_' = [value_ EXCEPT ![machine] = FALSE]
  <2>1. \A o : Pending(o)' = 0
    BY <1>9 DEF Pending, OptionStates
  <2>2. OneValuePerOccurrence'
    BY <1>1, <1>4, <1>9, <2>1, ValueTypes, StoreAnswers
  <2> QED
    BY <1>7, <1>9, <2>2 DEF OInv
<1>10. CASE /\ ~value_[machine] /\ NextToken /\ token.type = "Value"
            /\ StoreValue(ActiveOption.key, TokenValue(token.text))
            /\ machine' = machine
            /\ value_' = [value_ EXCEPT ![machine] = TRUE]
  <2>1. /\ value_'[machine] = TRUE
        /\ \A s \in OptionStates : s # machine => value_'[s] = value_[s]
    BY <1>1, <1>2, <1>10
  <2>2. ValueFlags'
    BY <1>2, <1>10, <2>1 DEF ValueFlags
  <2>3. \A o : Pending(o)' = 0
    BY <1>10, <2>1 DEF Pending
  <2>4. TokenValue(token.text) \in OptionValues
    BY ValueTypes, ContextTypesOpened
  <2>5. OneValuePerOccurrence'
    BY <1>1, <1>5, <1>10, <2>3, <2>4, StoreAnswers
  <2> QED
    BY <2>2, <2>5 DEF OInv
<1> QED
  BY <1>4, <1>5, <1>6, <1>8, <1>9, <1>10, OptionStateSteps

\* In FinalState no option is answered any more; only defaults are filled in.
LEMMA FinalAnswers ==
  ASSUME IInv, CInv, OInv,
         \/ Final_RestDeclared  \/ Final_Positional
         \/ Final_Leftover
         \/ Final_CheckOptions  \/ Final_CheckPositionals
  PROVE  OInv'
<1>1. /\ UNCHANGED <<commands, args, active_command, input, token, value_>>
      /\ machine = "FinalState" /\ machine' = "FinalState"
  BY DEF Final_RestDeclared, Final_Positional, Final_Leftover,
     Final_CheckOptions, Final_CheckPositionals, CheckRequiredOptions,
     Finishing, Handling, Undefined, ReportError, loopVars, fixedVars,
     contextVars, optionVars
<1>2. ValueFlags'
  BY <1>1 DEF OInv, ValueFlags
<1>3. active_command # 0 /\ CommandOptions' = CommandOptions
  BY <1>1, ContextTypesOpened DEF CommandKnown, MachineStates, CommandOptions
<1>4. \A o : /\ Pending(o) = 0 /\ Pending(o)' = 0
             /\ Occurrences(o)' = Occurrences(o)
  BY <1>1, SameOccurrences, PendingIs DEF OptionStates
<1>5. ASSUME NEW o \in DOMAIN CommandOptions
      PROVE  \/ ovm'[CommandOptions[o].key] = ovm[CommandOptions[o].key]
             \/ /\ ovm[CommandOptions[o].key] = <<>>
                /\ ovm'[CommandOptions[o].key] = <<DefaultValue>>
  <2>1. CommandOptions[o].key \in Keys
    BY <1>3, OptionOfCommand
  <2>2. CASE StoresPositional
    <3>1. PICK p \in DOMAIN Positionals, text \in Segments :
            StorePositional(Positionals[p], text)
      BY <2>2 DEF StoresPositional
    <3>2. CommandOptions[o].key # Positionals[p].key /\ Positionals[p].key \in Keys
      BY <1>3, ContextTypesOpened, KeysDiffer, OptionOfCommand
    <3>3. \/ ovm' = ovm
          \/ StoreValue(Positionals[p].key, PositionalValue(text))
      BY <3>1 DEF StorePositional
    <3> QED
      BY <2>1, <3>2, <3>3, StoredIs, ContextTypesOpened
  <2>3. CASE FillsIn
    <3>1. PICK opts : ApplyDefaults(opts)
      BY <2>3 DEF FillsIn
    <3> QED
      BY <2>1, <3>1, DefaultsFill, ContextTypesOpened
  <2> QED
    BY <2>2, <2>3, FinalStateStores
<1>6. OneValuePerOccurrence'
  <2>1. ASSUME NEW o \in DOMAIN CommandOptions
        PROVE  \/ Len(ovm'[CommandOptions[o].key]) + Pending(o)' = Occurrences(o)'
               \/ /\ Occurrences(o)' = 0
                  /\ ovm'[CommandOptions[o].key] = <<DefaultValue>>
                  /\ machine' = "FinalState"
    <3>1. \/ Len(ovm[CommandOptions[o].key]) + Pending(o) = Occurrences(o)
          \/ /\ Occurrences(o) = 0
             /\ ovm[CommandOptions[o].key] = <<DefaultValue>>
      BY <1>1, <1>3 DEF OInv, OneValuePerOccurrence
    <3>2. CASE ovm'[CommandOptions[o].key] = ovm[CommandOptions[o].key]
      BY <1>1, <1>4, <3>1, <3>2
    <3>3. CASE /\ ovm[CommandOptions[o].key] = <<>>
               /\ ovm'[CommandOptions[o].key] = <<DefaultValue>>
      <4>1. Len(<<>>) = 0 /\ <<>> # <<DefaultValue>>
        OBVIOUS
      <4>2. Occurrences(o) = 0
        BY <1>4, <3>1, <3>3, <4>1
      <4> QED
        BY <1>1, <1>4, <3>3, <4>2
    <3> QED
      BY <1>5, <3>2, <3>3
  <2> QED
    BY <1>3, <2>1 DEF OneValuePerOccurrence
<1> QED
  BY <1>2, <1>6 DEF OInv

LEMMA NextAnswers == IInv /\ SInv /\ CInv /\ OInv /\ IInv' /\ [Next]_vars => OInv'
<1> SUFFICES ASSUME IInv, SInv, CInv, OInv, IInv', [Next]_vars PROVE OInv'
  OBVIOUS
<1>1. CASE Step
  BY <1>1, IdentifyAnswers, ParseOptionsAnswers, OptionStateAnswers,
     FinalAnswers DEF Step
<1>2. CASE UNCHANGED vars
  <2>1. UNCHANGED <<commands, args, active_command, active_option, ovm, machine,
                    input, token, value_>>
    BY <1>2 DEF vars, fixedVars, loopVars, contextVars, optionVars
  <2>2. \A o : Occurrences(o)' = Occurrences(o) /\ Pending(o)' = Pending(o)
    BY <2>1, SameOccurrences DEF Pending
  <2>3. CommandOptions' = CommandOptions
    BY <2>1 DEF CommandOptions
  <2> QED
    BY <2>1, <2>2, <2>3 DEF OInv, ValueFlags, OneValuePerOccurrence
<1> QED
  BY <1>1, <1>2 DEF Next, Stopped

LEMMA InitAnswers == Init => OInv
<1> SUFFICES ASSUME Init PROVE OInv
  OBVIOUS
<1>1. ValueFlags /\ machine \notin OptionStates
  BY DEF Init, ValueFlags, OptionStates
<1>2. HandledCount = 0
  BY InitReads
<1>3. \A o : Occurrences(o) = 0 /\ Pending(o) = 0
  BY <1>1, <1>2, NoOccurrenceInValues, PendingIs
<1>4. ASSUME active_command # 0, NEW o \in DOMAIN CommandOptions
      PROVE  Len(ovm[CommandOptions[o].key]) = 0
  <2>1. CommandOptions[o].key \in Keys
    BY <1>4, InitTypes, OptionOfCommand
  <2> QED
    BY <2>1, EmptySeq DEF Init
<1>5. OneValuePerOccurrence
  BY <1>3, <1>4 DEF OneValuePerOccurrence
<1> QED
  BY <1>1, <1>5 DEF OInv

LEMMA AnswersHold == Spec => []OInv
BY InvariantHolds, StoredInvariant, CommandInvariant, InitAnswers, NextAnswers,
   PTL DEF Spec

\* For every CLI and every command line, every occurrence of an option gives
\* exactly one value, and an option that does not occur has none before the
\* defaults are filled in: no order of options, '=' and values makes an option
\* state forget its occurrence or answer it twice.
THEOREM OccurrencesAnswered == Spec => []OneValuePerOccurrence
<1>1. OInv => OneValuePerOccurrence
  BY DEF OInv
<1> QED
  BY <1>1, AnswersHold, PTL


-----------------------------------------------------------------------------
(* Where the values of the command line are kept *)

\* The positions at which text is given as a value.
ValuesOf(text) == {i \in Nat : IsValue(i, text)}

\* The part of Kept(text) that is in the path of the active command.
InPath(text) ==
  IF active_command = 0 THEN 0 ELSE Count(Path(active_command), text)

LEMMA GivenCounted ==
  ASSUME HandledCount \in Nat, NEW text
  PROVE  /\ Given(text) = CountTo(ValuesOf(text), HandledCount)
         /\ Given(text) \in Nat
<1>1. {i \in 1..HandledCount : IsValue(i, text)}
        = ValuesOf(text) \cap (1..HandledCount)
  BY DEF ValuesOf
<1>2. Given(text) = CountTo(ValuesOf(text), HandledCount)
  BY <1>1 DEF Given, CountTo
<1> QED
  BY <1>2, CountIsNatural

LEMMA SameGiven ==
  ASSUME UNCHANGED <<args, input, token>>, NEW text
  PROVE  Given(text)' = Given(text)
<1>1. HandledCount' = HandledCount
  BY NoTokenRead
<1> QED
  BY <1>1 DEF Given, IsValue

LEMMA NextGiven ==
  ASSUME Reading, NextToken, token.type # "EndOfInput", UNCHANGED args, NEW text
  PROVE  Given(text)' = Given(text) + IF token.type = "Value" /\ token.text = text
                                        THEN 1 ELSE 0
<1>1. HandledCount \in Nat /\ token = args[HandledCount + 1]
  BY PositionOfToken
<1>2. HandledCount' = HandledCount + 1
  BY NextTokenReads
<1>3. HandledCount + 1 \in ValuesOf(text)
        <=> token.type = "Value" /\ token.text = text
  BY <1>1 DEF ValuesOf, IsValue
<1>4. Given(text)' = CountTo(ValuesOf(text), HandledCount + 1)
  <2>1. {i \in 1..HandledCount + 1 : IsValue(i, text)}
          = ValuesOf(text) \cap (1..HandledCount + 1)
    BY <1>1 DEF ValuesOf
  <2> QED
    BY <1>2, <2>1 DEF Given, IsValue, CountTo
<1> QED
  BY <1>1, <1>3, <1>4, GivenCounted, CountOneMore

\* What is in the set of places with a value parsed from text.
LEMMA InStoredAt ==
  ASSUME NEW text, NEW p
  PROVE  p \in StoredAt(text) <=>
           \E k \in Keys : \E i \in DOMAIN ovm[k] :
             /\ p = <<k, i>>
             /\ ovm[k][i].from = "token" /\ ovm[k][i].text = text
BY DEF StoredAt

LEMMA InStoredAtLater ==
  ASSUME NEW text, NEW p
  PROVE  p \in StoredAt(text)' <=>
           \E k \in Keys : \E i \in DOMAIN ovm'[k] :
             /\ p = <<k, i>>
             /\ ovm'[k][i].from = "token" /\ ovm'[k][i].text = text
BY DEF StoredAt

LEMMA StoredOneMore ==
  ASSUME IInv, NEW key \in Keys, NEW v \in OptionValues, StoreValue(key, v),
         NEW text
  PROVE  LET new == <<key, Len(ovm[key]) + 1>>
         IN  /\ new \notin StoredAt(text)
             /\ StoredAt(text)' = StoredAt(text) \cup
                  (IF v.from = "token" /\ v.text = text THEN {new} ELSE {})
<1> DEFINE n == Len(ovm[key])
           new == <<key, n + 1>>
<1>1. ovm \in [Keys -> Seq(OptionValues)]
  BY ContextTypesOpened
<1>2. /\ ovm'[key] = Append(ovm[key], v)
      /\ \A k \in Keys : k # key => ovm'[k] = ovm[k]
  BY <1>1, StoredIs
<1>3. n \in Nat /\ DOMAIN ovm[key] = 1..n
  BY <1>1
<1>4. /\ DOMAIN ovm'[key] = 1..n + 1
      /\ ovm'[key][n + 1] = v
      /\ \A i \in 1..n : ovm'[key][i] = ovm[key][i]
  <2>1. ovm[key] \in Seq(OptionValues)
    BY <1>1
  <2>2. \A s \in Seq(OptionValues) :
          /\ DOMAIN Append(s, v) = 1..Len(s) + 1
          /\ Append(s, v)[Len(s) + 1] = v
          /\ \A i \in 1..Len(s) : Append(s, v)[i] = s[i]
    OBVIOUS
  <2> QED
    BY <1>2, <2>1, <2>2
<1> HIDE DEF n
<1>5. n + 1 \notin 1..n /\ \A i \in 1..n + 1 : i \in 1..n \/ i = n + 1
  BY <1>3
<1>6. new \notin StoredAt(text)
  BY <1>3, <1>5, InStoredAt
<1>7. ASSUME NEW p
      PROVE  p \in StoredAt(text)' <=>
               \/ p \in StoredAt(text)
               \/ p = new /\ v.from = "token" /\ v.text = text
  <2>1. ASSUME NEW k \in Keys, NEW i, k # key \/ i \in 1..n
        PROVE  ovm'[k][i] = ovm[k][i] /\ (i \in DOMAIN ovm'[k] <=> i \in DOMAIN ovm[k])
    BY <1>2, <1>3, <1>4, <1>5, <2>1
  <2>2. ASSUME p \in StoredAt(text) PROVE p \in StoredAt(text)'
    <3>1. PICK k \in Keys : \E i \in DOMAIN ovm[k] :
            p = <<k, i>> /\ ovm[k][i].from = "token" /\ ovm[k][i].text = text
      BY <2>2, InStoredAt
    <3>2. PICK i \in DOMAIN ovm[k] :
            p = <<k, i>> /\ ovm[k][i].from = "token" /\ ovm[k][i].text = text
      BY <3>1
    <3>3. i \in DOMAIN ovm'[k] /\ ovm'[k][i] = ovm[k][i]
      BY <1>3, <2>1
    <3> QED
      BY <3>2, <3>3, InStoredAtLater
  <2>3. ASSUME p = new, v.from = "token", v.text = text PROVE p \in StoredAt(text)'
    <3>1. n + 1 \in DOMAIN ovm'[key]
      BY <1>3, <1>4
    <3> QED
      BY <1>4, <2>3, <3>1, InStoredAtLater
  <2>4. ASSUME p \in StoredAt(text)'
        PROVE  p \in StoredAt(text) \/ (p = new /\ v.from = "token" /\ v.text = text)
    <3>1. PICK k \in Keys : \E i \in DOMAIN ovm'[k] :
            p = <<k, i>> /\ ovm'[k][i].from = "token" /\ ovm'[k][i].text = text
      BY <2>4, InStoredAtLater
    <3>2. PICK i \in DOMAIN ovm'[k] :
            p = <<k, i>> /\ ovm'[k][i].from = "token" /\ ovm'[k][i].text = text
      BY <3>1
    <3>3. CASE k = key /\ i = n + 1
      BY <1>4, <3>2, <3>3
    <3>4. CASE ~(k = key /\ i = n + 1)
      <4>1. i \in DOMAIN ovm[k] /\ ovm'[k][i] = ovm[k][i]
        BY <1>4, <1>5, <2>1, <3>4
      <4> QED
        BY <3>2, <4>1, InStoredAt
    <3> QED
      BY <3>3, <3>4
  <2> QED
    BY <2>2, <2>3, <2>4
<1> HIDE DEF new
<1>8. StoredAt(text)' = StoredAt(text) \cup
        (IF v.from = "token" /\ v.text = text THEN {new} ELSE {})
  BY <1>7
<1> QED
  BY <1>6, <1>8 DEF new, n

\* How much more is stored for text when v is stored.
LEMMA StoringCounts ==
  ASSUME IInv, NEW key \in Keys, NEW v \in OptionValues, StoreValue(key, v),
         NEW text, IsFiniteSet(StoredAt(text))
  PROVE  /\ IsFiniteSet(StoredAt(text)')
         /\ Stored(text)' = Stored(text)
              + IF v.from = "token" /\ v.text = text THEN 1 ELSE 0
<1> DEFINE new == <<key, Len(ovm[key]) + 1>>
           places == StoredAt(text)
<1>1. /\ new \notin places
      /\ StoredAt(text)' = places \cup
           (IF v.from = "token" /\ v.text = text THEN {new} ELSE {})
  BY StoredOneMore
<1>2. Cardinality(places) \in Nat
  BY FS_CardinalityType
<1>3. Stored(text) = Cardinality(places) /\ Stored(text)' = Cardinality(StoredAt(text)')
  BY DEF Stored
<1>4. IsFiniteSet(places)
  OBVIOUS
<1> HIDE DEF new, places
<1>5. CASE v.from = "token" /\ v.text = text
  <2>1. StoredAt(text)' = places \cup {new}
    BY <1>1, <1>5
  <2>2. IsFiniteSet(places \cup {new})
          /\ Cardinality(places \cup {new}) = Cardinality(places) + 1
    BY <1>1, <1>4, FS_AddElement
  <2> QED
    BY <1>3, <1>5, <2>1, <2>2
<1>6. CASE ~(v.from = "token" /\ v.text = text)
  <2>1. StoredAt(text)' = places
    BY <1>1, <1>6
  <2> QED
    BY <1>2, <1>3, <1>4, <1>6, <2>1
<1> QED
  BY <1>5, <1>6

\* Defaults are not parsed from a token.
LEMMA DefaultsCountNothing ==
  ASSUME IInv, FillsIn, NEW text
  PROVE  StoredAt(text)' = StoredAt(text)
<1>1. ovm \in [Keys -> Seq(OptionValues)]
  BY ContextTypesOpened
<1>2. \A k \in Keys : \/ ovm'[k] = ovm[k]
                      \/ ovm[k] = <<>> /\ ovm'[k] = <<DefaultValue>>
  BY <1>1, DefaultsFill DEF FillsIn
<1>3. /\ \A i : i \notin DOMAIN <<>>
      /\ \A i \in DOMAIN <<DefaultValue>> : <<DefaultValue>>[i].from # "token"
  <2>1. DefaultValue.from # "token"
    BY DEF DefaultValue
  <2>2. \A v : DOMAIN <<v>> = 1..1 /\ <<v>>[1] = v
    OBVIOUS
  <2>3. \A i : i \notin DOMAIN <<>>
    OBVIOUS
  <2>4. \A i \in 1..1 : i = 1
    OBVIOUS
  <2> QED
    BY <2>1, <2>2, <2>3, <2>4
<1>4. ASSUME NEW p PROVE p \in StoredAt(text)' <=> p \in StoredAt(text)
  BY <1>2, <1>3, InStoredAt, InStoredAtLater
<1> QED
  BY <1>4

-----------------------------------------------------------------------------
(* How a step changes what is kept and what was given *)

\* What step keeps of text is what it was given of text.
Balanced(text) == Kept(text)' + Given(text) = Kept(text) + Given(text)'

\* Until a command is found, the default command is the active one.
StartsWithDefault ==
  machine \notin CommandKnown =>
    active_command = FirstIndex(DefaultCommands(commands))

LEMMA KeptParts ==
  IInv => \A text : IsFiniteSet(StoredAt(text)) =>
    /\ Kept(text) = Times(path_segments, text) + Times(positional_tokens, text)
                      + Stored(text) + InPath(text)
    /\ Times(path_segments, text) \in Nat /\ Times(positional_tokens, text) \in Nat
    /\ Stored(text) \in Nat /\ InPath(text) \in Nat
<1> SUFFICES ASSUME IInv, NEW text, IsFiniteSet(StoredAt(text))
             PROVE  /\ Kept(text) = Times(path_segments, text)
                                      + Times(positional_tokens, text)
                                      + Stored(text) + InPath(text)
                    /\ Times(path_segments, text) \in Nat
                    /\ Times(positional_tokens, text) \in Nat
                    /\ Stored(text) \in Nat /\ InPath(text) \in Nat
  OBVIOUS
<1>1. path_segments \in Seq(Segments) /\ positional_tokens \in Seq(Segments)
  BY ContextTypesOpened DEF IdentifyTypeOK, Segments
<1>2. \A s, e : Count(s, e) = Times(s, e)
  BY DEF Count, Times
<1>3. Stored(text) \in Nat
  BY FS_CardinalityType DEF Stored
<1>4. InPath(text) \in Nat
  <2>1. active_command \in {0} \cup DOMAIN commands
    BY ContextTypesOpened DEF ContextTypeOK
  <2>2. ASSUME active_command # 0 PROVE Times(Path(active_command), text) \in Nat
    BY <2>1, <2>2, PathTypes, TimesIsCount
  <2> QED
    BY <1>2, <2>2 DEF InPath
<1> QED
  BY <1>1, <1>2, <1>3, <1>4, TimesIsCount DEF Kept, InPath

LEMMA KeptPartsLater ==
  (IInv => \A text : IsFiniteSet(StoredAt(text)) =>
    /\ Kept(text) = Times(path_segments, text) + Times(positional_tokens, text)
                      + Stored(text) + InPath(text)
    /\ Times(path_segments, text) \in Nat /\ Times(positional_tokens, text) \in Nat
    /\ Stored(text) \in Nat /\ InPath(text) \in Nat)'
BY KeptParts, PTL

LEMMA SameStored ==
  ASSUME ovm' = ovm, NEW text
  PROVE  StoredAt(text)' = StoredAt(text) /\ Stored(text)' = Stored(text)
BY DEF Stored, StoredAt

LEMMA SameInPath ==
  ASSUME UNCHANGED <<commands, active_command>>, NEW text
  PROVE  InPath(text)' = InPath(text)
BY DEF InPath, Path, Count

LEMMA GivenIsNatural ==
  Reading => \A text : Given(text) \in Nat
BY PositionOfToken, GivenCounted

LEMMA GivenIsNaturalLater ==
  (Reading => \A text : Given(text) \in Nat)'
BY GivenIsNatural, PTL

\* The default command has no segment that a value could be.
LEMMA DefaultNotCounted ==
  ASSUME IInv, NEW c \in DOMAIN commands, IsDefault(commands[c]),
         NEW text, text # ""
  PROVE  Count(Path(c), text) = 0
<1>1. Len(Path(c)) = 1 /\ Path(c)[1] = ""
  BY OnlyDefaultIsEmpty
<1>2. Path(c) \in Seq(Segments) /\ Path(c)[1] # text
  BY <1>1, PathTypes
<1>3. Times(Path(c), text) = 0
  BY <1>1, <1>2, TimesInOne
<1> QED
  BY <1>3 DEF Count, Times

LEMMA NothingInPath ==
  ASSUME IInv, StartsWithDefault, machine \notin CommandKnown,
         NEW text \in Texts
  PROVE  InPath(text) = 0
<1>1. active_command = FirstIndex(DefaultCommands(commands))
  BY DEF StartsWithDefault
<1>2. active_command # 0 =>
        active_command \in DOMAIN commands /\ IsDefault(commands[active_command])
  BY <1>1, DefaultIndex DEF DefaultCommands
<1>3. text # ""
  BY TextsAssumption
<1> QED
  BY <1>2, <1>3, DefaultNotCounted DEF InPath

\* The parts of what is kept, before and after a step.
LEMMA PartsBalance ==
  ASSUME IInv, IInv', Reading, Reading', NEW text,
         IsFiniteSet(StoredAt(text)), IsFiniteSet(StoredAt(text)'),
         Times(path_segments, text)' + Times(positional_tokens, text)'
           + Stored(text)' + InPath(text)' + Given(text)
         = Times(path_segments, text) + Times(positional_tokens, text)
           + Stored(text) + InPath(text) + Given(text)'
  PROVE  Balanced(text)
<1> DEFINE a == Times(path_segments, text)
           b == Times(positional_tokens, text)
           c == Stored(text)
           d == InPath(text)
           g == Given(text)
<1>1. Kept(text) = a + b + c + d /\ a \in Nat /\ b \in Nat /\ c \in Nat /\ d \in Nat
  BY KeptParts
<1>2. /\ Kept(text)' = a' + b' + c' + d'
      /\ a' \in Nat /\ b' \in Nat /\ c' \in Nat /\ d' \in Nat
  BY KeptPartsLater
<1>3. g \in Nat /\ g' \in Nat
  BY GivenIsNatural, GivenIsNaturalLater
<1>4. a' + b' + c' + d' + g = a + b + c + d + g'
  OBVIOUS
<1> HIDE DEF a, b, c, d, g
<1>5. Kept(text)' + g = Kept(text) + g'
  BY <1>1, <1>2, <1>3, <1>4
<1> QED
  BY <1>5 DEF Balanced, g

\* The first token: it begins a path, or is left for the next state.
LEMMA StartBalances ==
  ASSUME IInv, IInv', CInv, CInv', InitialState_Value \/ InitialState_Other,
         NEW text, IsFiniteSet(StoredAt(text))
  PROVE  IsFiniteSet(StoredAt(text)') /\ Balanced(text)
<1>1. UNCHANGED <<commands, args, active_command, positional_tokens, ovm>>
  BY DEF InitialState_Value, InitialState_Other, fixedVars, contextVars
<1>2. /\ StoredAt(text)' = StoredAt(text) /\ Stored(text)' = Stored(text)
      /\ InPath(text)' = InPath(text)
      /\ Times(positional_tokens, text)' = Times(positional_tokens, text)
  BY <1>1, SameStored, SameInPath
<1>3. Reading /\ Reading'
  BY DEF CInv
<1>4. \/ /\ path_segments' = Append(path_segments, token.text)
         /\ NextToken /\ token.type = "Value"
      \/ path_segments' = path_segments /\ UNCHANGED <<input, token>>
      \/ path_segments' = path_segments /\ NextToken /\ token.type = "DashDash"
  BY DEF InitialState_Value, InitialState_Other, EnterIdentifyCommand,
     EnterParseOptions, EnterFinal, Handling, Proceed, Reissue, Abort,
     ReportError, identifyVars
<1>5. Times(path_segments, text)' + Given(text)
        = Times(path_segments, text) + Given(text)'
  <2>1. path_segments \in Seq(Segments) /\ token.text \in Segments
    BY ContextTypesOpened DEF IdentifyTypeOK, Segments
  <2>2. Times(path_segments, text) \in Nat /\ Given(text) \in Nat
    BY <1>3, <2>1, TimesIsCount, GivenIsNatural
  <2>3. CASE /\ path_segments' = Append(path_segments, token.text)
             /\ NextToken /\ token.type = "Value"
    <3>1. Times(path_segments', text) = Times(path_segments, text)
            + IF token.text = text THEN 1 ELSE 0
      BY <2>1, <2>3, TimesAppended
    <3>2. Given(text)' = Given(text) + IF token.text = text THEN 1 ELSE 0
      BY <1>1, <1>3, <2>3, NextGiven
    <3>3. Times(path_segments, text)' = Times(path_segments', text)
      BY DEF Times
    <3> QED
      BY <2>2, <3>1, <3>2, <3>3
  <2>4. CASE path_segments' = path_segments /\ UNCHANGED <<input, token>>
    BY <1>1, <2>2, <2>4, SameGiven
  <2>5. CASE path_segments' = path_segments /\ NextToken /\ token.type = "DashDash"
    BY <1>1, <1>3, <2>2, <2>5, NextGiven
  <2> QED
    BY <1>4, <2>3, <2>4, <2>5
<1>6. /\ Times(path_segments, text) \in Nat /\ Times(positional_tokens, text) \in Nat
      /\ Times(path_segments, text)' \in Nat
      /\ Stored(text) \in Nat /\ InPath(text) \in Nat
      /\ Given(text) \in Nat /\ Given(text)' \in Nat
  BY <1>2, <1>3, KeptParts, KeptPartsLater, GivenIsNatural, GivenIsNaturalLater
<1>7. Times(path_segments, text)' + Times(positional_tokens, text)'
           + Stored(text)' + InPath(text)' + Given(text)
         = Times(path_segments, text) + Times(positional_tokens, text)
           + Stored(text) + InPath(text) + Given(text)'
  BY <1>2, <1>5, <1>6
<1> QED
  BY <1>2, <1>3, <1>7, PartsBalance

\* In no CLI do two commands lie on one path with a path between them that is
\* no command: a command "remote" and a command "remote branch delete" only
\* when "remote branch" is one, too.
NoGaps ==
  \A cli \in CLIs : \A c, d \in DOMAIN cli :
    LET long == cli[c].path
    IN  Len(cli[d].path) <= Len(long)
          /\ (\A i \in DOMAIN cli[d].path : cli[d].path[i] = long[i])
        => \A n \in Len(cli[d].path)..Len(long) :
             \E e \in DOMAIN cli : /\ Len(cli[e].path) = n
                                   /\ \A i \in 1..n : cli[e].path[i] = long[i]

\* The path of the command matched last begins the segments read, and without
\* gaps it is all of them.
LEMMA MatchedPath ==
  ASSUME IInv, CInv, machine = "IdentifyCommandState", last_matched_command # 0
  PROVE  LET last == Path(last_matched_command)
         IN  /\ last_matched_command \in DOMAIN commands
             /\ Len(last) <= Len(path_segments)
             /\ \A i \in 1..Len(last) : last[i] = path_segments[i]
             /\ NoGaps => Len(last) = Len(path_segments)
<1> DEFINE last == Path(last_matched_command)
           n == Len(path_segments)
<1>1. LastIsLongest(last_matched_command, EndedBy(path_segments, n))
  BY DEF CInv, Identifying, SegmentsMatched
<1>2. /\ last_matched_command \in EndedBy(path_segments, n)
      /\ \A c \in EndedBy(path_segments, n) : Len(Path(c)) <= Len(last)
  BY <1>1 DEF LastIsLongest
<1>3. /\ last_matched_command \in DOMAIN commands /\ Len(last) <= n
      /\ \A i \in 1..Len(last) : last[i] = path_segments[i]
  BY <1>2 DEF EndedBy
<1>4. path_segments \in Seq(Segments) /\ n \in Nat
  <2>1. path_segments \in Seq(Segments)
    BY ContextTypesOpened DEF IdentifyTypeOK, Segments
  <2> QED
    BY <2>1
<1>5. ASSUME NoGaps PROVE Len(last) = n
  <2>1. filtered_commands = BegunBy(path_segments, n) /\ filtered_commands # {}
    BY DEF CInv, Identifying, SegmentsMatched, IInv, AssertionsHold
  <2>2. PICK c \in DOMAIN commands :
          Len(Path(c)) >= n /\ \A i \in 1..n : Path(c)[i] = path_segments[i]
    BY <2>1 DEF BegunBy
  <2>3. /\ commands \in CLIs
        /\ Len(Path(c)) \in Nat /\ Len(last) \in Nat
        /\ DOMAIN last = 1..Len(last)
    BY <1>3, PathTypes, ContextTypesOpened DEF ContextTypeOK
  <2> HIDE DEF n
  <2>4. Len(last) <= Len(Path(c)) /\ n \in Len(last)..Len(Path(c))
    BY <1>3, <1>4, <2>2, <2>3
  <2>5. \A i \in DOMAIN last : last[i] = Path(c)[i]
    BY <1>3, <1>4, <2>2, <2>3
  <2>6. PICK e \in DOMAIN commands :
          /\ Len(Path(e)) = n
          /\ \A i \in 1..n : Path(e)[i] = Path(c)[i]
    BY <1>3, <1>5, <2>3, <2>4, <2>5 DEF NoGaps, Path
  <2>7. e \in EndedBy(path_segments, n)
    BY <1>4, <2>2, <2>6 DEF EndedBy
  <2>8. n <= Len(last)
    BY <1>2, <2>6, <2>7
  <2>9. Len(last) <= n /\ n \in Nat /\ Len(last) \in Nat
    BY <1>3, <1>4, <2>3
  <2>10. \A a, b \in Nat : a <= b /\ b <= a => a = b
    OBVIOUS
  <2> QED
    BY <2>8, <2>9, <2>10, Zenon
<1> QED
  BY <1>3, <1>5

\* The three ways in which a step of IdentifyCommandState ends the path, and
\* the one in which it goes on.
PathGoesOn ==
  /\ path_segments' = Append(path_segments, token.text)
  /\ NextToken /\ token.type = "Value"
  /\ UNCHANGED <<active_command, positional_tokens>>

PathFound ==
  /\ last_matched_command # 0
  /\ path_segments' = <<>>
  /\ active_command' = last_matched_command
  /\ UNCHANGED positional_tokens

PathGivenUp ==
  /\ default_command # 0
  /\ path_segments' = <<>>
  /\ active_command' = default_command
  /\ positional_tokens' = positional_tokens \o path_segments

PathUnknown == UNCHANGED <<path_segments, active_command, positional_tokens>>

LEMMA IdentifySteps ==
  ASSUME IdentifyCommand_Value \/ IdentifyCommand_Other
  PROVE  /\ machine = "IdentifyCommandState"
         /\ UNCHANGED <<commands, args, ovm>>
         /\ \/ PathGoesOn
            \/ /\ PathFound \/ PathGivenUp \/ PathUnknown
               /\ \/ UNCHANGED <<input, token>>
                  \/ NextToken /\ token.type \in {"DashDash"}
<1>1. machine = "IdentifyCommandState" /\ UNCHANGED <<commands, args, ovm>>
  BY DEF IdentifyCommand_Value, IdentifyCommand_Other, Handling, fixedVars
<1>2. /\ IdentifyCommand_Value => token.type = "Value"
      /\ \/ /\ IdentifyCommand_Value
            /\ path_segments' = Append(path_segments, token.text)
            /\ Proceed("IdentifyCommandState")
            /\ UNCHANGED <<default_command, active_command, positional_tokens>>
         \/ /\ last_matched_command # 0
            /\ active_command' = last_matched_command
            /\ EnterParseOptions \/ EnterFinal
                 \/ (token.type = "DashDash" /\ Proceed("DashDashState"))
            /\ LeaveIdentifyCommand
            /\ UNCHANGED positional_tokens
         \/ default_command # 0 /\ FallBackToDefault
         \/ /\ ReportError("UnrecognizedCommand")
            /\ UNCHANGED <<identifyVars, active_command, positional_tokens>>
  BY Zenon DEF IdentifyCommand_Value, IdentifyCommand_Other, Handling
<1>3. ASSUME EnterParseOptions \/ EnterFinal
      PROVE  UNCHANGED <<input, token>>
  BY <1>3 DEF EnterParseOptions, EnterFinal, Reissue, Abort
<1>4. ASSUME token.type # "EndOfInput", NEW s, Proceed(s)
      PROVE  NextToken
  BY <1>4 DEF Proceed
<1>5. CASE /\ IdentifyCommand_Value
           /\ path_segments' = Append(path_segments, token.text)
           /\ Proceed("IdentifyCommandState")
           /\ UNCHANGED <<default_command, active_command, positional_tokens>>
  <2>1. token.type = "Value"
    BY <1>2, <1>5
  <2>2. PathGoesOn
    BY <1>4, <1>5, <2>1 DEF PathGoesOn
  <2> QED
    BY <1>1, <2>2
<1>6. CASE /\ last_matched_command # 0
           /\ active_command' = last_matched_command
           /\ EnterParseOptions \/ EnterFinal
                \/ (token.type = "DashDash" /\ Proceed("DashDashState"))
           /\ LeaveIdentifyCommand
           /\ UNCHANGED positional_tokens
  <2>1. PathFound
    BY <1>6 DEF PathFound, LeaveIdentifyCommand
  <2> QED
    BY <1>1, <1>3, <1>4, <1>6, <2>1
<1>7. CASE default_command # 0 /\ FallBackToDefault
  <2>1. PathGivenUp /\ EnterParseOptions
    BY <1>7 DEF FallBackToDefault, PathGivenUp, LeaveIdentifyCommand
  <2> QED
    BY <1>1, <1>3, <2>1
<1>8. CASE /\ ReportError("UnrecognizedCommand")
           /\ UNCHANGED <<identifyVars, active_command, positional_tokens>>
  BY <1>1, <1>8 DEF PathUnknown, ReportError, identifyVars
<1> QED
  BY <1>2, <1>5, <1>6, <1>7, <1>8


\* A value joins the path, or the path is done with: its segments were matched
\* by the command found, but for those behind a gap, or become positional.
LEMMA IdentifyBalances ==
  ASSUME IInv, IInv', CInv, CInv', StartsWithDefault,
         IdentifyCommand_Value \/ IdentifyCommand_Other,
         NEW text \in Texts, IsFiniteSet(StoredAt(text))
  PROVE  /\ IsFiniteSet(StoredAt(text)')
         /\ \/ Balanced(text)
            \/ /\ ~NoGaps
               /\ Given(text)' = Given(text) /\ Kept(text)' <= Kept(text)
<1> DEFINE segs == Times(path_segments, text)
           pos == Times(positional_tokens, text)
<1>1. /\ machine = "IdentifyCommandState" /\ machine \notin CommandKnown
      /\ UNCHANGED <<commands, args, ovm>>
  BY IdentifySteps DEF CommandKnown
<1>2. /\ StoredAt(text)' = StoredAt(text) /\ Stored(text)' = Stored(text)
      /\ IsFiniteSet(StoredAt(text)')
  BY <1>1, SameStored
<1>3. Reading /\ Reading'
  BY DEF CInv
<1>4. /\ path_segments \in Seq(Segments) /\ token.text \in Segments
      /\ positional_tokens = <<>>
  BY <1>1, ContextTypesOpened DEF IdentifyTypeOK, Segments, IInv, AssertionsHold
<1>5. /\ segs \in Nat /\ segs' \in Nat /\ pos \in Nat /\ pos' \in Nat
      /\ Stored(text) \in Nat /\ Stored(text)' \in Nat
      /\ InPath(text) \in Nat /\ InPath(text)' \in Nat
      /\ Given(text) \in Nat /\ Given(text)' \in Nat
      /\ Kept(text) = segs + pos + Stored(text) + InPath(text)
      /\ Kept(text)' = segs' + pos' + Stored(text)' + InPath(text)'
  BY <1>2, <1>3, KeptParts, KeptPartsLater, GivenIsNatural, GivenIsNaturalLater
<1>6. InPath(text) = 0 /\ pos = 0
  <2>1. <<>> \in Seq(Segments)
    OBVIOUS
  <2> QED
    BY <1>1, <1>4, <2>1, NothingInPath, TimesIsCount
<1>7. /\ segs' = Times(path_segments', text)
      /\ pos' = Times(positional_tokens', text)
  BY DEF Times
<1>8. ASSUME path_segments' = <<>> PROVE segs' = 0
  <2>1. <<>> \in Seq(Segments)
    OBVIOUS
  <2> QED
    BY <1>7, <1>8, <2>1, TimesIsCount
<1>9. ASSUME UNCHANGED <<input, token>> \/ (NextToken /\ token.type \in {"DashDash"})
      PROVE  Given(text)' = Given(text)
  <2>1. CASE UNCHANGED <<input, token>>
    BY <1>1, <2>1, SameGiven
  <2>2. CASE NextToken /\ token.type = "DashDash"
    BY <1>1, <1>3, <1>5, <2>2, NextGiven
  <2> QED
    BY <1>9, <2>1, <2>2
<1>10. CASE PathGoesOn
  <2>1. segs' = segs + IF token.text = text THEN 1 ELSE 0
    BY <1>4, <1>7, <1>10, TimesAppended DEF PathGoesOn
  <2>2. Given(text)' = Given(text) + IF token.text = text THEN 1 ELSE 0
    BY <1>1, <1>3, <1>10, NextGiven DEF PathGoesOn
  <2>3. InPath(text)' = InPath(text) /\ pos' = pos
    BY <1>1, <1>10, SameInPath DEF PathGoesOn
  <2> HIDE DEF segs, pos
  <2>4. Kept(text)' + Given(text) = Kept(text) + Given(text)'
    BY <1>2, <1>5, <2>1, <2>2, <2>3
  <2> QED
    BY <1>2, <2>4 DEF Balanced
<1>11. CASE PathFound /\ Given(text)' = Given(text)
  <2> DEFINE last == Path(last_matched_command)
  <2>1. /\ last_matched_command \in DOMAIN commands
        /\ Len(last) <= Len(path_segments)
        /\ \A i \in 1..Len(last) : last[i] = path_segments[i]
        /\ NoGaps => Len(last) = Len(path_segments)
    BY <1>1, <1>11, MatchedPath DEF PathFound
  <2>2. last \in Seq(Segments)
    BY <2>1, PathTypes
  <2>3. InPath(text)' = Times(last, text)
    BY <1>1, <1>11 DEF PathFound, InPath, Path, Count, Times
  <2> HIDE DEF last
  <2>4. Times(last, text) <= segs /\ (NoGaps => Times(last, text) = segs)
    BY <1>4, <2>1, <2>2, TimesInBeginning
  <2>5. segs' = 0 /\ pos' = pos
    BY <1>8, <1>11 DEF PathFound
  <2> HIDE DEF segs, pos
  <2>6. Kept(text) = segs + Stored(text) /\ Kept(text)' = Stored(text) + InPath(text)'
    BY <1>2, <1>5, <1>6, <2>5
  <2>7. /\ Kept(text)' <= Kept(text)
        /\ NoGaps => Kept(text)' = Kept(text)
    BY <1>5, <2>3, <2>4, <2>6
  <2> QED
    BY <1>2, <1>11, <2>7 DEF Balanced
<1>12. CASE PathGivenUp /\ Given(text)' = Given(text)
  <2>1. positional_tokens' = path_segments
    <3>1. <<>> \o path_segments = path_segments
      BY <1>4
    <3> QED
      BY <1>4, <1>12, <3>1 DEF PathGivenUp
  <2>2. pos' = segs
    BY <1>7, <2>1
  <2>3. segs' = 0
    BY <1>8, <1>12 DEF PathGivenUp
  <2>4. InPath(text)' = 0
    <3>1. default_command = LastIndex(DefaultCommands(commands)) /\ default_command # 0
      BY <1>1, <1>12 DEF CInv, Identifying, SegmentsMatched, PathGivenUp
    <3>2. default_command \in DOMAIN commands /\ IsDefault(commands[default_command])
      BY <3>1, DefaultIndex DEF DefaultCommands
    <3>3. Count(Path(default_command), text) = 0
      BY <3>2, TextsAssumption, DefaultNotCounted
    <3> QED
      BY <1>1, <1>12, <3>3 DEF PathGivenUp, InPath, Path, Count
  <2> HIDE DEF segs, pos
  <2>5. Kept(text) = segs + Stored(text) /\ Kept(text)' = segs + Stored(text)
    BY <1>2, <1>5, <1>6, <2>2, <2>3, <2>4
  <2> QED
    BY <1>2, <1>12, <2>5 DEF Balanced
<1>13. CASE PathUnknown /\ Given(text)' = Given(text)
  <2>1. segs' = segs /\ pos' = pos /\ InPath(text)' = InPath(text)
    BY <1>1, <1>13, SameInPath DEF PathUnknown
  <2> HIDE DEF segs, pos
  <2>2. Kept(text)' = Kept(text)
    BY <1>2, <1>5, <2>1
  <2> QED
    BY <1>2, <1>13, <2>2 DEF Balanced
<1> QED
  BY <1>9, <1>10, <1>11, <1>12, <1>13, IdentifySteps

\* A step that neither stores anything nor moves what is kept.
LEMMA SameBalance ==
  ASSUME IInv, IInv', Reading, Reading',
         UNCHANGED <<commands, args, active_command, path_segments,
                     positional_tokens, ovm>>,
         \/ UNCHANGED <<input, token>>
         \/ NextToken /\ token.type \notin {"Value", "EndOfInput"},
         NEW text, IsFiniteSet(StoredAt(text))
  PROVE  IsFiniteSet(StoredAt(text)') /\ Balanced(text)
<1>1. /\ StoredAt(text)' = StoredAt(text) /\ Stored(text)' = Stored(text)
      /\ InPath(text)' = InPath(text)
      /\ Times(path_segments, text)' = Times(path_segments, text)
      /\ Times(positional_tokens, text)' = Times(positional_tokens, text)
  BY SameStored, SameInPath
<1>2. Given(text) \in Nat
  BY GivenIsNatural
<1>3. Given(text)' = Given(text)
  <2>1. CASE UNCHANGED <<input, token>>
    BY <2>1, SameGiven
  <2>2. CASE NextToken /\ token.type \notin {"Value", "EndOfInput"}
    BY <1>2, <2>2, NextGiven
  <2> QED
    BY <2>1, <2>2
<1> QED
  BY <1>1, <1>3, PartsBalance

\* A value among the options becomes positional, and "--" and the name of an
\* option are no values.
LEMMA ParseOptionsBalances ==
  ASSUME IInv, IInv', CInv, CInv',
         \/ ParseOptions_Value       \/ ParseOptions_EndOfInput
         \/ ParseOptions_DashDash    \/ ParseOptions_EqualSign
         \/ ParseOptions_ShortOption \/ ParseOptions_LongOption,
         NEW text, IsFiniteSet(StoredAt(text))
  PROVE  IsFiniteSet(StoredAt(text)') /\ Balanced(text)
<1>1. UNCHANGED <<commands, args, active_command, path_segments, ovm>>
  BY DEF ParseOptions_Value, ParseOptions_EndOfInput, ParseOptions_DashDash,
     ParseOptions_EqualSign, ParseOptions_ShortOption, ParseOptions_LongOption,
     fixedVars, contextVars, identifyVars
<1>2. Reading /\ Reading'
  BY DEF CInv
<1>3. CASE ParseOptions_Value
  <2>1. /\ positional_tokens' = Append(positional_tokens, token.text)
        /\ NextToken /\ token.type = "Value"
    BY <1>3 DEF ParseOptions_Value, Handling, Proceed
  <2>2. positional_tokens \in Seq(Segments) /\ token.text \in Segments
    BY ContextTypesOpened DEF Segments
  <2>3. Times(positional_tokens, text)' = Times(positional_tokens, text)
          + IF token.text = text THEN 1 ELSE 0
    <3>1. Times(positional_tokens, text)' = Times(positional_tokens', text)
      BY DEF Times
    <3> QED
      BY <2>1, <2>2, <3>1, TimesAppended
  <2>4. Given(text)' = Given(text) + IF token.text = text THEN 1 ELSE 0
    BY <1>1, <1>2, <2>1, NextGiven
  <2>5. /\ StoredAt(text)' = StoredAt(text) /\ Stored(text)' = Stored(text)
        /\ InPath(text)' = InPath(text)
        /\ Times(path_segments, text)' = Times(path_segments, text)
    BY <1>1, SameStored, SameInPath
  <2>6. /\ Times(path_segments, text) \in Nat /\ Times(positional_tokens, text) \in Nat
        /\ Stored(text) \in Nat /\ InPath(text) \in Nat /\ Given(text) \in Nat
    BY <1>2, KeptParts, GivenIsNatural
  <2>7. Times(path_segments, text)' + Times(positional_tokens, text)'
             + Stored(text)' + InPath(text)' + Given(text)
           = Times(path_segments, text) + Times(positional_tokens, text)
             + Stored(text) + InPath(text) + Given(text)'
    BY <2>3, <2>4, <2>5, <2>6
  <2> QED
    BY <1>2, <2>5, <2>7, PartsBalance
<1>4. CASE ~ParseOptions_Value
  <2>1. /\ positional_tokens' = positional_tokens
        /\ \/ UNCHANGED <<input, token>>
           \/ NextToken /\ token.type \notin {"Value", "EndOfInput"}
    BY <1>4 DEF ParseOptions_EndOfInput, ParseOptions_DashDash,
       ParseOptions_EqualSign, ParseOptions_ShortOption,
       ParseOptions_LongOption, contextVars, Handling, EnterOption, EnterFinal,
       Proceed, Reissue, Abort, ReportError, Undefined
  <2> QED
    BY <1>1, <1>2, <2>1, SameBalance
<1> QED
  BY <1>3, <1>4

\* A value of an option is stored once, and no other token is stored.
LEMMA OptionStateBalances ==
  ASSUME IInv, IInv', CInv, CInv',
         \/ ParseShortOption_Value   \/ ParseShortOption_Other
         \/ ParseLongOption_EqualSign
         \/ ParseLongOption_Value    \/ ParseLongOption_Other,
         NEW text, IsFiniteSet(StoredAt(text))
  PROVE  IsFiniteSet(StoredAt(text)') /\ Balanced(text)
<1>1. /\ machine \in OptionStates
      /\ UNCHANGED <<commands, args, active_command>>
      /\ \/ UNCHANGED <<ovm, input, token>>
         \/ UNCHANGED ovm /\ NextToken /\ token.type = "EqualSign"
         \/ /\ UNCHANGED <<input, token>>
            /\ StoreValue(ActiveOption.key, ImplicitValue)
         \/ /\ NextToken /\ token.type = "Value"
            /\ StoreValue(ActiveOption.key, TokenValue(token.text))
  BY OptionStateSteps
<1>2. UNCHANGED <<path_segments, positional_tokens>>
  BY DEF ParseShortOption_Value, ParseShortOption_Other,
     ParseLongOption_EqualSign, ParseLongOption_Value, ParseLongOption_Other,
     contextVars, identifyVars
<1>3. Reading /\ Reading'
  BY DEF CInv
<1>4. CASE \/ UNCHANGED <<ovm, input, token>>
           \/ UNCHANGED ovm /\ NextToken /\ token.type = "EqualSign"
  BY <1>1, <1>2, <1>3, <1>4, SameBalance
<1>5. /\ InPath(text)' = InPath(text)
      /\ Times(path_segments, text)' = Times(path_segments, text)
      /\ Times(positional_tokens, text)' = Times(positional_tokens, text)
  BY <1>1, <1>2, SameInPath
<1>6. /\ Times(path_segments, text) \in Nat /\ Times(positional_tokens, text) \in Nat
      /\ Stored(text) \in Nat /\ InPath(text) \in Nat /\ Given(text) \in Nat
  BY <1>3, KeptParts, GivenIsNatural
<1>7. ActiveOption.key \in Keys /\ token.text \in Segments
  BY <1>1, ContextTypesOpened DEF Segments
<1>8. CASE /\ UNCHANGED <<input, token>>
           /\ StoreValue(ActiveOption.key, ImplicitValue)
  <2>1. ImplicitValue \in OptionValues /\ ImplicitValue.from # "token"
    BY ValueTypes DEF ImplicitValue
  <2>2. IsFiniteSet(StoredAt(text)') /\ Stored(text)' = Stored(text) + 0
    BY <1>7, <1>8, <2>1, StoringCounts
  <2>3. Given(text)' = Given(text)
    BY <1>1, <1>8, SameGiven
  <2>4. Stored(text)' = Stored(text)
    BY <1>6, <2>2
  <2> QED
    BY <1>3, <1>5, <2>2, <2>3, <2>4, PartsBalance
<1>9. CASE /\ NextToken /\ token.type = "Value"
           /\ StoreValue(ActiveOption.key, TokenValue(token.text))
  <2> DEFINE v == TokenValue(token.text)
  <2>1. v \in OptionValues
    BY ValueTypes, ContextTypesOpened
  <2>2. v.from = "token" /\ v.text = token.text
    BY DEF TokenValue
  <2> HIDE DEF v
  <2>3. /\ IsFiniteSet(StoredAt(text)')
        /\ Stored(text)' = Stored(text) + IF token.text = text THEN 1 ELSE 0
    <3>1. StoreValue(ActiveOption.key, v)
      BY <1>9 DEF v
    <3>2. /\ IsFiniteSet(StoredAt(text)')
          /\ Stored(text)' = Stored(text)
               + IF v.from = "token" /\ v.text = text THEN 1 ELSE 0
      BY <1>7, <2>1, <3>1, StoringCounts
    <3> QED
      BY <2>2, <3>2
  <2>4. Given(text)' = Given(text) + IF token.text = text THEN 1 ELSE 0
    BY <1>1, <1>3, <1>9, NextGiven
  <2>5. Times(path_segments, text)' + Times(positional_tokens, text)'
             + Stored(text)' + InPath(text)' + Given(text)
           = Times(path_segments, text) + Times(positional_tokens, text)
             + Stored(text) + InPath(text) + Given(text)'
    BY <1>5, <1>6, <2>3, <2>4
  <2> QED
    BY <1>3, <2>3, <2>5, PartsBalance
<1> QED
  BY <1>1, <1>4, <1>8, <1>9

\* A positional argument that cannot parse text, so that text may be dropped.
Refused(text) == \E p \in DOMAIN Positionals : text \notin Positionals[p].accepts

\* The token x leaves the positional tokens for the positional argument p: it is
\* stored, or dropped when p cannot parse it.
LEMMA TakenBalances ==
  ASSUME IInv, IInv', CInv, CInv', machine \in CommandKnown,
         UNCHANGED <<commands, args, active_command, path_segments, input, token>>,
         NEW p \in DOMAIN Positionals, NEW x \in Segments,
         StorePositional(Positionals[p], x),
         NEW text, IsFiniteSet(StoredAt(text)),
         Times(positional_tokens, text)
           = Times(positional_tokens, text)' + IF x = text THEN 1 ELSE 0
  PROVE  /\ IsFiniteSet(StoredAt(text)')
         /\ \/ Balanced(text)
            \/ /\ Refused(text)
               /\ Given(text)' = Given(text) /\ Kept(text)' <= Kept(text)
<1> DEFINE pos == Times(positional_tokens, text)
           segs == Times(path_segments, text)
<1>1. Reading /\ Reading'
  BY DEF CInv
<1>2. /\ InPath(text)' = InPath(text) /\ segs' = segs
      /\ Given(text)' = Given(text)
  BY SameInPath, SameGiven
<1>3. /\ segs \in Nat /\ pos \in Nat
      /\ Stored(text) \in Nat /\ InPath(text) \in Nat /\ Given(text) \in Nat
      /\ Kept(text) = segs + pos + Stored(text) + InPath(text)
  BY <1>1, KeptParts, GivenIsNatural
<1>4. ASSUME IsFiniteSet(StoredAt(text)')
      PROVE  /\ pos' \in Nat
             /\ Kept(text)' = segs' + pos' + Stored(text)' + InPath(text)'
  BY <1>4, KeptPartsLater
<1>5. pos = pos' + IF x = text THEN 1 ELSE 0
  OBVIOUS
<1>6. CASE x \in Positionals[p].accepts
  <2> DEFINE v == PositionalValue(x)
  <2>1. StoreValue(Positionals[p].key, v)
    BY <1>6 DEF StorePositional
  <2>2. Positionals[p].key \in Keys
    <3>1. Positionals \in Seq(Options)
      BY ContextTypesOpened, CommandTypes
    <3>2. Positionals[p] \in Options
      BY <3>1, ElementTypes
    <3> QED
      BY <3>2 DEF Options
  <2>3. v \in OptionValues
    BY ValueTypes DEF Segments
  <2>4. v.from = "token" /\ v.text = x
    BY DEF PositionalValue
  <2> HIDE DEF v
  <2>5. /\ IsFiniteSet(StoredAt(text)')
        /\ Stored(text)' = Stored(text)
             + IF v.from = "token" /\ v.text = text THEN 1 ELSE 0
    BY <2>1, <2>2, <2>3, StoringCounts
  <2>6. Stored(text)' = Stored(text) + IF x = text THEN 1 ELSE 0
    BY <2>4, <2>5
  <2> HIDE DEF pos, segs
  <2>7. Kept(text)' = Kept(text)
    BY <1>2, <1>3, <1>4, <1>5, <2>5, <2>6
  <2> QED
    BY <1>2, <2>5, <2>7 DEF Balanced
<1>7. CASE x \notin Positionals[p].accepts
  <2>1. ovm' = ovm
    BY <1>7 DEF StorePositional
  <2>2. Stored(text)' = Stored(text) /\ IsFiniteSet(StoredAt(text)')
    BY <2>1, SameStored
  <2>3. x = text => Refused(text)
    BY <1>7 DEF Refused
  <2> HIDE DEF pos, segs
  <2>4. Kept(text)' <= Kept(text) /\ (x # text => Kept(text)' = Kept(text))
    BY <1>2, <1>3, <1>4, <1>5, <2>2
  <2> QED
    BY <1>2, <2>2, <2>3, <2>4 DEF Balanced
<1> QED
  BY <1>6, <1>7

LEMMA FinalBalances ==
  ASSUME IInv, IInv', CInv, CInv',
         \/ Final_RestDeclared \/ Final_Positional \/ Final_Leftover
         \/ Final_CheckOptions \/ Final_CheckPositionals,
         NEW text, IsFiniteSet(StoredAt(text))
  PROVE  /\ IsFiniteSet(StoredAt(text)')
         /\ \/ Balanced(text)
            \/ /\ Refused(text)
               /\ Given(text)' = Given(text) /\ Kept(text)' <= Kept(text)
<1>1. /\ machine = "FinalState" /\ machine \in CommandKnown /\ active_command # 0
      /\ UNCHANGED <<commands, args, active_command, path_segments, input, token>>
  <2>1. machine = "FinalState" /\ UNCHANGED <<commands, args, active_command,
                                              path_segments, input, token>>
    BY DEF Final_RestDeclared, Final_Positional, Final_Leftover,
       Final_CheckOptions, Final_CheckPositionals, CheckRequiredOptions,
       Finishing, Handling, Undefined, ReportError, fixedVars, loopVars,
       contextVars, identifyVars
  <2> QED
    BY <2>1, ContextTypesOpened DEF CommandKnown, MachineStates
<1>2. Reading /\ Reading'
  BY DEF CInv
<1>3. positional_tokens \in Seq(Segments) /\ Positionals \in Seq(Options)
  BY <1>1, ContextTypesOpened, CommandTypes DEF Segments
<1>4. ASSUME UNCHANGED <<positional_tokens, ovm>>
      PROVE  IsFiniteSet(StoredAt(text)') /\ Balanced(text)
  BY <1>1, <1>2, <1>4, SameBalance
<1>5. CASE Final_RestDeclared
  BY <1>4, <1>5 DEF Final_RestDeclared, contextVars
<1>6. \A s : Times(positional_tokens, text)' = Times(positional_tokens', text)
  BY DEF Times
<1>7. ASSUME positional_tokens # <<>>, NEW p \in DOMAIN Positionals,
             StorePositional(Positionals[p], Head(positional_tokens)),
             positional_tokens' = Tail(positional_tokens)
      PROVE  /\ IsFiniteSet(StoredAt(text)')
             /\ \/ Balanced(text)
                \/ /\ Refused(text)
                   /\ Given(text)' = Given(text) /\ Kept(text)' <= Kept(text)
  <2>1. Head(positional_tokens) \in Segments
    BY <1>3, <1>7
  <2>2. Times(positional_tokens, text)
          = Times(positional_tokens, text)'
              + IF Head(positional_tokens) = text THEN 1 ELSE 0
    BY <1>3, <1>6, <1>7, TimesBehindHead
  <2> QED
    BY <1>1, <1>7, <2>1, <2>2, TakenBalances
<1>8. CASE Final_Positional
  <2>1. CASE positional_tokens = <<>>
    BY <1>4, <1>8, <2>1 DEF Final_Positional
  <2>2. CASE positional_tokens # <<>>
    <3>1. next_positional \in DOMAIN Positionals
      <4>1. next_positional \in Nat \ {0} /\ next_positional <= Len(Positionals)
        BY <1>8, ContextTypesOpened DEF Final_Positional, InPositionals, FinalTypeOK
      <4> QED
        BY <1>3, <4>1
    <3>2. /\ StorePositional(Positionals[next_positional],
                             positional_tokens[PickedPosition])
          /\ positional_tokens' =
               IF rest_option = 0
                 THEN Tail(positional_tokens)
                 ELSE SubSeq(positional_tokens, 1, Len(positional_tokens) - 1)
      BY <1>8, <2>2 DEF Final_Positional
    <3>3. CASE rest_option = 0
      <4>1. positional_tokens[PickedPosition] = Head(positional_tokens)
        BY <1>3, <2>2, <3>3 DEF PickedPosition
      <4> QED
        BY <1>7, <2>2, <3>1, <3>2, <3>3, <4>1
    <3>4. CASE rest_option # 0
      <4> DEFINE x == positional_tokens[Len(positional_tokens)]
      <4>1. StorePositional(Positionals[next_positional], x)
        BY <3>2, <3>4 DEF PickedPosition
      <4>2. Len(positional_tokens) \in Nat \ {0}
        BY <1>3, <2>2, EmptySeq
      <4>3. x \in Segments
        BY <1>3, <4>2
      <4>4. Times(positional_tokens, text)
              = Times(positional_tokens, text)' + IF x = text THEN 1 ELSE 0
        BY <1>3, <1>6, <2>2, <3>2, <3>4, TimesBeforeLast
      <4> HIDE DEF x
      <4> QED
        BY <1>1, <3>1, <4>1, <4>3, <4>4, TakenBalances
    <3> QED
      BY <3>3, <3>4
  <2> QED
    BY <2>1, <2>2
<1>9. CASE Final_Leftover
  <2>1. \/ /\ rest_option # 0
           /\ StorePositional(Positionals[rest_option], Head(positional_tokens))
           /\ positional_tokens' = Tail(positional_tokens)
        \/ UNCHANGED <<ovm, positional_tokens>>
    BY <1>9 DEF Final_Leftover
  <2>2. rest_option # 0 => rest_option \in DOMAIN Positionals
    BY ContextTypesOpened DEF FinalTypeOK
  <2>3. positional_tokens # <<>>
    BY <1>9 DEF Final_Leftover
  <2> QED
    BY <1>4, <1>7, <2>1, <2>2, <2>3
<1>10. CASE Final_CheckOptions \/ Final_CheckPositionals
  <2>1. FillsIn /\ positional_tokens' = positional_tokens
    BY <1>10 DEF Final_CheckOptions, Final_CheckPositionals,
       CheckRequiredOptions, FillsIn
  <2>2. StoredAt(text)' = StoredAt(text)
    BY <2>1, DefaultsCountNothing
  <2>3. Stored(text)' = Stored(text)
    BY <2>2 DEF Stored
  <2>4. /\ InPath(text)' = InPath(text) /\ Given(text)' = Given(text)
        /\ Times(path_segments, text)' = Times(path_segments, text)
        /\ Times(positional_tokens, text)' = Times(positional_tokens, text)
    BY <1>1, <2>1, SameInPath, SameGiven
  <2> QED
    BY <1>2, <2>2, <2>3, <2>4, PartsBalance
<1> QED
  BY <1>5, <1>8, <1>9, <1>10

\* Behind "--" nothing is kept.
LEMMA DashDashBalances ==
  ASSUME IInv, IInv', CInv, CInv', DashDash_Any,
         NEW text, IsFiniteSet(StoredAt(text))
  PROVE  /\ machine' = "DashDashState"
         /\ IsFiniteSet(StoredAt(text)')
         /\ Kept(text)' = Kept(text) /\ Given(text)' >= Given(text)
<1>1. /\ machine' = "DashDashState"
      /\ UNCHANGED <<commands, args, active_command, path_segments,
                     positional_tokens, ovm>>
      /\ UNCHANGED <<input, token>> \/ NextToken
  BY DEF DashDash_Any, Proceed, Abort, fixedVars, contextVars, identifyVars
<1>2. /\ StoredAt(text)' = StoredAt(text) /\ Stored(text)' = Stored(text)
      /\ InPath(text)' = InPath(text)
      /\ Times(path_segments, text)' = Times(path_segments, text)
      /\ Times(positional_tokens, text)' = Times(positional_tokens, text)
  BY <1>1, SameStored, SameInPath
<1>3. Kept(text)' = Kept(text)
  BY <1>2, KeptParts, KeptPartsLater
<1>4. Reading /\ Given(text) \in Nat
  BY GivenIsNatural DEF CInv
<1>5. Given(text)' >= Given(text)
  <2>1. CASE UNCHANGED <<input, token>>
    BY <1>1, <1>4, <2>1, SameGiven
  <2>2. CASE NextToken /\ token.type # "EndOfInput"
    BY <1>1, <1>4, <2>2, NextGiven
  <2>3. CASE NextToken /\ token.type = "EndOfInput"
    <3>1. HandledCount' = HandledCount
      BY <1>1, <1>4, <2>3, NextTokenReads
    <3>2. Given(text)' = Given(text)
      BY <1>1, <3>1 DEF Given, IsValue
    <3> QED
      BY <1>4, <3>2
  <2> QED
    BY <1>1, <2>1, <2>2, <2>3
<1> QED
  BY <1>1, <1>2, <1>3, <1>5

-----------------------------------------------------------------------------
(* No value is used twice, and none is lost *)

\* The inductive invariant: the default command's path takes no value while a
\* path may still be given up, only finitely many values are stored, and what
\* is kept of a text was given.
VInv ==
  /\ StartsWithDefault
  /\ \A text \in Texts : IsFiniteSet(StoredAt(text)) /\ Kept(text) <= Given(text)
  /\ NoGaps => NoValueLost

\* What a step may do to one text.
LEMMA StepBalances ==
  ASSUME IInv, IInv', CInv, CInv', StartsWithDefault, Step,
         NEW text \in Texts, IsFiniteSet(StoredAt(text))
  PROVE  /\ IsFiniteSet(StoredAt(text)')
         /\ \/ Balanced(text)
            \/ /\ Kept(text)' <= Kept(text) /\ Given(text)' >= Given(text)
               /\ \/ ~NoGaps
                  \/ machine' = "DashDashState"
                  \/ machine = "FinalState" /\ Refused(text)
<1>1. Given(text) \in Nat /\ Kept(text) \in Nat
  <2>1. Given(text) \in Nat
    BY GivenIsNatural DEF CInv
  <2>2. \A a, b, c, d \in Nat : a + b + c + d \in Nat
    OBVIOUS
  <2> QED
    BY <2>1, <2>2, KeptParts
<1>2. CASE InitialState_Value \/ InitialState_Other
  BY <1>2, StartBalances
<1>3. CASE IdentifyCommand_Value \/ IdentifyCommand_Other
  BY <1>1, <1>3, IdentifyBalances
<1>4. CASE \/ ParseOptions_Value       \/ ParseOptions_EndOfInput
           \/ ParseOptions_DashDash    \/ ParseOptions_EqualSign
           \/ ParseOptions_ShortOption \/ ParseOptions_LongOption
  BY <1>4, ParseOptionsBalances
<1>5. CASE \/ ParseShortOption_Value   \/ ParseShortOption_Other
           \/ ParseLongOption_EqualSign
           \/ ParseLongOption_Value    \/ ParseLongOption_Other
  BY <1>5, OptionStateBalances
<1>6. CASE DashDash_Any
  <2>1. /\ machine' = "DashDashState"
        /\ IsFiniteSet(StoredAt(text)')
        /\ Kept(text)' = Kept(text) /\ Given(text)' >= Given(text)
    BY <1>6, DashDashBalances
  <2> QED
    BY <1>1, <2>1
<1>7. CASE \/ Final_RestDeclared \/ Final_Positional \/ Final_Leftover
           \/ Final_CheckOptions \/ Final_CheckPositionals
  <2>1. machine = "FinalState"
    BY <1>7, FinalStateStores
  <2> QED
    BY <1>1, <1>7, <2>1, FinalBalances
<1> QED
  BY <1>2, <1>3, <1>4, <1>5, <1>6, <1>7 DEF Step

LEMMA DefaultStays ==
  ASSUME IInv, StartsWithDefault, Step
  PROVE  StartsWithDefault'
<1>1. CASE machine \in CommandKnown
  BY <1>1, KnownSteps DEF StartsWithDefault
<1>2. CASE machine \notin CommandKnown
  <2>1. InitialState_Value \/ InitialState_Other
          \/ IdentifyCommand_Value \/ IdentifyCommand_Other
    BY <1>2, OnlyTheFirstStates
  <2>2. commands' = commands
    BY <2>1 DEF InitialState_Value, InitialState_Other, IdentifyCommand_Value,
       IdentifyCommand_Other, fixedVars
  <2>3. CASE InitialState_Value \/ InitialState_Other
    <3>1. active_command' = active_command
      BY <2>3 DEF InitialState_Value, InitialState_Other, contextVars
    <3> QED
      BY <1>2, <2>2, <3>1 DEF StartsWithDefault, DefaultCommands
  <2>4. CASE IdentifyCommand_Value \/ IdentifyCommand_Other
    <3>1. machine' \in CommandKnown \/ active_command' = active_command
      BY <2>4, Zenon DEF IdentifyCommand_Value, IdentifyCommand_Other,
         FallBackToDefault, EnterParseOptions, EnterFinal, Proceed, Reissue,
         Abort, CommandKnown, MachineStates
    <3> QED
      BY <1>2, <2>2, <3>1 DEF StartsWithDefault, DefaultCommands
  <2> QED
    BY <2>1, <2>3, <2>4
<1> QED
  BY <1>1, <1>2

LEMMA KeptIsNatural ==
  IInv /\ Reading => \A text : IsFiniteSet(StoredAt(text)) =>
                       Kept(text) \in Nat /\ Given(text) \in Nat
<1>1. \A a, b, c, d \in Nat : a + b + c + d \in Nat
  OBVIOUS
<1> QED
  BY <1>1, KeptParts, GivenIsNatural

LEMMA KeptIsNaturalLater ==
  (IInv /\ Reading => \A text : IsFiniteSet(StoredAt(text)) =>
                        Kept(text) \in Nat /\ Given(text) \in Nat)'
BY KeptIsNatural, PTL

\* Nothing is lost: what may be missing is what came after "--" and what no
\* positional argument could parse.
LEMMA LossKept ==
  ASSUME IInv, IInv', CInv, CInv', VInv, Step, NoGaps
  PROVE  NoValueLost'
<1>1. NoValueLost
  BY DEF VInv
<1>2. SUFFICES ASSUME machine' # "DashDashState", NEW text \in Texts
               PROVE  \/ Kept(text)' = Given(text)'
                      \/ machine' = "FinalState" /\ Refused(text)'
  BY DEF NoValueLost, Refused
<1>3. machine # "DashDashState"
  <2>1. ASSUME machine = "DashDashState" PROVE DashDash_Any
    BY <2>1 DEF Step, Handling, InitialState_Value, InitialState_Other,
       IdentifyCommand_Value, IdentifyCommand_Other, ParseOptions_Value,
       ParseOptions_EndOfInput, ParseOptions_DashDash, ParseOptions_EqualSign,
       ParseOptions_ShortOption, ParseOptions_LongOption,
       ParseShortOption_Value, ParseShortOption_Other,
       ParseLongOption_EqualSign, ParseLongOption_Value, ParseLongOption_Other,
       Final_RestDeclared, Final_Positional, Final_Leftover,
       Final_CheckOptions, Final_CheckPositionals, CheckRequiredOptions,
       Finishing
  <2> QED
    BY <1>2, <2>1 DEF DashDash_Any, Proceed, Abort
<1>4. \/ Kept(text) = Given(text)
      \/ machine = "FinalState" /\ Refused(text)
  BY <1>1, <1>3 DEF NoValueLost, Refused
<1>5. ASSUME machine = "FinalState", Refused(text)
      PROVE  machine' = "FinalState" /\ Refused(text)'
  <2>1. machine' = "FinalState" /\ UNCHANGED <<commands, active_command>>
    BY <1>5, FinalStepsOnly DEF Final_RestDeclared, Final_Positional,
       Final_Leftover, Final_CheckOptions, Final_CheckPositionals,
       CheckRequiredOptions, Finishing, Handling, Undefined, ReportError,
       fixedVars, loopVars, contextVars
  <2> QED
    BY <1>5, <2>1 DEF Refused, Positionals
<1>6. /\ IsFiniteSet(StoredAt(text)) /\ StartsWithDefault
      /\ IsFiniteSet(StoredAt(text)')
      /\ \/ Balanced(text)
         \/ machine = "FinalState" /\ Refused(text)
  BY <1>2, StepBalances DEF VInv
<1>7. /\ Kept(text) \in Nat /\ Given(text) \in Nat
      /\ Kept(text)' \in Nat /\ Given(text)' \in Nat
  BY <1>6, KeptIsNatural, KeptIsNaturalLater DEF CInv
<1>8. CASE Kept(text) = Given(text) /\ Balanced(text)
  BY <1>7, <1>8 DEF Balanced
<1> QED
  BY <1>4, <1>5, <1>6, <1>8

LEMMA NextUses == IInv /\ IInv' /\ CInv /\ CInv' /\ VInv /\ [Next]_vars => VInv'
<1> SUFFICES ASSUME IInv, IInv', CInv, CInv', VInv, [Next]_vars PROVE VInv'
  OBVIOUS
<1>1. CASE Step
  <2>1. ASSUME NEW text \in Texts
        PROVE  IsFiniteSet(StoredAt(text)') /\ Kept(text)' <= Given(text)'
    <3>1. /\ IsFiniteSet(StoredAt(text)) /\ Kept(text) <= Given(text)
          /\ StartsWithDefault
      BY DEF VInv
    <3>2. /\ IsFiniteSet(StoredAt(text)')
          /\ \/ Balanced(text)
             \/ Kept(text)' <= Kept(text) /\ Given(text)' >= Given(text)
      BY <1>1, <3>1, StepBalances
    <3>3. /\ Kept(text) \in Nat /\ Given(text) \in Nat
          /\ Kept(text)' \in Nat /\ Given(text)' \in Nat
      BY <3>1, <3>2, KeptIsNatural, KeptIsNaturalLater DEF CInv
    <3>4. Kept(text)' <= Given(text)'
      BY <3>1, <3>2, <3>3 DEF Balanced
    <3> QED
      BY <3>2, <3>4
  <2> QED
    BY <1>1, <2>1, DefaultStays, LossKept DEF VInv
<1>2. CASE UNCHANGED vars
  <2>1. UNCHANGED <<commands, args, input, token, machine, active_command,
                    positional_tokens, ovm, path_segments>>
    BY <1>2 DEF vars, fixedVars, loopVars, contextVars, identifyVars
  <2>2. \A text : /\ StoredAt(text)' = StoredAt(text)
                  /\ Given(text)' = Given(text)
                  /\ Stored(text)' = Stored(text)
    BY <2>1, SameStored, SameGiven
  <2>3. \A text : Kept(text)' = Kept(text)
    BY <2>1, <2>2 DEF Kept, Count, Path
  <2>4. StartsWithDefault' /\ (NoGaps => NoValueLost')
    BY <2>1, <2>2, <2>3 DEF VInv, StartsWithDefault, DefaultCommands,
       NoValueLost, Positionals
  <2> QED
    BY <2>2, <2>3, <2>4 DEF VInv
<1> QED
  BY <1>1, <1>2 DEF Next, Stopped

LEMMA InitUses == Init => VInv
<1> SUFFICES ASSUME Init PROVE VInv
  OBVIOUS
<1>1. IInv /\ HandledCount = 0 /\ Reading
  BY InitTypes, InitReads
<1>2. StartsWithDefault /\ machine \notin CommandKnown
  BY DEF Init, StartsWithDefault, CommandKnown
<1>3. ASSUME NEW text \in Texts
      PROVE  IsFiniteSet(StoredAt(text)) /\ Kept(text) = 0 /\ Given(text) = 0
  <2>1. StoredAt(text) = {}
    BY InStoredAt DEF Init
  <2>2. IsFiniteSet(StoredAt(text)) /\ Stored(text) = 0
    BY <2>1, FS_EmptySet DEF Stored
  <2>3. InPath(text) = 0
    BY <1>1, <1>2, NothingInPath
  <2>4. path_segments = <<>> /\ positional_tokens = <<>> /\ <<>> \in Seq(Segments)
    BY DEF Init
  <2>5. Times(path_segments, text) = 0 /\ Times(positional_tokens, text) = 0
    BY <2>4, TimesIsCount
  <2>6. Kept(text) = 0
    BY <1>1, <2>2, <2>3, <2>5, KeptParts
  <2>7. Given(text) = 0
    <3>1. ValuesOf(text) \cap (1..0) = {}
      OBVIOUS
    <3> QED
      BY <1>1, <3>1, GivenCounted, CountIsNatural
  <2> QED
    BY <2>2, <2>6, <2>7
<1>4. \A text \in Texts : Kept(text) <= Given(text)
  BY <1>3
<1> QED
  BY <1>2, <1>3, <1>4 DEF VInv, NoValueLost

LEMMA ValuesAccounted == Spec => []VInv
BY InvariantHolds, CommandInvariant, InitUses, NextUses, PTL DEF Spec

\* For every CLI and every token stream, no value of the command line is used
\* twice: not as a segment of the path and again as a positional argument when
\* the path is given up, and not for an option and again for an argument.
THEOREM ValuesUsedOnce == Spec => []NoValueUsedTwice
<1>1. VInv => NoValueUsedTwice
  BY DEF VInv, NoValueUsedTwice
<1> QED
  BY <1>1, ValuesAccounted, PTL

\* In a CLI whose commands leave no gaps on a path, no value is lost before the
\* end, and then only one that a positional argument cannot parse. (With a gap
\* values are lost: the segments behind the command that was found.)
THEOREM ValuesAreKept == Spec => [](NoGaps => NoValueLost)
<1>1. VInv => (NoGaps => NoValueLost)
  BY DEF VInv
<1> QED
  BY <1>1, ValuesAccounted, PTL

-----------------------------------------------------------------------------
(* Positional arguments get their values in the order of the command line *)

\* What the definition of a CLI has to respect: positional arguments have keys
\* of their own, and at most one of them is declared after the rest.
PositionalsDeclared ==
  \A c \in DOMAIN commands :
    LET declared == commands[c].positionals
    IN  /\ \A p, q \in DOMAIN declared : declared[p].key = declared[q].key => p = q
        /\ \A p, q, r \in DOMAIN declared :
             IsPositionalRest(declared[r]) /\ r < p /\ r < q => p = q

\* The text t was given as a value, and u after it.
GivenBefore(t, u) ==
  \E i, j \in DOMAIN args : i < j /\ IsValue(i, t) /\ IsValue(j, u)

AllBefore(T, U) == \A t \in T : \A u \in U : GivenBefore(t, u)

\* The texts stored for the positional argument p, and those not yet stored.
Taken(p) ==
  LET values == ovm[Positionals[p].key]
  IN  {values[m].text : m \in {n \in DOMAIN values : values[n].from = "token"}}
Waiting == {positional_tokens[n] : n \in DOMAIN positional_tokens}

TokensInOrder ==
  \A m, n \in DOMAIN positional_tokens :
    m < n => GivenBefore(positional_tokens[m], positional_tokens[n])

\* Before FinalState nothing is stored for a positional argument, and all
\* positional tokens are tokens handled.
NotYetFinal ==
  machine # "FinalState" =>
    /\ next_positional = 1 /\ rest_option = 0
    /\ \A t \in Waiting : \E i \in 1..HandledCount : IsValue(i, t)
    /\ active_command # 0 => \A p \in DOMAIN Positionals : Taken(p) = {}

ArgumentsInOrder ==
  \A p, q \in DOMAIN Positionals : p < q => AllBefore(Taken(p), Taken(q))

EachInOrder ==
  \A p \in DOMAIN Positionals :
    LET values == ovm[Positionals[p].key]
    IN  \A m, n \in DOMAIN values :
          m < n /\ values[m].from = "token" /\ values[n].from = "token"
            => GivenBefore(values[m].text, values[n].text)

\* While FinalState takes tokens from the front for the arguments up to the
\* rest, and from the back for the one after it, what was taken from the front
\* was given before all that wait, and what was taken from the back after them.
TakenInOrder ==
  /\ rest_option # 0 => /\ rest_option < next_positional
                        /\ IsPositionalRest(Positionals[rest_option])
  /\ \A p \in DOMAIN Positionals :
       /\ p >= next_positional \/ (p = rest_option /\ InPositionals) => Taken(p) = {}
       /\ rest_option = 0 \/ p <= rest_option => AllBefore(Taken(p), Waiting)
       /\ rest_option # 0 /\ p > rest_option => AllBefore(Waiting, Taken(p))
  /\ ArgumentsInOrder
  /\ EachInOrder

\* The inductive invariant of the order of positional values.
PInv ==
  /\ TokensInOrder
  /\ NotYetFinal
  /\ PositionalsDeclared /\ machine = "FinalState" => TakenInOrder

\* The same tokens are given before each other after a step.
LEMMA SameGivenBefore ==
  ASSUME args' = args
  PROVE  /\ \A t, u : GivenBefore(t, u)' <=> GivenBefore(t, u)
         /\ TokensInOrder' <=> \A m, n \in DOMAIN positional_tokens' :
              m < n => GivenBefore(positional_tokens'[m], positional_tokens'[n])
BY DEF GivenBefore, TokensInOrder, IsValue

\* Before FinalState, the tokens handled become more.
LEMMA HandledGrows ==
  ASSUME Reading, Next
  PROVE  /\ HandledCount \in Nat /\ HandledCount' \in Nat
         /\ HandledCount <= HandledCount'
<1>1. args' = args /\ (UNCHANGED <<input, token>> \/ NextToken)
  BY TokenMoves
<1>2. HandledCount \in Nat /\ Len(args) \in Nat
  BY PositionOfToken, InputTypes DEF Reading
<1>3. HandledCount' \in {HandledCount, HandledCount + 1}
  BY <1>1, NextTokenReads, NoTokenRead
<1> QED
  BY <1>2, <1>3

\* When FinalState is entered nothing was taken.
LEMMA NothingTaken ==
  /\ next_positional = 1 /\ rest_option = 0
  /\ \A p \in DOMAIN Positionals : Taken(p) = {}
  => TakenInOrder
<1> SUFFICES ASSUME next_positional = 1, rest_option = 0,
                    \A p \in DOMAIN Positionals : Taken(p) = {}
             PROVE  TakenInOrder
  OBVIOUS
<1>1. \A p \in DOMAIN Positionals : AllBefore(Taken(p), Waiting)
  BY DEF AllBefore
<1>2. ArgumentsInOrder
  BY DEF ArgumentsInOrder, AllBefore
<1>3. EachInOrder
  BY DEF EachInOrder, Taken
<1> QED
  BY <1>1, <1>2, <1>3 DEF TakenInOrder

LEMMA NothingTakenLater ==
  (/\ next_positional = 1 /\ rest_option = 0
   /\ \A p \in DOMAIN Positionals : Taken(p) = {}
   => TakenInOrder)'
BY NothingTaken, PTL

\* The keys of the positional arguments, in the state after a step.
LEMMA KeysOfPositionals ==
  ASSUME IInv', active_command' # 0, NEW p \in DOMAIN Positionals'
  PROVE  Positionals'[p].key \in Keys
<1>1. commands' \in CLIs /\ active_command' \in DOMAIN commands'
  BY DEF IInv, TypeOK, ContextTypeOK
<1>2. commands' \in Seq(CommandRecords)
  BY <1>1, CLIsAssumption
<1>3. commands'[active_command'] \in CommandRecords
  BY <1>1, <1>2
<1>4. Positionals' \in Seq(Options)
  BY <1>3 DEF CommandRecords, Positionals
<1>5. Positionals'[p] \in Options
  BY Zenon, <1>4, ElementTypes
<1> QED
  BY <1>5 DEF Options

\* A step before FinalState keeps the order when the positional tokens stay in
\* order and nothing is stored for a positional argument.
LEMMA BeforeFinalOrder ==
  ASSUME IInv', TokensInOrder',
         next_positional = 1, rest_option = 0,
         UNCHANGED <<next_positional, rest_option>>,
         \A t \in Waiting' : \E i \in 1..HandledCount' : IsValue(i, t)',
         active_command' # 0 => \A p \in DOMAIN Positionals' : Taken(p)' = {}
  PROVE  PInv'
<1>1. NotYetFinal'
  BY DEF NotYetFinal
<1>2. machine' = "FinalState" => active_command' # 0
  BY DEF IInv, AssertionsHold, CommandKnown, MachineStates
<1>3. machine' = "FinalState" => TakenInOrder'
  BY <1>2, NothingTakenLater
<1> QED
  BY <1>1, <1>3 DEF PInv

\* The segments of a path that is given up are the first tokens of the line.
LEMMA SegmentsInOrder ==
  ASSUME IInv, Reading, SegmentsRead, Step, positional_tokens' = path_segments
  PROVE  /\ TokensInOrder'
         /\ \A t \in Waiting' : \E i \in 1..HandledCount' : IsValue(i, t)'
<1>1. args' = args
  BY TokenMoves DEF Next
<1>2. /\ HandledCount \in 0..Len(args) /\ Len(args) \in Nat
      /\ HandledCount' \in Nat /\ HandledCount <= HandledCount'
  BY HandledGrows, PositionOfToken, InputTypes DEF Reading, Next
<1>3. args \in Seq(Tokens) /\ path_segments \in Seq(Segments)
  BY ContextTypesOpened, InputTypes DEF Reading, IdentifyTypeOK, Segments
<1>4. \A i \in DOMAIN path_segments :
        i \in DOMAIN args /\ i \in 1..HandledCount' /\ IsValue(i, path_segments[i])
  BY <1>2, <1>3 DEF SegmentsRead
<1>5. \A m, n \in DOMAIN path_segments :
        m < n => GivenBefore(path_segments[m], path_segments[n])
  BY <1>4 DEF GivenBefore
<1>6. TokensInOrder'
  BY <1>1, <1>5, SameGivenBefore
<1>7. \A t \in Waiting' : \E i \in 1..HandledCount' : IsValue(i, t)'
  BY <1>1, <1>4 DEF Waiting, IsValue
<1> QED
  BY <1>6, <1>7

LEMMA FirstStatesInOrder ==
  ASSUME IInv, IInv', CInv, NothingStored, PInv,
         \/ InitialState_Value    \/ InitialState_Other
         \/ IdentifyCommand_Value \/ IdentifyCommand_Other
  PROVE  PInv'
<1>1. /\ machine \notin CommandKnown /\ machine # "FinalState"
      /\ UNCHANGED <<commands, args, ovm, next_positional, rest_option>>
  BY DEF InitialState_Value, InitialState_Other, IdentifyCommand_Value,
     IdentifyCommand_Other, Handling, fixedVars, contextVars, finalVars,
     CommandKnown
<1>2. active_command' # 0 => \A p \in DOMAIN Positionals' : Taken(p)' = {}
  <2>1. \A k \in Keys : ovm'[k] = <<>>
    BY <1>1 DEF NothingStored
  <2>2. ASSUME active_command' # 0, NEW p \in DOMAIN Positionals'
        PROVE  Taken(p)' = {}
    <3>1. ovm'[Positionals'[p].key] = <<>>
      BY <2>1, <2>2, KeysOfPositionals
    <3> QED
      BY <3>1 DEF Taken
  <2> QED
    BY <2>2
<1>3. positional_tokens = <<>> /\ next_positional = 1 /\ rest_option = 0
  BY <1>1 DEF IInv, NothingParsed, PInv, NotYetFinal
<1>4. Step
  BY DEF Step
<1>5. \/ positional_tokens' = <<>>
      \/ machine = "IdentifyCommandState" /\ positional_tokens' = path_segments
  <2>1. CASE InitialState_Value \/ InitialState_Other
    BY <1>3, <2>1 DEF InitialState_Value, InitialState_Other, contextVars
  <2>2. CASE IdentifyCommand_Value \/ IdentifyCommand_Other
    <3>1. path_segments \in Seq(Segments)
      BY ContextTypesOpened DEF IdentifyTypeOK, Segments
    <3>2. <<>> \o path_segments = path_segments
      BY <3>1
    <3> QED
      BY <1>3, <2>2, <3>2, IdentifySteps DEF PathGoesOn, PathFound, PathGivenUp,
         PathUnknown
  <2> QED
    BY <2>1, <2>2
<1>6. /\ TokensInOrder'
      /\ \A t \in Waiting' : \E i \in 1..HandledCount' : IsValue(i, t)'
  <2>1. CASE positional_tokens' = <<>>
    BY <2>1 DEF TokensInOrder, Waiting
  <2>2. CASE machine = "IdentifyCommandState" /\ positional_tokens' = path_segments
    BY <1>4, <2>2, SegmentsInOrder DEF CInv, Identifying
  <2> QED
    BY <1>5, <2>1, <2>2
<1> QED
  BY <1>1, <1>2, <1>3, <1>6, BeforeFinalOrder

\* A value that is no option's joins the positional tokens behind those given
\* before it.
LEMMA AppendedInOrder ==
  ASSUME IInv, Reading, TokensInOrder, NotYetFinal, machine # "FinalState", Step,
         positional_tokens' = Append(positional_tokens, token.text),
         token.type = "Value", NextToken
  PROVE  /\ TokensInOrder'
         /\ \A t \in Waiting' : \E i \in 1..HandledCount' : IsValue(i, t)'
<1> DEFINE h == HandledCount + 1
           n == Len(positional_tokens)
<1>1. args' = args
  BY TokenMoves DEF Next
<1>2. /\ HandledCount \in 0..Len(args) /\ Len(args) \in Nat
      /\ h \in 1..Len(args) /\ token = args[h]
      /\ HandledCount' = h
  BY <1>1, PositionOfToken, NextTokenReads, InputTypes DEF Reading
<1>3. args \in Seq(Tokens) /\ positional_tokens \in Seq(Segments)
        /\ token.text \in Segments
  BY ContextTypesOpened, InputTypes DEF Reading, Segments
<1>4. IsValue(h, token.text)
  BY <1>2 DEF IsValue
<1> HIDE DEF h
<1>5. \A t \in Waiting : \E i \in DOMAIN args : i \in 1..HandledCount /\ i < h
                                                 /\ IsValue(i, t)
  BY <1>2, <1>3 DEF NotYetFinal, h
<1>6. \A t \in Waiting : GivenBefore(t, token.text)
  BY <1>2, <1>3, <1>4, <1>5 DEF GivenBefore
<1>7. /\ n \in Nat /\ DOMAIN positional_tokens' = 1..(n + 1)
      /\ \A i \in 1..n : /\ positional_tokens'[i] = positional_tokens[i]
                         /\ positional_tokens[i] \in Waiting
      /\ positional_tokens'[n + 1] = token.text
  BY <1>3 DEF Waiting
<1>8. \A i \in 1..(n + 1) : i \in 1..n \/ i = n + 1
  BY <1>7
<1>9. DOMAIN positional_tokens = 1..n
  BY <1>3
<1> HIDE DEF n
<1>10. TokensInOrder'
  <2>1. ASSUME NEW i \in 1..(n + 1), NEW j \in 1..(n + 1), i < j
        PROVE  GivenBefore(positional_tokens'[i], positional_tokens'[j])
    <3>1. i \in 1..n
      BY <1>7, <2>1
    <3>2. CASE j \in 1..n
      BY <1>7, <1>9, <2>1, <3>1, <3>2 DEF TokensInOrder
    <3>3. CASE j = n + 1
      BY <1>6, <1>7, <3>1, <3>3
    <3> QED
      BY <1>8, <3>2, <3>3
  <2> QED
    BY <1>1, <1>7, <2>1, SameGivenBefore
<1>11. \A t \in Waiting' : \E i \in 1..HandledCount' : IsValue(i, t)'
  <2>1. \A t \in Waiting' : t \in Waiting \/ t = token.text
    BY <1>7, <1>8 DEF Waiting
  <2>2. h \in 1..HandledCount' /\ \A i \in 1..HandledCount : i \in 1..HandledCount'
    BY <1>2 DEF h
  <2>3. \A t \in Waiting' : \E i \in 1..HandledCount' : IsValue(i, t)
    BY <1>4, <1>5, <2>1, <2>2
  <2> QED
    BY <1>1, <2>3 DEF IsValue
<1> QED
  BY <1>10, <1>11

\* What an option state stores is not for a positional argument.
LEMMA OptionsTakeNothing ==
  ASSUME IInv, machine \in OptionStates, StoresForOption,
         UNCHANGED <<commands, active_command>>
  PROVE  \A p \in DOMAIN Positionals : Taken(p)' = Taken(p)
<1>1. /\ active_command # 0 /\ ContextTypeOK
      /\ active_option \in DOMAIN CommandOptions /\ ActiveOption.key \in Keys
      /\ ovm \in [Keys -> Seq(OptionValues)]
  BY ContextTypesOpened DEF CommandKnown, OptionStates, MachineStates, ContextTypeOK
<1>2. Positionals' = Positionals
  BY DEF Positionals
<1>3. \A k \in Keys : k # ActiveOption.key => ovm'[k] = ovm[k]
  BY <1>1, StoredIs DEF StoresForOption
<1>4. \A p \in DOMAIN Positionals :
        Positionals[p].key \in Keys /\ Positionals[p].key # ActiveOption.key
  BY <1>1, KeysDiffer, OptionOfCommand DEF ActiveOption
<1> QED
  BY <1>2, <1>3, <1>4 DEF Taken

LEMMA MiddleStatesInOrder ==
  ASSUME IInv, IInv', Reading, PInv,
         \/ ParseOptions_Value       \/ ParseOptions_EndOfInput
         \/ ParseOptions_DashDash    \/ ParseOptions_EqualSign
         \/ ParseOptions_ShortOption \/ ParseOptions_LongOption
         \/ ParseShortOption_Value   \/ ParseShortOption_Other
         \/ ParseLongOption_EqualSign
         \/ ParseLongOption_Value    \/ ParseLongOption_Other
         \/ DashDash_Any
  PROVE  PInv'
<1>1. /\ Step
      /\ machine \in CommandKnown /\ machine # "FinalState"
      /\ UNCHANGED <<next_positional, rest_option>>
  BY DEF Step, ParseOptions_Value, ParseOptions_EndOfInput,
     ParseOptions_DashDash, ParseOptions_EqualSign, ParseOptions_ShortOption,
     ParseOptions_LongOption, ParseShortOption_Value, ParseShortOption_Other,
     ParseLongOption_EqualSign, ParseLongOption_Value, ParseLongOption_Other,
     DashDash_Any, Handling, finalVars, CommandKnown, MachineStates
<1>2. UNCHANGED <<commands, args, active_command>> /\ Positionals' = Positionals
  BY <1>1, KnownSteps DEF Positionals
<1>3. /\ TokensInOrder /\ NotYetFinal /\ active_command # 0
      /\ next_positional = 1 /\ rest_option = 0
      /\ \A p \in DOMAIN Positionals : Taken(p) = {}
  BY <1>1, ContextTypesOpened DEF PInv, NotYetFinal
<1>4. \/ ovm' = ovm
      \/ machine \in OptionStates /\ StoresForOption
  BY <1>1, StepStores DEF Next
<1>5. \A p \in DOMAIN Positionals : Taken(p)' = {}
  <2>1. CASE ovm' = ovm
    BY <1>2, <1>3, <2>1 DEF Taken
  <2>2. CASE machine \in OptionStates /\ StoresForOption
    BY <1>2, <1>3, <2>2, OptionsTakeNothing
  <2> QED
    BY <1>4, <2>1, <2>2
<1>6. \/ UNCHANGED positional_tokens
      \/ /\ positional_tokens' = Append(positional_tokens, token.text)
         /\ token.type = "Value" /\ NextToken
  BY DEF ParseOptions_Value, ParseOptions_EndOfInput, ParseOptions_DashDash,
     ParseOptions_EqualSign, ParseOptions_ShortOption, ParseOptions_LongOption,
     ParseShortOption_Value, ParseShortOption_Other, ParseLongOption_EqualSign,
     ParseLongOption_Value, ParseLongOption_Other, DashDash_Any, Handling,
     Proceed, contextVars
<1>7. /\ TokensInOrder'
      /\ \A t \in Waiting' : \E i \in 1..HandledCount' : IsValue(i, t)'
  <2>1. CASE UNCHANGED positional_tokens
    <3>1. TokensInOrder' /\ Waiting' = Waiting
      BY <1>2, <1>3, <2>1, SameGivenBefore DEF TokensInOrder, Waiting
    <3>2. \A i \in 1..HandledCount : i \in 1..HandledCount'
      BY <1>1, HandledGrows DEF Next
    <3> QED
      BY <1>1, <1>2, <1>3, <3>1, <3>2 DEF NotYetFinal, IsValue
  <2>2. CASE /\ positional_tokens' = Append(positional_tokens, token.text)
             /\ token.type = "Value" /\ NextToken
    BY <1>1, <1>3, <2>2, AppendedInOrder
  <2> QED
    BY <1>6, <2>1, <2>2
<1>8. active_command' # 0 => \A p \in DOMAIN Positionals' : Taken(p)' = {}
  BY <1>2, <1>5
<1> QED
  BY <1>1, <1>3, <1>7, <1>8, BeforeFinalOrder

\* The first positional token was given before those behind it, and the last
\* one after those in front of it.
LEMMA FirstIsBefore ==
  ASSUME TokensInOrder, args' = args, positional_tokens \in Seq(Segments),
         positional_tokens # <<>>, positional_tokens' = Tail(positional_tokens)
  PROVE  /\ TokensInOrder'
         /\ Head(positional_tokens) \in Waiting /\ Waiting' \subseteq Waiting
         /\ \A t \in Waiting' : GivenBefore(Head(positional_tokens), t)
<1> DEFINE n == Len(positional_tokens)
<1>1. /\ n \in Nat /\ n # 0 /\ DOMAIN positional_tokens = 1..n
      /\ DOMAIN positional_tokens' = 1..(n - 1)
      /\ Head(positional_tokens) = positional_tokens[1]
      /\ \A i \in 1..(n - 1) : positional_tokens'[i] = positional_tokens[i + 1]
  BY EmptySeq
<1> HIDE DEF n
<1>2. 1 \in 1..n /\ \A i \in 1..(n - 1) : i + 1 \in 1..n /\ 1 < i + 1
  BY <1>1
<1>3. \A i, j \in 1..(n - 1) : i < j => i + 1 < j + 1
  BY <1>1
<1>4. TokensInOrder'
  <2>1. ASSUME NEW i \in 1..(n - 1), NEW j \in 1..(n - 1), i < j
        PROVE  GivenBefore(positional_tokens'[i], positional_tokens'[j])
    <3>1. GivenBefore(positional_tokens[i + 1], positional_tokens[j + 1])
      BY <1>1, <1>2, <1>3, <2>1 DEF TokensInOrder
    <3> QED
      BY <1>1, <3>1
  <2> QED
    BY <1>1, <2>1, SameGivenBefore
<1>5. Head(positional_tokens) \in Waiting /\ Waiting' \subseteq Waiting
  BY <1>1, <1>2 DEF Waiting
<1>6. \A t \in Waiting' : GivenBefore(Head(positional_tokens), t)
  BY <1>1, <1>2 DEF Waiting, TokensInOrder
<1> QED
  BY <1>4, <1>5, <1>6

LEMMA LastIsAfter ==
  ASSUME TokensInOrder, args' = args, positional_tokens \in Seq(Segments),
         positional_tokens # <<>>,
         positional_tokens' =
           SubSeq(positional_tokens, 1, Len(positional_tokens) - 1)
  PROVE  LET last == positional_tokens[Len(positional_tokens)]
         IN  /\ TokensInOrder'
             /\ last \in Waiting /\ Waiting' \subseteq Waiting
             /\ \A t \in Waiting' : GivenBefore(t, last)
<1> DEFINE n == Len(positional_tokens)
<1>1. /\ n \in Nat /\ n # 0 /\ DOMAIN positional_tokens = 1..n
      /\ DOMAIN positional_tokens' = 1..(n - 1)
      /\ \A i \in 1..(n - 1) : positional_tokens'[i] = positional_tokens[i]
  BY EmptySeq
<1> HIDE DEF n
<1>2. n \in 1..n /\ \A i \in 1..(n - 1) : i \in 1..n /\ i < n
  BY <1>1
<1>3. TokensInOrder'
  BY <1>1, <1>2, SameGivenBefore DEF TokensInOrder
<1>4. positional_tokens[n] \in Waiting /\ Waiting' \subseteq Waiting
  BY <1>1, <1>2 DEF Waiting
<1>5. \A t \in Waiting' : GivenBefore(t, positional_tokens[n])
  BY <1>1, <1>2 DEF Waiting, TokensInOrder
<1> QED
  BY <1>3, <1>4, <1>5 DEF n

\* EachInOrder speaks of stored texts, and in the next state of those stored then.
LEMMA EachInOrderLater ==
  ASSUME UNCHANGED <<args, Positionals>>
  PROVE  EachInOrder' <=>
           \A p \in DOMAIN Positionals :
             LET values == ovm'[Positionals[p].key]
             IN  \A m, n \in DOMAIN values :
                   m < n /\ values[m].from = "token" /\ values[n].from = "token"
                     => GivenBefore(values[m].text, values[n].text)
BY DEF EachInOrder, GivenBefore, IsValue

\* The text x is taken for the positional argument p, and stored unless p
\* cannot parse it.
LEMMA StoredInOrder ==
  ASSUME IInv, active_command # 0, PositionalsDeclared,
         UNCHANGED <<commands, args, active_command>>,
         NEW p \in DOMAIN Positionals, NEW x \in Segments,
         StorePositional(Positionals[p], x),
         ArgumentsInOrder, EachInOrder,
         \A q \in DOMAIN Positionals :
           /\ q <= p => \A t \in Taken(q) : GivenBefore(t, x)
           /\ q > p  => \A t \in Taken(q) : GivenBefore(x, t)
  PROVE  /\ \A q \in DOMAIN Positionals : q # p => Taken(q)' = Taken(q)
         /\ Taken(p)' \subseteq Taken(p) \cup {x}
         /\ ArgumentsInOrder' /\ EachInOrder'
<1> DEFINE key == Positionals[p].key
           v == PositionalValue(x)
<1>1. /\ Positionals' = Positionals
      /\ \A t, u : GivenBefore(t, u)' <=> GivenBefore(t, u)
  BY SameGivenBefore DEF Positionals
<1>2. /\ ovm \in [Keys -> Seq(OptionValues)]
      /\ DOMAIN Positionals = 1..Len(Positionals) /\ Len(Positionals) \in Nat
      /\ \A q \in DOMAIN Positionals : Positionals[q].key \in Keys
  <2>1. ovm \in [Keys -> Seq(OptionValues)]
    BY ContextTypesOpened
  <2> QED
    BY <2>1, ListTypes
<1>3. \A q \in DOMAIN Positionals : q # p => Positionals[q].key # key
  <2>1. active_command \in DOMAIN commands
    BY ContextTypesOpened, CommandTypes
  <2> QED
    BY <2>1 DEF PositionalsDeclared, Positionals
<1>4. v.from = "token" /\ v.text = x
  BY DEF PositionalValue
<1> HIDE DEF v
<1>5. \/ ovm' = ovm
      \/ /\ ovm'[key] = Append(ovm[key], v)
         /\ \A k \in Keys : k # key => ovm'[k] = ovm[k]
  BY <1>2, StoredIs DEF StorePositional, v
<1> DEFINE n == Len(ovm[key])
<1>6. ovm[key] \in Seq(OptionValues) /\ n \in Nat /\ DOMAIN ovm[key] = 1..n
  BY <1>2
<1> HIDE DEF key
<1>7. ASSUME ovm'[key] = Append(ovm[key], v)
      PROVE  /\ DOMAIN ovm'[key] = 1..(n + 1)
             /\ \A i \in 1..n : ovm'[key][i] = ovm[key][i]
             /\ ovm'[key][n + 1] = v
             /\ \A i \in 1..(n + 1) : i \in 1..n \/ i = n + 1
  BY <1>6, <1>7, AppendProperties
<1> HIDE DEF n
<1>8. \A q \in DOMAIN Positionals : q # p => Taken(q)' = Taken(q)
  <2>1. ASSUME NEW q \in DOMAIN Positionals, q # p
        PROVE  ovm'[Positionals[q].key] = ovm[Positionals[q].key]
    BY <1>2, <1>3, <1>5, <2>1
  <2> QED
    BY <1>1, <2>1 DEF Taken
<1>9. Taken(p)' \subseteq Taken(p) \cup {x}
  <2>1. CASE ovm' = ovm
    BY <1>1, <2>1 DEF Taken
  <2>2. CASE ovm'[key] = Append(ovm[key], v)
    BY <1>1, <1>4, <1>6, <1>7, <2>2 DEF Taken, key
  <2> QED
    BY <1>5, <2>1, <2>2
<1>10. ArgumentsInOrder'
  <2>1. ASSUME NEW q \in DOMAIN Positionals, NEW r \in DOMAIN Positionals, q < r,
               NEW t \in Taken(q)', NEW u \in Taken(r)'
        PROVE  GivenBefore(t, u)
    <3>1. t \in Taken(q) \/ (q = p /\ t = x)
      BY <1>8, <1>9
    <3>2. u \in Taken(r) \/ (r = p /\ u = x)
      BY <1>8, <1>9
    <3>3. ~(q = p /\ r = p)
      BY <1>2, <2>1
    <3>4. t \in Taken(q) /\ u \in Taken(r) => GivenBefore(t, u)
      BY <2>1 DEF ArgumentsInOrder, AllBefore
    <3>5. r = p => q <= p
      BY <1>2, <2>1
    <3>6. q = p => r > p
      BY <1>2, <2>1
    <3> QED
      BY <3>1, <3>2, <3>3, <3>4, <3>5, <3>6
  <2> QED
    BY <1>1, <2>1 DEF ArgumentsInOrder, AllBefore
<1>11. EachInOrder'
  <2>1. ASSUME NEW q \in DOMAIN Positionals,
               ovm'[Positionals[q].key] = ovm[Positionals[q].key],
               NEW i \in DOMAIN ovm'[Positionals[q].key],
               NEW j \in DOMAIN ovm'[Positionals[q].key], i < j,
               ovm'[Positionals[q].key][i].from = "token",
               ovm'[Positionals[q].key][j].from = "token"
        PROVE  GivenBefore(ovm'[Positionals[q].key][i].text,
                           ovm'[Positionals[q].key][j].text)
    BY <2>1 DEF EachInOrder
  <2>2. ASSUME ovm'[key] = Append(ovm[key], v),
               NEW i \in DOMAIN ovm'[key], NEW j \in DOMAIN ovm'[key], i < j,
               ovm'[key][i].from = "token", ovm'[key][j].from = "token"
        PROVE  GivenBefore(ovm'[key][i].text, ovm'[key][j].text)
    <3>1. i \in 1..n
      BY <1>6, <1>7, <2>2
    <3>2. CASE j \in 1..n
      BY <1>6, <1>7, <2>2, <3>1, <3>2 DEF EachInOrder, key
    <3>3. CASE j = n + 1
      <4>1. ovm[key][i].text \in Taken(p)
        BY <1>6, <1>7, <2>2, <3>1 DEF Taken, key
      <4>2. p <= p
        BY <1>2
      <4> QED
        BY <1>4, <1>7, <2>2, <3>1, <3>3, <4>1, <4>2
    <3> QED
      BY <1>7, <2>2, <3>2, <3>3
  <2>3. ASSUME NEW q \in DOMAIN Positionals
        PROVE  \/ ovm'[Positionals[q].key] = ovm[Positionals[q].key]
               \/ Positionals[q].key = key /\ ovm'[key] = Append(ovm[key], v)
    BY <1>2, <1>5
  <2>4. ASSUME NEW q \in DOMAIN Positionals,
               NEW i \in DOMAIN ovm'[Positionals[q].key],
               NEW j \in DOMAIN ovm'[Positionals[q].key], i < j,
               ovm'[Positionals[q].key][i].from = "token",
               ovm'[Positionals[q].key][j].from = "token"
        PROVE  GivenBefore(ovm'[Positionals[q].key][i].text,
                           ovm'[Positionals[q].key][j].text)
    BY <2>1, <2>2, <2>3, <2>4
  <2> QED
    BY <1>1, <2>4, EachInOrderLater
<1> QED
  BY <1>8, <1>9, <1>10, <1>11

\* A token is taken from the front for the argument p.
LEMMA FrontInOrder ==
  ASSUME IInv, active_command # 0, PositionalsDeclared, TokensInOrder,
         ArgumentsInOrder, EachInOrder,
         UNCHANGED <<commands, args, active_command>>,
         NEW p \in DOMAIN Positionals, positional_tokens # <<>>,
         StorePositional(Positionals[p], Head(positional_tokens)),
         positional_tokens' = Tail(positional_tokens),
         \A q \in DOMAIN Positionals :
           /\ q <= p => AllBefore(Taken(q), Waiting)
           /\ q > p  => AllBefore(Waiting, Taken(q))
  PROVE  /\ TokensInOrder' /\ ArgumentsInOrder' /\ EachInOrder'
         /\ \A q \in DOMAIN Positionals :
              /\ q # p => Taken(q)' = Taken(q)
              /\ q <= p => AllBefore(Taken(q), Waiting)'
              /\ q > p  => AllBefore(Waiting, Taken(q))'
<1> DEFINE x == Head(positional_tokens)
<1>1. \A t, u : GivenBefore(t, u)' <=> GivenBefore(t, u)
  BY SameGivenBefore
<1>2. positional_tokens \in Seq(Segments) /\ x \in Segments
  <2>1. positional_tokens \in Seq(Segments)
    BY ContextTypesOpened DEF Segments
  <2> QED
    BY <2>1
<1>3. /\ TokensInOrder'
      /\ x \in Waiting /\ Waiting' \subseteq Waiting
      /\ \A t \in Waiting' : GivenBefore(x, t)
  BY <1>2, FirstIsBefore
<1>4. StorePositional(Positionals[p], x)
  OBVIOUS
<1> HIDE DEF x
<1>5. /\ \A q \in DOMAIN Positionals : q # p => Taken(q)' = Taken(q)
      /\ Taken(p)' \subseteq Taken(p) \cup {x}
      /\ ArgumentsInOrder' /\ EachInOrder'
  <2>1. \A q \in DOMAIN Positionals :
          /\ q <= p => \A t \in Taken(q) : GivenBefore(t, x)
          /\ q > p  => \A t \in Taken(q) : GivenBefore(x, t)
    BY <1>3 DEF AllBefore
  <2> QED
    BY <1>2, <1>4, <2>1, StoredInOrder
<1>6. ASSUME NEW q \in DOMAIN Positionals
      PROVE  /\ q <= p => AllBefore(Taken(q), Waiting)'
             /\ q > p  => AllBefore(Waiting, Taken(q))'
  <2>1. ASSUME q <= p, NEW t \in Taken(q)', NEW u \in Waiting'
        PROVE  GivenBefore(t, u)
    <3>1. t \in Taken(q) \/ t = x
      BY <1>5
    <3> QED
      BY <1>3, <2>1, <3>1 DEF AllBefore
  <2>2. ASSUME q > p, NEW t \in Taken(q)', NEW u \in Waiting'
        PROVE  GivenBefore(u, t)
    <3>1. q # p
      <4>1. p \in Nat
        BY ListTypes
      <4> QED
        BY <2>2, <4>1
    <3>2. t \in Taken(q) /\ u \in Waiting
      BY <1>3, <1>5, <3>1
    <3> QED
      BY <2>2, <3>2 DEF AllBefore
  <2> QED
    BY <1>1, <2>1, <2>2 DEF AllBefore
<1> QED
  BY <1>3, <1>5, <1>6

\* A token is taken from the back for p, the last argument: no argument from p
\* on has a value.
LEMMA BackInOrder ==
  ASSUME IInv, active_command # 0, PositionalsDeclared, TokensInOrder,
         ArgumentsInOrder, EachInOrder,
         UNCHANGED <<commands, args, active_command>>,
         NEW p \in DOMAIN Positionals, positional_tokens # <<>>,
         StorePositional(Positionals[p], positional_tokens[Len(positional_tokens)]),
         positional_tokens' =
           SubSeq(positional_tokens, 1, Len(positional_tokens) - 1),
         \A q \in DOMAIN Positionals :
           /\ q < p  => AllBefore(Taken(q), Waiting)
           /\ q >= p => Taken(q) = {}
  PROVE  /\ TokensInOrder' /\ ArgumentsInOrder' /\ EachInOrder'
         /\ AllBefore(Waiting, Taken(p))'
         /\ \A q \in DOMAIN Positionals :
              /\ q # p => Taken(q)' = Taken(q)
              /\ q < p => AllBefore(Taken(q), Waiting)'
<1> DEFINE x == positional_tokens[Len(positional_tokens)]
<1>1. \A t, u : GivenBefore(t, u)' <=> GivenBefore(t, u)
  BY SameGivenBefore
<1>2. positional_tokens \in Seq(Segments)
  BY ContextTypesOpened DEF Segments
<1>3. /\ TokensInOrder'
      /\ x \in Waiting /\ Waiting' \subseteq Waiting
      /\ \A t \in Waiting' : GivenBefore(t, x)
  BY <1>2, LastIsAfter
<1>4. StorePositional(Positionals[p], x)
  OBVIOUS
<1> HIDE DEF x
<1>5. \A t \in Waiting : t \in Segments
  BY <1>2, ElementTypes DEF Waiting
<1>6. DOMAIN Positionals \subseteq Nat
  BY ListTypes
<1>7. /\ \A q \in DOMAIN Positionals : q # p => Taken(q)' = Taken(q)
      /\ Taken(p)' \subseteq Taken(p) \cup {x}
      /\ ArgumentsInOrder' /\ EachInOrder'
  <2>1. \A q \in DOMAIN Positionals : q < p \/ (q >= p /\ Taken(q) = {})
    BY <1>6
  <2>2. \A q \in DOMAIN Positionals : q > p => ~(q < p)
    BY <1>6
  <2>3. \A q \in DOMAIN Positionals :
          /\ q <= p => \A t \in Taken(q) : GivenBefore(t, x)
          /\ q > p  => \A t \in Taken(q) : GivenBefore(x, t)
    BY <1>3, <2>1, <2>2 DEF AllBefore
  <2> QED
    BY <1>3, <1>4, <1>5, <2>3, StoredInOrder
<1>8. AllBefore(Waiting, Taken(p))'
  <2>1. Taken(p) = {}
    BY <1>6
  <2>2. \A t \in Taken(p)' : t = x
    BY <1>7, <2>1
  <2> QED
    BY <1>1, <1>3, <2>2 DEF AllBefore
<1>9. ASSUME NEW q \in DOMAIN Positionals, q < p
      PROVE  AllBefore(Taken(q), Waiting)'
  <2>1. Taken(q)' = Taken(q)
    BY <1>6, <1>7, <1>9
  <2>2. \A t \in Taken(q)' : \A u \in Waiting' : GivenBefore(t, u)
    BY <1>3, <1>9, <2>1 DEF AllBefore
  <2> QED
    BY <1>1, <2>2 DEF AllBefore
<1> QED
  BY <1>3, <1>7, <1>8, <1>9

\* Defaults are no texts of the command line.
LEMMA DefaultsTakeNothing ==
  ASSUME IInv, active_command # 0, FillsIn,
         UNCHANGED <<commands, args, active_command>>
  PROVE  /\ \A p \in DOMAIN Positionals : Taken(p)' = Taken(p)
         /\ EachInOrder => EachInOrder'
<1>1. /\ Positionals' = Positionals
      /\ \A p \in DOMAIN Positionals : Positionals[p].key \in Keys
  BY ListTypes DEF Positionals
<1>2. \A k \in Keys : \/ ovm'[k] = ovm[k]
                      \/ ovm[k] = <<>> /\ ovm'[k] = <<DefaultValue>>
  BY ContextTypesOpened, DefaultsFill DEF FillsIn
<1>3. DefaultValue.from # "token"
  BY DEF DefaultValue
<1>4. DOMAIN <<DefaultValue>> = {1} /\ <<DefaultValue>>[1] = DefaultValue
        /\ DOMAIN <<>> = {}
  OBVIOUS
<1>5. ASSUME NEW p \in DOMAIN Positionals
      PROVE  \/ ovm'[Positionals[p].key] = ovm[Positionals[p].key]
             \/ /\ \A m \in DOMAIN ovm'[Positionals[p].key] :
                     ovm'[Positionals[p].key][m].from # "token"
                /\ ovm[Positionals[p].key] = <<>>
  BY <1>1, <1>2, <1>3, <1>4
<1>6. \A p \in DOMAIN Positionals : Taken(p)' = Taken(p)
  BY <1>1, <1>4, <1>5 DEF Taken
<1>7. EachInOrder => EachInOrder'
  <2>1. ASSUME EachInOrder, NEW p \in DOMAIN Positionals,
               NEW m \in DOMAIN ovm'[Positionals[p].key],
               NEW n \in DOMAIN ovm'[Positionals[p].key], m < n,
               ovm'[Positionals[p].key][m].from = "token",
               ovm'[Positionals[p].key][n].from = "token"
        PROVE  GivenBefore(ovm'[Positionals[p].key][m].text,
                           ovm'[Positionals[p].key][n].text)
    BY <1>5, <2>1 DEF EachInOrder
  <2> QED
    BY <1>1, <2>1, EachInOrderLater
<1> QED
  BY <1>6, <1>7

\* Nothing is taken, and what is said of the positions stays as it was.
LEMMA SameTakenInOrder ==
  ASSUME TokensInOrder, TakenInOrder,
         UNCHANGED <<commands, args, active_command, positional_tokens>>,
         UNCHANGED <<next_positional, rest_option>>,
         \A p \in DOMAIN Positionals : Taken(p)' = Taken(p),
         EachInOrder'
  PROVE  TokensInOrder' /\ TakenInOrder'
<1>1. Positionals' = Positionals /\ Waiting' = Waiting
  BY DEF Positionals, Waiting
<1>2. \A t, u : GivenBefore(t, u)' <=> GivenBefore(t, u)
  BY SameGivenBefore
<1>3. TokensInOrder'
  BY SameGivenBefore DEF TokensInOrder
<1>4. ArgumentsInOrder'
  BY <1>1, <1>2 DEF TakenInOrder, ArgumentsInOrder, AllBefore
<1>5. ASSUME NEW p \in DOMAIN Positionals
      PROVE  /\ p >= next_positional \/ (p = rest_option /\ InPositionals)
                  => Taken(p)' = {}
             /\ rest_option = 0 \/ p <= rest_option => AllBefore(Taken(p), Waiting)'
             /\ rest_option # 0 /\ p > rest_option => AllBefore(Waiting, Taken(p))'
  BY <1>1, <1>2 DEF TakenInOrder, AllBefore
<1> QED
  BY <1>1, <1>3, <1>4, <1>5 DEF TakenInOrder, InPositionals

\* What a step of FinalState's loops does to the positional tokens.
LEMMA FinalInOrder ==
  ASSUME IInv, TokensInOrder, PositionalsDeclared => TakenInOrder,
         \/ Final_RestDeclared \/ Final_Positional \/ Final_Leftover
         \/ Final_CheckOptions \/ Final_CheckPositionals
  PROVE  TokensInOrder' /\ (PositionalsDeclared => TakenInOrder')
<1>1. /\ machine = "FinalState" /\ active_command # 0
      /\ UNCHANGED <<commands, args, active_command>>
  <2>1. machine = "FinalState" /\ UNCHANGED <<commands, args, active_command>>
    BY DEF Final_RestDeclared, Final_Positional, Final_Leftover,
       Final_CheckOptions, Final_CheckPositionals, CheckRequiredOptions,
       Finishing, Handling, fixedVars, contextVars
  <2> QED
    BY <2>1, ContextTypesOpened DEF CommandKnown, MachineStates
<1>2. /\ next_positional \in Nat /\ next_positional # 0 /\ rest_option \in Nat
      /\ DOMAIN Positionals = 1..Len(Positionals) /\ Len(Positionals) \in Nat
      /\ positional_tokens \in Seq(Segments)
      /\ rest_option # 0 => rest_option \in DOMAIN Positionals
  <2>1. positional_tokens \in Seq(Segments) /\ FinalTypeOK
    BY ContextTypesOpened DEF Segments
  <2> QED
    BY <1>1, <2>1, ListTypes DEF FinalTypeOK
<1>3. Positionals' = Positionals
  BY <1>1 DEF Positionals
<1>4. TokensInOrder'
  <2>1. \/ positional_tokens' = positional_tokens
        \/ positional_tokens # <<>> /\ positional_tokens' = Tail(positional_tokens)
        \/ /\ positional_tokens # <<>>
           /\ positional_tokens' =
                SubSeq(positional_tokens, 1, Len(positional_tokens) - 1)
    BY DEF Final_RestDeclared, Final_Positional, Final_Leftover,
       Final_CheckOptions, Final_CheckPositionals, CheckRequiredOptions,
       contextVars
  <2>2. CASE positional_tokens' = positional_tokens
    BY <1>1, <2>2, SameGivenBefore DEF TokensInOrder
  <2> QED
    BY <1>1, <1>2, <2>1, <2>2, FirstIsBefore, LastIsAfter
<1> SUFFICES ASSUME PositionalsDeclared, TakenInOrder PROVE TakenInOrder'
  BY <1>4
<1>5. /\ ArgumentsInOrder /\ EachInOrder
      /\ \A p, q, r \in DOMAIN Positionals :
           IsPositionalRest(Positionals[r]) /\ r < p /\ r < q => p = q
      /\ \A p, q \in DOMAIN Positionals :
           Positionals[p].key = Positionals[q].key => p = q
  <2>1. active_command \in DOMAIN commands
    BY <1>1, ContextTypesOpened, CommandTypes
  <2> QED
    BY <2>1 DEF PositionalsDeclared, Positionals, TakenInOrder
<1>6. /\ rest_option # 0 => /\ rest_option < next_positional
                            /\ IsPositionalRest(Positionals[rest_option])
      /\ \A p \in DOMAIN Positionals :
           /\ p >= next_positional \/ (p = rest_option /\ InPositionals)
                => Taken(p) = {}
           /\ rest_option = 0 \/ p <= rest_option => AllBefore(Taken(p), Waiting)
           /\ rest_option # 0 /\ p > rest_option => AllBefore(Waiting, Taken(p))
  BY DEF TakenInOrder
<1>7. \A p \in DOMAIN Positionals :
        Taken(p) = {} => AllBefore(Taken(p), Waiting) /\ AllBefore(Waiting, Taken(p))
  BY DEF AllBefore
<1>8. ASSUME UNCHANGED <<positional_tokens, ovm, next_positional, rest_option>>
      PROVE  TakenInOrder'
  <2>1. \A p \in DOMAIN Positionals : Taken(p)' = Taken(p)
    BY <1>3, <1>8 DEF Taken
  <2>2. EachInOrder'
    BY <1>1, <1>3, <1>5, <1>8 DEF EachInOrder, GivenBefore, IsValue
  <2> QED
    BY <1>1, <1>8, <2>1, <2>2, SameTakenInOrder
<1>9. CASE Final_RestDeclared
  <2>1. /\ next_positional \in DOMAIN Positionals
        /\ IsPositionalRest(Positionals[next_positional])
        /\ rest_option' = next_positional /\ next_positional' = next_positional + 1
        /\ UNCHANGED <<ovm, positional_tokens>>
    BY <1>2, <1>9 DEF Final_RestDeclared, InPositionals, contextVars
  <2>2. rest_option = 0
    BY <1>2, <1>5, <1>6, <2>1 DEF IsPositionalRest
  <2>3. /\ Waiting' = Waiting
        /\ \A p \in DOMAIN Positionals : Taken(p)' = Taken(p)
        /\ \A t, u : GivenBefore(t, u)' <=> GivenBefore(t, u)
    BY <1>1, <1>3, <2>1, SameGivenBefore DEF Waiting, Taken
  <2>4. ArgumentsInOrder' /\ EachInOrder'
    <3>1. ArgumentsInOrder'
      BY <1>3, <1>5, <2>3 DEF ArgumentsInOrder, AllBefore
    <3>2. EachInOrder'
      BY <1>1, <1>3, <1>5, <2>1 DEF EachInOrder, GivenBefore, IsValue
    <3> QED
      BY <3>1, <3>2
  <2>5. ASSUME NEW p \in DOMAIN Positionals
        PROVE  /\ p >= next_positional => Taken(p) = {}
               /\ AllBefore(Taken(p), Waiting)'
               /\ p > next_positional => AllBefore(Waiting, Taken(p))'
    <3>1. p > next_positional => p >= next_positional
      BY <1>2
    <3>2. /\ p >= next_positional => Taken(p) = {}
          /\ AllBefore(Taken(p), Waiting)
          /\ p > next_positional => AllBefore(Waiting, Taken(p))
      BY <1>6, <1>7, <2>2, <3>1
    <3> QED
      BY <2>3, <3>2 DEF AllBefore
  <2>6. \A p \in DOMAIN Positionals :
          p >= next_positional + 1 \/ p = next_positional => p >= next_positional
    BY <1>2
  <2>7. next_positional < next_positional + 1
    BY <1>2
  <2> QED
    BY <1>3, <2>1, <2>3, <2>4, <2>5, <2>6, <2>7 DEF TakenInOrder
<1>10. CASE Final_Positional
  <2>1. CASE positional_tokens = <<>>
    BY <1>8, <1>10, <2>1 DEF Final_Positional
  <2>2. CASE positional_tokens # <<>>
    <3>0. PICK p \in DOMAIN Positionals : p = next_positional
      BY <1>2, <1>10 DEF Final_Positional, InPositionals
    <3>1. /\ p \in DOMAIN Positionals /\ InPositionals
          /\ StorePositional(Positionals[p], positional_tokens[PickedPosition])
          /\ positional_tokens' =
               IF rest_option = 0
                 THEN Tail(positional_tokens)
                 ELSE SubSeq(positional_tokens, 1, Len(positional_tokens) - 1)
          /\ next_positional' = p + 1 /\ rest_option' = rest_option
      BY <1>2, <1>10, <2>2, <3>0 DEF Final_Positional, InPositionals
    <3>2. /\ \A q \in DOMAIN Positionals : q >= p => Taken(q) = {}
          /\ p \in Nat
      BY <1>2, <1>6, <3>0
    <3>3. CASE rest_option = 0
      <4>1. positional_tokens[PickedPosition] = Head(positional_tokens)
        BY <1>2, <2>2, <3>3 DEF PickedPosition
      <4>2. \A q \in DOMAIN Positionals : q > p => q >= p
        BY <1>2, <3>2
      <4>3. \A q \in DOMAIN Positionals :
              /\ q <= p => AllBefore(Taken(q), Waiting)
              /\ q > p  => AllBefore(Waiting, Taken(q))
        BY <1>6, <1>7, <3>2, <3>3, <4>2
      <4>4. /\ TokensInOrder' /\ ArgumentsInOrder' /\ EachInOrder'
            /\ \A q \in DOMAIN Positionals :
                 /\ q # p => Taken(q)' = Taken(q)
                 /\ q <= p => AllBefore(Taken(q), Waiting)'
        BY <1>1, <1>5, <2>2, <3>1, <3>3, <4>1, <4>3, FrontInOrder
      <4>5. ASSUME NEW q \in DOMAIN Positionals
            PROVE  /\ q >= p + 1 => Taken(q)' = {}
                   /\ AllBefore(Taken(q), Waiting)'
        <5>1. q <= p \/ (q >= p + 1 /\ q # p /\ q >= p)
          BY <1>2, <3>2
        <5>2. q >= p + 1 => q # p /\ q >= p
          BY <1>2, <3>2
        <5>3. q >= p + 1 => Taken(q)' = {}
          BY <3>2, <4>4, <5>2
        <5> QED
          BY <4>4, <5>1, <5>3 DEF AllBefore
      <4>6. \A q \in DOMAIN Positionals : q # 0
        BY <1>2
      <4> QED
        BY <1>3, <3>1, <3>3, <4>4, <4>5, <4>6 DEF TakenInOrder
    <3>4. CASE rest_option # 0
      <4>1. /\ rest_option \in DOMAIN Positionals /\ rest_option < p
            /\ IsPositionalRest(Positionals[rest_option])
            /\ positional_tokens[PickedPosition]
                 = positional_tokens[Len(positional_tokens)]
        BY <1>2, <1>6, <3>0, <3>4 DEF PickedPosition
      <4>2. ASSUME NEW q \in DOMAIN Positionals
            PROVE  q <= rest_option \/ q = p
        <5>1. q <= rest_option \/ rest_option < q
          BY <1>2
        <5> QED
          BY <1>5, <3>1, <4>1, <5>1
      <4>3. \A q \in DOMAIN Positionals :
              /\ q < p  => AllBefore(Taken(q), Waiting)
              /\ q >= p => Taken(q) = {}
        <5>1. ~(p < p)
          BY <3>2
        <5> QED
          BY <1>6, <3>2, <4>2, <5>1
      <4>4. /\ TokensInOrder' /\ ArgumentsInOrder' /\ EachInOrder'
            /\ AllBefore(Waiting, Taken(p))'
            /\ \A q \in DOMAIN Positionals :
                 /\ q # p => Taken(q)' = Taken(q)
                 /\ q < p => AllBefore(Taken(q), Waiting)'
        <5>1. /\ StorePositional(Positionals[p],
                                 positional_tokens[Len(positional_tokens)])
              /\ positional_tokens' =
                   SubSeq(positional_tokens, 1, Len(positional_tokens) - 1)
          BY <3>1, <3>4, <4>1
        <5> QED
          BY <1>1, <1>5, <2>2, <4>3, <5>1, BackInOrder
      <4>5. ASSUME NEW q \in DOMAIN Positionals
            PROVE  /\ ~(q >= p + 1)
                   /\ q = rest_option => Taken(q)' = {}
                   /\ q <= rest_option => AllBefore(Taken(q), Waiting)'
                   /\ q > rest_option => AllBefore(Waiting, Taken(q))'
        <5>1. ~(q >= p + 1)
          BY <1>2, <3>2, <4>1, <4>2
        <5>2. q <= rest_option => q < p /\ q # p
          BY <1>2, <3>2, <4>1
        <5>3. q > rest_option => q = p
          BY <1>2, <4>2
        <5>4. q = rest_option => q <= rest_option /\ Taken(q) = {}
          <6>1. q = rest_option => Taken(q) = {}
            BY <1>6, <3>1
          <6> QED
            BY <1>2, <6>1
        <5>5. q = rest_option => Taken(q)' = {}
          BY <4>4, <5>2, <5>4
        <5> QED
          BY <4>4, <5>1, <5>2, <5>3, <5>5
      <4>6. rest_option < p + 1
        BY <1>2, <3>2, <4>1
      <4> QED
        BY <1>3, <3>1, <3>4, <4>1, <4>4, <4>5, <4>6 DEF TakenInOrder
    <3> QED
      BY <3>3, <3>4
  <2> QED
    BY <2>1, <2>2
<1>11. CASE Final_Leftover
  <2>1. CASE rest_option = 0
    BY <1>8, <1>11, <2>1 DEF Final_Leftover, finalVars
  <2>2. CASE rest_option # 0
    <3> DEFINE r == rest_option
    <3>1. /\ r \in DOMAIN Positionals /\ positional_tokens # <<>>
          /\ StorePositional(Positionals[r], Head(positional_tokens))
          /\ positional_tokens' = Tail(positional_tokens)
          /\ UNCHANGED <<next_positional, rest_option>>
          /\ ~InPositionals /\ ~InPositionals'
      BY <1>2, <1>3, <1>11, <2>2 DEF Final_Leftover, finalVars, InPositionals
    <3>2. /\ TokensInOrder' /\ ArgumentsInOrder' /\ EachInOrder'
          /\ \A q \in DOMAIN Positionals :
               /\ q <= r => AllBefore(Taken(q), Waiting)'
               /\ q > r  => AllBefore(Waiting, Taken(q))'
      BY <1>1, <1>5, <1>6, <2>2, <3>1, FrontInOrder
    <3>3. \A q \in DOMAIN Positionals : ~(q >= next_positional)
      BY <1>2, <3>1 DEF InPositionals
    <3> QED
      BY <1>3, <1>6, <2>2, <3>1, <3>2, <3>3 DEF TakenInOrder
  <2> QED
    BY <2>1, <2>2
<1>12. CASE Final_CheckOptions \/ Final_CheckPositionals
  <2>1. FillsIn /\ UNCHANGED <<positional_tokens, next_positional, rest_option>>
    BY <1>12 DEF Final_CheckOptions, Final_CheckPositionals,
       CheckRequiredOptions, FillsIn
  <2> QED
    BY <1>1, <1>5, <2>1, DefaultsTakeNothing, SameTakenInOrder
<1> QED
  BY <1>9, <1>10, <1>11, <1>12

LEMMA NextInOrder ==
  IInv /\ SInv /\ CInv /\ PInv /\ IInv' /\ [Next]_vars => PInv'
<1> SUFFICES ASSUME IInv, SInv, CInv, PInv, IInv', [Next]_vars PROVE PInv'
  OBVIOUS
<1>1. CASE \/ InitialState_Value    \/ InitialState_Other
           \/ IdentifyCommand_Value \/ IdentifyCommand_Other
  BY <1>1, FirstStatesInOrder DEF SInv
<1>2. CASE \/ ParseOptions_Value       \/ ParseOptions_EndOfInput
           \/ ParseOptions_DashDash    \/ ParseOptions_EqualSign
           \/ ParseOptions_ShortOption \/ ParseOptions_LongOption
           \/ ParseShortOption_Value   \/ ParseShortOption_Other
           \/ ParseLongOption_EqualSign
           \/ ParseLongOption_Value    \/ ParseLongOption_Other
           \/ DashDash_Any
  BY <1>2, MiddleStatesInOrder DEF CInv
<1>3. CASE \/ Final_RestDeclared \/ Final_Positional \/ Final_Leftover
           \/ Final_CheckOptions \/ Final_CheckPositionals
  <2>1. machine = "FinalState"
    BY <1>3, FinalStateStores
  <2>2. machine' = "FinalState" /\ commands' = commands
    BY <1>3, <2>1 DEF Final_RestDeclared, Final_Positional, Final_Leftover,
       Final_CheckOptions, Final_CheckPositionals, CheckRequiredOptions,
       Undefined, ReportError, loopVars, fixedVars
  <2>3. TokensInOrder' /\ (PositionalsDeclared => TakenInOrder')
    BY <1>3, <2>1, FinalInOrder DEF PInv
  <2>4. PositionalsDeclared' <=> PositionalsDeclared
    BY <2>2 DEF PositionalsDeclared
  <2> QED
    BY <2>2, <2>3, <2>4 DEF PInv, NotYetFinal
<1>4. CASE UNCHANGED vars
  <2>1. UNCHANGED <<commands, args, input, token, machine, active_command,
                    positional_tokens, ovm, next_positional, rest_option>>
    BY <1>4 DEF vars, fixedVars, loopVars, contextVars, finalVars
  <2>2. /\ Positionals' = Positionals /\ Waiting' = Waiting
        /\ HandledCount' = HandledCount
        /\ \A t, i : IsValue(i, t)' <=> IsValue(i, t)
    BY <2>1 DEF Positionals, Waiting, HandledCount, IsValue
  <2>3. \A p \in DOMAIN Positionals : Taken(p)' = Taken(p)
    BY <2>1, <2>2 DEF Taken
  <2>4. PositionalsDeclared' <=> PositionalsDeclared
    BY <2>1 DEF PositionalsDeclared
  <2>5. TokensInOrder'
    BY <2>1, SameGivenBefore DEF PInv, TokensInOrder
  <2>6. NotYetFinal'
    BY <2>1, <2>2, <2>3 DEF PInv, NotYetFinal
  <2>7. ASSUME TakenInOrder PROVE TakenInOrder'
    <3>1. EachInOrder'
      BY <2>1, <2>2, <2>7, EachInOrderLater DEF TakenInOrder, EachInOrder
    <3> QED
      BY <2>1, <2>3, <2>7, <3>1, SameTakenInOrder DEF PInv
  <2> QED
    BY <2>1, <2>4, <2>5, <2>6, <2>7 DEF PInv
<1> QED
  BY <1>1, <1>2, <1>3, <1>4 DEF Next, Step, Stopped

LEMMA InitInOrder == Init => PInv
<1> SUFFICES ASSUME Init PROVE PInv
  OBVIOUS
<1>1. /\ machine = "InitialState" /\ positional_tokens = <<>>
      /\ next_positional = 1 /\ rest_option = 0
      /\ \A k \in Keys : ovm[k] = <<>>
  BY DEF Init
<1>2. ASSUME active_command # 0, NEW p \in DOMAIN Positionals
      PROVE  Taken(p) = {}
  <2>1. Positionals[p].key \in Keys
    BY <1>2, InitTypes, ListTypes
  <2> QED
    BY <1>1, <2>1 DEF Taken
<1> QED
  BY <1>1, <1>2 DEF PInv, TokensInOrder, NotYetFinal, Waiting

\* Only FinalState accepts.
AcceptedInFinal == status = "accepted" => machine = "FinalState"

LEMMA FinalAccepts == Spec => []AcceptedInFinal
<1>1. Init => AcceptedInFinal
  BY DEF Init, AcceptedInFinal
<1>2. AcceptedInFinal /\ [Next]_vars => AcceptedInFinal'
  <2> SUFFICES ASSUME AcceptedInFinal, [Next]_vars PROVE AcceptedInFinal'
    OBVIOUS
  <2>1. CASE Final_CheckOptions \/ Final_CheckPositionals
    BY <2>1 DEF Final_CheckOptions, Final_CheckPositionals,
       CheckRequiredOptions, Finishing, Handling, ReportError, loopVars,
       AcceptedInFinal
  <2>2. CASE Step /\ ~Final_CheckOptions /\ ~Final_CheckPositionals
    BY <2>2, NotYetChecked DEF AcceptedInFinal
  <2>3. CASE UNCHANGED vars
    BY <2>3 DEF vars, loopVars, AcceptedInFinal
  <2> QED
    BY <2>1, <2>2, <2>3 DEF Next, Stopped
<1> QED
  BY <1>1, <1>2, PTL DEF Spec

\* For every CLI whose commands declare at most one argument after the rest,
\* and every token stream, the positional arguments of an accepted line have
\* their values in the order of the line: those before the rest from the
\* front, the one after it from the back, the rest what is left, whatever
\* options stand in between and whatever was given up as a path.
THEOREM ValuesFollowOrder == Spec => [](PositionalsDeclared => PositionalsInOrder)
<1>1. IInv /\ PInv /\ AcceptedInFinal => (PositionalsDeclared => PositionalsInOrder)
  <2> SUFFICES ASSUME IInv, PInv, AcceptedInFinal, PositionalsDeclared,
                      status = "accepted",
                      NEW p \in DOMAIN Positionals, NEW q \in DOMAIN Positionals,
                      NEW m \in DOMAIN ovm[Positionals[p].key],
                      NEW n \in DOMAIN ovm[Positionals[q].key],
                      p < q \/ (p = q /\ m < n),
                      ovm[Positionals[p].key][m].from = "token",
                      ovm[Positionals[q].key][n].from = "token"
               PROVE  GivenBefore(ovm[Positionals[p].key][m].text,
                                  ovm[Positionals[q].key][n].text)
    BY DEF PositionalsInOrder, GivenBefore
  <2>1. ArgumentsInOrder /\ EachInOrder
    BY DEF PInv, AcceptedInFinal, TakenInOrder
  <2>2. /\ ovm[Positionals[p].key][m].text \in Taken(p)
        /\ ovm[Positionals[q].key][n].text \in Taken(q)
    BY DEF Taken
  <2>3. CASE p < q
    BY <2>1, <2>2, <2>3 DEF ArgumentsInOrder, AllBefore
  <2>4. CASE p = q /\ m < n
    BY <2>1, <2>4 DEF EachInOrder
  <2> QED
    BY <2>3, <2>4
<1>2. Spec => []PInv
  BY InitInOrder, NextInOrder, InvariantHolds, CommandInvariant,
     StoredInvariant, PTL DEF Spec
<1> QED
  BY <1>1, <1>2, InvariantHolds, FinalAccepts, PTL

=============================================================================

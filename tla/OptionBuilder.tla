--------------------------- MODULE OptionBuilder ---------------------------
(***************************************************************************)
(* Making options with the fluent builders, and the values that the        *)
(* options then accept (clap/include/clap/fluent: option_builder.h,        *)
(* option_value_builder.h, positional_option_builder.h, and                *)
(* clap/include/clap/detail/value_descriptor.h).                           *)
(*                                                                         *)
(* A builder owns the option it makes until it gives it away: WithValue()  *)
(* gives it to a value builder, Build() to the caller. A value builder     *)
(* also shares a value descriptor with the option, and keeps it. Options,  *)
(* descriptors and builders are numbered as they are made; 0 stands for    *)
(* the null pointer.                                                       *)
(*                                                                         *)
(* Names and texts for the help are left out, except that an option with   *)
(* neither short nor long name is a positional argument.                   *)
(***************************************************************************)
EXTENDS ParseValue

CONSTANTS
  Types,              \* types of option values
  Texts,              \* texts of tokens
  ContractsEnforced,  \* TRUE in debug builds: ASAP_ASSERT aborts
  MaxCalls            \* bound on the number of calls on builders

ASSUME TypesAssumption ==
  Types \subseteq [kind : {"signed", "unsigned", "bool", "char", "enum", "string"},
                   bits : 1..LongBits]

\* An enumeration is stored in a type that holds the values of its enumerators.
ASSUME UnderlyingTypeAssumption ==
  \A type \in Types : type.kind = "enum" =>
    Range(Enumerators) \subseteq SignedRange(type.bits)
ASSUME TextsAssumption == Texts \subseteq Seq(DOMAIN CodeOf)
ASSUME ContractsAssumption == ContractsEnforced \in BOOLEAN
ASSUME MaxCallsAssumption == MaxCalls \in Nat

VARIABLES
  options,      \* sequence of the Option objects
  descriptors,  \* sequence of the ValueDescriptor objects
  builders,     \* sequence of the builders: what option_ and, in value
                \* builders, value_descriptor_ point to
  given,        \* what each call of Build() returned
  status,       \* "running", or how the program died
  calls,        \* number of calls on builders
  answer        \* what the option said to a text: a sequence of at most one

objectVars == <<options, descriptors>>
vars == <<objectVars, builders, given, status, calls, answer>>

Option(named, required, semantic) ==
  [named |-> named, required |-> required, value_semantic_ |-> semantic]

Descriptor(type, implicit) ==
  [type |-> type, implicit |-> implicit, default |-> FALSE, repeatable |-> FALSE]

Builder(option, descriptor) ==
  [option_ |-> option, value_descriptor_ |-> descriptor]

Init ==
  /\ options = <<>> /\ descriptors = <<>>
  /\ builders = <<>> /\ given = <<>>
  /\ status = "running" /\ calls = 0
  /\ answer = <<>>

-----------------------------------------------------------------------------
(* Calls on builders *)

\* The description of the options is complete when the parser asks for values.
Call ==
  /\ status = "running" /\ answer = <<>>
  /\ calls < MaxCalls
  /\ calls' = calls + 1
  /\ UNCHANGED answer

\* A contract fails: "builder used after Build() was called".
Misused ==
  /\ status' = IF ContractsEnforced THEN "aborted" ELSE "undefined"
  /\ UNCHANGED <<objectVars, builders, given>>

\* Option::WithKey, Option::Positional, Option::Rest
WithKey ==
  /\ Call
  /\ options' = Append(options, Option(FALSE, FALSE, 0))
  /\ builders' = Append(builders, Builder(Len(options) + 1, 0))
  /\ UNCHANGED <<descriptors, given, status>>

\* A call that changes the option of a builder.
ChangeOption(b, changed) ==
  /\ options' = [options EXCEPT ![builders[b].option_] = changed]
  /\ UNCHANGED <<descriptors, builders, given, status>>

\* Short, Long
Name(b) ==
  /\ Call
  /\ LET o == builders[b].option_
     IN  IF o = 0 THEN Misused
         ELSE ChangeOption(b, [options[o] EXCEPT !.named = TRUE])

Required(b) ==
  /\ Call
  /\ LET o == builders[b].option_
     IN  IF o = 0 THEN Misused
         ELSE ChangeOption(b, [options[o] EXCEPT !.required = TRUE])

\* WithValue<bool> sets TRUE as the implicit value.
FirstImplicit(type) == type.kind = "bool"

\* Mutation: the option is shared with the value builder, not moved to it.
KeepOption(b) == builders

\* std::move(option_)
MoveOption(b) == [builders EXCEPT ![b].option_ = 0]

\* Mutation: an option that has a value descriptor keeps it.
SetSemanticOnce(o, d) ==
  [options EXCEPT ![o].value_semantic_ = IF @ = 0 THEN d ELSE @]

\* Mutation: the descriptor after the new one.
SetSemanticPast(o, d) == [options EXCEPT ![o].value_semantic_ = d + 1]

\* In the constructor of OptionValueBuilder.
SetSemantic(o, d) == [options EXCEPT ![o].value_semantic_ = d]

\* WithValue<T>: the constructor of the value builder writes to the option
\* without a check.
WithValue(b, type) ==
  /\ Call
  /\ LET o == builders[b].option_
         d == Len(descriptors) + 1
     IN  IF o = 0
           THEN /\ status' = "undefined"
                /\ UNCHANGED <<objectVars, builders, given>>
           ELSE /\ descriptors' = Append(descriptors,
                                         Descriptor(type, FirstImplicit(type)))
                /\ options' = SetSemantic(o, d)
                /\ builders' = Append(MoveOption(b), Builder(o, d))
                /\ UNCHANGED <<given, status>>

\* The calls on a value builder: its pointer to the descriptor is never null,
\* so that the contract holds after Build() too.
ChangeDescriptor(b, changed) ==
  /\ Call
  /\ builders[b].value_descriptor_ # 0
  /\ descriptors' = [descriptors EXCEPT ![builders[b].value_descriptor_] = changed]
  /\ UNCHANGED <<options, builders, given, status>>

DescriptorOf(b) == descriptors[builders[b].value_descriptor_]

DefaultValue(b)  == ChangeDescriptor(b, [DescriptorOf(b) EXCEPT !.default = TRUE])
ImplicitValue(b) == ChangeDescriptor(b, [DescriptorOf(b) EXCEPT !.implicit = TRUE])
Repeatable(b)    == ChangeDescriptor(b, [DescriptorOf(b) EXCEPT !.repeatable = TRUE])

\* Build: a second call returns a null pointer.
Build(b) ==
  /\ Call
  /\ given' = Append(given, builders[b].option_)
  /\ builders' = MoveOption(b)
  /\ UNCHANGED <<objectVars, status>>

-----------------------------------------------------------------------------
(* The option in use *)

\* The parser finds an option and gives it the text of the token that
\* follows: the value is parsed, or else the implicit value is used. The
\* pointers are not checked in a release build.
Parse(o, text) ==
  /\ status = "running" /\ answer = <<>>
  /\ IF o = 0 \/ options[o].value_semantic_ = 0
       THEN Misused /\ UNCHANGED answer
       ELSE /\ LET d == descriptors[options[o].value_semantic_]
               IN  answer' = << [type |-> d.type, text |-> text,
                                 parsed |-> ParseValueAs(d.type, text),
                                 implicit |-> d.implicit] >>
            /\ UNCHANGED <<objectVars, builders, given, status>>
  /\ UNCHANGED calls

Finished ==
  /\ status # "running" \/ answer # <<>> \/ calls = MaxCalls
  /\ UNCHANGED vars

BuilderCall ==
  \/ WithKey
  \/ \E b \in DOMAIN builders :
       \/ Name(b) \/ Required(b) \/ Build(b)
       \/ DefaultValue(b) \/ ImplicitValue(b) \/ Repeatable(b)
       \/ \E type \in Types : WithValue(b, type)

Next ==
  \/ BuilderCall
  \/ \E o \in Range(given), text \in Texts : Parse(o, text)
  \/ Finished

Spec == Init /\ [][Next]_vars

-----------------------------------------------------------------------------
(* Properties of the builders *)

Pointers(objects) == 0..Len(objects)

\* Type invariant: pointers are null or point to something.
TypeOK ==
  /\ options \in Seq([named : BOOLEAN, required : BOOLEAN,
                      value_semantic_ : Pointers(descriptors)])
  /\ descriptors \in Seq([type : Types, implicit : BOOLEAN, default : BOOLEAN,
                          repeatable : BOOLEAN])
  /\ builders \in Seq([option_ : Pointers(options),
                       value_descriptor_ : Pointers(descriptors)])
  /\ given \in Seq(Pointers(options))
  /\ status \in {"running", "aborted", "undefined"}
  /\ calls \in 0..MaxCalls
  /\ Len(answer) <= 1

\* An option has one owner in every order of the calls: the builder that is
\* still working on it, or the caller who got it, and it is never lost.
OneOwner ==
  \A o \in DOMAIN options :
    Cardinality({b \in DOMAIN builders : builders[b].option_ = o})
      + Cardinality({n \in DOMAIN given : given[n] = o}) = 1

\* As long as a value builder owns an option, what it is told goes to the
\* descriptor that the option asks, also when the type was given twice.
ValueBuilderReachesOption ==
  \A b \in DOMAIN builders :
    builders[b].option_ # 0 /\ builders[b].value_descriptor_ # 0 =>
      options[builders[b].option_].value_semantic_ = builders[b].value_descriptor_

\* In this step the options given to the program keep their names, whether
\* they are required, and the type of their value.
BuiltOptionsKept ==
  \A n \in DOMAIN given : given[n] # 0 =>
    LET option  == options[given[n]]
        option_ == options'[given[n]]
    IN  /\ option_ = option
        /\ option.value_semantic_ # 0 =>
             descriptors'[option_.value_semantic_].type
               = descriptors[option.value_semantic_].type

\* After Build() the builders that are left can change what an option says
\* about default and implicit values and about repetition, but not its names,
\* not whether it is required, and not the type of its value.
BuiltOptionsStay == [][BuiltOptionsKept]_vars

-----------------------------------------------------------------------------
(* Properties of the values *)

Answered(kinds) == answer # <<>> /\ answer[1].type.kind \in kinds

TypeRange(type) ==
  IF type.kind = "unsigned" THEN UnsignedRange(type.bits) ELSE SignedRange(type.bits)

\* A text is accepted for an integer if and only if it is a numeral of a
\* number in the range of the type, and the value is this number: no wrap
\* around on the way through long long, nothing before or after the number.
\* A text with a '-' sign is not looked at when the type is unsigned.
NumbersAreExact ==
  Answered({"signed", "unsigned"}) =>
    LET type == answer[1].type
        text == answer[1].text
    IN  type.kind = "signed" \/ "-" \notin Range(text) =>
          answer[1].parsed =
            IF Denoted(text) \cap TypeRange(type) = {} THEN Refused
              ELSE Accept(CHOOSE n \in Denoted(text) : TRUE)

\* A numeral is accepted for a Boolean, of whatever size the number is, and
\* stands for its sign; without blanks in front. The words of either kind are
\* accepted in any case.
BooleansBySign ==
  Answered({"bool"}) =>
    LET text == answer[1].text
    IN  /\ text # <<>> /\ text[1] # Blank =>
             \A n \in Denoted(text) : answer[1].parsed = Accept(n > 0)
        /\ ToLower(text) \in TrueWords => answer[1].parsed = Accept(TRUE)
        /\ ToLower(text) \in FalseWords => answer[1].parsed = Accept(FALSE)

\* Only values of the enumeration come out of a text, and the name of an
\* enumerator or a numeral of its value gives that enumerator.
EnumeratorsOnly ==
  Answered({"enum"}) =>
    LET text == answer[1].text
        parsed == answer[1].parsed
    IN  /\ parsed.ok => parsed.value \in Range(Enumerators)
        /\ \A name \in DOMAIN Enumerators :
             ToLower(name) = name /\ (text = name \/ Denoted(text) = {Enumerators[name]})
               => parsed = Accept(Enumerators[name])

=============================================================================

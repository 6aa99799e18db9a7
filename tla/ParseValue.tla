---------------------------- MODULE ParseValue ----------------------------
(***************************************************************************)
(* Conversion of the text of a token to a value of the type of an option   *)
(* (clap/include/clap/detail/parse_value.h), with the functions of the     *)
(* standard library and of magic_enum that it calls.                       *)
(*                                                                         *)
(* A text is a sequence of characters. The widths of the integer types     *)
(* are parameters: what matters is that long long, which everything is     *)
(* converted to first, is wider than some of the types and as wide as      *)
(* others. Floating-point types are left out.                              *)
(***************************************************************************)
EXTENDS Integers, SequencesExt

CONSTANTS
  LongBits,      \* width of long long and unsigned long long
  LowerCase,     \* from upper-case character to lower-case character
  CodeOf,        \* from character to its code, a value of type char
  Enumerators    \* of the enumeration: from name, a text, to value

DigitOf == [c \in {"0", "1", "2", "3", "4", "5", "6", "7", "8", "9"} |->
              CASE c = "0" -> 0 [] c = "1" -> 1 [] c = "2" -> 2 [] c = "3" -> 3
                [] c = "4" -> 4 [] c = "5" -> 5 [] c = "6" -> 6 [] c = "7" -> 7
                [] c = "8" -> 8 [] c = "9" -> 9]
Digits == DOMAIN DigitOf
Signs  == {"+", "-"}
Blank  == " "

\* Characters with which a number may begin.
NumberBegins == Digits \cup Signs \cup {Blank}

ASSUME LongBitsAssumption == LongBits \in Nat \ {0}
ASSUME CodeOfAssumption == \A c, d \in DOMAIN CodeOf : CodeOf[c] = CodeOf[d] => c = d

\* Only letters have a case.
ASSUME LowerCaseAssumption ==
  /\ DOMAIN LowerCase \cap NumberBegins = {}
  /\ \A c \in DOMAIN LowerCase : LowerCase[c] \notin DOMAIN LowerCase \cup NumberBegins

\* The names of enumerators are identifiers.
ASSUME EnumeratorsAssumption ==
  \A name \in DOMAIN Enumerators :
    /\ name \in Seq(DOMAIN CodeOf) \ {<<>>}
    /\ name[1] \notin NumberBegins

\* The provers know the powers of 2 only when the exponent is a number.
PowerOf2[n \in Nat] == IF n = 0 THEN 1 ELSE 2 * PowerOf2[n - 1]

SignedRange(bits)   == -PowerOf2[bits - 1] .. PowerOf2[bits - 1] - 1
UnsignedRange(bits) == 0 .. PowerOf2[bits] - 1

\* Types of option values: signed, unsigned, bool, char, enum and string.
Integral(signed, bits) == [kind |-> IF signed THEN "signed" ELSE "unsigned",
                           bits |-> bits]

\* The result of a conversion: refused, or a value.
Refused      == [ok |-> FALSE]
Accept(v)    == [ok |-> TRUE, value |-> v]
AcceptIf(condition, v) == IF condition THEN Accept(v) ELSE Refused

\* The number that a sequence of digits denotes.
Number(digits) == FoldLeft(LAMBDA n, d : 10 * n + DigitOf[d], 0, digits)

ToLower(text) ==
  [i \in DOMAIN text |->
     IF text[i] \in DOMAIN LowerCase THEN LowerCase[text[i]] ELSE text[i]]

-----------------------------------------------------------------------------
(* std::stoll and std::stoull *)

\* The longest prefix of the form blanks, sign, digits.
Scan(text) ==
  LET longest(from, S) ==
        Max({n \in from..Len(text) : \A i \in from + 1..n : text[i] \in S})
      blanks == longest(0, {Blank})
      start  == IF blanks < Len(text) /\ text[blanks + 1] \in Signs
                  THEN blanks + 1 ELSE blanks
      end    == longest(start, Digits)
  IN  [digits |-> SubSeq(text, start + 1, end),
       negative |-> start > blanks /\ text[start] = "-",
       consumed |-> end]

Magnitude(text) == Number(Scan(text).digits)

\* std::invalid_argument is thrown when there are no digits.
IsNumber(text) == Scan(text).digits # <<>>

stoll(text)  == IF Scan(text).negative THEN -Magnitude(text) ELSE Magnitude(text)

\* A '-' sign negates the unsigned number.
stoull(text) == IF Scan(text).negative
                  THEN (PowerOf2[LongBits] - Magnitude(text)) % PowerOf2[LongBits]
                  ELSE Magnitude(text)

\* std::out_of_range is thrown otherwise.
FitsLong(text)         == stoll(text) \in SignedRange(LongBits)
FitsUnsignedLong(text) == Magnitude(text) \in UnsignedRange(LongBits)

WhollyConsumed(text) == Scan(text).consumed = Len(text)

-----------------------------------------------------------------------------
(* NumberConversion and UnsignedNumberConversion *)

\* static_cast to a type with this many bits.
CastUnsigned(v, bits) == v % PowerOf2[bits]
CastSigned(v, bits) ==
  ((v + PowerOf2[bits - 1]) % PowerOf2[bits]) - PowerOf2[bits - 1]

\* Mutation: the converted value is not compared with the number.
NumberConversionWrapping(text, bits) ==
  IF ~IsNumber(text) \/ ~FitsLong(text) THEN Refused
  ELSE AcceptIf(WhollyConsumed(text), CastSigned(stoll(text), bits))

NumberConversion(text, bits) ==
  IF ~IsNumber(text) \/ ~FitsLong(text) THEN Refused
  ELSE LET output == CastSigned(stoll(text), bits)
       IN  AcceptIf(WhollyConsumed(text) /\ output = stoll(text), output)

UnsignedNumberConversion(text, bits) ==
  IF \/ text # <<>> /\ text[1] = "-"
     \/ ~IsNumber(text) \/ ~FitsUnsignedLong(text) THEN Refused
  ELSE LET output == CastUnsigned(stoull(text), bits)
       IN  AcceptIf(WhollyConsumed(text) /\ output = stoull(text), output)

-----------------------------------------------------------------------------
(* ParseValue, by type *)

TrueWords  == { <<"t", "r", "u", "e">>, <<"o", "n">>, <<"y", "e", "s">>,
                <<"e", "n", "a", "b", "l", "e">>, <<"t">>, <<"y">>, <<"+">> }
FalseWords == { <<"f", "a", "l", "s", "e">>, <<"o", "f", "f">>, <<"n", "o">>,
                <<"d", "i", "s", "a", "b", "l", "e">>, <<"f">>, <<"n">>, <<"-">>,
                <<"0">> }

\* Mutation: a number that is out of range is refused like any other text.
ParseBoolInRange(text) ==
  LET val == ToLower(text)
  IN  CASE val \in TrueWords  -> Accept(TRUE)
        [] val \in FalseWords -> Accept(FALSE)
        [] OTHER              -> AcceptIf(IsNumber(val) /\ FitsLong(val), stoll(val) > 0)

\* bool: StringToFlagValue. One character is a word or a digit; a longer text
\* that is no word may start with a number, what follows it is not looked at.
\* Of a number that is out of range only the first character is looked at.
ParseBool(text) ==
  LET val == ToLower(text)
  IN  CASE val \in TrueWords  -> Accept(TRUE)
        [] val \in FalseWords -> Accept(FALSE)
        [] OTHER ->
             IF ~IsNumber(val) THEN Refused
             ELSE Accept(IF FitsLong(val) THEN stoll(val) > 0 ELSE text[1] # "-")

ParseChar(text, bits) ==
  IF Len(text) = 1 THEN Accept(CodeOf[text[1]]) ELSE NumberConversion(text, bits)

\* Mutation: any number of the underlying type is an enumerator.
ParseEnumAnyNumber(text, bits) ==
  IF ToLower(text) \in DOMAIN Enumerators THEN Accept(Enumerators[ToLower(text)])
  ELSE NumberConversion(text, bits)

\* An enumeration: the text in lower case is the name of an enumerator, or the
\* text is a number and the value of one (magic_enum::enum_cast).
ParseEnum(text, bits) ==
  IF ToLower(text) \in DOMAIN Enumerators THEN Accept(Enumerators[ToLower(text)])
  ELSE LET number == NumberConversion(text, bits)
       IN  IF number.ok /\ number.value \in Range(Enumerators)
             THEN number ELSE Refused

\* Strings, and what is made from them.
ParseString(text) == Accept(text)

\* ParseValue of a text for a type.
ParseValueAs(type, text) ==
  CASE type.kind = "signed"   -> NumberConversion(text, type.bits)
    [] type.kind = "unsigned" -> UnsignedNumberConversion(text, type.bits)
    [] type.kind = "bool"     -> ParseBool(text)
    [] type.kind = "char"     -> ParseChar(text, type.bits)
    [] type.kind = "enum"     -> ParseEnum(text, type.bits)
    [] type.kind = "string"   -> ParseString(text)

-----------------------------------------------------------------------------
(* What the conversions are for: numerals and what they denote *)

\* The number for which a text is a numeral, as a set: blanks, then a sign or
\* none, then digits up to the end of the text.
Denoted(text) ==
  LET blanks(n) == \A i \in 1..n : text[i] = Blank
      number(n) == Number(SubSeq(text, n + 1, Len(text)))
      before    == {n \in 0..Len(text) - 1 :
                      \A i \in n + 1..Len(text) : text[i] \in Digits}
      signed(s) == {n \in before \ {0} : blanks(n - 1) /\ text[n] = s}
  IN  {number(n) : n \in {n \in before : blanks(n)} \cup signed("+")}
        \cup {-number(n) : n \in signed("-")}

=============================================================================

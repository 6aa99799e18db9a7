-------------------------- MODULE TokenizerProofs --------------------------
(***************************************************************************)
(* Proofs about Tokenizer, for every alphabet and every list of arguments. *)
(***************************************************************************)
EXTENDS Tokenizer, Lemmas

-----------------------------------------------------------------------------
(* What an argument is split into *)

LEMMA SplitEmpty == Promised!Split(<<>>) = <<>>
  BY DEF Promised!Split

LEMMA SplitLoneDash ==
  Promised!Split(<<Dash>>) = <<Token("LoneDash", <<Dash>>)>>
  BY DEF Promised!Split, Promised!Token, Token

LEMMA SplitDashDash ==
  Promised!Split(<<Dash, Dash>>) = <<Token("DashDash", <<Dash, Dash>>)>>
  BY DEF Promised!Split, Promised!Token, Token

LEMMA SplitValue ==
  ASSUME NEW arg \in Seq(Chars), arg # <<>>, arg[1] # Dash
  PROVE  Promised!Split(arg) = <<Token("Value", arg)>>
  BY DEF Promised!Split, Promised!Token, Token

ShortOptions(arg, k) ==
  [i \in 1..k - 1 |-> Token("ShortOption", <<arg[i + 1]>>)]

LEMMA SplitShort ==
  ASSUME NEW arg \in Seq(Chars), Len(arg) >= 2, arg[1] = Dash, arg[2] # Dash
  PROVE  Promised!Split(arg) = ShortOptions(arg, Len(arg))
  BY DEF Promised!Split, Promised!Token, Token, ShortOptions

\* Position i has the first '=' sign that ends the name of a long option.
FirstSign(arg, i) ==
  /\ i \in 4..Len(arg) /\ arg[i] = Equals
  /\ \A e \in 4..i - 1 : arg[e] # Equals

\* There are '=' signs from position i to position j.
Run(arg, i, j) == j \in i..Len(arg) /\ \A e \in i..j : arg[e] = Equals

Name(arg, i) == Token("LongOption", SubSeq(arg, 3, i - 1))

LEMMA SplitLongNoSign ==
  ASSUME NEW arg \in Seq(Chars), Len(arg) >= 3, arg[1] = Dash, arg[2] = Dash,
         \A e \in 4..Len(arg) : arg[e] # Equals
  PROVE  Promised!Split(arg) = <<Token("LongOption", SubSeq(arg, 3, Len(arg)))>>
<1>1. Promised!EqualSigns(arg) = {}
  BY DEF Promised!EqualSigns
<1>2. arg # <<>> /\ arg # <<Dash>> /\ arg # <<Dash, Dash>>
  OBVIOUS
<1>3. Promised!Split(arg) = <<Promised!Token("LongOption", SubSeq(arg, 3, Len(arg)))>>
  BY <1>1, <1>2 DEF Promised!Split
<1> QED
  BY <1>3 DEF Promised!Token, Token

LEMMA SplitLongSign ==
  ASSUME NEW arg \in Seq(Chars), Len(arg) >= 3, arg[1] = Dash, arg[2] = Dash,
         NEW i, FirstSign(arg, i), NEW j, Run(arg, i, j),
         j = Len(arg) \/ arg[j + 1] # Equals
  PROVE  Promised!Split(arg) =
           Append(Promised!Pairs(Name(arg, i), j - i + 1),
                  IF j = Len(arg) THEN Name(arg, i)
                    ELSE Token("Value", SubSeq(arg, j + 1, Len(arg))))
<1> DEFINE first == CHOOSE e \in Promised!EqualSigns(arg) :
                      \A f \in Promised!EqualSigns(arg) : e <= f
<1>1. i \in Promised!EqualSigns(arg) /\ \A f \in Promised!EqualSigns(arg) : i <= f
  BY DEF Promised!EqualSigns, FirstSign
<1>2. first \in Promised!EqualSigns(arg) /\ \A f \in Promised!EqualSigns(arg) : first <= f
  BY <1>1
<1>3. first = i
  <2> HIDE DEF first
  <2>1. first <= i /\ i <= first /\ first \in Int /\ i \in Int
    BY <1>1, <1>2 DEF Promised!EqualSigns
  <2> QED
    BY <2>1
<1> DEFINE Last(l) == /\ \A k \in i..l : arg[k] = Equals
                      /\ l = Len(arg) \/ arg[l + 1] # Equals
<1>4. j \in i..Len(arg) /\ Last(j)
  BY DEF Run
<1>5. ASSUME NEW l \in i..Len(arg), Last(l) PROVE l = j
  <2>1. i \in Int /\ Len(arg) \in Int
    BY DEF FirstSign
  <2>2. CASE l < j
    <3>1. arg[l + 1] = Equals
      BY <1>4, <2>1, <2>2
    <3> QED
      BY <1>4, <1>5, <2>1, <2>2, <3>1
  <2>3. CASE l > j
    <3>1. arg[j + 1] = Equals
      BY <1>4, <1>5, <2>1, <2>3
    <3> QED
      BY <1>4, <1>5, <2>1, <2>3, <3>1
  <2> QED
    BY <1>4, <2>1, <2>2, <2>3
<1>6. Promised!LastOfRun(arg, i) = j
  <2> HIDE DEF Last
  <2>1. j = CHOOSE l \in i..Len(arg) : Last(l)
    BY <1>4, <1>5
  <2> QED
    BY <2>1 DEF Promised!LastOfRun, Last
<1>7. Promised!Split(arg) = Promised!SplitLong(arg, first, Promised!LastOfRun(arg, first))
  <2>1. Promised!EqualSigns(arg) # {}
    BY <1>1
  <2> QED
    BY <2>1 DEF Promised!Split
<1> HIDE DEF first
<1> QED
  BY <1>3, <1>6, <1>7 DEF Promised!SplitLong, Promised!Token, Token, Name

-----------------------------------------------------------------------------
(* The tokens of several arguments *)

LEMMA SplitAllStep ==
  /\ Promised!SplitAll[0] = <<>>
  /\ \A n \in Nat :
       Promised!SplitAll[n + 1] = Promised!SplitAll[n] \o Promised!Split(args[n + 1])
<1> DEFINE pieces == [n \in Nat |-> Promised!Split(args[n])]
           Is(f) == f = [n \in Nat |-> IF n = 0 THEN <<>>
                                         ELSE f[n - 1] \o Promised!Split(args[n])]
<1>1. \E f : Is(f)
  <2>1. PICK f : f = [n \in Nat |-> IF n = 0 THEN <<>> ELSE f[n - 1] \o pieces[n]]
    BY PiecesDefined
  <2>2. \A n \in Nat : pieces[n] = Promised!Split(args[n])
    OBVIOUS
  <2>3. Is(f)
    BY <2>1, <2>2
  <2> QED
    BY <2>3
<1>2. Is(Promised!SplitAll)
  BY <1>1, Zenon DEF Promised!SplitAll
<1> HIDE DEF pieces
<1>3. ASSUME NEW n \in Nat
      PROVE  Promised!SplitAll[n] = IF n = 0 THEN <<>>
               ELSE Promised!SplitAll[n - 1] \o Promised!Split(args[n])
  BY <1>2, Zenon
<1>4. Promised!SplitAll[0] = <<>>
  BY <1>3
<1>5. ASSUME NEW n \in Nat
      PROVE  Promised!SplitAll[n + 1]
               = Promised!SplitAll[n] \o Promised!Split(args[n + 1])
  <2>1. n + 1 \in Nat /\ n + 1 # 0 /\ (n + 1) - 1 = n
    OBVIOUS
  <2> QED
    BY <1>3, <2>1, Zenon
<1> QED
  BY <1>4, <1>5

-----------------------------------------------------------------------------
(* Types *)

LEMMA TokenTypeCorrect ==
  /\ \A type \in TokenTypes, text \in Seq(Chars) : Token(type, text) \in Tokens
  /\ EndOfInput \in Tokens
  /\ NoTokens \in [{"ValueState", "LongOptionState"} -> Seq(Chars)]
  /\ \A c \in Chars : <<c>> \in Seq(Chars)
  /\ <<Dash>> \in Seq(Chars) /\ <<Dash, Dash>> \in Seq(Chars)
  /\ <<Equals>> \in Seq(Chars)
  BY CharsAssumption DEF Token, Tokens, EndOfInput, NoTokens, TokenTypes

\* The next token leaves the queue.
LEMMA PopFrontTypes ==
  ASSUME TypeOK, tokens # <<>>, PopFront
  PROVE  /\ Head(tokens) \in Tokens
         /\ tokens' \in Seq(Tokens) /\ returned' \in Seq(Tokens)
  BY HeadTailProperties DEF TypeOK, PopFront

LEMMA NextTokenTypes ==
  ASSUME TypeOK, NextToken
  PROVE  TypeOK'
<1>1. CASE NextToken_Queued
  BY <1>1, PopFrontTypes DEF NextToken_Queued, TypeOK
<1>2. CASE NextToken_Argument
  <2>1. args[cursor] \in Seq(Chars) /\ cursor' \in 1..(Len(args) + 1)
    BY <1>2 DEF NextToken_Argument, TypeOK, Advance
  <2> QED
    BY <1>2, <2>1, TokenTypeCorrect DEF NextToken_Argument, TypeOK, MachineStates
<1>3. CASE NextToken_Return
  <2>1. tokens' \in Seq(Tokens) /\ returned' \in Seq(Tokens)
    <3>1. CASE tokens # <<>>
      BY <1>3, <3>1, PopFrontTypes DEF NextToken_Return
    <3>2. CASE tokens = <<>>
      <4>1. returned' = Append(returned, EndOfInput) /\ tokens' = tokens
        BY <1>3, <3>2 DEF NextToken_Return
      <4>2. returned \in Seq(Tokens) /\ tokens \in Seq(Tokens)
        BY DEF TypeOK
      <4> QED
        BY <4>1, <4>2, TokenTypeCorrect, AppendProperties
    <3> QED
      BY <3>1, <3>2
  <2> QED
    BY <1>3, <2>1 DEF NextToken_Return, TypeOK
<1>4. CASE NextToken_EndOfInput
  <2>1. returned' \in Seq(Tokens)
    BY <1>4, TokenTypeCorrect DEF NextToken_EndOfInput, TypeOK
  <2> QED
    BY <1>4, <2>1 DEF NextToken_EndOfInput, TypeOK
<1> QED
  BY <1>1, <1>2, <1>3, <1>4 DEF NextToken

LEMMA TokenizeTypes ==
  ASSUME TypeOK, Tokenize
  PROVE  TypeOK'
<1>0. /\ token_["ValueState"] \in Seq(Chars)
      /\ token_["LongOptionState"] \in Seq(Chars)
  BY DEF TypeOK
<1>1. /\ UNCHANGED <<args, cursor, returned>>
      /\ machine' \in MachineStates
      /\ \/ UNCHANGED rest
         \/ rest # <<>> /\ Head(rest) \in Chars /\ rest' = Tail(rest)
      /\ after_equal_sign' \in BOOLEAN
      /\ \/ UNCHANGED token_
         \/ rest # <<>> /\ \E s \in {"ValueState", "LongOptionState"} : PushBack(s)
      /\ \/ UNCHANGED tokens
         \/ \E t \in Tokens : tokens' = Append(tokens, t)
         \/ \E t, u \in Tokens : tokens' = tokens \o <<t, u>>
  <2> USE DEF TypeOK, Reading, Ending, Enter, Emit, MachineStates
  <2>1. CASE Initial_Dash \/ Initial_Other \/ Initial_End
    BY <2>1, CharsAssumption DEF Initial_Dash, Initial_Other, Initial_End, Others
  <2>2. CASE Value_Char \/ Value_End
    BY <1>0, <2>2, TokenTypeCorrect DEF Value_Char, Value_End, TokenTypes
  <2>3. CASE Option_Dash \/ Option_Other \/ Option_End
    BY <2>3, TokenTypeCorrect, CharsAssumption
    DEF Option_Dash, Option_Other, Option_End, TokenTypes, Others
  <2>4. CASE ShortOption_Char \/ ShortOption_End
    BY <2>4, TokenTypeCorrect DEF ShortOption_Char, ShortOption_End, TokenTypes
  <2>5. CASE DashDash_Char \/ DashDash_End
    BY <2>5, TokenTypeCorrect DEF DashDash_Char, DashDash_End, TokenTypes
  <2>6. CASE LongOption_Equals
    BY <1>0, <2>6, TokenTypeCorrect, CharsAssumption
    DEF LongOption_Equals, EmitOptionAndEqualSign, LongOptionToken, TokenTypes
  <2>7. CASE LongOption_Other
    BY <2>7 DEF LongOption_Other, EnterValue
  <2>8. CASE LongOption_End
    BY <1>0, <2>8, TokenTypeCorrect DEF LongOption_End, LongOptionToken, TokenTypes
  <2> QED
    BY <2>1, <2>2, <2>3, <2>4, <2>5, <2>6, <2>7, <2>8 DEF Tokenize
<1>2. rest' \in Seq(Chars)
  <2>1. rest \in Seq(Chars)
    BY DEF TypeOK
  <2>2. rest' = rest \/ (rest # <<>> /\ rest' = Tail(rest))
    BY <1>1
  <2> QED
    BY <2>1, <2>2, HeadTailProperties
<1>3. token_' \in [{"ValueState", "LongOptionState"} -> Seq(Chars)]
  <2>1. CASE UNCHANGED token_
    BY <2>1 DEF TypeOK
  <2>2. ASSUME rest # <<>>, NEW s \in {"ValueState", "LongOptionState"}, PushBack(s)
        PROVE  token_' \in [{"ValueState", "LongOptionState"} -> Seq(Chars)]
    <3>1. Head(rest) \in Chars
      BY <2>2, HeadTailProperties DEF TypeOK
    <3>2. Append(token_[s], Head(rest)) \in Seq(Chars)
      BY <3>1, AppendProperties DEF TypeOK
    <3> QED
      BY <2>2, <3>2 DEF TypeOK, PushBack
  <2> QED
    BY <1>1, <2>1, <2>2
<1>4. tokens' \in Seq(Tokens)
  <2>1. tokens \in Seq(Tokens)
    BY DEF TypeOK
  <2>2. ASSUME NEW t \in Tokens, tokens' = Append(tokens, t) PROVE tokens' \in Seq(Tokens)
    BY <2>1, <2>2, AppendProperties
  <2>3. ASSUME NEW t \in Tokens, NEW u \in Tokens, tokens' = tokens \o <<t, u>>
        PROVE  tokens' \in Seq(Tokens)
    <3>1. <<t, u>> \in Seq(Tokens)
      OBVIOUS
    <3> QED
      BY <2>1, <2>3, <3>1, ConcatProperties
  <2> QED
    BY <1>1, <2>1, <2>2, <2>3
<1> QED
  BY <1>1, <1>2, <1>3, <1>4 DEF TypeOK

-----------------------------------------------------------------------------
(* The invariant *)

\* The argument that Tokenize() splits, and how much of it has been read.
Arg == args[cursor - 1]
Read == Len(Arg) - Len(rest)

ArgumentOpen ==
  machine # "none" =>
    /\ cursor >= 2
    /\ Read \in 0..Len(Arg)
    /\ rest = SubSeq(Arg, Read + 1, Len(Arg))

Untouched == tokens = <<>> /\ token_ = NoTokens /\ ~after_equal_sign

BeginsLong == Read >= 2 /\ Arg[1] = Dash /\ Arg[2] = Dash

\* Reading the name of a long option, or '=' signs after it.
LongOptionSoFar ==
  /\ BeginsLong /\ Read >= 3 /\ token_["ValueState"] = <<>>
  /\ \/ /\ ~after_equal_sign
        /\ tokens = <<>>
        /\ token_["LongOptionState"] = SubSeq(Arg, 3, Read)
        /\ \A e \in 4..Read : Arg[e] # Equals
     \/ /\ after_equal_sign
        /\ \E i \in 4..Read :
             /\ FirstSign(Arg, i) /\ Run(Arg, i, Read)
             /\ token_["LongOptionState"] = SubSeq(Arg, 3, i - 1)
             /\ tokens = Promised!Pairs(Name(Arg, i), Read - i + 1)

\* Reading a value, which may be that of a long option.
ValueSoFar ==
  /\ Read >= 1
  /\ \/ /\ Arg[1] # Dash
        /\ tokens = <<>>
        /\ token_["ValueState"] = SubSeq(Arg, 1, Read)
     \/ /\ BeginsLong
        /\ \E i \in 4..Read : \E j \in i..Read - 1 :
             /\ FirstSign(Arg, i) /\ Run(Arg, i, j)
             /\ Arg[j + 1] # Equals
             /\ token_["ValueState"] = SubSeq(Arg, j + 1, Read)
             /\ tokens = Promised!Pairs(Name(Arg, i), j - i + 1)

\* What the state of the machine says about the characters it has read.
SplitSoFar ==
  /\ machine = "InitialState" => Read = 0 /\ Untouched
  /\ machine = "OptionState" => Read = 1 /\ Arg[1] = Dash /\ Untouched
  /\ machine = "DashDashState" => Read = 2 /\ BeginsLong /\ Untouched
  /\ machine = "ShortOptionState" =>
       /\ Read >= 2 /\ Arg[1] = Dash /\ Arg[2] # Dash
       /\ tokens = ShortOptions(Arg, Read)
  /\ machine = "LongOptionState" => LongOptionSoFar
  /\ machine = "ValueState" => ValueSoFar
  /\ machine = "FinalState" => /\ tokens = Promised!Split(Arg)
                               /\ tokens = <<>> <=> Arg = <<>>

\* What has been returned, and what waits in the queue, belongs to the
\* arguments before the cursor, or before the one that is being split; the
\* first empty argument is the last one.
StreamSoFar ==
  /\ machine # "none" =>
       /\ ~EndReturned
       /\ returned = Promised!SplitAll[cursor - 2]
       /\ \A i \in 1..cursor - 2 : args[i] # <<>>
  /\ machine = "none" /\ ~EndReturned =>
       /\ returned \o tokens = Promised!SplitAll[cursor - 1]
       /\ \A i \in 1..cursor - 1 : args[i] # <<>>
  /\ EndReturned => /\ tokens = <<>>
                    /\ returned = Append(Promised!SplitAll[cursor - 1], EndOfInput)
  /\ \A i \in DOMAIN tokens : tokens[i].type # "EndOfInput"

IInv == TypeOK /\ ArgumentOpen /\ SplitSoFar /\ StreamSoFar

-----------------------------------------------------------------------------
(* Reading an argument *)

LEMMA SplitAllFixed == args' = args => Promised!SplitAll' = Promised!SplitAll
  BY Zenon DEF Promised!SplitAll

\* A character is read.
LEMMA ReadOne ==
  ASSUME IInv, NEW s \in MachineStates, NEW set \in SUBSET Chars, Reading(s, set)
  PROVE  /\ Arg' = Arg /\ Arg \in Seq(Chars) /\ Len(Arg) \in Nat
         /\ Read \in Nat /\ Read < Len(Arg) /\ Read' = Read + 1
         /\ Head(rest) = Arg[Read + 1] /\ Arg[Read + 1] \in set
         /\ ArgumentOpen'
<1>1. /\ machine = s /\ machine # "none" /\ rest # <<>> /\ Head(rest) \in set
      /\ rest' = Tail(rest) /\ args' = args /\ cursor' = cursor
  BY DEF Reading, MachineStates
<1>2. /\ cursor >= 2 /\ Read \in 0..Len(Arg)
      /\ rest = SubSeq(Arg, Read + 1, Len(Arg))
  BY <1>1 DEF IInv, ArgumentOpen
<1>3. Arg \in Seq(Chars) /\ Arg' = Arg
  BY <1>1, <1>2 DEF IInv, TypeOK, Arg
<1>4. Read < Len(Arg) /\ Head(rest) = Arg[Read + 1] /\ Tail(rest) = SubSeq(Arg, Read + 2, Len(Arg))
  BY <1>1, <1>2, <1>3, RestOfSequence
<1>5. Len(rest) = Len(Arg) - Read /\ Len(rest') = Len(Arg) - (Read + 1)
  BY <1>1, <1>2, <1>3, <1>4, SubSeqProperties
<1>6. Read' = Read + 1
  BY <1>2, <1>3, <1>5 DEF Read
<1>7. ArgumentOpen'
  BY <1>1, <1>2, <1>3, <1>4, <1>6 DEF ArgumentOpen
<1> QED
  BY <1>1, <1>2, <1>3, <1>4, <1>6, <1>7

\* The end of the argument is reached.
LEMMA ReadAll ==
  ASSUME IInv, NEW s \in MachineStates, Ending(s)
  PROVE  /\ Arg' = Arg /\ Arg \in Seq(Chars) /\ Len(Arg) \in Nat
         /\ Read = Len(Arg) /\ Read' = Read
         /\ ArgumentOpen'
<1>1. /\ machine = s /\ machine # "none" /\ rest = <<>>
      /\ UNCHANGED <<args, cursor, rest>>
  BY DEF Ending, MachineStates
<1>2. /\ cursor >= 2 /\ Read \in 0..Len(Arg)
      /\ rest = SubSeq(Arg, Read + 1, Len(Arg))
  BY <1>1 DEF IInv, ArgumentOpen
<1>3. Arg \in Seq(Chars) /\ Arg' = Arg
  BY <1>1, <1>2 DEF IInv, TypeOK, Arg
<1>4. Read = Len(Arg) /\ Read' = Read
  BY <1>1, <1>2, <1>3, RestOfSequence DEF Read
<1>5. ArgumentOpen'
  BY <1>1, <1>2, <1>3, <1>4 DEF ArgumentOpen
<1> QED
  BY <1>1, <1>2, <1>3, <1>4, <1>5

\* What a step of Tokenize() does not touch.
LEMMA StreamWaits ==
  ASSUME IInv, Tokenize, \A i \in DOMAIN tokens' : tokens'[i].type # "EndOfInput"
  PROVE  StreamSoFar' /\ UNCHANGED <<args, cursor, returned>>
<1>1. /\ UNCHANGED <<args, cursor, returned>>
      /\ machine # "none" /\ machine' # "none"
  BY DEF Tokenize, Reading, Ending, Enter, EnterValue, Initial_Dash, Initial_Other,
     Initial_End, Value_Char, Value_End, Option_Dash, Option_Other, Option_End,
     ShortOption_Char, ShortOption_End, DashDash_Char, DashDash_End,
     LongOption_Equals, LongOption_Other, LongOption_End
<1>2. Promised!SplitAll' = Promised!SplitAll
  BY <1>1, SplitAllFixed
<1> QED
  BY <1>1, <1>2 DEF IInv, StreamSoFar, EndReturned

\* '--name=value': the pair of option and '=' sign once more.
LEMMA PairsGrow ==
  ASSUME NEW option \in Tokens, NEW n \in Nat
  PROVE  /\ Promised!Pairs(option, n) \in Seq(Tokens)
         /\ Promised!Pairs(option, 1) = <<option, Token("EqualSign", <<Equals>>)>>
         /\ Promised!Pairs(option, n + 1)
              = Promised!Pairs(option, n) \o <<option, Token("EqualSign", <<Equals>>)>>
<1> DEFINE sign == Token("EqualSign", <<Equals>>)
           pairs == Promised!Pairs(option, n)
           more == Promised!Pairs(option, n + 1)
<1>1. sign \in Tokens /\ Promised!Token("EqualSign", <<Equals>>) = sign
  BY TokenTypeCorrect DEF TokenTypes, Token, Promised!Token
<1> HIDE DEF sign
<1>2. ASSUME NEW m \in Nat
      PROVE  /\ Promised!Pairs(option, m) \in Seq(Tokens)
             /\ Len(Promised!Pairs(option, m)) = 2 * m
             /\ \A k \in 1..2 * m : Promised!Pairs(option, m)[k]
                                      = IF k % 2 = 1 THEN option ELSE sign
  BY <1>1 DEF Promised!Pairs
<1>3. /\ pairs \in Seq(Tokens) /\ Len(pairs) = 2 * n
      /\ \A k \in 1..2 * n : pairs[k] = IF k % 2 = 1 THEN option ELSE sign
  BY <1>2
<1>4. /\ more \in Seq(Tokens) /\ Len(more) = 2 * n + 2
      /\ \A k \in 1..2 * n + 2 : more[k] = IF k % 2 = 1 THEN option ELSE sign
  <2>1. n + 1 \in Nat /\ 2 * (n + 1) = 2 * n + 2
    OBVIOUS
  <2> QED
    BY <1>2, <2>1
<1>5. <<option, sign>> \in Seq(Tokens) /\ Len(<<option, sign>>) = 2
  BY <1>1
<1> HIDE DEF pairs, more
<1> DEFINE both == pairs \o <<option, sign>>
<1>6. /\ both \in Seq(Tokens) /\ Len(both) = 2 * n + 2
      /\ \A k \in 1..2 * n + 2 :
           both[k] = IF k <= 2 * n THEN pairs[k] ELSE <<option, sign>>[k - 2 * n]
  BY <1>3, <1>5, ConcatProperties
<1> HIDE DEF both
<1>7. ASSUME NEW k \in 1..2 * n + 2 PROVE more[k] = both[k]
  <2>1. CASE k <= 2 * n
    BY <1>3, <1>4, <1>6, <2>1
  <2>2. CASE k = 2 * n + 1
    <3>1. k % 2 = 1 /\ k - 2 * n = 1
      BY <2>2
    <3> QED
      BY <1>4, <1>6, <2>2, <3>1
  <2>3. CASE k = 2 * n + 2
    <3>1. k % 2 = 0 /\ k - 2 * n = 2
      BY <2>3
    <3> QED
      BY <1>4, <1>6, <2>3, <3>1
  <2> QED
    BY <2>1, <2>2, <2>3
<1>8. more = both
  BY <1>4, <1>6, <1>7, SeqEqual
<1>9. Promised!Pairs(option, 1) = <<option, sign>>
  <2>1. /\ Promised!Pairs(option, 1) \in Seq(Tokens)
        /\ Len(Promised!Pairs(option, 1)) = 2 * 1
        /\ \A k \in 1..2 * 1 : Promised!Pairs(option, 1)[k]
                                = IF k % 2 = 1 THEN option ELSE sign
    BY <1>2
  <2>2. 1 % 2 = 1 /\ 2 % 2 = 0
    OBVIOUS
  <2> QED
    BY <1>5, <2>1, <2>2
<1> QED
  BY <1>3, <1>8, <1>9 DEF sign, pairs, more, both

LEMMA TokenOfEachType ==
  ASSUME NEW text \in Seq(Chars)
  PROVE  /\ Token("Value", text) \in Tokens /\ Token("LoneDash", text) \in Tokens
         /\ Token("DashDash", text) \in Tokens /\ Token("LongOption", text) \in Tokens
         /\ Token("ShortOption", text) \in Tokens
  BY DEF Token, Tokens, TokenTypes

\* Whatever an argument is, what it should be split into are tokens.
LEMMA SplitTypes ==
  ASSUME NEW arg \in Seq(Chars)
  PROVE  Promised!Split(arg) \in Seq(Tokens)
<1>0. \A t \in Tokens : <<t>> \in Seq(Tokens)
  OBVIOUS
<1>1. CASE arg = <<>> \/ arg = <<Dash>> \/ arg = <<Dash, Dash>>
  BY <1>0, <1>1, SplitEmpty, SplitLoneDash, SplitDashDash, TokenOfEachType, EmptySeq
<1>2. CASE arg # <<>> /\ arg[1] # Dash
  <2>1. Token("Value", arg) \in Tokens
    BY TokenOfEachType
  <2> QED
    BY <1>0, <1>2, <2>1, SplitValue
<1>3. CASE Len(arg) >= 2 /\ arg[1] = Dash /\ arg[2] # Dash
  <2>1. ASSUME NEW i \in 1..Len(arg) - 1
        PROVE  Token("ShortOption", <<arg[i + 1]>>) \in Tokens
    <3>1. arg[i + 1] \in Chars
      BY <1>3
    <3>2. <<arg[i + 1]>> \in Seq(Chars)
      BY <3>1
    <3> QED
      BY <3>2, TokenOfEachType
  <2>2. ShortOptions(arg, Len(arg)) \in [1..Len(arg) - 1 -> Tokens]
    BY <2>1 DEF ShortOptions
  <2>3. Len(arg) - 1 \in Nat
    BY <1>3
  <2> QED
    BY <1>3, <2>2, <2>3, SplitShort
<1>4. CASE Len(arg) >= 3 /\ arg[1] = Dash /\ arg[2] = Dash
  <2>0. \A m \in 1..Len(arg), n \in 1..Len(arg) : SubSeq(arg, m, n) \in Seq(Chars)
    BY SubSeqProperties
  <2>1. CASE \A e \in 4..Len(arg) : arg[e] # Equals
    <3>1. Token("LongOption", SubSeq(arg, 3, Len(arg))) \in Tokens
      <4>1. SubSeq(arg, 3, Len(arg)) \in Seq(Chars)
        BY <1>4, <2>0
      <4> QED
        BY <4>1, TokenOfEachType
    <3> QED
      BY <1>0, <1>4, <2>1, <3>1, SplitLongNoSign
  <2>2. CASE ~\A e \in 4..Len(arg) : arg[e] # Equals
    <3> DEFINE Signs == {e \in 4..Len(arg) : arg[e] = Equals}
    <3>1. PICK i \in Signs : \A e \in Signs : i <= e
      <4>1. Signs \in SUBSET Nat /\ Signs # {}
        BY <2>2
      <4> HIDE DEF Signs
      <4> QED
        BY <4>1, LeastExists
    <3>2. FirstSign(arg, i)
      <4>1. ASSUME NEW e \in 4..i - 1 PROVE arg[e] # Equals
        BY <3>1
      <4> QED
        BY <3>1, <4>1 DEF FirstSign
    <3> DEFINE Runs == {j \in 4..Len(arg) : Run(arg, i, j)}
    <3>3. PICK j \in Runs : \A k \in Runs : j >= k
      <4>1. i \in Runs
        BY <3>1 DEF Run
      <4>2. Runs \in SUBSET (0..Len(arg)) /\ Runs # {} /\ Len(arg) \in Nat
        BY <4>1
      <4> HIDE DEF Runs
      <4> QED
        BY <4>2, GreatestExists
    <3>4. j = Len(arg) \/ arg[j + 1] # Equals
      <4> SUFFICES ASSUME j # Len(arg), arg[j + 1] = Equals PROVE FALSE
        OBVIOUS
      <4>1. Run(arg, i, j + 1) /\ j + 1 \in 4..Len(arg)
        BY <3>3 DEF Run
      <4> QED
        BY <3>3, <4>1
    <3> DEFINE pairs == Promised!Pairs(Name(arg, i), j - i + 1)
               last == IF j = Len(arg) THEN Name(arg, i)
                         ELSE Token("Value", SubSeq(arg, j + 1, Len(arg)))
    <3>5. Name(arg, i) \in Tokens
      <4>1. 3 \in 1..Len(arg) /\ i - 1 \in 1..Len(arg)
        BY <3>1
      <4>2. SubSeq(arg, 3, i - 1) \in Seq(Chars)
        BY <2>0, <4>1
      <4> QED
        BY <4>2, TokenOfEachType DEF Name
    <3>6. pairs \in Seq(Tokens)
      <4>1. j - i + 1 \in Nat
        BY <3>1, <3>3 DEF Run
      <4> QED
        BY <3>5, <4>1, PairsGrow
    <3>7. last \in Tokens
      <4>1. CASE j = Len(arg)
        BY <3>5, <4>1
      <4>2. CASE j # Len(arg)
        <5>1. j + 1 \in 1..Len(arg) /\ Len(arg) \in 1..Len(arg)
          BY <3>3, <4>2
        <5> QED
          BY <2>0, <4>2, <5>1, TokenOfEachType
      <4> QED
        BY <4>1, <4>2
    <3>8. Promised!Split(arg) = Append(pairs, last)
      BY <1>4, <3>2, <3>3, <3>4, SplitLongSign
    <3> HIDE DEF pairs, last
    <3> QED
      BY <3>6, <3>7, <3>8
  <2> QED
    BY <2>1, <2>2
<1>5. \/ arg = <<>> \/ arg = <<Dash>> \/ arg = <<Dash, Dash>>
      \/ arg # <<>> /\ arg[1] # Dash
      \/ Len(arg) >= 2 /\ arg[1] = Dash /\ arg[2] # Dash
      \/ Len(arg) >= 3 /\ arg[1] = Dash /\ arg[2] = Dash
  <2>1. Len(arg) = 0 \/ Len(arg) = 1 \/ Len(arg) = 2 \/ Len(arg) >= 3
    <3>1. Len(arg) \in Nat
      OBVIOUS
    <3>2. \A n \in Nat : n = 0 \/ n = 1 \/ n = 2 \/ n >= 3
      OBVIOUS
    <3> QED
      BY <3>1, <3>2, Zenon
  <2>2. CASE Len(arg) = 0
    BY <2>2
  <2>3. CASE Len(arg) = 1
    BY <2>3
  <2>4. CASE Len(arg) = 2
    BY <2>4
  <2>5. CASE Len(arg) >= 3
    BY <2>5
  <2> QED
    BY <2>1, <2>2, <2>3, <2>4, <2>5, Zenon
<1> QED
  BY <1>1, <1>2, <1>3, <1>4, <1>5

\* The tokens of the first arguments come first in the stream of them all.
LEMMA SplitAllGrows ==
  ASSUME TypeOK
  PROVE  /\ \A n \in 0..Len(args) : Promised!SplitAll[n] \in Seq(Tokens)
         /\ \A m, n \in 0..Len(args) : m <= n =>
              \E more \in Seq(Tokens) :
                Promised!SplitAll[n] = Joined(Promised!SplitAll[m], more)
<1>0. Len(args) \in Nat /\ \A n \in 1..Len(args) : Promised!Split(args[n]) \in Seq(Tokens)
  BY SplitTypes DEF TypeOK
<1> DEFINE all == Promised!SplitAll
           Typed == {n \in Nat : n <= Len(args) => all[n] \in Seq(Tokens)}
<1>1. \A n \in Nat : n \in Typed
  <2>1. 0 \in Typed
    BY SplitAllStep, EmptySeq
  <2>2. ASSUME NEW n \in Nat, n \in Typed PROVE n + 1 \in Typed
    <3> SUFFICES ASSUME n + 1 <= Len(args) PROVE all[n + 1] \in Seq(Tokens)
      OBVIOUS
    <3>1. all[n] \in Seq(Tokens) /\ Promised!Split(args[n + 1]) \in Seq(Tokens)
      BY <1>0, <2>2
    <3>2. all[n] \o Promised!Split(args[n + 1]) \in Seq(Tokens)
      BY <3>1, ConcatProperties
    <3>3. all[n + 1] = all[n] \o Promised!Split(args[n + 1])
      BY SplitAllStep
    <3> QED
      BY <3>2, <3>3, Zenon
  <2> HIDE DEF Typed
  <2> QED
    BY <2>1, <2>2, Induction
<1>2. \A n \in 0..Len(args) : all[n] \in Seq(Tokens)
  BY <1>1
<1>3. ASSUME NEW m \in 0..Len(args)
      PROVE  \A n \in 0..Len(args) : m <= n =>
               \E more \in Seq(Tokens) : all[n] = Joined(all[m], more)
  <2> DEFINE Longer == {n \in Nat : m <= n /\ n <= Len(args) =>
                          \E more \in Seq(Tokens) : all[n] = Joined(all[m], more)}
  <2>1. 0 \in Longer
    <3>1. all[m] = Joined(all[m], <<>>)
      BY <1>2, ConcatEmptySeq, Zenon DEF Joined
    <3>2. <<>> \in Seq(Tokens)
      BY EmptySeq
    <3> HIDE DEF all
    <3>3. m <= 0 => m = 0
      OBVIOUS
    <3> QED
      BY <3>1, <3>2, <3>3
  <2>2. ASSUME NEW n \in Nat, n \in Longer PROVE n + 1 \in Longer
    <3> SUFFICES ASSUME m <= n + 1, n + 1 <= Len(args)
                 PROVE  \E more \in Seq(Tokens) : all[n + 1] = Joined(all[m], more)
      OBVIOUS
    <3>1. CASE m = n + 1
      <4>1. all[m] = Joined(all[m], <<>>)
        BY <1>2, ConcatEmptySeq, Zenon DEF Joined
      <4>2. <<>> \in Seq(Tokens)
        BY EmptySeq
      <4> HIDE DEF all
      <4> QED
        BY <3>1, <4>1, <4>2
    <3>2. CASE m <= n
      <4>1. PICK more \in Seq(Tokens) : all[n] = Joined(all[m], more)
        BY <1>0, <2>2, <3>2
      <4>2. /\ all[m] \in Seq(Tokens) /\ Promised!Split(args[n + 1]) \in Seq(Tokens)
        BY <1>0, <1>2
      <4> DEFINE first == all[m]
                 new == Promised!Split(args[n + 1])
                 longer == more \o new
      <4>3. longer \in Seq(Tokens)
        BY <4>2, ConcatProperties
      <4>4. (first \o more) \o new = first \o longer
        <5>1. first \in Seq(Tokens) /\ new \in Seq(Tokens)
          BY <4>2
        <5> HIDE DEF first, new
        <5> QED
          BY <5>1, ConcatAssociative, SMTT(20)
      <4>5. all[n + 1] = all[n] \o Promised!Split(args[n + 1])
        BY SplitAllStep
      <4>6. all[n + 1] = Joined(all[m], longer)
        BY <4>1, <4>4, <4>5, Zenon DEF Joined
      <4> HIDE DEF longer, all
      <4> QED
        BY <4>3, <4>6
    <3> QED
      BY <1>0, <3>1, <3>2
  <2> HIDE DEF Longer
  <2>3. \A n \in Nat : n \in Longer
    BY <2>1, <2>2, Induction
  <2> QED
    BY <1>0, <2>3 DEF Longer
<1> QED
  BY <1>2, <1>3

-----------------------------------------------------------------------------
(* Splitting an argument *)

SplitGoesOn ==
  SplitSoFar' /\ \A i \in DOMAIN tokens' : tokens'[i].type # "EndOfInput"

LEMMA InitialSplits ==
  ASSUME IInv, Initial_Dash \/ Initial_Other \/ Initial_End
  PROVE  SplitGoesOn /\ ArgumentOpen'
<1>0. /\ machine = "InitialState" /\ Read = 0 /\ Untouched
      /\ \A i \in DOMAIN tokens : tokens[i].type # "EndOfInput"
  BY DEF IInv, SplitSoFar, StreamSoFar, Initial_Dash, Initial_Other, Initial_End,
     Reading, Ending
<1>1. CASE Initial_Dash
  <2>1. Reading("InitialState", {Dash}) /\ machine' = "OptionState"
          /\ UNCHANGED <<tokens, token_, after_equal_sign>>
    BY <1>1 DEF Initial_Dash, Enter
  <2>2. Arg' = Arg /\ Read' = 1 /\ Arg[1] = Dash /\ ArgumentOpen'
    BY <1>0, <2>1, ReadOne, CharsAssumption DEF MachineStates
  <2> QED
    BY <1>0, <2>1, <2>2 DEF SplitGoesOn, SplitSoFar, Untouched
<1>2. CASE Initial_Other
  <2>1. Reading("InitialState", Others) /\ machine' = "ValueState"
          /\ PushBack("ValueState") /\ UNCHANGED <<tokens, after_equal_sign>>
    BY <1>2 DEF Initial_Other, Enter
  <2>2. Arg' = Arg /\ Read' = 1 /\ Head(rest) = Arg[1] /\ Arg[1] \in Chars
          /\ Arg[1] # Dash /\ ArgumentOpen' /\ Arg \in Seq(Chars) /\ Len(Arg) >= 1
    BY <1>0, <2>1, ReadOne, CharsAssumption DEF MachineStates, Others
  <2>3. token_'["ValueState"] = SubSeq(Arg, 1, 1)
    <3>1. token_'["ValueState"] = <<Arg[1]>>
      BY <1>0, <2>1, <2>2 DEF PushBack, Untouched, NoTokens
    <3> QED
      BY <2>2, <3>1
  <2>4. ValueSoFar'
    BY <1>0, <2>1, <2>2, <2>3 DEF ValueSoFar, Untouched
  <2> QED
    BY <1>0, <2>1, <2>2, <2>4 DEF SplitGoesOn, SplitSoFar, Untouched
<1>3. CASE Initial_End
  <2>1. Ending("InitialState") /\ machine' = "FinalState" /\ tokens' = <<>>
    BY <1>0, <1>3 DEF Initial_End, Ending, Untouched
  <2>2. Arg' = Arg /\ Arg = <<>> /\ ArgumentOpen'
    BY <1>0, <2>1, ReadAll DEF MachineStates
  <2> QED
    BY <2>1, <2>2, SplitEmpty DEF SplitGoesOn, SplitSoFar
<1> QED
  BY <1>1, <1>2, <1>3

\* No token that Tokenize() emits looks like the end of input.
LEMMA EmitKeepsEnd ==
  ASSUME IInv, NEW type \in TokenTypes \ {"EndOfInput"}, NEW text \in Seq(Chars),
         Emit(type, text)
  PROVE  \A i \in DOMAIN tokens' : tokens'[i].type # "EndOfInput"
<1>1. /\ tokens \in Seq(Tokens)
      /\ \A i \in DOMAIN tokens : tokens[i].type # "EndOfInput"
  BY DEF IInv, TypeOK, StreamSoFar
<1>2. Token(type, text) \in Tokens /\ Token(type, text).type # "EndOfInput"
  BY TokenTypeCorrect DEF Token
<1> HIDE DEF Token
<1> QED
  BY <1>1, <1>2 DEF Emit

LEMMA ValueSplits ==
  ASSUME IInv, Value_Char \/ Value_End
  PROVE  SplitGoesOn /\ ArgumentOpen'
<1>0. /\ machine = "ValueState" /\ ValueSoFar
      /\ tokens \in Seq(Tokens)
      /\ \A i \in DOMAIN tokens : tokens[i].type # "EndOfInput"
      /\ token_ \in [{"ValueState", "LongOptionState"} -> Seq(Chars)]
  BY DEF IInv, TypeOK, SplitSoFar, StreamSoFar, Value_Char, Value_End, Reading, Ending
<1>1. CASE Value_Char
  <2>1. /\ Reading("ValueState", Chars) /\ machine' = "ValueState"
        /\ PushBack("ValueState") /\ UNCHANGED <<tokens, after_equal_sign>>
    BY <1>0, <1>1 DEF Value_Char
  <2>2. /\ Arg' = Arg /\ Arg \in Seq(Chars) /\ Read \in Nat /\ Read < Len(Arg)
        /\ Read' = Read + 1 /\ Head(rest) = Arg[Read + 1] /\ ArgumentOpen'
    BY <2>1, ReadOne DEF MachineStates
  <2>3. token_'["ValueState"] = Append(token_["ValueState"], Arg[Read + 1])
    BY <1>0, <2>1, <2>2 DEF PushBack
  <2>4. ValueSoFar'
    <3>1. Read' >= 1
      BY <2>2
    <3>2. CASE /\ Arg[1] # Dash
               /\ tokens = <<>>
               /\ token_["ValueState"] = SubSeq(Arg, 1, Read)
      <4>1. SubSeq(Arg, 1, Read + 1) = Append(SubSeq(Arg, 1, Read), Arg[Read + 1])
        BY <2>2, TakeOneMore
      <4> QED
        BY <2>1, <2>2, <2>3, <3>1, <3>2, <4>1 DEF ValueSoFar
    <3>3. ASSUME BeginsLong, NEW i \in 4..Read, NEW j \in i..Read - 1,
                 FirstSign(Arg, i), Run(Arg, i, j), Arg[j + 1] # Equals,
                 token_["ValueState"] = SubSeq(Arg, j + 1, Read),
                 tokens = Promised!Pairs(Name(Arg, i), j - i + 1)
          PROVE  ValueSoFar'
      <4>1. SubSeq(Arg, j + 1, Read + 1)
              = Append(SubSeq(Arg, j + 1, Read), Arg[Read + 1])
        BY <2>2, TakeOneMore
      <4>2. token_'["ValueState"] = SubSeq(Arg', j + 1, Read')
        BY <2>2, <2>3, <3>3, <4>1
      <4>3. tokens' = Promised!Pairs(Name(Arg', i), j - i + 1)
        BY <2>1, <2>2, <3>3
      <4>4. FirstSign(Arg', i) /\ Run(Arg', i, j) /\ Arg'[j + 1] # Equals /\ BeginsLong'
        BY <2>2, <3>3 DEF BeginsLong
      <4>5. i \in 4..Read' /\ j \in i..Read' - 1
        BY <2>2
      <4> QED
        BY <3>1, <4>2, <4>3, <4>4, <4>5 DEF ValueSoFar, Promised!Pairs, Promised!Token
    <3> QED
      BY <1>0, <3>2, <3>3 DEF ValueSoFar
  <2> QED
    BY <1>0, <2>1, <2>2, <2>4 DEF SplitGoesOn, SplitSoFar
<1>2. CASE Value_End
  <2>1. /\ Ending("ValueState") /\ machine' = "FinalState"
        /\ Emit("Value", token_["ValueState"])
    BY <1>2 DEF Value_End, Ending
  <2>2. /\ Arg' = Arg /\ Arg \in Seq(Chars) /\ Read = Len(Arg) /\ Len(Arg) \in Nat
        /\ ArgumentOpen'
    BY <2>1, ReadAll DEF MachineStates
  <2>3. tokens' = Promised!Split(Arg)
    <3>1. CASE /\ Arg[1] # Dash
               /\ tokens = <<>>
               /\ token_["ValueState"] = SubSeq(Arg, 1, Read)
      <4>1. token_["ValueState"] = Arg /\ Arg # <<>>
        BY <1>0, <2>2, <3>1 DEF ValueSoFar
      <4>2. Promised!Split(Arg) = <<Token("Value", Arg)>>
        BY <2>2, <3>1, <4>1, SplitValue
      <4>3. tokens' = Append(<<>>, Token("Value", Arg))
        BY <2>1, <3>1, <4>1 DEF Emit
      <4> QED
        BY <4>2, <4>3
    <3>2. ASSUME BeginsLong, NEW i \in 4..Read, NEW j \in i..Read - 1,
                 FirstSign(Arg, i), Run(Arg, i, j), Arg[j + 1] # Equals,
                 token_["ValueState"] = SubSeq(Arg, j + 1, Read),
                 tokens = Promised!Pairs(Name(Arg, i), j - i + 1)
          PROVE  tokens' = Promised!Split(Arg)
      <4>1. Len(Arg) >= 3 /\ Arg[1] = Dash /\ Arg[2] = Dash /\ j # Len(Arg)
        BY <2>2 , <3>2 DEF BeginsLong
      <4>2. Promised!Split(Arg) =
              Append(Promised!Pairs(Name(Arg, i), j - i + 1),
                     IF j = Len(Arg) THEN Name(Arg, i)
                       ELSE Token("Value", SubSeq(Arg, j + 1, Len(Arg))))
        BY <2>2, <3>2, <4>1, SplitLongSign
      <4> QED
        BY <2>1, <2>2, <3>2, <4>1, <4>2 DEF Emit
    <3> QED
      BY <1>0, <3>1, <3>2 DEF ValueSoFar
  <2>4. tokens' # <<>> /\ Arg # <<>>
    BY <1>0, <2>1, <2>2 DEF Emit, ValueSoFar
  <2>5. token_["ValueState"] \in Seq(Chars)
    BY <1>0
  <2>6. \A i \in DOMAIN tokens' : tokens'[i].type # "EndOfInput"
    BY <2>1, <2>5, EmitKeepsEnd DEF TokenTypes
  <2>7. SplitSoFar'
    <3>1. Promised!Split(Arg') = Promised!Split(Arg)
      BY <2>2
    <3> QED
      BY <2>1, <2>2, <2>3, <2>4, <3>1 DEF SplitSoFar
  <2> QED
    BY <2>2, <2>6, <2>7 DEF SplitGoesOn
<1> QED
  BY <1>1, <1>2

LEMMA OptionSplits ==
  ASSUME IInv, Option_Dash \/ Option_Other \/ Option_End
  PROVE  SplitGoesOn /\ ArgumentOpen'
<1>0. /\ machine = "OptionState" /\ Read = 1 /\ Arg[1] = Dash /\ Untouched
      /\ \A i \in DOMAIN tokens : tokens[i].type # "EndOfInput"
  BY DEF IInv, SplitSoFar, StreamSoFar, Option_Dash, Option_Other, Option_End,
     Reading, Ending
<1>1. CASE Option_Dash
  <2>1. Reading("OptionState", {Dash}) /\ machine' = "DashDashState"
          /\ UNCHANGED <<tokens, token_, after_equal_sign>>
    BY <1>1 DEF Option_Dash, Enter
  <2>2. Arg' = Arg /\ Read' = 2 /\ Arg[2] = Dash /\ ArgumentOpen'
    BY <1>0, <2>1, ReadOne, CharsAssumption DEF MachineStates
  <2> QED
    BY <1>0, <2>1, <2>2 DEF SplitGoesOn, SplitSoFar, Untouched, BeginsLong
<1>2. CASE Option_Other
  <2>1. Reading("OptionState", Others) /\ machine' = "ShortOptionState"
          /\ Emit("ShortOption", <<Head(rest)>>)
    BY <1>2 DEF Option_Other, Enter
  <2>2. Arg' = Arg /\ Read' = 2 /\ Head(rest) = Arg[2] /\ Arg[2] \in Chars
          /\ Arg[2] # Dash /\ ArgumentOpen'
    BY <1>0, <2>1, ReadOne, CharsAssumption DEF MachineStates, Others
  <2>3. tokens' = ShortOptions(Arg, 2)
    <3>1. tokens' = <<Token("ShortOption", <<Arg[2]>>)>>
      BY <1>0, <2>1, <2>2 DEF Emit, Untouched
    <3> QED
      BY <3>1 DEF ShortOptions
  <2>4. \A i \in DOMAIN tokens' : tokens'[i].type # "EndOfInput"
    BY <2>1, <2>2, EmitKeepsEnd, TokenTypeCorrect DEF TokenTypes
  <2>5. ShortOptions(Arg', 2) = ShortOptions(Arg, 2)
    BY <2>2 DEF ShortOptions
  <2> QED
    BY <1>0, <2>1, <2>2, <2>3, <2>4, <2>5 DEF SplitGoesOn, SplitSoFar
<1>3. CASE Option_End
  <2>1. /\ Ending("OptionState") /\ machine' = "FinalState"
        /\ Emit("LoneDash", <<Dash>>)
    BY <1>3 DEF Option_End, Ending
  <2>2. Arg' = Arg /\ Arg = <<Dash>> /\ ArgumentOpen'
    BY <1>0, <2>1, ReadAll DEF MachineStates
  <2>3. tokens' = <<Token("LoneDash", <<Dash>>)>>
    BY <1>0, <2>1 DEF Emit, Untouched
  <2>4. \A i \in DOMAIN tokens' : tokens'[i].type # "EndOfInput"
    BY <2>1, EmitKeepsEnd, TokenTypeCorrect DEF TokenTypes
  <2>5. Promised!Split(Arg') = <<Token("LoneDash", <<Dash>>)>>
    BY <2>2, SplitLoneDash
  <2> QED
    BY <2>1, <2>2, <2>3, <2>4, <2>5 DEF SplitGoesOn, SplitSoFar
<1> QED
  BY <1>1, <1>2, <1>3

LEMMA ShortOptionSplits ==
  ASSUME IInv, ShortOption_Char \/ ShortOption_End
  PROVE  SplitGoesOn /\ ArgumentOpen'
<1>0. /\ machine = "ShortOptionState" /\ Read >= 2 /\ Arg[1] = Dash /\ Arg[2] # Dash
      /\ tokens = ShortOptions(Arg, Read)
      /\ \A i \in DOMAIN tokens : tokens[i].type # "EndOfInput"
  BY DEF IInv, SplitSoFar, StreamSoFar, ShortOption_Char, ShortOption_End,
     Reading, Ending
<1>1. CASE ShortOption_Char
  <2>1. Reading("ShortOptionState", Chars) /\ machine' = "ShortOptionState"
          /\ Emit("ShortOption", <<Head(rest)>>)
    BY <1>0, <1>1 DEF ShortOption_Char
  <2>2. /\ Arg' = Arg /\ Arg \in Seq(Chars) /\ Read \in Nat /\ Read < Len(Arg)
        /\ Read' = Read + 1 /\ Head(rest) = Arg[Read + 1]
        /\ Arg[Read + 1] \in Chars /\ ArgumentOpen'
    BY <2>1, ReadOne DEF MachineStates
  <2>3. tokens' = Append(ShortOptions(Arg, Read), Token("ShortOption", <<Arg[Read + 1]>>))
    BY <1>0, <2>1, <2>2 DEF Emit
  <2>4. tokens' = ShortOptions(Arg, Read + 1)
    BY <1>0, <2>2, <2>3 DEF ShortOptions
  <2>5. ShortOptions(Arg', Read') = ShortOptions(Arg, Read + 1)
    BY <2>2
  <2>6. \A i \in DOMAIN tokens' : tokens'[i].type # "EndOfInput"
    BY <2>1, <2>2, EmitKeepsEnd, TokenTypeCorrect DEF TokenTypes
  <2> QED
    BY <1>0, <2>1, <2>2, <2>4, <2>5, <2>6 DEF SplitGoesOn, SplitSoFar
<1>2. CASE ShortOption_End
  <2>1. /\ Ending("ShortOptionState") /\ machine' = "FinalState" /\ tokens' = tokens
    BY <1>2 DEF ShortOption_End, Ending
  <2>2. /\ Arg' = Arg /\ Arg \in Seq(Chars) /\ Read = Len(Arg) /\ Len(Arg) \in Nat
        /\ ArgumentOpen'
    BY <2>1, ReadAll DEF MachineStates
  <2>3. Promised!Split(Arg') = tokens'
    BY <1>0, <2>1, <2>2, SplitShort
  <2>4. tokens' # <<>> /\ Arg # <<>>
    <3>1. tokens[1] = Token("ShortOption", <<Arg[2]>>) /\ 1 \in DOMAIN tokens
      BY <1>0, <2>2 DEF ShortOptions
    <3> QED
      BY <1>0, <2>1, <2>2, <3>1
  <2> QED
    BY <1>0, <2>1, <2>2, <2>3, <2>4 DEF SplitGoesOn, SplitSoFar
<1> QED
  BY <1>1, <1>2

LEMMA DashDashSplits ==
  ASSUME IInv, DashDash_Char \/ DashDash_End
  PROVE  SplitGoesOn /\ ArgumentOpen'
<1>0. /\ machine = "DashDashState" /\ Read = 2 /\ BeginsLong /\ Untouched
      /\ \A i \in DOMAIN tokens : tokens[i].type # "EndOfInput"
  BY DEF IInv, SplitSoFar, StreamSoFar, DashDash_Char, DashDash_End, Reading, Ending
<1>1. CASE DashDash_Char
  <2>1. Reading("DashDashState", Chars) /\ machine' = "LongOptionState"
          /\ PushBack("LongOptionState") /\ UNCHANGED <<tokens, after_equal_sign>>
    BY <1>1 DEF DashDash_Char, Enter
  <2>2. /\ Arg' = Arg /\ Arg \in Seq(Chars) /\ Len(Arg) >= 3 /\ Read' = 3
        /\ Head(rest) = Arg[3] /\ Arg[3] \in Chars /\ ArgumentOpen'
    BY <1>0, <2>1, ReadOne DEF MachineStates
  <2>3. /\ token_'["LongOptionState"] = SubSeq(Arg, 3, 3)
        /\ token_'["ValueState"] = <<>>
    <3>1. /\ token_'["LongOptionState"] = <<Arg[3]>>
          /\ token_'["ValueState"] = <<>>
      BY <1>0, <2>1, <2>2 DEF PushBack, Untouched, NoTokens
    <3>2. SubSeq(Arg, 3, 3) = <<Arg[3]>>
      BY <2>2, OneElement
    <3> QED
      BY <3>1, <3>2
  <2>4. LongOptionSoFar'
    BY <1>0, <2>1, <2>2, <2>3 DEF LongOptionSoFar, Untouched, BeginsLong
  <2> QED
    BY <1>0, <2>1, <2>2, <2>4 DEF SplitGoesOn, SplitSoFar, Untouched
<1>2. CASE DashDash_End
  <2>1. /\ Ending("DashDashState") /\ machine' = "FinalState"
        /\ Emit("DashDash", <<Dash, Dash>>)
    BY <1>2 DEF DashDash_End, Ending
  <2>2. Arg' = Arg /\ Arg = <<Dash, Dash>> /\ ArgumentOpen'
    BY <1>0, <2>1, ReadAll DEF MachineStates, BeginsLong
  <2>3. tokens' = <<Token("DashDash", <<Dash, Dash>>)>>
    BY <1>0, <2>1 DEF Emit, Untouched
  <2>4. \A i \in DOMAIN tokens' : tokens'[i].type # "EndOfInput"
    BY <2>1, EmitKeepsEnd, TokenTypeCorrect DEF TokenTypes
  <2>5. Promised!Split(Arg') = <<Token("DashDash", <<Dash, Dash>>)>>
    BY <2>2, SplitDashDash
  <2> QED
    BY <2>1, <2>2, <2>3, <2>4, <2>5 DEF SplitGoesOn, SplitSoFar
<1> QED
  BY <1>1, <1>2

LEMMA LongOptionSplits ==
  ASSUME IInv, LongOption_Equals \/ LongOption_Other \/ LongOption_End
  PROVE  SplitGoesOn /\ ArgumentOpen'
<1> DEFINE Text == token_["LongOptionState"]
           InName == /\ ~after_equal_sign
                     /\ tokens = <<>>
                     /\ Text = SubSeq(Arg, 3, Read)
                     /\ \A e \in 4..Read : Arg[e] # Equals
           InRun(i) == /\ after_equal_sign
                       /\ i \in 4..Read
                       /\ FirstSign(Arg, i) /\ Run(Arg, i, Read)
                       /\ Text = SubSeq(Arg, 3, i - 1)
                       /\ tokens = Promised!Pairs(Name(Arg, i), Read - i + 1)
<1>0. /\ machine = "LongOptionState" /\ BeginsLong /\ Read >= 3
      /\ token_["ValueState"] = <<>>
      /\ InName \/ \E i : InRun(i)
      /\ tokens \in Seq(Tokens) /\ Text \in Seq(Chars)
      /\ \A i \in DOMAIN tokens : tokens[i].type # "EndOfInput"
      /\ token_ \in [{"ValueState", "LongOptionState"} -> Seq(Chars)]
  BY DEF IInv, TypeOK, SplitSoFar, StreamSoFar, LongOption_Equals, LongOption_Other,
     LongOption_End, Reading, Ending, LongOptionSoFar
<1>1. CASE LongOption_Equals
  <2>1. /\ Reading("LongOptionState", {Equals}) /\ machine' = "LongOptionState"
        /\ tokens' = tokens \o <<Token("LongOption", Text), Token("EqualSign", <<Equals>>)>>
        /\ after_equal_sign' /\ token_' = token_
    BY <1>0, <1>1 DEF LongOption_Equals, EmitOptionAndEqualSign, LongOptionToken
  <2>2. /\ Arg' = Arg /\ Arg \in Seq(Chars) /\ Read \in Nat /\ Read < Len(Arg)
        /\ Read' = Read + 1 /\ Arg[Read + 1] = Equals /\ ArgumentOpen'
    BY <2>1, ReadOne, CharsAssumption DEF MachineStates
  <2>3. \E i \in 4..Read' :
          /\ FirstSign(Arg, i) /\ Run(Arg, i, Read + 1)
          /\ Text = SubSeq(Arg, 3, i - 1)
          /\ tokens' = Promised!Pairs(Name(Arg, i), Read + 1 - i + 1)
    <3>1. CASE InName
      <4>1. FirstSign(Arg, Read + 1) /\ Run(Arg, Read + 1, Read + 1)
        BY <1>0, <2>2, <3>1 DEF FirstSign, Run
      <4>2. Text = SubSeq(Arg, 3, (Read + 1) - 1)
        BY <2>2, <3>1
      <4>3. tokens' = <<Name(Arg, Read + 1), Token("EqualSign", <<Equals>>)>>
        <5>1. tokens = <<>> /\ Name(Arg, Read + 1) = Token("LongOption", Text)
          BY <3>1, <4>2 DEF Name
        <5> HIDE DEF Text
        <5>2. \A t, u : <<>> \o <<t, u>> = <<t, u>>
          OBVIOUS
        <5> QED
          BY <2>1, <5>1, <5>2, Zenon
      <4>4. tokens' = Promised!Pairs(Name(Arg, Read + 1), 1)
        <5>1. Name(Arg, Read + 1) \in Tokens
          BY <1>0, <4>2, TokenTypeCorrect DEF Name, TokenTypes
        <5> QED
          BY <4>3, <5>1, PairsGrow
      <4>5. Read + 1 - (Read + 1) + 1 = 1 /\ Read + 1 \in 4..Read'
        BY <1>0, <2>2
      <4> QED
        BY <4>1, <4>2, <4>4, <4>5
    <3>2. ASSUME NEW i, InRun(i)
          PROVE  /\ i \in 4..Read'
                 /\ FirstSign(Arg, i) /\ Run(Arg, i, Read + 1)
                 /\ Text = SubSeq(Arg, 3, i - 1)
                 /\ tokens' = Promised!Pairs(Name(Arg, i), Read + 1 - i + 1)
      <4>1. i \in 4..Read' /\ Run(Arg, i, Read + 1)
        BY <2>2, <3>2 DEF Run
      <4>2. Name(Arg, i) = Token("LongOption", Text) /\ Name(Arg, i) \in Tokens
        BY <1>0, <3>2, TokenTypeCorrect DEF Name, TokenTypes
      <4>3. Read - i + 1 \in Nat /\ Read + 1 - i + 1 = (Read - i + 1) + 1
        BY <2>2, <3>2
      <4>4. Promised!Pairs(Name(Arg, i), (Read - i + 1) + 1)
              = Promised!Pairs(Name(Arg, i), Read - i + 1)
                  \o <<Name(Arg, i), Token("EqualSign", <<Equals>>)>>
        BY <4>2, <4>3, PairsGrow
      <4>5. tokens' = Promised!Pairs(Name(Arg, i), (Read - i + 1) + 1)
        BY <2>1, <3>2, <4>2, <4>4, Zenon
      <4> QED
        BY <3>2, <4>1, <4>3, <4>5
    <3> QED
      BY <1>0, <3>1, <3>2
  <2>4. LongOptionSoFar'
    <3>1. BeginsLong' /\ Read' >= 3 /\ token_'["ValueState"] = <<>>
      BY <1>0, <2>1, <2>2 DEF BeginsLong
    <3>2. PICK i \in 4..Read' :
            /\ FirstSign(Arg, i) /\ Run(Arg, i, Read + 1)
            /\ Text = SubSeq(Arg, 3, i - 1)
            /\ tokens' = Promised!Pairs(Name(Arg, i), Read + 1 - i + 1)
      BY <2>3
    <3>3. FirstSign(Arg', i) /\ Run(Arg', i, Read')
      BY <2>2, <3>2
    <3>4. token_'["LongOptionState"] = SubSeq(Arg', 3, i - 1)
      BY <2>1, <2>2, <3>2, Zenon
    <3>5. tokens' = Promised!Pairs(Name(Arg', i), Read' - i + 1)
      BY <2>2, <3>2
    <3>6. after_equal_sign'
      BY <2>1
    <3> QED
      BY <3>1, <3>3, <3>4, <3>5, <3>6 DEF LongOptionSoFar, Promised!Pairs, Promised!Token
  <2>5. \A i \in DOMAIN tokens' : tokens'[i].type # "EndOfInput"
    <3>1. /\ Token("LongOption", Text) \in Tokens
          /\ Token("EqualSign", <<Equals>>) \in Tokens
          /\ Token("LongOption", Text).type # "EndOfInput"
          /\ Token("EqualSign", <<Equals>>).type # "EndOfInput"
      BY <1>0, TokenTypeCorrect DEF TokenTypes, Token
    <3> DEFINE both == <<Token("LongOption", Text), Token("EqualSign", <<Equals>>)>>
    <3>2. /\ both \in Seq(Tokens)
          /\ \A i \in 1..Len(both) : both[i].type # "EndOfInput"
      BY <3>1
    <3> HIDE DEF both, Text
    <3>3. /\ tokens' \in Seq(Tokens) /\ Len(tokens') = Len(tokens) + Len(both)
          /\ \A i \in 1..Len(tokens') :
               tokens'[i] = IF i <= Len(tokens) THEN tokens[i] ELSE both[i - Len(tokens)]
      BY <1>0, <2>1, <3>2, ConcatProperties DEF both
    <3>4. ASSUME NEW i \in 1..Len(tokens') PROVE tokens'[i].type # "EndOfInput"
      <4>1. Len(tokens) \in Nat /\ Len(both) \in Nat
        BY <1>0, <3>2
      <4>2. CASE i <= Len(tokens)
        BY <1>0, <3>3, <4>1, <4>2, SMTT(20)
      <4>3. CASE ~(i <= Len(tokens))
        <5>1. i - Len(tokens) \in 1..Len(both)
          BY <3>3, <4>1, <4>3
        <5> QED
          BY <3>2, <3>3, <4>3, <5>1
      <4> QED
        BY <4>2, <4>3
    <3> QED
      BY <3>3, <3>4
  <2> QED
    BY <2>1, <2>2, <2>4, <2>5 DEF SplitGoesOn, SplitSoFar
<1>2. CASE LongOption_Other
  <2>1. Reading("LongOptionState", Chars \ {Equals}) /\ tokens' = tokens
    BY <1>2 DEF LongOption_Other
  <2>2. /\ Arg' = Arg /\ Arg \in Seq(Chars) /\ Read \in Nat /\ Read < Len(Arg)
        /\ Read' = Read + 1 /\ Head(rest) = Arg[Read + 1]
        /\ Arg[Read + 1] # Equals /\ ArgumentOpen'
    BY <2>1, ReadOne, CharsAssumption DEF MachineStates
  <2>3. CASE InName
    <3>1. /\ machine' = "LongOptionState" /\ PushBack("LongOptionState")
          /\ ~after_equal_sign'
      BY <1>0, <1>2, <2>3 DEF LongOption_Other
    <3>2. /\ token_'["LongOptionState"] = Append(Text, Arg[Read + 1])
          /\ token_'["ValueState"] = <<>>
      BY <1>0, <2>2, <3>1 DEF PushBack
    <3>3. SubSeq(Arg, 3, Read + 1) = Append(SubSeq(Arg, 3, Read), Arg[Read + 1])
      BY <1>0, <2>2, TakeOneMore
    <3>4. \A e \in 4..Read + 1 : Arg[e] # Equals
      BY <2>2, <2>3
    <3>5. token_'["LongOptionState"] = SubSeq(Arg', 3, Read')
      BY <2>2, <2>3, <3>2, <3>3
    <3>6. BeginsLong' /\ Read' >= 3
      BY <1>0, <2>2 DEF BeginsLong
    <3>7. LongOptionSoFar'
      BY <2>1, <2>2, <2>3, <3>1, <3>2, <3>4, <3>5, <3>6 DEF LongOptionSoFar
    <3> QED
      BY <1>0, <2>1, <2>2, <3>1, <3>7 DEF SplitGoesOn, SplitSoFar
  <2>4. ASSUME NEW i, InRun(i) PROVE SplitGoesOn /\ ArgumentOpen'
    <3>1. machine' = "ValueState" /\ PushBack("ValueState")
      BY <1>2, <2>4 DEF LongOption_Other, EnterValue, Enter
    <3>2. token_'["ValueState"] = <<Arg[Read + 1]>>
      BY <1>0, <2>2, <3>1 DEF PushBack
    <3>3. SubSeq(Arg, Read + 1, Read + 1) = <<Arg[Read + 1]>>
      BY <2>2, OneElement
    <3>4. /\ i \in 4..Read' /\ Read \in i..Read' - 1
          /\ FirstSign(Arg', i) /\ Run(Arg', i, Read) /\ Arg'[Read + 1] # Equals
          /\ BeginsLong' /\ Read' >= 1
      BY <1>0, <2>2, <2>4 DEF BeginsLong
    <3>5. /\ token_'["ValueState"] = SubSeq(Arg', Read + 1, Read')
          /\ tokens' = Promised!Pairs(Name(Arg', i), Read - i + 1)
      BY <2>1, <2>2, <2>4, <3>2, <3>3
    <3>6. ValueSoFar'
      BY <3>4, <3>5 DEF ValueSoFar, Promised!Pairs, Promised!Token
    <3> QED
      BY <1>0, <2>1, <2>2, <3>1, <3>6 DEF SplitGoesOn, SplitSoFar
  <2> QED
    BY <1>0, <2>3, <2>4
<1>3. CASE LongOption_End
  <2>1. /\ Ending("LongOptionState") /\ machine' = "FinalState"
        /\ Emit("LongOption", Text)
    BY <1>3 DEF LongOption_End, Ending, Emit, LongOptionToken
  <2>2. /\ Arg' = Arg /\ Arg \in Seq(Chars) /\ Read = Len(Arg) /\ Len(Arg) \in Nat
        /\ ArgumentOpen'
    BY <2>1, ReadAll DEF MachineStates
  <2>3. Len(Arg) >= 3 /\ Arg[1] = Dash /\ Arg[2] = Dash
    BY <1>0, <2>2 DEF BeginsLong
  <2>4. tokens' = Promised!Split(Arg)
    <3>1. CASE InName
      <4>1. \A e \in 4..Len(Arg) : Arg[e] # Equals
        BY <2>2, <3>1
      <4>2. Promised!Split(Arg) = <<Token("LongOption", Text)>>
        BY <2>2, <2>3, <3>1, <4>1, SplitLongNoSign
      <4>3. tokens' = Append(<<>>, Token("LongOption", Text))
        BY <2>1, <3>1 DEF Emit
      <4> QED
        BY <4>2, <4>3
    <3>2. ASSUME NEW i, InRun(i) PROVE tokens' = Promised!Split(Arg)
      <4>1. Promised!Split(Arg) =
              Append(Promised!Pairs(Name(Arg, i), Len(Arg) - i + 1),
                     IF Len(Arg) = Len(Arg) THEN Name(Arg, i)
                       ELSE Token("Value", SubSeq(Arg, Len(Arg) + 1, Len(Arg))))
        BY <2>2, <2>3, <3>2, SplitLongSign
      <4>2. Name(Arg, i) = Token("LongOption", Text)
        BY <3>2 DEF Name
      <4> QED
        BY <2>1, <2>2, <3>2, <4>1, <4>2 DEF Emit
    <3> QED
      BY <1>0, <3>1, <3>2
  <2>5. tokens' # <<>> /\ Arg # <<>>
    BY <1>0, <2>1, <2>3, SMTT(20) DEF Emit
  <2>6. \A i \in DOMAIN tokens' : tokens'[i].type # "EndOfInput"
    BY <1>0, <2>1, EmitKeepsEnd DEF TokenTypes
  <2>7. SplitSoFar'
    <3>1. Promised!Split(Arg') = Promised!Split(Arg)
      BY <2>2
    <3> QED
      BY <2>1, <2>2, <2>4, <2>5, <3>1 DEF SplitSoFar
  <2> QED
    BY <2>2, <2>6, <2>7 DEF SplitGoesOn
<1> QED
  BY <1>1, <1>2, <1>3

LEMMA TokenizeKeepsIInv ==
  ASSUME IInv, Tokenize
  PROVE  IInv'
<1>1. SplitGoesOn /\ ArgumentOpen'
  BY InitialSplits, ValueSplits, OptionSplits, ShortOptionSplits, DashDashSplits,
     LongOptionSplits DEF Tokenize
<1>2. StreamSoFar'
  BY <1>1, StreamWaits DEF SplitGoesOn
<1>3. TypeOK'
  BY TokenizeTypes DEF IInv
<1> QED
  BY <1>1, <1>2, <1>3 DEF IInv, SplitGoesOn

-----------------------------------------------------------------------------
(* The stream *)

\* The next token of the queue is not the end of input, and takes nothing away.
LEMMA PopFrontKeepsStream ==
  ASSUME IInv, tokens # <<>>, PopFront
  PROVE  /\ returned' \o tokens' = returned \o tokens
         /\ ~EndReturned'
         /\ \A i \in DOMAIN tokens' : tokens'[i].type # "EndOfInput"
<1>1. /\ tokens \in Seq(Tokens) /\ returned \in Seq(Tokens)
      /\ returned' = Append(returned, Head(tokens)) /\ tokens' = Tail(tokens)
      /\ \A i \in DOMAIN tokens : tokens[i].type # "EndOfInput"
  BY DEF IInv, TypeOK, StreamSoFar, PopFront
<1>2. returned' \o tokens' = returned \o tokens
  <2>1. Append(returned, Head(tokens)) \o Tail(tokens) = returned \o tokens
    BY <1>1, MoveOne
  <2> QED
    BY <1>1, <2>1, Zenon
<1>3. ~EndReturned'
  <2>1. Head(tokens) \in Tokens /\ Head(tokens).type # "EndOfInput"
    BY <1>1, MoveOne, HeadTailProperties
  <2>2. returned' # <<>> /\ returned'[Len(returned')] = Head(tokens)
    BY <1>1, <2>1, AppendProperties
  <2> QED
    BY <2>1, <2>2 DEF EndReturned, EndOfInput
<1>4. \A i \in DOMAIN tokens' : tokens'[i].type # "EndOfInput"
  <2>1. /\ tokens' \in Seq(Tokens) /\ Len(tokens') = Len(tokens) - 1
        /\ \A i \in 1..Len(tokens') : tokens'[i] = tokens[i + 1]
    BY <1>1, HeadTailProperties
  <2> QED
    BY <1>1, <2>1
<1> QED
  BY <1>2, <1>3, <1>4

\* The end of input is returned once, when the queue is empty.
LEMMA EndIsLast ==
  ASSUME IInv, tokens = <<>>, returned' = Append(returned, EndOfInput)
  PROVE  EndReturned'
<1>1. returned \in Seq(Tokens) /\ EndOfInput \in Tokens
  BY TokenTypeCorrect DEF IInv, TypeOK
<1>2. returned' # <<>> /\ returned'[Len(returned')] = EndOfInput
  BY <1>1, AppendProperties
<1> QED
  BY <1>2 DEF EndReturned

LEMMA NextTokenKeepsIInv ==
  ASSUME IInv, NextToken
  PROVE  IInv'
<1>1. TypeOK'
  BY NextTokenTypes DEF IInv
<1>2. /\ args' = args /\ Promised!SplitAll' = Promised!SplitAll
      /\ cursor \in 1..Len(args) + 1 /\ Len(args) \in Nat
      /\ args \in Seq(Seq(Chars))
      /\ tokens \in Seq(Tokens) /\ returned \in Seq(Tokens)
  BY SplitAllFixed DEF NextToken, NextToken_Queued, NextToken_Argument,
     NextToken_Return, NextToken_EndOfInput, IInv, TypeOK
<1>3. ArgumentOpen' /\ SplitSoFar' /\ StreamSoFar'
  <2>1. CASE NextToken_Queued
    <3>1. /\ machine = "none" /\ machine' = "none" /\ ~EndReturned /\ tokens # <<>>
          /\ PopFront /\ cursor' = cursor
      BY <2>1 DEF NextToken_Queued
    <3>2. /\ returned' \o tokens' = returned \o tokens
          /\ ~EndReturned'
          /\ \A i \in DOMAIN tokens' : tokens'[i].type # "EndOfInput"
      BY <3>1, PopFrontKeepsStream
    <3>3. /\ returned \o tokens = Promised!SplitAll[cursor - 1]
          /\ \A i \in 1..cursor - 1 : args[i] # <<>>
      BY <3>1 DEF IInv, StreamSoFar
    <3>4. returned' \o tokens' = Promised!SplitAll'[cursor' - 1]
      BY <1>2, <3>1, <3>2, <3>3, Zenon
    <3>5. \A i \in 1..cursor' - 1 : args'[i] # <<>>
      BY <1>2, <3>1, <3>3
    <3>6. StreamSoFar'
      BY <3>1, <3>2, <3>4, <3>5 DEF StreamSoFar
    <3> QED
      BY <3>1, <3>6 DEF ArgumentOpen, SplitSoFar
  <2>2. CASE NextToken_Argument
    <3>1. /\ machine = "none" /\ machine' = "InitialState" /\ ~EndReturned
          /\ tokens = <<>> /\ tokens' = <<>> /\ cursor <= Len(args)
          /\ rest' = args[cursor] /\ cursor' = cursor + 1 /\ token_' = NoTokens
          /\ after_equal_sign' = FALSE /\ returned' = returned
      BY <2>2 DEF NextToken_Argument, Advance
    <3>2. /\ Arg' = args[cursor] /\ Arg' \in Seq(Chars) /\ Read' = 0 /\ cursor' >= 2
          /\ Len(Arg') \in Nat
      BY <1>2, <3>1 DEF Arg, Read
    <3>3. rest' = SubSeq(Arg', Read' + 1, Len(Arg'))
      BY <3>1, <3>2, SubSeqFull
    <3>4. ArgumentOpen'
      BY <3>2, <3>3 DEF ArgumentOpen
    <3>5. SplitSoFar'
      BY <3>1, <3>2 DEF SplitSoFar, Untouched
    <3>6. /\ returned = Promised!SplitAll[cursor - 1]
          /\ \A i \in 1..cursor - 1 : args[i] # <<>>
      <4>1. /\ returned \o tokens = Promised!SplitAll[cursor - 1]
            /\ \A i \in 1..cursor - 1 : args[i] # <<>>
        BY <3>1 DEF IInv, StreamSoFar
      <4>2. returned \o <<>> = returned
        BY <1>2, ConcatEmptySeq
      <4> QED
        BY <3>1, <4>1, <4>2, Zenon
    <3>7. cursor' - 2 = cursor - 1 /\ ~EndReturned'
      BY <1>2, <3>1 DEF EndReturned
    <3>8. StreamSoFar'
      BY <1>2, <3>1, <3>6, <3>7 DEF StreamSoFar
    <3> QED
      BY <3>4, <3>5, <3>8
  <2>3. CASE NextToken_Return
    <3>1. /\ machine = "FinalState" /\ machine' = "none" /\ cursor' = cursor
          /\ IF tokens # <<>> THEN PopFront
               ELSE returned' = Append(returned, EndOfInput) /\ tokens' = tokens
      BY <2>3 DEF NextToken_Return
    <3>2. /\ cursor >= 2 /\ ~EndReturned /\ returned = Promised!SplitAll[cursor - 2]
          /\ tokens = Promised!Split(args[cursor - 1])
          /\ tokens = <<>> <=> args[cursor - 1] = <<>>
          /\ \A i \in 1..cursor - 2 : args[i] # <<>>
      BY <3>1 DEF IInv, ArgumentOpen, SplitSoFar, StreamSoFar, Arg
    <3>3. returned \o tokens = Promised!SplitAll[cursor - 1]
      <4>1. cursor - 2 \in Nat /\ (cursor - 2) + 1 = cursor - 1
        BY <1>2, <3>2
      <4>2. Promised!SplitAll[cursor - 1]
              = Promised!SplitAll[cursor - 2] \o Promised!Split(args[cursor - 1])
        BY <4>1, SplitAllStep, Zenon
      <4> QED
        BY <3>2, <4>2, Zenon
    <3>4. CASE tokens # <<>>
      <4>1. /\ returned' \o tokens' = returned \o tokens
            /\ ~EndReturned'
            /\ \A i \in DOMAIN tokens' : tokens'[i].type # "EndOfInput"
        BY <3>1, <3>4, PopFrontKeepsStream
      <4>2. returned' \o tokens' = Promised!SplitAll'[cursor' - 1]
        BY <1>2, <3>1, <3>3, <4>1, Zenon
      <4>3. \A i \in 1..cursor' - 1 : args'[i] # <<>>
        <5>1. ASSUME NEW i \in 1..cursor - 1 PROVE args[i] # <<>>
          <6>1. CASE i = cursor - 1
            BY <3>2, <3>4, <6>1
          <6>2. CASE i # cursor - 1
            <7>1. i \in 1..cursor - 2
              BY <1>2, <6>2
            <7> QED
              BY <3>2, <7>1
          <6> QED
            BY <6>1, <6>2
        <5> QED
          BY <1>2, <3>1, <5>1
      <4>4. StreamSoFar'
        BY <3>1, <4>1, <4>2, <4>3 DEF StreamSoFar
      <4> QED
        BY <3>1, <4>4 DEF ArgumentOpen, SplitSoFar
    <3>5. CASE tokens = <<>>
      <4>1. /\ returned' = Append(returned, EndOfInput) /\ tokens' = <<>>
            /\ EndReturned'
        BY <3>1, <3>5, EndIsLast
      <4>2. returned = Promised!SplitAll[cursor - 1]
        <5>1. returned \o <<>> = returned
          BY <1>2, ConcatEmptySeq
        <5> QED
          BY <3>3, <3>5, <5>1, Zenon
      <4>3. returned' = Append(Promised!SplitAll'[cursor' - 1], EndOfInput)
        BY <1>2, <3>1, <4>1, <4>2
      <4>4. StreamSoFar'
        BY <3>1, <4>1, <4>3 DEF StreamSoFar
      <4> QED
        BY <3>1, <4>4 DEF ArgumentOpen, SplitSoFar
    <3> QED
      BY <3>4, <3>5
  <2>4. CASE NextToken_EndOfInput
    <3>1. /\ machine = "none" /\ machine' = "none" /\ ~EndReturned /\ tokens = <<>>
          /\ returned' = Append(returned, EndOfInput) /\ tokens' = <<>>
          /\ cursor' = cursor
      BY <2>4 DEF NextToken_EndOfInput, HasMoreTokens
    <3>2. EndReturned'
      BY <3>1, EndIsLast
    <3>3. returned = Promised!SplitAll[cursor - 1]
      <4>1. returned \o tokens = Promised!SplitAll[cursor - 1]
        BY <3>1 DEF IInv, StreamSoFar
      <4>2. returned \o <<>> = returned
        BY <1>2, ConcatEmptySeq
      <4> QED
        BY <3>1, <4>1, <4>2, Zenon
    <3>4. returned' = Append(Promised!SplitAll'[cursor' - 1], EndOfInput)
      BY <1>2, <3>1, <3>3
    <3>5. StreamSoFar'
      BY <3>1, <3>2, <3>4 DEF StreamSoFar
    <3> QED
      BY <3>1, <3>5 DEF ArgumentOpen, SplitSoFar
  <2> QED
    BY <2>1, <2>2, <2>3, <2>4 DEF NextToken
<1> QED
  BY <1>1, <1>3 DEF IInv

-----------------------------------------------------------------------------
(* The invariant holds *)

LEMMA InitIInv == Init => IInv
<1> SUFFICES ASSUME Init PROVE IInv
  OBVIOUS
<1>1. /\ args \in Seq(Seq(Chars)) /\ cursor = 1 /\ tokens = <<>> /\ machine = "none"
      /\ rest = <<>> /\ token_ = NoTokens /\ after_equal_sign = FALSE
      /\ returned = <<>>
  BY CommandLinesAssumption DEF Init
<1>2. TypeOK
  <2>1. cursor \in 1..(Len(args) + 1)
    BY <1>1
  <2>2. tokens \in Seq(Tokens) /\ returned \in Seq(Tokens) /\ rest \in Seq(Chars)
    BY <1>1
  <2> QED
    BY <1>1, <2>1, <2>2, TokenTypeCorrect DEF TypeOK
<1>3. ArgumentOpen /\ SplitSoFar
  BY <1>1 DEF ArgumentOpen, SplitSoFar
<1>4. StreamSoFar
  <2>1. ~EndReturned
    BY <1>1 DEF EndReturned
  <2>2. returned \o tokens = Promised!SplitAll[cursor - 1]
    <3>1. <<>> \o <<>> = <<>>
      OBVIOUS
    <3>2. cursor - 1 = 0
      BY <1>1
    <3> QED
      BY <1>1, <3>1, <3>2, SplitAllStep, Zenon
  <2> QED
    BY <1>1, <2>1, <2>2 DEF StreamSoFar
<1> QED
  BY <1>2, <1>3, <1>4 DEF IInv

LEMMA IdleKeepsIInv ==
  ASSUME IInv, UNCHANGED vars
  PROVE  IInv'
<1>1. /\ UNCHANGED <<args, cursor, tokens, machine, rest, token_,
                     after_equal_sign, returned>>
      /\ Promised!SplitAll' = Promised!SplitAll
  BY SplitAllFixed DEF vars
<1>2. TypeOK'
  BY <1>1 DEF IInv, TypeOK
<1>3. ArgumentOpen' /\ Arg' = Arg /\ Read' = Read
  BY <1>1 DEF IInv, ArgumentOpen, Arg, Read
<1>4. StreamSoFar'
  BY <1>1 DEF IInv, StreamSoFar, EndReturned
<1>5. SplitSoFar'
  <2>1. Untouched' = Untouched /\ BeginsLong' = BeginsLong
    BY <1>1, <1>3 DEF Untouched, BeginsLong
  <2>2. ShortOptions(Arg, Read)' = ShortOptions(Arg, Read)
    BY <1>3
  <2>3. LongOptionSoFar' = LongOptionSoFar
    BY <1>1, <1>3, <2>1 DEF LongOptionSoFar, Promised!Pairs, Promised!Token
  <2>4. ValueSoFar' = ValueSoFar
    BY <1>1, <1>3, <2>1 DEF ValueSoFar, Promised!Pairs, Promised!Token
  <2>5. Promised!Split(Arg') = Promised!Split(Arg)
    BY <1>3
  <2> QED
    BY <1>1, <1>3, <2>1, <2>2, <2>3, <2>4, <2>5 DEF IInv, SplitSoFar
<1> QED
  BY <1>2, <1>3, <1>4, <1>5 DEF IInv

\* The inductive invariant: what was returned, queued and collected is what the
\* arguments read so far are split into.
THEOREM Invariance == Spec => []IInv
<1>1. Init => IInv
  BY InitIInv
<1>2. IInv /\ [Next]_vars => IInv'
  BY TokenizeKeepsIInv, NextTokenKeepsIInv, IdleKeepsIInv DEF Next, Stopped
<1> QED
  BY <1>1, <1>2, PTL DEF Spec

-----------------------------------------------------------------------------
(* Theorems about the specification *)

\* The members of the tokenizer keep their types, whatever the arguments are.
THEOREM TokenizerTypeCorrect == Spec => []TypeOK
<1>1. IInv => TypeOK
  BY DEF IInv
<1> QED
  BY <1>1, Invariance, PTL

\* The tokens produced, in each part of a call of NextToken().
LEMMA ProducedIs ==
  ASSUME IInv
  PROVE  /\ ~EndReturned => Produced = returned \o tokens
         /\ EndReturned => Produced = Promised!SplitAll[cursor - 1]
         /\ machine # "none" => ~EndReturned
<1>1. ~EndReturned => Produced = returned \o tokens
  BY Zenon DEF Produced
<1>2. ASSUME EndReturned PROVE Produced = Promised!SplitAll[cursor - 1]
  <2> DEFINE s == Promised!SplitAll[cursor - 1]
             before == SubSeq(returned, 1, Len(returned) - 1)
  <2>1. /\ tokens = <<>> /\ returned = Append(s, EndOfInput)
        /\ returned \in Seq(Tokens) /\ returned # <<>>
    BY <1>2 DEF IInv, StreamSoFar, TypeOK, EndReturned
  <2>2. s \in Seq(Tokens) /\ EndOfInput \in Tokens
    <3>1. cursor - 1 \in 0..Len(args) /\ TypeOK
      BY DEF IInv, TypeOK
    <3> QED
      BY <3>1, SplitAllGrows, TokenTypeCorrect
  <2> HIDE DEF s
  <2>3. before \in Seq(Tokens) /\ returned = Append(before, EndOfInput)
    <3>1. Len(returned) \in Nat \ {0} /\ Len(returned) - 1 \in 0..Len(returned) - 1
      BY <2>1, EmptySeq
    <3>2. SubSeq(returned, 1, (Len(returned) - 1) + 1)
            = Append(SubSeq(returned, 1, Len(returned) - 1),
                     returned[(Len(returned) - 1) + 1])
      BY <2>1, <3>1, TakeOneMore
    <3>3. SubSeq(returned, 1, Len(returned)) = returned
      BY <2>1, SubSeqFull
    <3>4. before \in Seq(Tokens)
      BY <2>1, <3>1, SubSeqProperties
    <3>5. returned[Len(returned)] = EndOfInput
      BY <1>2 DEF EndReturned
    <3> QED
      BY <3>1, <3>2, <3>3, <3>4, <3>5
  <2>4. Produced = before
    <3>1. before \o <<>> = before
      BY <2>3, ConcatEmptySeq
    <3> QED
      BY <1>2, <2>1, <3>1, Zenon DEF Produced
  <2> HIDE DEF before
  <2>5. before = s
    <3>1. Append(before, EndOfInput) = Append(s, EndOfInput)
      BY <2>1, <2>3
    <3> QED
      BY <2>2, <2>3, <3>1, AppendInjective
  <2> QED
    BY <2>4, <2>5 DEF s
<1>3. machine # "none" => ~EndReturned
  BY DEF IInv, StreamSoFar
<1> QED
  BY <1>1, <1>2, <1>3

LEMMA SplitIsExact == IInv => SplitsEveryArgument
<1> SUFFICES ASSUME IInv, machine \in {"none", "FinalState"}
             PROVE  Produced = Promised!SplitAll[cursor - 1]
  BY DEF SplitsEveryArgument
<1>1. CASE machine = "none"
  BY <1>1, ProducedIs, Zenon DEF IInv, StreamSoFar
<1>2. CASE machine = "FinalState"
  <2>1. /\ cursor >= 2 /\ returned = Promised!SplitAll[cursor - 2]
        /\ tokens = Promised!Split(args[cursor - 1]) /\ cursor \in Int
    BY <1>2 DEF IInv, ArgumentOpen, SplitSoFar, StreamSoFar, Arg, TypeOK
  <2>2. Produced = returned \o tokens
    BY <1>2, ProducedIs, Zenon
  <2>3. cursor - 2 \in Nat /\ (cursor - 2) + 1 = cursor - 1
    BY <2>1
  <2>4. Promised!SplitAll[cursor - 1]
          = Promised!SplitAll[cursor - 2] \o Promised!Split(args[cursor - 1])
    BY <2>3, SplitAllStep, Zenon
  <2> QED
    BY <2>1, <2>2, <2>4, Zenon
<1> QED
  BY <1>1, <1>2

\* Whatever the arguments are, and wherever their dashes and '=' signs: between
\* two arguments the tokens produced are those that the arguments read should
\* be split into, in their order.
THEOREM EveryArgumentIsSplit == Spec => []SplitsEveryArgument
  BY SplitIsExact, Invariance, PTL

\* What ParserCanRelyOn says of the tokens produced, said of any tokens.
Reliable(s) ==
  \A i \in DOMAIN s :
    /\ s[i].text # <<>>
    /\ s[i].type = "EqualSign" => i > 1 /\ s[i - 1].type = "LongOption"

LEMMA ReliableTogether ==
  ASSUME NEW s \in Seq(Tokens), NEW t \in Seq(Tokens), Reliable(s), Reliable(t)
  PROVE  Reliable(s \o t)
<1> DEFINE both == s \o t
<1>1. /\ both \in Seq(Tokens) /\ Len(both) = Len(s) + Len(t)
      /\ \A i \in 1..Len(s) + Len(t) :
           both[i] = IF i <= Len(s) THEN s[i] ELSE t[i - Len(s)]
  BY ConcatProperties
<1>2. Len(s) \in Nat /\ Len(t) \in Nat /\ DOMAIN s = 1..Len(s) /\ DOMAIN t = 1..Len(t)
  BY LenProperties
<1> HIDE DEF both
<1>3. ASSUME NEW i \in DOMAIN both
      PROVE  /\ both[i].text # <<>>
             /\ both[i].type = "EqualSign" => i > 1 /\ both[i - 1].type = "LongOption"
  <2>0. i \in 1..Len(s) + Len(t)
    BY <1>1
  <2>1. CASE i <= Len(s)
    <3>1. i \in DOMAIN s /\ both[i] = s[i] /\ (i > 1 => both[i - 1] = s[i - 1])
      BY <1>1, <1>2, <2>0, <2>1
    <3> QED
      BY <3>1 DEF Reliable
  <2>2. CASE ~(i <= Len(s))
    <3> DEFINE k == i - Len(s)
    <3>1. k \in DOMAIN t /\ both[i] = t[k]
      BY <1>1, <1>2, <2>0, <2>2
    <3>2. k > 1 => i > 1 /\ both[i - 1] = t[k - 1]
      BY <1>1, <1>2, <2>0, <2>2
    <3> HIDE DEF k
    <3> QED
      BY <3>1, <3>2 DEF Reliable
  <2> QED
    BY <2>1, <2>2
<1> QED
  BY <1>3 DEF Reliable, both

\* Neither the value nor the name of an option that is being read is empty.
LEMMA TextsSoFar ==
  ASSUME IInv
  PROVE  /\ machine = "ValueState" => token_["ValueState"] # <<>>
         /\ machine = "LongOptionState" => token_["LongOptionState"] # <<>>
<1>1. ASSUME NEW arg \in Seq(Chars), NEW m \in 1..Len(arg), NEW n \in m..Len(arg)
      PROVE  SubSeq(arg, m, n) # <<>>
  <2>1. SubSeq(arg, m, n) \in Seq(Chars) /\ Len(SubSeq(arg, m, n)) = n - m + 1
    BY SubSeqProperties
  <2>2. n - m + 1 # 0 /\ Len(<<>>) = 0
    OBVIOUS
  <2> QED
    BY <2>1, <2>2
<1>2. machine # "none" => Arg \in Seq(Chars) /\ Read \in 0..Len(Arg) /\ Len(Arg) \in Nat
  BY DEF IInv, TypeOK, ArgumentOpen, Arg
<1>3. ASSUME machine = "ValueState" PROVE token_["ValueState"] # <<>>
  <2>1. ValueSoFar
    BY <1>3 DEF IInv, SplitSoFar
  <2>2. Read \in 1..Len(Arg)
    BY <1>2, <1>3, <2>1 DEF ValueSoFar
  <2>3. \/ token_["ValueState"] = SubSeq(Arg, 1, Read)
        \/ \E i \in 4..Read : \E j \in i..Read - 1 :
             token_["ValueState"] = SubSeq(Arg, j + 1, Read)
    BY <2>1 DEF ValueSoFar
  <2>4. SubSeq(Arg, 1, Read) # <<>>
    BY <1>1, <1>2, <1>3, <2>2
  <2>5. ASSUME NEW i \in 4..Read, NEW j \in i..Read - 1
        PROVE  SubSeq(Arg, j + 1, Read) # <<>>
    <3>1. j + 1 \in 1..Len(Arg) /\ Read \in j + 1..Len(Arg)
      BY <1>2, <1>3, <2>2
    <3> QED
      BY <1>1, <1>2, <1>3, <3>1
  <2> QED
    BY <2>3, <2>4, <2>5, Zenon
<1>4. ASSUME machine = "LongOptionState" PROVE token_["LongOptionState"] # <<>>
  <2>1. LongOptionSoFar
    BY <1>4 DEF IInv, SplitSoFar
  <2>2. \/ token_["LongOptionState"] = SubSeq(Arg, 3, Read)
        \/ \E i \in 4..Read : token_["LongOptionState"] = SubSeq(Arg, 3, i - 1)
    BY <2>1 DEF LongOptionSoFar
  <2>3. Read >= 3 /\ 3 \in 1..Len(Arg)
    BY <1>2, <1>4, <2>1 DEF LongOptionSoFar
  <2>4. ASSUME NEW n \in 3..Read PROVE SubSeq(Arg, 3, n) # <<>>
    <3>1. n \in 3..Len(Arg)
      BY <1>2, <1>4, <2>3
    <3> QED
      BY <1>1, <1>2, <1>4, <2>3, <3>1
  <2>5. Read \in 3..Read /\ \A i \in 4..Read : i - 1 \in 3..Read
    BY <1>2, <1>4, <2>3
  <2> QED
    BY <2>2, <2>4, <2>5, Zenon
<1> QED
  BY <1>3, <1>4

\* What Tokenize() emits in one step can be relied on.
LEMMA EmitsReliable ==
  ASSUME IInv, Tokenize
  PROVE  \E more \in Seq(Tokens) : Reliable(more) /\ tokens' = Joined(tokens, more)
<1> DEFINE Goal == \E more \in Seq(Tokens) : Reliable(more) /\ tokens' = Joined(tokens, more)
<1>0. /\ tokens \in Seq(Tokens)
      /\ token_["ValueState"] \in Seq(Chars) /\ token_["LongOptionState"] \in Seq(Chars)
  BY DEF IInv, TypeOK
<1>1. ASSUME tokens' = tokens PROVE Goal
  <2>1. tokens' = Joined(tokens, <<>>)
    BY <1>0, <1>1, ConcatEmptySeq, Zenon DEF Joined
  <2>2. <<>> \in Seq(Tokens) /\ Reliable(<<>>)
    BY DEF Reliable
  <2> QED
    BY <2>1, <2>2
<1>2. ASSUME NEW type \in TokenTypes \ {"EqualSign"}, NEW text \in Seq(Chars),
             text # <<>>, Emit(type, text)
      PROVE  Goal
  <2>1. Token(type, text) \in Tokens
    BY TokenTypeCorrect
  <2>2. tokens' = Joined(tokens, <<Token(type, text)>>)
    <3>1. Append(tokens, Token(type, text)) = tokens \o <<Token(type, text)>>
      BY <1>0, <2>1, AppendIsConcat
    <3> QED
      BY <1>2, <3>1, Zenon DEF Joined, Emit
  <2>3. Reliable(<<Token(type, text)>>)
    BY <1>2 DEF Reliable, Token
  <2>4. <<Token(type, text)>> \in Seq(Tokens)
    BY <2>1
  <2> QED
    BY <2>2, <2>3, <2>4
<1>3. CASE UNCHANGED tokens
  BY <1>1, <1>3
<1>4. CASE Value_End
  <2>1. token_["ValueState"] # <<>>
    BY <1>4, TextsSoFar DEF Value_End, Ending
  <2> QED
    BY <1>0, <1>2, <1>4, <2>1 DEF Value_End, TokenTypes
<1>5. CASE Option_Other \/ ShortOption_Char
  <2>1. Head(rest) \in Chars /\ Emit("ShortOption", <<Head(rest)>>)
    BY <1>5 DEF Option_Other, ShortOption_Char, Reading, Others
  <2>2. <<Head(rest)>> \in Seq(Chars) /\ <<Head(rest)>> # <<>>
    BY <2>1
  <2> QED
    BY <1>2, <2>1, <2>2 DEF TokenTypes
<1>6. CASE Option_End
  BY <1>2, <1>6, TokenTypeCorrect DEF Option_End, TokenTypes
<1>7. CASE DashDash_End
  BY <1>2, <1>7, TokenTypeCorrect DEF DashDash_End, TokenTypes
<1>8. CASE LongOption_End
  <2>1. token_["LongOptionState"] # <<>> /\ Emit("LongOption", token_["LongOptionState"])
    BY <1>8, TextsSoFar DEF LongOption_End, Ending, Emit, LongOptionToken
  <2> QED
    BY <1>0, <1>2, <2>1 DEF TokenTypes
<1>9. CASE LongOption_Equals
  <2> DEFINE both == <<LongOptionToken, Token("EqualSign", <<Equals>>)>>
  <2>1. tokens' = Joined(tokens, both)
    BY <1>9, Zenon DEF LongOption_Equals, EmitOptionAndEqualSign, Joined
  <2>2. token_["LongOptionState"] # <<>>
    BY <1>9, TextsSoFar DEF LongOption_Equals, Reading
  <2>3. LongOptionToken \in Tokens /\ Token("EqualSign", <<Equals>>) \in Tokens
    BY <1>0, TokenTypeCorrect DEF LongOptionToken, TokenTypes
  <2>4. Reliable(both)
    BY <2>2 DEF Reliable, LongOptionToken, Token
  <2>5. both \in Seq(Tokens)
    BY <2>3
  <2> QED
    BY <2>1, <2>4, <2>5
<1> QED
  BY <1>3, <1>4, <1>5, <1>6, <1>7, <1>8, <1>9
  DEF Tokenize, Initial_Dash, Initial_Other, Initial_End, Value_Char, Option_Dash,
      ShortOption_End, DashDash_Char, LongOption_Other

\* Whatever is on the command line, no token but the last has an empty text and
\* every '=' sign comes after the name of an option: the parser never looks up
\* an option without a name, and has an option for every '=' sign.
THEOREM ParserMayRely == Spec => []ParserCanRelyOn
<1>0. ParserCanRelyOn <=> Reliable(Produced)
  BY Zenon DEF ParserCanRelyOn, Reliable
<1>1. IInv => SplitsEveryArgument
  BY SplitIsExact
<1>2. IInv' => SplitsEveryArgument'
  BY <1>1, PTL
<1>3. Init => Reliable(Produced)
  <2> SUFFICES ASSUME Init PROVE Reliable(<<>>) /\ Produced = <<>>
    BY Zenon
  <2>1. Produced = <<>> \o <<>> /\ <<>> \o <<>> = <<>>
    BY DEF Init, Produced, EndReturned
  <2> QED
    BY <2>1 DEF Reliable
<1>4. ASSUME IInv, IInv', Reliable(Produced), [Next]_vars PROVE Reliable(Produced)'
  <2>1. CASE Tokenize
    <3>1. /\ ~EndReturned /\ ~EndReturned' /\ returned' = returned
          /\ Produced = returned \o tokens
          /\ returned \in Seq(Tokens) /\ tokens \in Seq(Tokens)
      <4>1. machine # "none" /\ returned' = returned
        BY <2>1 DEF Tokenize, Reading, Ending, Initial_Dash, Initial_Other,
           Initial_End, Value_Char, Value_End, Option_Dash, Option_Other,
           Option_End, ShortOption_Char, ShortOption_End, DashDash_Char,
           DashDash_End, LongOption_Equals, LongOption_Other, LongOption_End
      <4>2. ~EndReturned /\ Produced = returned \o tokens
        BY <1>4, <4>1, ProducedIs, Zenon
      <4> QED
        BY <1>4, <4>1, <4>2 DEF EndReturned, IInv, TypeOK
    <3>2. PICK more \in Seq(Tokens) : Reliable(more) /\ tokens' = Joined(tokens, more)
      BY <1>4, <2>1, EmitsReliable
    <3>3. Produced' = (returned \o tokens) \o more
      <4>1. Produced' = returned \o (tokens \o more)
        BY <3>1, <3>2, Zenon DEF Produced, Joined
      <4>2. (returned \o tokens) \o more = returned \o (tokens \o more)
        BY <3>1, ConcatAssociative
      <4> QED
        BY <4>1, <4>2, Zenon
    <3>4. Produced \in Seq(Tokens)
      BY <3>1, ConcatProperties
    <3>5. Reliable(Produced \o more)
      BY <1>4, <3>2, <3>4, ReliableTogether
    <3> QED
      BY <3>1, <3>3, <3>5, Zenon
  <2>2. CASE NextToken_Argument \/ UNCHANGED vars
    <3>1. Produced' = Produced
      BY <2>2, Zenon DEF NextToken_Argument, vars, Produced, EndReturned
    <3> QED
      BY <1>4, <3>1
  <2>3. CASE NextToken_Queued \/ NextToken_Return \/ NextToken_EndOfInput
    <3>1. /\ machine \in {"none", "FinalState"} /\ machine' = "none"
          /\ cursor' = cursor /\ args' = args
      BY <2>3 DEF NextToken_Queued, NextToken_Return, NextToken_EndOfInput
    <3>2. Promised!SplitAll' = Promised!SplitAll
      BY <3>1, SplitAllFixed
    <3>3. Produced = Promised!SplitAll[cursor - 1]
      BY <1>1, <1>4, <3>1 DEF SplitsEveryArgument
    <3>4. Produced' = Promised!SplitAll'[cursor' - 1]
      BY <1>2, <1>4, <3>1 DEF SplitsEveryArgument
    <3>5. Produced' = Produced
      BY <3>1, <3>2, <3>3, <3>4
    <3> QED
      BY <1>4, <3>5
  <2> QED
    BY <1>4, <2>1, <2>2, <2>3 DEF Next, NextToken, Stopped
<1> QED
  BY <1>0, <1>3, <1>4, Invariance, PTL DEF Spec

-----------------------------------------------------------------------------
(* The tokenizer implements TokenStream *)

NoneEmpty(n) == \A i \in 1..n : args[i] # <<>>

LEMMA ReadableIs ==
  ASSUME TypeOK, NEW n \in 0..Len(args), NoneEmpty(n),
         n = Len(args) \/ args[n + 1] = <<>>
  PROVE  Promised!Readable = n
<1> DEFINE Last(m) == NoneEmpty(m) /\ (m = Len(args) \/ args[m + 1] = <<>>)
<1>0. Len(args) \in Nat
  BY DEF TypeOK
<1>1. ASSUME NEW m \in 0..Len(args), Last(m) PROVE m = n
  <2>1. CASE m < n
    <3>1. m + 1 \in 1..n /\ m # Len(args)
      BY <1>0, <2>1
    <3> QED
      BY <1>1, <3>1 DEF NoneEmpty
  <2>2. CASE m > n
    <3>1. n + 1 \in 1..m /\ n # Len(args)
      BY <1>0, <2>2
    <3> QED
      BY <1>1, <3>1 DEF NoneEmpty
  <2> QED
    BY <1>0, <2>1, <2>2
<1>2. Last(n)
  OBVIOUS
<1> HIDE DEF Last
<1>3. n = CHOOSE m \in 0..Len(args) : Last(m)
  BY <1>1, <1>2
<1> QED
  BY <1>3 DEF Promised!Readable, Last, NoneEmpty

LEMMA ReadableAtLeast ==
  ASSUME TypeOK, NEW n \in 0..Len(args), NoneEmpty(n)
  PROVE  Promised!Readable \in 0..Len(args) /\ n <= Promised!Readable
<1> DEFINE Before == {m \in 0..Len(args) : NoneEmpty(m)}
<1>0. Len(args) \in Nat
  BY DEF TypeOK
<1>1. PICK last \in Before : \A m \in Before : last >= m
  <2>1. Before \in SUBSET (0..Len(args)) /\ Before # {}
    OBVIOUS
  <2> HIDE DEF Before
  <2> QED
    BY <1>0, <2>1, GreatestExists
<1>2. last = Len(args) \/ args[last + 1] = <<>>
  <2> SUFFICES ASSUME last # Len(args), args[last + 1] # <<>> PROVE FALSE
    OBVIOUS
  <2>1. last + 1 \in 0..Len(args) /\ NoneEmpty(last + 1)
    BY <1>0, <1>1 DEF NoneEmpty
  <2> QED
    BY <1>0, <1>1, <2>1
<1>3. Promised!Readable = last
  BY <1>1, <1>2, ReadableIs
<1> QED
  BY <1>1, <1>3

\* A token that leaves the queue is the next one of the stream.
LEMMA PoppedIsNext ==
  ASSUME TypeOK, NEW n \in 0..Len(args), NoneEmpty(n), tokens # <<>>,
         returned \o tokens = Promised!SplitAll[n]
  PROVE  /\ Len(returned) < Len(Promised!Stream)
         /\ Head(tokens) = Promised!Stream[Len(returned) + 1]
<1>1. Promised!Readable \in 0..Len(args) /\ n <= Promised!Readable
  BY ReadableAtLeast
<1>2. PICK more \in Seq(Tokens) :
        Promised!SplitAll[Promised!Readable] = Joined(Promised!SplitAll[n], more)
  BY <1>1, SplitAllGrows
<1>3. Promised!Stream = Append((returned \o tokens) \o more, EndOfInput)
  BY <1>2, Zenon DEF Promised!Stream, Joined, Promised!EndOfInput, EndOfInput,
     Promised!Token
<1>4. returned \in Seq(Tokens) /\ tokens \in Seq(Tokens) /\ EndOfInput \in Tokens
  BY TokenTypeCorrect DEF TypeOK
<1>5. LET all == Append((returned \o tokens) \o more, EndOfInput)
      IN  Len(returned) < Len(all) /\ all[Len(returned) + 1] = Head(tokens)
  BY <1>4, SecondBegins
<1> QED
  BY <1>3, <1>5, Zenon

\* The end of input comes when the stream has nothing else left.
LEMMA EndIsNext ==
  ASSUME TypeOK, NEW n \in 0..Len(args), NoneEmpty(n),
         n = Len(args) \/ args[n + 1] = <<>>,
         returned = Promised!SplitAll[n]
  PROVE  /\ Len(returned) < Len(Promised!Stream)
         /\ EndOfInput = Promised!Stream[Len(returned) + 1]
<1>1. Promised!Readable = n
  BY ReadableIs
<1>2. Promised!Stream = Append(returned, EndOfInput)
  BY <1>1, Zenon DEF Promised!Stream, Promised!EndOfInput, EndOfInput, Promised!Token
<1>3. returned \in Seq(Tokens) /\ EndOfInput \in Tokens
  BY TokenTypeCorrect DEF TypeOK
<1>4. /\ Len(Append(returned, EndOfInput)) = Len(returned) + 1
      /\ Append(returned, EndOfInput)[Len(returned) + 1] = EndOfInput
      /\ Len(returned) \in Nat
  BY <1>3, AppendProperties
<1> QED
  BY <1>2, <1>4

\* Whoever pulls tokens out of the tokenizer sees the stream that TokenStream
\* promises: every step of the program returns the next token of the stream
\* or changes nothing that its caller sees.  (That it goes on is left to TLC.)
THEOREM StreamIsImplemented == Spec => Promised!Safety
<1>1. Init => Promised!Init
  BY CommandLinesAssumption DEF Init, Promised!Init
<1>2. ASSUME IInv, [Next]_vars
      PROVE  [Promised!ReturnToken]_<<args, returned>>
  <2>1. CASE Tokenize \/ NextToken_Argument \/ Stopped \/ UNCHANGED vars
    <3>1. UNCHANGED <<args, returned>>
      BY <2>1 DEF Stopped, vars, Tokenize, NextToken_Argument, Reading,
         Ending, Initial_Dash, Initial_Other, Initial_End, Value_Char, Value_End,
         Option_Dash, Option_Other, Option_End, ShortOption_Char, ShortOption_End,
         DashDash_Char, DashDash_End, LongOption_Equals, LongOption_Other,
         LongOption_End
    <3> QED
      BY <3>1
  <2>2. CASE NextToken_Queued
    <3>1. /\ machine = "none" /\ ~EndReturned /\ tokens # <<>>
          /\ returned' = Append(returned, Head(tokens)) /\ args' = args
      BY <2>2 DEF NextToken_Queued, PopFront
    <3>2. /\ returned \o tokens = Promised!SplitAll[cursor - 1]
          /\ NoneEmpty(cursor - 1) /\ cursor - 1 \in 0..Len(args) /\ TypeOK
      BY <1>2, <3>1 DEF IInv, StreamSoFar, NoneEmpty, TypeOK
    <3> QED
      BY <3>1, <3>2, PoppedIsNext DEF Promised!ReturnToken
  <2>3. CASE NextToken_Return
    <3>1. /\ machine = "FinalState" /\ args' = args
          /\ returned' = Append(returned, IF tokens # <<>> THEN Head(tokens)
                                                           ELSE EndOfInput)
      BY <2>3 DEF NextToken_Return, PopFront
    <3>2. /\ TypeOK /\ cursor >= 2 /\ cursor - 1 \in 0..Len(args)
          /\ cursor - 2 \in 0..Len(args) /\ (cursor - 2) + 1 = cursor - 1
          /\ returned = Promised!SplitAll[cursor - 2] /\ NoneEmpty(cursor - 2)
          /\ tokens = Promised!Split(args[cursor - 1])
          /\ tokens = <<>> <=> args[cursor - 1] = <<>>
      BY <1>2, <3>1 DEF IInv, ArgumentOpen, SplitSoFar, StreamSoFar, Arg, NoneEmpty,
         TypeOK
    <3>3. CASE tokens # <<>>
      <4>1. NoneEmpty(cursor - 1)
        BY <3>2, <3>3 DEF NoneEmpty
      <4>2. returned \o tokens = Promised!SplitAll[cursor - 1]
        <5>1. Promised!SplitAll[(cursor - 2) + 1]
                = Promised!SplitAll[cursor - 2]
                    \o Promised!Split(args[(cursor - 2) + 1])
          <6>1. cursor - 2 \in Nat
            BY <3>2
          <6> QED
            BY <6>1, SplitAllStep, Zenon
        <5> QED
          BY <3>2, <5>1, Zenon
      <4>3. /\ Len(returned) < Len(Promised!Stream)
            /\ Head(tokens) = Promised!Stream[Len(returned) + 1]
        BY <3>2, <3>3, <4>1, <4>2, PoppedIsNext
      <4> QED
        BY <3>1, <3>3, <4>3 DEF Promised!ReturnToken
    <3>4. CASE tokens = <<>>
      <4>1. args[(cursor - 2) + 1] = <<>>
        BY <3>2, <3>4
      <4>2. /\ Len(returned) < Len(Promised!Stream)
            /\ EndOfInput = Promised!Stream[Len(returned) + 1]
        BY <3>2, <4>1, EndIsNext
      <4> QED
        BY <3>1, <3>4, <4>2 DEF Promised!ReturnToken
    <3> QED
      BY <3>3, <3>4
  <2>4. CASE NextToken_EndOfInput
    <3>1. /\ machine = "none" /\ ~EndReturned /\ args' = args
          /\ ~HasMoreTokens /\ returned' = Append(returned, EndOfInput)
      BY <2>4 DEF NextToken_EndOfInput
    <3>2. /\ tokens = <<>> /\ cursor - 1 = Len(args) /\ cursor - 1 \in 0..Len(args)
          /\ TypeOK
      <4>1. /\ tokens = <<>> /\ ~(cursor <= Len(args)) /\ TypeOK
            /\ cursor \in 1..Len(args) + 1 /\ Len(args) \in Nat
        BY <1>2, <3>1 DEF HasMoreTokens, IInv, TypeOK
      <4> QED
        BY <4>1
    <3>3. returned = Promised!SplitAll[cursor - 1] /\ NoneEmpty(cursor - 1)
      <4>1. /\ returned \o tokens = Promised!SplitAll[cursor - 1]
            /\ NoneEmpty(cursor - 1) /\ returned \in Seq(Tokens)
        BY <1>2, <3>1 DEF IInv, StreamSoFar, NoneEmpty, TypeOK
      <4>2. returned \o <<>> = returned
        BY <4>1, ConcatEmptySeq
      <4> QED
        BY <3>2, <4>1, <4>2, Zenon
    <3>4. /\ Len(returned) < Len(Promised!Stream)
          /\ EndOfInput = Promised!Stream[Len(returned) + 1]
      BY <3>2, <3>3, EndIsNext
    <3> QED
      BY <3>1, <3>4 DEF Promised!ReturnToken
  <2> QED
    BY <1>2, <2>1, <2>2, <2>3, <2>4 DEF Next, NextToken
<1> QED
  BY <1>1, <1>2, Invariance, PTL DEF Spec, Promised!Safety

=============================================================================

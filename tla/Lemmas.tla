------------------------------- MODULE Lemmas -------------------------------
(***************************************************************************)
(* Facts about natural numbers, sequences and counting that the proofs     *)
(* about the components share.  They say nothing about the program.        *)
(***************************************************************************)
EXTENDS Sequences, FiniteSets, FiniteSetTheorems, SequenceTheorems, TLAPS

-----------------------------------------------------------------------------
(* The least and the greatest element of a set *)

\* A non-empty set of naturals has a least element.
LEMMA LeastExists ==
  ASSUME NEW T \in SUBSET Nat, T # {}
  PROVE  \E x \in T : \A y \in T : x <= y
<1>1. PICK x \in T : \A y \in T : <<y, x>> \notin OpToRel(<, Nat)
  BY NatLessThanWellFounded, WFMin
<1>2. \A y \in T : ~(y < x)
  BY <1>1 DEF OpToRel
<1> QED
  BY <1>2

\* A non-empty set of naturals with a bound has a greatest element.
LEMMA GreatestExists ==
  ASSUME NEW n \in Nat, NEW T \in SUBSET (0..n), T # {}
  PROVE  \E x \in T : \A y \in T : x >= y
<1> DEFINE S == {k \in Nat : \E x \in T : k = n - x}
<1>1. S \in SUBSET Nat /\ S # {}
  <2>1. PICK x \in T : TRUE
    OBVIOUS
  <2>2. n - x \in S
    BY <2>1
  <2> QED
    BY <2>2
<1>2. PICK m \in S : \A k \in S : m <= k
  BY <1>1, LeastExists
<1>3. PICK x \in T : m = n - x
  BY <1>2
<1>4. ASSUME NEW y \in T PROVE x >= y
  <2>1. n - y \in S
    OBVIOUS
  <2>2. m <= n - y
    BY <2>1, <1>2
  <2> QED
    BY <2>2, <1>3
<1> QED
  BY <1>4

\* A set of naturals that contains 0, and with each number the next one,
\* contains all of them.
LEMMA Induction ==
  ASSUME NEW T, 0 \in T, \A n \in Nat : n \in T => n + 1 \in T
  PROVE  \A n \in Nat : n \in T
<1> DEFINE Rest == {n \in Nat : n \notin T}
<1> SUFFICES ASSUME Rest # {} PROVE FALSE
  OBVIOUS
<1>1. PICK least \in Rest : \A n \in Rest : least <= n
  <2>1. Rest \in SUBSET Nat
    OBVIOUS
  <2> HIDE DEF Rest
  <2> QED
    BY <2>1, LeastExists
<1>2. least # 0 /\ least - 1 \in Nat
  OBVIOUS
<1>3. least - 1 \in T
  BY <1>1, <1>2
<1>4. (least - 1) + 1 \in T
  BY <1>2, <1>3
<1> QED
  BY <1>1, <1>4

-----------------------------------------------------------------------------
(* A sequence that is put together piece by piece *)

\* The provers expand \o where it stands; here it is not looked into.
Joined(s, t) == s \o t

\* f has the first k pieces, for k up to n.
PutTogether(pieces, f, n) ==
  f = [k \in 0..n |-> IF k = 0 THEN <<>> ELSE Joined(f[k - 1], pieces[k])]

\* Pieces put together one after the other.
LEMMA PieceAt ==
  ASSUME NEW pieces, NEW f, NEW n \in Nat, PutTogether(pieces, f, n)
  PROVE  /\ f[0] = <<>>
         /\ \A k \in 0..n : k # 0 => f[k] = Joined(f[k - 1], pieces[k])
<1>1. \A k \in 0..n : f[k] = IF k = 0 THEN <<>> ELSE Joined(f[k - 1], pieces[k])
  BY DEF PutTogether
<1> QED
  BY <1>1

\* The first n pieces can be put together.
LEMMA FirstPieces ==
  ASSUME NEW pieces, NEW n \in Nat
  PROVE  \E f : PutTogether(pieces, f, n)
<1> DEFINE T == {m \in Nat : \E f : PutTogether(pieces, f, m)}
<1>1. 0 \in T
  <2>1. PutTogether(pieces, [k \in 0..0 |-> <<>>], 0)
    BY DEF PutTogether
  <2> QED
    BY <2>1
<1>2. ASSUME NEW m \in Nat, m \in T PROVE m + 1 \in T
  <2>1. PICK f : PutTogether(pieces, f, m)
    BY <1>2
  <2> DEFINE g == [k \in 0..m + 1 |-> IF k = m + 1 THEN Joined(f[m], pieces[m + 1]) ELSE f[k]]
             Next_(k) == IF k = 0 THEN <<>> ELSE Joined(g[k - 1], pieces[k])
  <2>2. ASSUME NEW k \in 0..m + 1 PROVE g[k] = Next_(k)
    <3>1. CASE k = m + 1
      <4>1. g[k] = Joined(f[m], pieces[m + 1])
        BY <3>1
      <4>2. g[m] = f[m]
        OBVIOUS
      <4> HIDE DEF g
      <4> QED
        BY <3>1, <4>1, <4>2
    <3>2. CASE k \in 0..m
      <4>1. g[k] = f[k] /\ (k # 0 => g[k - 1] = f[k - 1])
        BY <3>2
      <4> HIDE DEF g
      <4> QED
        BY <2>1, <3>2, <4>1, PieceAt
    <3> QED
      BY <3>1, <3>2
  <2>3. g = [k \in 0..m + 1 |-> g[k]]
    OBVIOUS
  <2>4. PutTogether(pieces, g, m + 1)
    <3> HIDE DEF g
    <3> QED
      BY <2>2, <2>3 DEF PutTogether
  <2> QED
    BY <2>4
<1> HIDE DEF T
<1>3. n \in T
  BY <1>1, <1>2, Induction
<1> QED
  BY <1>3 DEF T

\* However many pieces there are, the first ones are the same.
LEMMA SamePieces ==
  ASSUME NEW pieces, NEW f, NEW n \in Nat, PutTogether(pieces, f, n),
         NEW g, NEW m \in Nat, PutTogether(pieces, g, m),
         NEW i \in Nat, i <= n, i <= m
  PROVE  f[i] = g[i]
<1> DEFINE T == {k \in Nat : k <= n /\ k <= m => f[k] = g[k]}
<1>1. 0 \in T
  BY PieceAt
<1>2. ASSUME NEW k \in Nat, k \in T PROVE k + 1 \in T
  <2> SUFFICES ASSUME k + 1 <= n, k + 1 <= m PROVE f[k + 1] = g[k + 1]
    OBVIOUS
  <2>1. f[k] = g[k]
    BY <1>2
  <2>2. f[k + 1] = Joined(f[(k + 1) - 1], pieces[k + 1])
    BY PieceAt
  <2>3. g[k + 1] = Joined(g[(k + 1) - 1], pieces[k + 1])
    BY PieceAt
  <2> QED
    BY <2>1, <2>2, <2>3
<1> HIDE DEF T
<1>3. i \in T
  BY <1>1, <1>2, Induction
<1> QED
  BY <1>3 DEF T

\* The recursive definition of the first n pieces, for every n, defines a
\* function.
LEMMA PiecesDefined ==
  ASSUME NEW pieces
  PROVE  \E f : f = [n \in Nat |-> IF n = 0 THEN <<>> ELSE f[n - 1] \o pieces[n]]
<1> DEFINE UpTo(n) == CHOOSE f : PutTogether(pieces, f, n)
           f == [n \in Nat |-> UpTo(n)[n]]
           Next_(n) == IF n = 0 THEN <<>> ELSE Joined(f[n - 1], pieces[n])
<1>1. \A n \in Nat : PutTogether(pieces, UpTo(n), n)
  BY FirstPieces
<1> HIDE DEF UpTo
<1>2. \A n \in Nat : f[n] = UpTo(n)[n]
  OBVIOUS
<1>3. f = [n \in Nat |-> f[n]]
  OBVIOUS
<1> HIDE DEF f
<1>4. ASSUME NEW n \in Nat PROVE f[n] = Next_(n)
  <2>1. CASE n = 0
    BY <1>1, <1>2, <2>1, PieceAt
  <2>2. CASE n # 0
    <3>1. UpTo(n)[n] = Joined(UpTo(n)[n - 1], pieces[n])
      BY <1>1, <2>2, PieceAt
    <3>2. n - 1 \in Nat /\ f[n - 1] = UpTo(n - 1)[n - 1]
      BY <1>2, <2>2
    <3>3. UpTo(n)[n - 1] = UpTo(n - 1)[n - 1]
      BY <1>1, <3>2, SamePieces
    <3> QED
      BY <1>2, <2>2, <3>1, <3>2, <3>3
  <2> QED
    BY <2>1, <2>2
<1>5. f = [n \in Nat |-> Next_(n)]
  <2> HIDE DEF Next_
  <2> QED
    BY <1>3, <1>4
<1> HIDE DEF f
<1> QED
  BY <1>5, Zenon DEF Joined

-----------------------------------------------------------------------------
(* A function that is defined by recursion *)

\* f has the first n steps from base.
Recursive(step, base, f, n) ==
  f = [k \in 0..n |-> IF k = 0 THEN base ELSE step[k][f[k - 1]]]

\* The first n values of a recursion, one from the other.
LEMMA RecursiveAt ==
  ASSUME NEW step, NEW base, NEW f, NEW n \in Nat, Recursive(step, base, f, n)
  PROVE  /\ f[0] = base
         /\ \A k \in 0..n : k # 0 => f[k] = step[k][f[k - 1]]
<1>1. \A k \in 0..n : f[k] = IF k = 0 THEN base ELSE step[k][f[k - 1]]
  BY DEF Recursive
<1> QED
  BY <1>1

\* They exist.
LEMMA FirstSteps ==
  ASSUME NEW step, NEW base, NEW n \in Nat
  PROVE  \E f : Recursive(step, base, f, n)
<1> DEFINE T == {m \in Nat : \E f : Recursive(step, base, f, m)}
<1>1. 0 \in T
  <2>1. Recursive(step, base, [k \in 0..0 |-> base], 0)
    BY DEF Recursive
  <2> QED
    BY <2>1
<1>2. ASSUME NEW m \in Nat, m \in T PROVE m + 1 \in T
  <2>1. PICK f : Recursive(step, base, f, m)
    BY <1>2
  <2> DEFINE g == [k \in 0..m + 1 |-> IF k = m + 1 THEN step[m + 1][f[m]] ELSE f[k]]
             Next_(k) == IF k = 0 THEN base ELSE step[k][g[k - 1]]
  <2>2. ASSUME NEW k \in 0..m + 1 PROVE g[k] = Next_(k)
    <3>1. CASE k = m + 1
      <4>1. g[k] = step[m + 1][f[m]]
        BY <3>1
      <4>2. g[m] = f[m]
        OBVIOUS
      <4> HIDE DEF g
      <4> QED
        BY <3>1, <4>1, <4>2
    <3>2. CASE k \in 0..m
      <4>1. g[k] = f[k] /\ (k # 0 => g[k - 1] = f[k - 1])
        BY <3>2
      <4> HIDE DEF g
      <4> QED
        BY <2>1, <3>2, <4>1, RecursiveAt
    <3> QED
      BY <3>1, <3>2
  <2>3. g = [k \in 0..m + 1 |-> g[k]]
    OBVIOUS
  <2>4. Recursive(step, base, g, m + 1)
    <3> HIDE DEF g
    <3> QED
      BY <2>2, <2>3 DEF Recursive
  <2> QED
    BY <2>4
<1> HIDE DEF T
<1>3. n \in T
  BY <1>1, <1>2, Induction
<1> QED
  BY <1>3 DEF T

\* And there is only one way to compute them.
LEMMA SameSteps ==
  ASSUME NEW step, NEW base,
         NEW f, NEW n \in Nat, Recursive(step, base, f, n),
         NEW g, NEW m \in Nat, Recursive(step, base, g, m),
         NEW i \in Nat, i <= n, i <= m
  PROVE  f[i] = g[i]
<1> DEFINE T == {k \in Nat : k <= n /\ k <= m => f[k] = g[k]}
<1>1. 0 \in T
  BY RecursiveAt
<1>2. ASSUME NEW k \in Nat, k \in T PROVE k + 1 \in T
  <2> SUFFICES ASSUME k + 1 <= n, k + 1 <= m PROVE f[k + 1] = g[k + 1]
    OBVIOUS
  <2>1. f[k] = g[k]
    BY <1>2
  <2>2. f[k + 1] = step[k + 1][f[(k + 1) - 1]]
    BY RecursiveAt
  <2>3. g[k + 1] = step[k + 1][g[(k + 1) - 1]]
    BY RecursiveAt
  <2> QED
    BY <2>1, <2>2, <2>3
<1> HIDE DEF T
<1>3. i \in T
  BY <1>1, <1>2, Induction
<1> QED
  BY <1>3 DEF T

RecursionExists(step, base) ==
  \E f : f = [n \in Nat |-> IF n = 0 THEN base ELSE step[n][f[n - 1]]]

\* A recursive definition over the naturals defines a function.
LEMMA RecursionDefined ==
  ASSUME NEW step, NEW base
  PROVE  RecursionExists(step, base)
<1> DEFINE UpTo(n) == CHOOSE f : Recursive(step, base, f, n)
           f == [n \in Nat |-> UpTo(n)[n]]
           Next_(n) == IF n = 0 THEN base ELSE step[n][f[n - 1]]
<1>1. \A n \in Nat : Recursive(step, base, UpTo(n), n)
  BY FirstSteps
<1> HIDE DEF UpTo
<1>2. \A n \in Nat : f[n] = UpTo(n)[n]
  OBVIOUS
<1>3. f = [n \in Nat |-> f[n]]
  OBVIOUS
<1> HIDE DEF f
<1>4. ASSUME NEW n \in Nat PROVE f[n] = Next_(n)
  <2>1. CASE n = 0
    BY <1>1, <1>2, <2>1, RecursiveAt
  <2>2. CASE n # 0
    <3>1. UpTo(n)[n] = step[n][UpTo(n)[n - 1]]
      BY <1>1, <2>2, RecursiveAt
    <3>2. n - 1 \in Nat /\ f[n - 1] = UpTo(n - 1)[n - 1]
      BY <1>2, <2>2
    <3>3. UpTo(n)[n - 1] = UpTo(n - 1)[n - 1]
      BY <1>1, <3>2, SameSteps
    <3> QED
      BY <1>2, <2>2, <3>1, <3>2, <3>3
  <2> QED
    BY <2>1, <2>2
<1>5. f = [n \in Nat |-> Next_(n)]
  <2> HIDE DEF Next_
  <2> QED
    BY <1>3, <1>4
<1> HIDE DEF f
<1> QED
  BY <1>5 DEF RecursionExists

-----------------------------------------------------------------------------
(* Reading a sequence from the front *)

\* A part that ends one element later.
LEMMA TakeOneMore ==
  ASSUME NEW S, NEW s \in Seq(S), NEW m \in 1..Len(s) + 1,
         NEW k \in m - 1..Len(s) - 1
  PROVE  SubSeq(s, m, k + 1) = Append(SubSeq(s, m, k), s[k + 1])
<1>1. Len(s) \in Nat /\ m \in 1..Len(s) /\ k + 1 \in m..Len(s)
  OBVIOUS
<1>2. SubSeq(s, m, k + 1) = SubSeq(s, m, (k + 1) - 1) \o <<s[k + 1]>>
  BY <1>1, SubSeqRecursiveSecond
<1>3. SubSeq(s, m, k) \in Seq(S) /\ s[k + 1] \in S
  BY <1>1, SubSeqProperties
<1>4. (k + 1) - 1 = k
  OBVIOUS
<1> QED
  BY <1>2, <1>3, <1>4, AppendIsConcat, Zenon

\* A part of one element.
LEMMA OneElement ==
  ASSUME NEW S, NEW s \in Seq(S), NEW k \in 1..Len(s)
  PROVE  SubSeq(s, k, k) = <<s[k]>>
<1>1. k \in Nat /\ (k - 1) + 1 = k /\ k - 1 \in k - 1..Len(s) - 1
  OBVIOUS
<1>2. SubSeq(s, k, (k - 1) + 1) = Append(SubSeq(s, k, k - 1), s[(k - 1) + 1])
  BY <1>1, TakeOneMore
<1>3. SubSeq(s, k, k - 1) = <<>>
  BY <1>1, SubSeqEmpty
<1>4. \A x : Append(<<>>, x) = <<x>>
  OBVIOUS
<1> QED
  BY <1>1, <1>2, <1>3, <1>4

\* What is left after k elements, of a sequence that has more than these.
LEMMA RestOfSequence ==
  ASSUME NEW S, NEW s \in Seq(S), NEW k \in 0..Len(s)
  PROVE  LET rest == SubSeq(s, k + 1, Len(s))
         IN  /\ rest \in Seq(S) /\ Len(rest) = Len(s) - k
             /\ rest = <<>> <=> k = Len(s)
             /\ k < Len(s) => /\ Head(rest) = s[k + 1]
                              /\ Tail(rest) = SubSeq(s, k + 2, Len(s))
<1> DEFINE rest == SubSeq(s, k + 1, Len(s))
<1>1. rest \in Seq(S) /\ Len(rest) = Len(s) - k
  BY SubSeqProperties
<1>2. rest = <<>> <=> k = Len(s)
  <2> HIDE DEF rest
  <2>1. rest = <<>> <=> Len(rest) = 0
    BY <1>1, EmptySeq
  <2> QED
    BY <1>1, <2>1
<1>3. ASSUME k < Len(s)
      PROVE  Head(rest) = s[k + 1] /\ Tail(rest) = SubSeq(s, k + 2, Len(s))
  <2>1. k + 1 \in 1..Len(s) /\ Len(s) \in k + 1..Len(s) /\ (k + 1) + 1 = k + 2
    BY <1>3
  <2> QED
    BY <2>1, HeadTailOfSubSeq, Zenon
<1> QED
  BY <1>1, <1>2, <1>3

\* The first element of the second sequence moves to the end of the first.
LEMMA MoveOne ==
  ASSUME NEW S, NEW s \in Seq(S), NEW t \in Seq(S), t # <<>>
  PROVE  /\ Head(t) = t[1] /\ 1 \in DOMAIN t
         /\ Append(s, Head(t)) \o Tail(t) = s \o t
<1>1. Len(t) \in Nat \ {0} /\ 1 \in 1..Len(t) /\ Len(t) \in 1..Len(t)
  BY EmptySeq
<1>2. Head(t) = t[1] /\ 1 \in DOMAIN t
  BY <1>1
<1>3. Head(t) \in S /\ Tail(t) \in Seq(S) /\ <<Head(t)>> \in Seq(S)
  BY HeadTailProperties
<1>4. t = <<Head(t)>> \o Tail(t)
  <2>1. SubSeq(t, 1, Len(t)) = t
    BY SubSeqFull
  <2>2. SubSeq(t, 1, Len(t)) = <<t[1]>> \o SubSeq(t, 1 + 1, Len(t))
    BY <1>1, SubSeqRecursiveFirst
  <2>3. Tail(t) = SubSeq(t, 2, Len(t)) /\ 1 + 1 = 2
    BY TailIsSubSeq
  <2> QED
    BY <1>2, <2>1, <2>2, <2>3, Zenon
<1>5. Append(s, Head(t)) = s \o <<Head(t)>>
  BY <1>3, AppendIsConcat
<1>6. (s \o <<Head(t)>>) \o Tail(t) = s \o (<<Head(t)>> \o Tail(t))
  BY <1>3, ConcatAssociative
<1>7. Append(s, Head(t)) \o Tail(t) = s \o t
  BY <1>4, <1>5, <1>6, Zenon
<1> QED
  BY <1>2, <1>7

\* Where the second sequence begins in a longer one.
LEMMA SecondBegins ==
  ASSUME NEW S, NEW s \in Seq(S), NEW t \in Seq(S), t # <<>>, NEW u \in Seq(S),
         NEW e \in S
  PROVE  LET all == Append((s \o t) \o u, e)
         IN  Len(s) < Len(all) /\ all[Len(s) + 1] = Head(t)
<1> DEFINE first == s \o t
           most == first \o u
           all == Append(most, e)
<1>1. /\ Len(s) \in Nat /\ Len(t) \in Nat \ {0} /\ Len(u) \in Nat
      /\ Head(t) = t[1]
  BY EmptySeq, MoveOne
<1>2. /\ first \in Seq(S) /\ Len(first) = Len(s) + Len(t)
      /\ \A i \in 1..Len(s) + Len(t) :
           first[i] = IF i <= Len(s) THEN s[i] ELSE t[i - Len(s)]
  BY ConcatProperties
<1>3. first[Len(s) + 1] = t[1]
  <2>1. /\ Len(s) + 1 \in 1..Len(s) + Len(t) /\ ~(Len(s) + 1 <= Len(s))
        /\ (Len(s) + 1) - Len(s) = 1
    BY <1>1
  <2> HIDE DEF first
  <2> QED
    BY <1>2, <2>1
<1>4. first \in Seq(S)
  BY <1>2
<1> HIDE DEF first
<1>5. /\ most \in Seq(S) /\ Len(most) = Len(first) + Len(u)
      /\ \A i \in 1..Len(first) + Len(u) :
           most[i] = IF i <= Len(first) THEN first[i] ELSE u[i - Len(first)]
  BY <1>4, ConcatProperties
<1> HIDE DEF most
<1>6. most \in Seq(S) /\ most[Len(s) + 1] = t[1] /\ Len(s) + 1 \in 1..Len(most)
  BY <1>1, <1>2, <1>3, <1>5
<1>7. Len(all) = Len(most) + 1 /\ all[Len(s) + 1] = most[Len(s) + 1]
  <2>1. /\ most \in Seq(S)
        /\ Len(all) = Len(most) + 1
        /\ \A i \in 1..Len(most) : all[i] = most[i]
    BY <1>6, AppendProperties
  <2> QED
    BY <1>6, <2>1
<1>8. Len(s) < Len(all) /\ all[Len(s) + 1] = Head(t)
  <2>1. Len(most) \in Nat /\ Len(s) + 1 <= Len(most)
    BY <1>6
  <2> HIDE DEF all
  <2> QED
    BY <1>1, <1>6, <1>7, <2>1
<1> QED
  BY <1>8 DEF first, most

-----------------------------------------------------------------------------
(* Counting *)

\* How many of the first n positions are in T.
CountTo(T, n) == Cardinality(T \cap (1..n))

\* A count is a natural number, 0 when there is nothing to count.
LEMMA CountIsNatural ==
  ASSUME NEW T, NEW n \in Nat
  PROVE  /\ CountTo(T, n) \in Nat /\ IsFiniteSet(T \cap (1..n))
         /\ CountTo(T, n) = 0 <=> T \cap (1..n) = {}
<1>1. IsFiniteSet(1..n)
  BY FS_Interval
<1>2. IsFiniteSet(T \cap (1..n))
  BY <1>1, FS_Subset
<1> QED
  BY <1>2, FS_CardinalityType, FS_EmptySet DEF CountTo

\* One position more.
LEMMA CountOneMore ==
  ASSUME NEW T, NEW n \in Nat
  PROVE  CountTo(T, n + 1) = CountTo(T, n) + IF n + 1 \in T THEN 1 ELSE 0
<1> DEFINE S == T \cap (1..n)
<1>1. IsFiniteSet(S) /\ CountTo(T, n) \in Nat
  BY CountIsNatural
<1>2. n + 1 \notin S
  OBVIOUS
<1>3. T \cap (1..n + 1) = IF n + 1 \in T THEN S \cup {n + 1} ELSE S
  <2>1. \A i : i \in 1..n + 1 <=> i \in 1..n \/ i = n + 1
    OBVIOUS
  <2> QED
    BY <2>1
<1> HIDE DEF S
<1>4. Cardinality(S \cup {n + 1}) = Cardinality(S) + 1
  BY <1>1, <1>2, FS_AddElement
<1>5. CountTo(T, n) = Cardinality(S)
  BY DEF CountTo, S
<1>6. CASE n + 1 \in T
  BY <1>3, <1>4, <1>5, <1>6 DEF CountTo
<1>7. CASE n + 1 \notin T
  <2>1. CountTo(T, n + 1) = Cardinality(S)
    BY <1>3, <1>7 DEF CountTo
  <2> QED
    BY <1>1, <1>5, <1>7, <2>1
<1> QED
  BY <1>6, <1>7

\* Sets that agree on the positions counted have the same count.
LEMMA SameCount ==
  ASSUME NEW S, NEW T, NEW n, \A i \in 1..n : i \in S <=> i \in T
  PROVE  CountTo(S, n) = CountTo(T, n)
<1>1. S \cap (1..n) = T \cap (1..n)
  OBVIOUS
<1> QED
  BY <1>1 DEF CountTo

\* How often e is in the sequence s.
Times(s, e) == Cardinality({i \in DOMAIN s : s[i] = e})

\* The positions of e, in a set that does not depend on the length.
At(s, e) == {i \in Nat : s[i] = e}

\* How often e occurs, as a count of positions.
LEMMA TimesIsCount ==
  ASSUME NEW S, NEW s \in Seq(S), NEW e
  PROVE  /\ Times(s, e) = CountTo(At(s, e), Len(s))
         /\ Times(s, e) \in Nat
         /\ s = <<>> => Times(s, e) = 0
<1>1. DOMAIN s = 1..Len(s) /\ Len(s) \in Nat
  OBVIOUS
<1>2. {i \in DOMAIN s : s[i] = e} = At(s, e) \cap (1..Len(s))
  BY <1>1 DEF At
<1>3. Times(s, e) = CountTo(At(s, e), Len(s))
  BY <1>2 DEF Times, CountTo
<1>4. s = <<>> => At(s, e) \cap (1..Len(s)) = {}
  BY <1>1
<1>5. CountTo(At(s, e), Len(s)) \in Nat
  BY <1>1, CountIsNatural
<1>6. s = <<>> => CountTo(At(s, e), Len(s)) = 0
  BY <1>1, <1>4, CountIsNatural, Zenon
<1> QED
  BY <1>3, <1>5, <1>6, Zenon

\* How often e occurs with one more element at the end.
LEMMA TimesAppended ==
  ASSUME NEW S, NEW s \in Seq(S), NEW x \in S, NEW e
  PROVE  Times(Append(s, x), e) = Times(s, e) + IF x = e THEN 1 ELSE 0
<1> DEFINE t == Append(s, x)
           n == Len(s)
<1>1. t \in Seq(S) /\ Len(t) = n + 1 /\ n \in Nat /\ n + 1 \in 1..n + 1
  OBVIOUS
<1>2. t[n + 1] = x /\ \A i \in 1..n : t[i] = s[i]
  BY <1>1
<1> HIDE DEF t, n
<1>3. Times(t, e) = CountTo(At(t, e), n + 1)
  BY <1>1, TimesIsCount
<1>4. Times(s, e) = CountTo(At(s, e), n)
  BY TimesIsCount DEF n
<1>5. CountTo(At(t, e), n + 1)
        = CountTo(At(t, e), n) + IF n + 1 \in At(t, e) THEN 1 ELSE 0
  BY <1>1, CountOneMore
<1>6. n + 1 \in At(t, e) <=> x = e
  BY <1>1, <1>2 DEF At
<1>7. CountTo(At(t, e), n) = CountTo(At(s, e), n)
  <2>1. \A i \in 1..n : i \in At(t, e) <=> i \in At(s, e)
    BY <1>1, <1>2 DEF At
  <2> QED
    BY <2>1, SameCount
<1> QED
  BY <1>3, <1>4, <1>5, <1>6, <1>7 DEF t

\* How often e occurs without the first element.
LEMMA TimesBehindHead ==
  ASSUME NEW S, NEW s \in Seq(S), s # <<>>, NEW e
  PROVE  Times(s, e) = Times(Tail(s), e) + IF Head(s) = e THEN 1 ELSE 0
<1> DEFINE t == Tail(s)
           n == Len(t)
           first == IF Head(s) = e THEN 1 ELSE 0
           P == {m \in Nat : m <= n =>
                   CountTo(At(s, e), m + 1) = CountTo(At(t, e), m) + first}
<1>1. /\ t \in Seq(S) /\ n \in Nat /\ Len(s) = n + 1 /\ Head(s) = s[1]
      /\ \A i \in 1..n : t[i] = s[i + 1]
  OBVIOUS
<1> HIDE DEF t, n
<1>2. 0 \in P
  <2>1. CountTo(At(s, e), 0) = 0 /\ CountTo(At(t, e), 0) = 0
    <3>1. 1..0 = {} /\ 0 \in Nat
      OBVIOUS
    <3> QED
      BY <3>1, CountIsNatural
  <2>2. CountTo(At(s, e), 0 + 1)
          = CountTo(At(s, e), 0) + IF 0 + 1 \in At(s, e) THEN 1 ELSE 0
    BY CountOneMore
  <2>3. 0 + 1 \in At(s, e) <=> Head(s) = e
    BY <1>1 DEF At
  <2> QED
    BY <2>1, <2>2, <2>3
<1>3. ASSUME NEW m \in Nat, m \in P PROVE m + 1 \in P
  <2> SUFFICES ASSUME m + 1 <= n
               PROVE  CountTo(At(s, e), (m + 1) + 1)
                        = CountTo(At(t, e), m + 1) + first
    OBVIOUS
  <2>1. m <= n /\ m + 1 \in 1..n /\ m + 1 \in Nat
    BY <1>1
  <2>2. CountTo(At(s, e), m + 1) = CountTo(At(t, e), m) + first
    BY <1>3, <2>1
  <2>3. (m + 1) + 1 \in At(s, e) <=> m + 1 \in At(t, e)
    BY <1>1, <2>1 DEF At
  <2>4. CountTo(At(s, e), (m + 1) + 1)
          = CountTo(At(s, e), m + 1) + IF (m + 1) + 1 \in At(s, e) THEN 1 ELSE 0
    BY <2>1, CountOneMore
  <2>5. CountTo(At(t, e), m + 1)
          = CountTo(At(t, e), m) + IF m + 1 \in At(t, e) THEN 1 ELSE 0
    BY CountOneMore
  <2>6. CountTo(At(t, e), m) \in Nat /\ first \in Nat
    BY CountIsNatural
  <2> HIDE DEF first, P
  <2> QED
    BY <2>2, <2>3, <2>4, <2>5, <2>6
<1>4. n \in P
  <2> HIDE DEF P
  <2> QED
    BY <1>1, <1>2, <1>3, Induction
<1>5. CountTo(At(s, e), n + 1) = CountTo(At(t, e), n) + first
  BY <1>1, <1>4
<1>6. Times(s, e) = CountTo(At(s, e), n + 1) /\ Times(t, e) = CountTo(At(t, e), n)
  BY <1>1, TimesIsCount DEF n
<1> QED
  BY <1>5, <1>6 DEF t

\* How often e occurs without the last element.
LEMMA TimesBeforeLast ==
  ASSUME NEW S, NEW s \in Seq(S), s # <<>>, NEW e
  PROVE  LET front == SubSeq(s, 1, Len(s) - 1)
         IN  Times(s, e) = Times(front, e) + IF s[Len(s)] = e THEN 1 ELSE 0
<1> DEFINE front == SubSeq(s, 1, Len(s) - 1)
           last == s[Len(s)]
<1>1. Len(s) \in Nat \ {0}
  BY EmptySeq
<1>2. front \in Seq(S) /\ last \in S
  BY <1>1
<1>3. s = Append(front, last)
  <2>1. 1 \in 1..Len(s) + 1 /\ Len(s) - 1 \in 1 - 1..Len(s) - 1
    BY <1>1
  <2>2. SubSeq(s, 1, (Len(s) - 1) + 1)
          = Append(SubSeq(s, 1, Len(s) - 1), s[(Len(s) - 1) + 1])
    BY <2>1, TakeOneMore
  <2>3. (Len(s) - 1) + 1 = Len(s) /\ SubSeq(s, 1, Len(s)) = s
    BY <1>1
  <2> QED
    BY <2>2, <2>3
<1> HIDE DEF front, last
<1>4. Times(Append(front, last), e) = Times(front, e) + IF last = e THEN 1 ELSE 0
  BY <1>2, TimesAppended
<1> QED
  BY <1>3, <1>4 DEF front, last

\* A beginning of a sequence has nothing more often than the sequence.
LEMMA TimesInBeginning ==
  ASSUME NEW S, NEW s \in Seq(S), NEW p \in Seq(S), Len(p) <= Len(s),
         \A i \in 1..Len(p) : p[i] = s[i], NEW e
  PROVE  /\ Times(p, e) <= Times(s, e)
         /\ Len(p) = Len(s) => Times(p, e) = Times(s, e)
<1> DEFINE A == {i \in DOMAIN p : p[i] = e}
           B == {i \in DOMAIN s : s[i] = e}
<1>1. DOMAIN p = 1..Len(p) /\ DOMAIN s = 1..Len(s)
        /\ Len(p) \in Nat /\ Len(s) \in Nat
  OBVIOUS
<1>2. A \in SUBSET B
  BY <1>1
<1>3. IsFiniteSet(B)
  <2>1. IsFiniteSet(1..Len(s))
    BY <1>1, FS_Interval
  <2>2. B \in SUBSET (1..Len(s))
    BY <1>1
  <2> HIDE DEF B
  <2> QED
    BY <2>1, <2>2, FS_Subset
<1>4. Cardinality(A) <= Cardinality(B)
  <2> HIDE DEF A, B
  <2> QED
    BY <1>2, <1>3, FS_Subset
<1>5. Len(p) = Len(s) => A = B
  BY <1>1
<1> QED
  BY <1>4, <1>5 DEF Times


\* One other element is not e.
LEMMA TimesInOne ==
  ASSUME NEW S, NEW s \in Seq(S), Len(s) = 1, NEW e, s[1] # e
  PROVE  Times(s, e) = 0
<1>1. DOMAIN s = 1..1 /\ \A i \in 1..1 : i = 1
  OBVIOUS
<1>2. {i \in DOMAIN s : s[i] = e} = {}
  BY <1>1
<1> QED
  BY <1>2, FS_EmptySet DEF Times
=============================================================================

----------------------------- MODULE DataLemmas -----------------------------
(***************************************************************************)
(* Facts about numbers, sequences and recursion that the proofs about      *)
(* PrefixMap and Listing rest on: the data their operators are made of,    *)
(* and no state.                                                           *)
(***************************************************************************)
EXTENDS Integers, SequencesExt, SequenceTheorems, WellFoundedInduction, TLAPS

---------------------------------------------------------------------------
(* Numbers *)

\* A set of natural numbers that is not empty has a minimum.
LEMMA LeastExists ==
  ASSUME NEW X \in SUBSET Nat, X # {}
  PROVE  \E x \in X : \A y \in X : x <= y
<1>. DEFINE R == OpToRel(<, Nat)
<1>1. IsWellFoundedOn(R, Nat)
  BY NatLessThanWellFounded
<1>2. \A x, y \in Nat : y < x => <<y, x>> \in R
  BY DEF OpToRel
<1>. HIDE DEF R
<1>3. PICK x \in X : \A y \in X : ~ (<<y, x>> \in R)
  BY <1>1, WFMin
<1>4. ASSUME NEW y \in X PROVE x <= y
  <2>1. x \in Nat /\ y \in Nat
    OBVIOUS
  <2>2. ~ (y < x)
    BY <1>2, <1>3, <2>1
  <2>. QED BY <2>1, <2>2
<1>. QED BY <1>4

LEMMA MinFacts ==
  ASSUME NEW X \in SUBSET Nat, X # {}
  PROVE  Min(X) \in X /\ \A y \in X : Min(X) <= y
<1>1. \E x \in X : \A y \in X : x <= y
  BY LeastExists
<1>. QED BY <1>1 DEF Min

\* And a maximum, if it is bounded.
LEMMA MaxFacts ==
  ASSUME NEW X \in SUBSET Nat, X # {}, NEW n \in Nat, \A x \in X : x <= n
  PROVE  Max(X) \in X /\ \A y \in X : y <= Max(X)
<1>. DEFINE Y == {m \in Nat : \A x \in X : x <= m}
<1>1. PICK m \in Y : \A y \in Y : m <= y
  <2>1. n \in Y
    OBVIOUS
  <2>. HIDE DEF Y
  <2>2. Y \in SUBSET Nat
    BY DEF Y
  <2>. QED BY <2>1, <2>2, LeastExists
<1>2. m \in X
  <2>1. SUFFICES ASSUME m \notin X PROVE FALSE
    OBVIOUS
  <2>2. PICK x \in X : TRUE
    OBVIOUS
  <2>3. x < m /\ m \in Nat /\ x \in Nat
    BY <1>1, <2>1, <2>2
  <2>4. m - 1 \in Y
    BY <1>1, <2>1, <2>3
  <2>. QED BY <1>1, <2>3, <2>4
<1>. QED BY <1>1, <1>2 DEF Max

\* Induction, over a set of numbers.
LEMMA Induct ==
  ASSUME NEW X, 0 \in X, \A n \in Nat : n \in X => n + 1 \in X
  PROVE  \A n \in Nat : n \in X
<1>1. SUFFICES ASSUME Nat \ X # {} PROVE FALSE
  OBVIOUS
<1>2. PICK m \in Nat \ X : \A y \in Nat \ X : m <= y
  BY <1>1, LeastExists
<1>3. m - 1 \in Nat /\ m - 1 \in X
  BY <1>2
<1>. QED BY <1>2, <1>3

---------------------------------------------------------------------------
(* Recursion *)

\* g is what the recursion gives for 0 .. k.
Upto(T, init, step, k, g) ==
  /\ g \in [0 .. k -> T] /\ g[0] = init
  /\ \A n \in 0 .. k - 1 : g[n + 1] = step[<<n + 1, g[n]>>]

\* A function may be defined by recursion on 0 .. k.
LEMMA Recursion ==
  ASSUME NEW T, NEW init \in T, NEW step \in [Nat \X T -> T], NEW k \in Nat
  PROVE  \E g : Upto(T, init, step, k, g)
<1>. DEFINE X == {j \in Nat : \E g : Upto(T, init, step, j, g)}
<1>1. 0 \in X
  <2>1. Upto(T, init, step, 0, [i \in 0 .. 0 |-> init])
    BY DEF Upto
  <2>. QED BY <2>1
<1>2. ASSUME NEW j \in Nat, j \in X PROVE j + 1 \in X
  <2>1. PICK g : Upto(T, init, step, j, g)
    BY <1>2
  <2>. DEFINE h == [i \in 0 .. j + 1 |-> IF i = j + 1 THEN step[<<j + 1, g[j]>>] ELSE g[i]]
  <2>2. g \in [0 .. j -> T] /\ g[0] = init /\ \A n \in 0 .. j - 1 : g[n + 1] = step[<<n + 1, g[n]>>]
    BY <2>1 DEF Upto
  <2>3. g[j] \in T /\ <<j + 1, g[j]>> \in Nat \X T
    BY <2>2
  <2>4. step[<<j + 1, g[j]>>] \in T
    BY <2>3
  <2>5. h \in [0 .. j + 1 -> T]
    BY <2>2, <2>4
  <2>6. \A i \in 0 .. j : h[i] = g[i]
    BY <2>2
  <2>7. h[j + 1] = step[<<j + 1, g[j]>>]
    OBVIOUS
  <2>. HIDE DEF h
  <2>8. ASSUME NEW n \in 0 .. (j + 1) - 1 PROVE h[n + 1] = step[<<n + 1, h[n]>>]
    <3>1. CASE n = j
      BY <2>6, <2>7, <3>1
    <3>2. CASE n # j
      BY <2>2, <2>6, <3>2
    <3>. QED BY <3>1, <3>2
  <2>9. Upto(T, init, step, j + 1, h)
    BY <2>2, <2>5, <2>6, <2>8 DEF Upto
  <2>. QED BY <2>9
<1>. HIDE DEF X
<1>3. k \in X
  BY <1>1, <1>2, Induct
<1>. QED BY <1>3 DEF X
---------------------------------------------------------------------------
(* Sequences *)

\* A prefix, element by element.
LEMMA PrefixFacts ==
  ASSUME NEW S, NEW s \in Seq(S), NEW t \in Seq(S)
  PROVE  IsPrefix(s, t) <=> Len(s) <= Len(t) /\ \A i \in 1 .. Len(s) : s[i] = t[i]
<1>1. Len(s) \in Nat /\ Len(t) \in Nat /\ SubSeq(s, 1, Len(s)) = s
  BY LenProperties, SubSeqFull
<1>2. SUFFICES ASSUME Len(s) <= Len(t)
               PROVE  s = SubSeq(t, 1, Len(s)) <=> \A i \in 1 .. Len(s) : s[i] = t[i]
  BY <1>1 DEF IsPrefix
<1>3. /\ SubSeq(t, 1, Len(s)) \in Seq(S) /\ Len(SubSeq(t, 1, Len(s))) = Len(s)
      /\ \A i \in 1 .. Len(s) : SubSeq(t, 1, Len(s))[i] = t[i]
  <2>1. \A i \in 1 .. Len(s) : t[i] \in S
    BY <1>1, <1>2, ElementOfSeq
  <2>. QED BY <1>1, <2>1, SubSeqProperties
<1>4. ASSUME \A i \in 1 .. Len(s) : s[i] = t[i] PROVE s = SubSeq(t, 1, Len(s))
  BY <1>3, <1>4, SeqEqual
<1>. QED BY <1>3, <1>4

\* What is left of a sequence from n on.
LEMMA RestFacts ==
  ASSUME NEW S, NEW s \in Seq(S), NEW n \in Nat \ {0}, n <= Len(s) + 1
  PROVE  /\ SubSeq(s, n, Len(s)) \in Seq(S)
         /\ Len(SubSeq(s, n, Len(s))) = Len(s) - n + 1
         /\ \A i \in 1 .. Len(s) - n + 1 : SubSeq(s, n, Len(s))[i] = s[n + i - 1]
<1>1. Len(s) \in Nat
  BY LenProperties
<1>2. \A i \in n .. Len(s) : s[i] \in S
  BY <1>1, ElementOfSeq
<1>. QED BY <1>1, <1>2, SubSeqProperties

\* What stands before n + 1.
LEMMA HeadFacts ==
  ASSUME NEW S, NEW s \in Seq(S), NEW n \in Nat, n <= Len(s)
  PROVE  /\ SubSeq(s, 1, n) \in Seq(S)
         /\ Len(SubSeq(s, 1, n)) = n
         /\ \A i \in 1 .. n : SubSeq(s, 1, n)[i] = s[i]
<1>1. Len(s) \in Nat
  BY LenProperties
<1>2. \A i \in 1 .. n : s[i] \in S
  BY <1>1, ElementOfSeq
<1>. QED BY <1>1, <1>2, SubSeqProperties

\* A sequence begins with s exactly if it is s and a rest.
LEMMA PrefixIsHead ==
  ASSUME NEW S, NEW s \in Seq(S), NEW t \in Seq(S)
  PROVE  IsPrefix(s, t) <=> \E u \in Seq(S) : t = s \o u
<1>1. Len(s) \in Nat /\ Len(t) \in Nat
  BY LenProperties
<1>2. ASSUME IsPrefix(s, t) PROVE \E u \in Seq(S) : t = s \o u
  <2>. DEFINE u == SubSeq(t, Len(s) + 1, Len(t))
  <2>1. Len(s) <= Len(t) /\ \A i \in 1 .. Len(s) : s[i] = t[i]
    BY <1>2, PrefixFacts
  <2>2. /\ u \in Seq(S) /\ Len(u) = Len(t) - Len(s)
        /\ \A i \in 1 .. Len(t) - Len(s) : u[i] = t[Len(s) + i]
    <3>1. Len(s) + 1 \in Nat \ {0} /\ Len(s) + 1 <= Len(t) + 1
      BY <1>1, <2>1
    <3>2. /\ u \in Seq(S) /\ Len(u) = Len(t) - (Len(s) + 1) + 1
          /\ \A i \in 1 .. Len(t) - (Len(s) + 1) + 1 : u[i] = t[(Len(s) + 1) + i - 1]
      BY <3>1, RestFacts
    <3>3. \A i \in Nat : (Len(s) + 1) + i - 1 = Len(s) + i
      BY <1>1
    <3>. QED BY <1>1, <3>2, <3>3
  <2>. HIDE DEF u
  <2>3. /\ s \o u \in Seq(S) /\ Len(s \o u) = Len(t)
        /\ \A i \in 1 .. Len(t) : (s \o u)[i] = IF i <= Len(s) THEN s[i] ELSE u[i - Len(s)]
    BY <1>1, <2>2, ConcatProperties
  <2>4. \A i \in 1 .. Len(t) : (s \o u)[i] = t[i]
    <3>1. ASSUME NEW i \in 1 .. Len(t) PROVE (s \o u)[i] = t[i]
      <4>1. CASE i <= Len(s)
        BY <1>1, <2>1, <2>3, <4>1
      <4>2. CASE ~ (i <= Len(s))
        <5>1. i - Len(s) \in 1 .. Len(t) - Len(s) /\ Len(s) + (i - Len(s)) = i
          BY <1>1, <4>2
        <5>. QED BY <1>1, <2>2, <2>3, <4>2, <5>1
      <4>. QED BY <4>1, <4>2
    <3>. QED BY <3>1
  <2>5. s \o u = t
    BY <2>3, <2>4, SeqEqual
  <2>. QED BY <2>2, <2>5
<1>3. ASSUME NEW u \in Seq(S), t = s \o u PROVE IsPrefix(s, t)
  <2>1. /\ Len(t) = Len(s) + Len(u) /\ Len(u) \in Nat
        /\ \A i \in 1 .. Len(s) + Len(u) : t[i] = IF i <= Len(s) THEN s[i] ELSE u[i - Len(s)]
    BY <1>3, ConcatProperties, LenProperties
  <2>2. Len(s) <= Len(t) /\ \A i \in 1 .. Len(s) : s[i] = t[i]
    BY <1>1, <2>1
  <2>. QED BY <2>2, PrefixFacts
<1>. QED BY <1>2, <1>3

\* It does not matter which of three are put together first.
LEMMA Associate == \A a, b, c \in Seq(Nat) : (a \o b) \o c = a \o (b \o c)
<1>1. ASSUME NEW a \in Seq(Nat), NEW b \in Seq(Nat), NEW c \in Seq(Nat)
      PROVE  (a \o b) \o c = a \o (b \o c)
  BY ConcatAssociative, SMT
<1>. QED BY <1>1, Zenon

\* The rest behind s of a sequence that begins with it.
LEMMA RestOfConcat ==
  ASSUME NEW S, NEW s \in Seq(S), NEW u \in Seq(S)
  PROVE  SubSeq(s \o u, Len(s) + 1, Len(s \o u)) = u
<1>1. Len(s) \in Nat /\ Len(u) \in Nat
  BY LenProperties
<1>2. /\ s \o u \in Seq(S) /\ Len(s \o u) = Len(s) + Len(u)
      /\ \A i \in 1 .. Len(s) + Len(u) : (s \o u)[i] = IF i <= Len(s) THEN s[i] ELSE u[i - Len(s)]
  BY ConcatProperties
<1>. DEFINE r == SubSeq(s \o u, Len(s) + 1, Len(s \o u))
<1>3. /\ r \in Seq(S) /\ Len(r) = Len(s \o u) - (Len(s) + 1) + 1
      /\ \A i \in 1 .. Len(s \o u) - (Len(s) + 1) + 1 : r[i] = (s \o u)[(Len(s) + 1) + i - 1]
  <2>1. Len(s) + 1 \in Nat \ {0} /\ Len(s) + 1 <= Len(s \o u) + 1
    BY <1>1, <1>2
  <2>. QED BY <1>2, <2>1, RestFacts
<1>. HIDE DEF r
<1>4. Len(r) = Len(u)
  BY <1>1, <1>2, <1>3
<1>5. ASSUME NEW i \in 1 .. Len(r) PROVE r[i] = u[i]
  <2>1. r[i] = (s \o u)[(Len(s) + 1) + i - 1]
    BY <1>1, <1>2, <1>3
  <2>2. (Len(s) + 1) + i - 1 = Len(s) + i /\ Len(s) + i \in 1 .. Len(s) + Len(u)
        /\ ~ (Len(s) + i <= Len(s)) /\ (Len(s) + i) - Len(s) = i
    BY <1>1, <1>4
  <2>. QED BY <1>2, <2>1, <2>2
<1>6. r = u
  BY <1>3, <1>4, <1>5, SeqEqual
<1>. QED BY <1>6 DEF r

\* Two elements are one and another.
LEMMA PairFacts ==
  \A a, b : <<a, b>> = <<a>> \o <<b>>
<1>1. SUFFICES ASSUME NEW a, NEW b PROVE <<a, b>> = <<a>> \o <<b>>
  OBVIOUS
<1>. DEFINE S == {a, b}
<1>2. <<a>> \in Seq(S) /\ <<b>> \in Seq(S) /\ <<a, b>> \in Seq(S)
  OBVIOUS
<1>3. /\ <<a>> \o <<b>> \in Seq(S) /\ Len(<<a>> \o <<b>>) = 2
      /\ (<<a>> \o <<b>>)[1] = a /\ (<<a>> \o <<b>>)[2] = b
  <2>1. Len(<<a>>) = 1 /\ Len(<<b>>) = 1 /\ <<a>>[1] = a /\ <<b>>[1] = b
    OBVIOUS
  <2>2. /\ <<a>> \o <<b>> \in Seq(S) /\ Len(<<a>> \o <<b>>) = 1 + 1
        /\ \A i \in 1 .. 1 + 1 : (<<a>> \o <<b>>)[i] = IF i <= 1 THEN <<a>>[i] ELSE <<b>>[i - 1]
    BY <1>2, <2>1, ConcatProperties
  <2>. QED BY <2>1, <2>2
<1>4. Len(<<a, b>>) = 2 /\ <<a, b>>[1] = a /\ <<a, b>>[2] = b
  OBVIOUS
<1>5. \A i \in 1 .. Len(<<a, b>>) : <<a, b>>[i] = (<<a>> \o <<b>>)[i]
  BY <1>3, <1>4
<1>. QED BY <1>2, <1>3, <1>4, <1>5, SeqEqual
=============================================================================

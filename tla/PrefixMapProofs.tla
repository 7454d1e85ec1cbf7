-------------------------- MODULE PrefixMapProofs --------------------------
(***************************************************************************)
(* Theorems about PrefixMap, for every list of settings, all archives and  *)
(* all keys.                                                               *)
(***************************************************************************)
EXTENDS PrefixMap, DataLemmas

---------------------------------------------------------------------------
(* What the recursive functions compute *)

LEMMA TrimmedFacts ==
  ASSUME NEW s \in Strings, NEW p \in Strings
  PROVE  /\ Trimmed(s, p) \in [0 .. Len(s) -> Strings] /\ Trimmed(s, p)[0] = s
         /\ \A n \in 0 .. Len(s) - 1 :
              Trimmed(s, p)[n + 1] =
                IF IsPrefix(p, Trimmed(s, p)[n])
                THEN SubSeq(Trimmed(s, p)[n], Len(p) + 1, Len(Trimmed(s, p)[n])) ELSE Trimmed(s, p)[n]
<1>. DEFINE Cut(t) == IF IsPrefix(p, t) THEN SubSeq(t, Len(p) + 1, Len(t)) ELSE t
            step == [e \in Nat \X Strings |-> Cut(e[2])]
            Is(g) == g = [n \in 0 .. Len(s) |-> IF n = 0 THEN s ELSE Cut(g[n - 1])]
<1>1. Len(s) \in Nat /\ Len(p) \in Nat
  BY LenProperties DEF Strings
<1>2. ASSUME NEW t \in Strings PROVE Cut(t) \in Strings
  <2>1. CASE IsPrefix(p, t)
    <3>1. Len(p) <= Len(t) /\ Len(p) + 1 \in Nat \ {0} /\ Len(t) \in Nat
      BY <1>1, <2>1, LenProperties DEF IsPrefix, Strings
    <3>. QED BY <2>1, <3>1, RestFacts DEF Strings
  <2>. QED BY <2>1
<1>. HIDE DEF Cut
<1>3. step \in [Nat \X Strings -> Strings]
  BY <1>2
<1>4. \A n \in Nat, t \in Strings : step[<<n, t>>] = Cut(t)
  OBVIOUS
<1>. HIDE DEF step
<1>5. PICK g : Upto(Strings, s, step, Len(s), g)
  BY <1>1, <1>3, Recursion
<1>6. /\ g \in [0 .. Len(s) -> Strings] /\ g[0] = s
      /\ \A n \in 0 .. Len(s) - 1 : g[n + 1] = Cut(g[n])
  <2>1. /\ g \in [0 .. Len(s) -> Strings] /\ g[0] = s
        /\ \A n \in 0 .. Len(s) - 1 : g[n + 1] = step[<<n + 1, g[n]>>]
    BY <1>5 DEF Upto
  <2>2. ASSUME NEW n \in 0 .. Len(s) - 1 PROVE g[n + 1] = Cut(g[n])
    <3>1. n + 1 \in Nat /\ n \in 0 .. Len(s)
      BY <1>1
    <3>2. g[n] \in Strings
      BY <2>1, <3>1
    <3>. QED BY <1>4, <2>1, <3>1, <3>2
  <2>. QED BY <2>1, <2>2
<1>7. ASSUME NEW n \in 0 .. Len(s) PROVE g[n] = IF n = 0 THEN s ELSE Cut(g[n - 1])
  <2>1. CASE n = 0
    BY <1>6, <2>1
  <2>2. CASE n # 0
    <3>1. n - 1 \in 0 .. Len(s) - 1 /\ (n - 1) + 1 = n
      BY <1>1, <2>2
    <3>. QED BY <1>6, <2>2, <3>1
  <2>. QED BY <2>1, <2>2
<1>8. Is(g)
  BY <1>6, <1>7
<1>9. Trimmed(s, p) = CHOOSE h : Is(h)
  BY DEF Trimmed, Cut
<1>. DEFINE t == Trimmed(s, p)
<1>10. t = [n \in 0 .. Len(s) |-> IF n = 0 THEN s ELSE Cut(t[n - 1])]
  <2>. HIDE DEF Is
  <2>1. Is(CHOOSE h : Is(h))
    BY <1>8
  <2>. QED BY <2>1, <1>9 DEF Is
<1>. HIDE DEF t
<1>11. t[0] = s /\ \A n \in 0 .. Len(s) - 1 : t[n + 1] = Cut(t[n])
  BY <1>1, <1>10
<1>12. \A n \in 0 .. Len(s) : t[n] \in Strings
  <2>. DEFINE X == {n \in Nat : n <= Len(s) => t[n] \in Strings}
  <2>1. 0 \in X
    BY <1>11
  <2>2. ASSUME NEW n \in Nat, n \in X PROVE n + 1 \in X
    BY <1>1, <1>2, <1>11, <2>2
  <2>. HIDE DEF X
  <2>3. \A n \in Nat : n \in X
    BY <2>1, <2>2, Induct
  <2>. QED BY <1>1, <2>3 DEF X
<1>13. t \in [0 .. Len(s) -> Strings]
  BY <1>10, <1>12
<1>. QED BY <1>11, <1>13 DEF t, Cut

LEMMA EncodedFacts ==
  ASSUME NEW s \in Strings
  PROVE  /\ Encoded(s) \in [0 .. Len(s) -> Strings] /\ Encoded(s)[0] = << >>
         /\ \A n \in 0 .. Len(s) - 1 :
              Encoded(s)[n + 1] =
                Encoded(s)[n] \o IF s[n + 1] \in Escaped THEN <<Percent, Hex, Hex>> ELSE <<s[n + 1]>>
<1>. DEFINE Add(n, t) == t \o IF s[n] \in Escaped THEN <<Percent, Hex, Hex>> ELSE <<s[n]>>
            step == [e \in Nat \X Strings |-> IF e[1] \in 1 .. Len(s) THEN Add(e[1], e[2]) ELSE e[2]]
            Is(g) == g = [n \in 0 .. Len(s) |-> IF n = 0 THEN << >> ELSE Add(n, g[n - 1])]
<1>1. Len(s) \in Nat /\ << >> \in Strings
  BY LenProperties, EmptySeq DEF Strings
<1>2. \A n \in 1 .. Len(s), t \in Strings : Add(n, t) \in Strings
  <2>1. ASSUME NEW n \in 1 .. Len(s), NEW t \in Strings PROVE Add(n, t) \in Strings
    <3>1. s[n] \in Nat
      BY ElementOfSeq DEF Strings
    <3>2. (IF s[n] \in Escaped THEN <<Percent, Hex, Hex>> ELSE <<s[n]>>) \in Strings
      BY <3>1, BytesAssumption DEF Strings
    <3>. QED BY <3>2, ConcatProperties DEF Strings
  <2>. QED BY <2>1
<1>. HIDE DEF Add
<1>4. step \in [Nat \X Strings -> Strings]
  BY <1>2
<1>5. \A n \in 1 .. Len(s), t \in Strings : n \in Nat /\ step[<<n, t>>] = Add(n, t)
  BY <1>1
<1>. HIDE DEF step
<1>6. PICK g : Upto(Strings, << >>, step, Len(s), g)
  BY <1>1, <1>4, Recursion
<1>7. /\ g \in [0 .. Len(s) -> Strings] /\ g[0] = << >>
      /\ \A n \in 0 .. Len(s) - 1 : g[n + 1] = Add(n + 1, g[n])
  <2>1. /\ g \in [0 .. Len(s) -> Strings] /\ g[0] = << >>
        /\ \A n \in 0 .. Len(s) - 1 : g[n + 1] = step[<<n + 1, g[n]>>]
    BY <1>6 DEF Upto
  <2>2. ASSUME NEW n \in 0 .. Len(s) - 1 PROVE g[n + 1] = Add(n + 1, g[n])
    <3>1. n + 1 \in 1 .. Len(s) /\ n \in 0 .. Len(s)
      BY <1>1
    <3>2. g[n] \in Strings
      BY <2>1, <3>1
    <3>. QED BY <1>5, <2>1, <3>1, <3>2
  <2>. QED BY <2>1, <2>2
<1>8. ASSUME NEW n \in 0 .. Len(s) PROVE g[n] = IF n = 0 THEN << >> ELSE Add(n, g[n - 1])
  <2>1. CASE n = 0
    BY <1>7, <2>1
  <2>2. CASE n # 0
    <3>1. n - 1 \in 0 .. Len(s) - 1 /\ (n - 1) + 1 = n
      BY <1>1, <2>2
    <3>. QED BY <1>7, <2>2, <3>1
  <2>. QED BY <2>1, <2>2
<1>9. Is(g)
  BY <1>7, <1>8
<1>10. Encoded(s) = CHOOSE h : Is(h)
  BY DEF Encoded, Add
<1>. DEFINE t == Encoded(s)
<1>11. t = [n \in 0 .. Len(s) |-> IF n = 0 THEN << >> ELSE Add(n, t[n - 1])]
  <2>. HIDE DEF Is
  <2>1. Is(CHOOSE h : Is(h))
    BY <1>9
  <2>. QED BY <2>1, <1>10 DEF Is
<1>. HIDE DEF t
<1>12. t[0] = << >> /\ \A n \in 0 .. Len(s) - 1 : t[n + 1] = Add(n + 1, t[n])
  BY <1>1, <1>11
<1>13. \A n \in 0 .. Len(s) : t[n] \in Strings
  <2>. DEFINE X == {n \in Nat : n <= Len(s) => t[n] \in Strings}
  <2>1. 0 \in X
    BY <1>1, <1>12
  <2>2. ASSUME NEW n \in Nat, n \in X PROVE n + 1 \in X
    <3>1. CASE n + 1 <= Len(s)
      <4>1. n \in 0 .. Len(s) - 1 /\ n + 1 \in 1 .. Len(s) /\ n <= Len(s)
        BY <1>1, <3>1
      <4>2. t[n] \in Strings
        BY <2>2, <4>1
      <4>. QED BY <1>2, <1>12, <4>1, <4>2
    <3>. QED BY <3>1
  <2>. HIDE DEF X
  <2>3. \A n \in Nat : n \in X
    BY <2>1, <2>2, Induct
  <2>. QED BY <1>1, <2>3 DEF X
<1>14. t \in [0 .. Len(s) -> Strings]
  BY <1>11, <1>13
<1>. QED BY <1>12, <1>14 DEF t, Add

LEMMA NamesFacts ==
  ASSUME NEW s \in Strings
  PROVE  /\ NamesUpTo(s) \in [0 .. Len(s) -> Strings] /\ NamesUpTo(s)[0] = << >>
         /\ \A n \in 0 .. Len(s) - 1 :
              NamesUpTo(s)[n + 1] =
                IF s[n + 1] = Slash THEN NamesUpTo(s)[n]
                ELSE IF NamesUpTo(s)[n] # << >> /\ s[n] = Slash THEN NamesUpTo(s)[n] \o <<Slash, s[n + 1]>>
                ELSE Append(NamesUpTo(s)[n], s[n + 1])
<1>. DEFINE Add(n, t) == IF s[n] = Slash THEN t
                         ELSE IF t # << >> /\ s[n - 1] = Slash THEN t \o <<Slash, s[n]>>
                         ELSE Append(t, s[n])
            step == [e \in Nat \X Strings |-> IF e[1] \in 1 .. Len(s) THEN Add(e[1], e[2]) ELSE e[2]]
            Is(g) == g = [n \in 0 .. Len(s) |-> IF n = 0 THEN << >> ELSE Add(n, g[n - 1])]
<1>1. Len(s) \in Nat /\ << >> \in Strings
  BY LenProperties, EmptySeq DEF Strings
<1>2. \A n \in 1 .. Len(s), t \in Strings : Add(n, t) \in Strings
  <2>1. ASSUME NEW n \in 1 .. Len(s), NEW t \in Strings PROVE Add(n, t) \in Strings
    <3>1. s[n] \in Nat /\ Slash \in Nat
      BY ElementOfSeq, BytesAssumption DEF Strings
    <3>2. <<Slash, s[n]>> \in Strings /\ Append(t, s[n]) \in Strings
      BY <3>1 DEF Strings
    <3>3. t \o <<Slash, s[n]>> \in Strings
      BY <3>2, ConcatProperties DEF Strings
    <3>. QED BY <3>2, <3>3
  <2>. QED BY <2>1
<1>. HIDE DEF Add
<1>4. step \in [Nat \X Strings -> Strings]
  BY <1>2
<1>5. \A n \in 1 .. Len(s), t \in Strings : n \in Nat /\ step[<<n, t>>] = Add(n, t)
  BY <1>1
<1>. HIDE DEF step
<1>6. PICK g : Upto(Strings, << >>, step, Len(s), g)
  BY <1>1, <1>4, Recursion
<1>7. /\ g \in [0 .. Len(s) -> Strings] /\ g[0] = << >>
      /\ \A n \in 0 .. Len(s) - 1 : g[n + 1] = Add(n + 1, g[n])
  <2>1. /\ g \in [0 .. Len(s) -> Strings] /\ g[0] = << >>
        /\ \A n \in 0 .. Len(s) - 1 : g[n + 1] = step[<<n + 1, g[n]>>]
    BY <1>6 DEF Upto
  <2>2. ASSUME NEW n \in 0 .. Len(s) - 1 PROVE g[n + 1] = Add(n + 1, g[n])
    <3>1. n + 1 \in 1 .. Len(s) /\ n \in 0 .. Len(s)
      BY <1>1
    <3>2. g[n] \in Strings
      BY <2>1, <3>1
    <3>. QED BY <1>5, <2>1, <3>1, <3>2
  <2>. QED BY <2>1, <2>2
<1>8. ASSUME NEW n \in 0 .. Len(s) PROVE g[n] = IF n = 0 THEN << >> ELSE Add(n, g[n - 1])
  <2>1. CASE n = 0
    BY <1>7, <2>1
  <2>2. CASE n # 0
    <3>1. n - 1 \in 0 .. Len(s) - 1 /\ (n - 1) + 1 = n
      BY <1>1, <2>2
    <3>. QED BY <1>7, <2>2, <3>1
  <2>. QED BY <2>1, <2>2
<1>9. Is(g)
  BY <1>7, <1>8
<1>10. NamesUpTo(s) = CHOOSE h : Is(h)
  BY DEF NamesUpTo, Add
<1>. DEFINE t == NamesUpTo(s)
<1>11. t = [n \in 0 .. Len(s) |-> IF n = 0 THEN << >> ELSE Add(n, t[n - 1])]
  <2>. HIDE DEF Is
  <2>1. Is(CHOOSE h : Is(h))
    BY <1>9
  <2>. QED BY <2>1, <1>10 DEF Is
<1>. HIDE DEF t
<1>12. t[0] = << >> /\ \A n \in 0 .. Len(s) - 1 : t[n + 1] = Add(n + 1, t[n])
  BY <1>1, <1>11
<1>13. \A n \in 0 .. Len(s) : t[n] \in Strings
  <2>. DEFINE X == {n \in Nat : n <= Len(s) => t[n] \in Strings}
  <2>1. 0 \in X
    BY <1>1, <1>12
  <2>2. ASSUME NEW n \in Nat, n \in X PROVE n + 1 \in X
    <3>1. CASE n + 1 <= Len(s)
      <4>1. n \in 0 .. Len(s) - 1 /\ n + 1 \in 1 .. Len(s) /\ n <= Len(s)
        BY <1>1, <3>1
      <4>2. t[n] \in Strings
        BY <2>2, <4>1
      <4>. QED BY <1>2, <1>12, <4>1, <4>2
    <3>. QED BY <3>1
  <2>. HIDE DEF X
  <2>3. \A n \in Nat : n \in X
    BY <2>1, <2>2, Induct
  <2>. QED BY <1>1, <2>3 DEF X
<1>14. t \in [0 .. Len(s) -> Strings]
  BY <1>11, <1>13
<1>15. \A n \in 0 .. Len(s) - 1 : (n + 1) - 1 = n
  BY <1>1
<1>. QED BY <1>12, <1>14, <1>15 DEF t, Add

---------------------------------------------------------------------------
(* Strings *)

LEMMA LengthFacts ==
  ASSUME NEW s \in Strings
  PROVE  Len(s) \in Nat /\ DOMAIN s = 1 .. Len(s) /\ (\A i \in 1 .. Len(s) : s[i] \in Nat) /\ (Len(s) = 0 <=> s = << >>)
<1>1. Len(s) \in Nat /\ DOMAIN s = 1 .. Len(s) /\ \A i \in 1 .. Len(s) : s[i] \in Nat
  BY LenProperties, ElementOfSeq DEF Strings
<1>2. Len(s) = 0 <=> s = << >>
  BY EmptySeq DEF Strings
<1>. QED BY <1>1, <1>2

\* Strings joined are a string, and it does not matter which of three are joined first.
LEMMA JoinTyped == \A a, b \in Strings : a \o b \in Strings
<1>1. ASSUME NEW a \in Strings, NEW b \in Strings PROVE a \o b \in Strings
  <2>1. a \in Seq(Nat) /\ b \in Seq(Nat)
    BY DEF Strings
  <2>2. a \o b \in Seq(Nat)
    BY <2>1, ConcatProperties, Zenon
  <2>. QED BY <2>2, Zenon DEF Strings
<1>. QED BY <1>1

LEMMA Regroup ==
  ASSUME NEW a \in Strings, NEW b \in Strings, NEW c \in Strings
  PROVE  (a \o b) \o c = a \o (b \o c)
<1>1. a \in Seq(Nat) /\ b \in Seq(Nat) /\ c \in Seq(Nat)
  BY DEF Strings
<1>. QED BY <1>1, Associate, Zenon

LEMMA AddBytes ==
  ASSUME NEW a \in Strings, NEW i \in Nat, NEW j \in Nat
  PROVE  /\ <<i>> \in Strings /\ <<i, j>> \in Strings
         /\ Append(a, i) = a \o <<i>>
         /\ a \o <<i, j>> = (a \o <<i>>) \o <<j>>
<1>. DEFINE x == <<i>>
            y == <<j>>
            z == <<i, j>>
<1>1. x \in Strings /\ y \in Strings /\ z \in Strings
  BY DEF Strings
<1>2. z = x \o y
  BY PairFacts, Zenon
<1>3. Append(a, i) = a \o x
  BY AppendIsConcat DEF Strings
<1>. HIDE DEF x, y, z
<1>4. a \o z = (a \o x) \o y
  <2>1. (a \o x) \o y = a \o (x \o y)
    BY <1>1, Regroup
  <2>. QED BY <1>2, <2>1, Zenon
<1>. QED BY <1>1, <1>3, <1>4 DEF x, y, z

LEMMA EmptyIsPrefix ==
  ASSUME NEW s \in Strings
  PROVE  << >> \in Strings /\ IsPrefix(<< >>, s)
<1>1. << >> \in Seq(Nat) /\ s = << >> \o s
  BY ConcatEmptySeq, EmptySeq DEF Strings
<1>. DEFINE e == << >>
<1>2. e \in Seq(Nat) /\ s = e \o s /\ s \in Seq(Nat)
  BY <1>1 DEF Strings
<1>. HIDE DEF e
<1>3. e \in Strings /\ IsPrefix(e, s)
  BY <1>2, PrefixIsHead DEF Strings
<1>. QED BY <1>3 DEF e

\* The encoding of a string is one, and a string without a byte to escape is its own.
LEMMA EncodeFacts ==
  ASSUME NEW s \in Strings
  PROVE  /\ Encode(s) \in Strings
         /\ (\A i \in DOMAIN s : s[i] \notin Escaped) => Encode(s) = s
<1>1. Len(s) \in Nat /\ DOMAIN s = 1 .. Len(s)
  BY LengthFacts
<1>. DEFINE e == Encoded(s)
<1>2. /\ e \in [0 .. Len(s) -> Strings] /\ e[0] = << >>
      /\ \A n \in 0 .. Len(s) - 1 :
           e[n + 1] = e[n] \o IF s[n + 1] \in Escaped THEN <<Percent, Hex, Hex>> ELSE <<s[n + 1]>>
  BY EncodedFacts
<1>3. Encode(s) = e[Len(s)]
  BY DEF Encode
<1>. HIDE DEF e
<1>4. Encode(s) \in Strings
  BY <1>1, <1>2, <1>3
<1>5. ASSUME \A i \in 1 .. Len(s) : s[i] \notin Escaped PROVE Encode(s) = s
  <2>. DEFINE X == {n \in Nat : n <= Len(s) => e[n] = SubSeq(s, 1, n)}
  <2>1. 0 \in X
    BY <1>2, SubSeqEmpty
  <2>2. ASSUME NEW n \in Nat, n \in X PROVE n + 1 \in X
    <3>1. SUFFICES ASSUME n + 1 <= Len(s) PROVE e[n + 1] = SubSeq(s, 1, n + 1)
      OBVIOUS
    <3>2. n \in 0 .. Len(s) - 1 /\ n + 1 \in 1 .. Len(s) /\ 1 \in 1 .. Len(s) /\ n <= Len(s) /\ (n + 1) - 1 = n
      BY <1>1, <3>1
    <3>3. e[n + 1] = SubSeq(s, 1, n) \o <<s[n + 1]>>
      BY <1>5, <2>2, <3>2, <1>2
    <3>4. SubSeq(s, 1, n + 1) = SubSeq(s, 1, (n + 1) - 1) \o <<s[n + 1]>>
      BY <3>2, SubSeqRecursiveSecond DEF Strings
    <3>. QED BY <3>2, <3>3, <3>4
  <2>. HIDE DEF X
  <2>3. Len(s) \in X
    BY <1>1, <2>1, <2>2, Induct
  <2>4. e[Len(s)] = SubSeq(s, 1, Len(s))
    BY <1>1, <2>3 DEF X
  <2>. QED BY <1>3, <2>4, SubSeqFull DEF Strings
<1>. QED BY <1>1, <1>4, <1>5

\* trim_start_matches removes nothing but copies of p in front, and all of them.
LEMMA TrimFacts ==
  ASSUME NEW s \in Strings, NEW p \in Strings
  PROVE  /\ TrimStart(s, p) \in Strings
         /\ ~ IsPrefix(p, s) \/ p = << >> => TrimStart(s, p) = s
         /\ p # << >> => ~ IsPrefix(p, TrimStart(s, p))
<1>. DEFINE t == Trimmed(s, p)
<1>1. /\ t \in [0 .. Len(s) -> Strings] /\ t[0] = s
      /\ \A n \in 0 .. Len(s) - 1 :
           t[n + 1] = IF IsPrefix(p, t[n]) THEN SubSeq(t[n], Len(p) + 1, Len(t[n])) ELSE t[n]
  BY TrimmedFacts
<1>2. TrimStart(s, p) = t[Len(s)]
  BY DEF TrimStart
<1>. HIDE DEF t
<1>3. Len(s) \in Nat /\ Len(p) \in Nat /\ (Len(p) = 0 <=> p = << >>)
  BY LengthFacts
<1>4. TrimStart(s, p) \in Strings
  BY <1>1, <1>2, <1>3
<1>5. ASSUME ~ IsPrefix(p, s) \/ p = << >> PROVE TrimStart(s, p) = s
  <2>. DEFINE X == {n \in Nat : n <= Len(s) => t[n] = s}
  <2>1. 0 \in X
    BY <1>1
  <2>2. ASSUME NEW n \in Nat, n \in X PROVE n + 1 \in X
    <3>1. SUFFICES ASSUME n + 1 <= Len(s) PROVE t[n + 1] = s
      OBVIOUS
    <3>2. n \in 0 .. Len(s) - 1 /\ t[n] = s
      BY <1>3, <2>2, <3>1
    <3>3. CASE ~ IsPrefix(p, s)
      BY <1>1, <3>2, <3>3
    <3>4. CASE p = << >>
      <4>1. Len(p) + 1 = 1
        BY <1>3, <3>4
      <4>2. SubSeq(s, 1, Len(s)) = s
        BY SubSeqFull DEF Strings
      <4>. QED BY <1>1, <3>2, <4>1, <4>2
    <3>. QED BY <1>5, <3>3, <3>4
  <2>. HIDE DEF X
  <2>3. Len(s) \in X
    BY <1>3, <2>1, <2>2, Induct
  <2>. QED BY <1>2, <1>3, <2>3 DEF X
<1>6. ASSUME p # << >> PROVE ~ IsPrefix(p, TrimStart(s, p))
  <2>. DEFINE X == {n \in Nat : n <= Len(s) => ~ IsPrefix(p, t[n]) \/ Len(t[n]) <= Len(s) - n}
  <2>1. 0 \in X
    BY <1>1, <1>3
  <2>2. ASSUME NEW n \in Nat, n \in X PROVE n + 1 \in X
    <3>1. SUFFICES ASSUME n + 1 <= Len(s)
                   PROVE  ~ IsPrefix(p, t[n + 1]) \/ Len(t[n + 1]) <= Len(s) - (n + 1)
      OBVIOUS
    <3>2. n \in 0 .. Len(s) - 1 /\ n \in 0 .. Len(s)
      BY <1>3, <3>1
    <3>3. ~ IsPrefix(p, t[n]) \/ Len(t[n]) <= Len(s) - n
      BY <1>3, <2>2, <3>2
    <3>4. CASE ~ IsPrefix(p, t[n])
      BY <1>1, <3>2, <3>4
    <3>5. CASE IsPrefix(p, t[n])
      <4>1. t[n + 1] = SubSeq(t[n], Len(p) + 1, Len(t[n]))
        BY <1>1, <3>2, <3>5
      <4>2. t[n] \in Strings /\ Len(t[n]) \in Nat /\ Len(p) <= Len(t[n])
        BY <1>1, <3>2, <3>5, LengthFacts DEF IsPrefix
      <4>3. Len(t[n + 1]) = Len(t[n]) - (Len(p) + 1) + 1
        BY <1>3, <4>1, <4>2, RestFacts DEF Strings
      <4>. QED BY <1>3, <1>6, <3>3, <3>5, <4>2, <4>3
    <3>. QED BY <3>4, <3>5
  <2>. HIDE DEF X
  <2>3. Len(s) \in X
    BY <1>3, <2>1, <2>2, Induct
  <2>4. ~ IsPrefix(p, t[Len(s)]) \/ Len(t[Len(s)]) <= 0
    BY <1>3, <2>3 DEF X
  <2>. QED BY <1>2, <1>3, <1>4, <1>6, <2>4, LengthFacts DEF IsPrefix
<1>. QED BY <1>4, <1>5, <1>6

\* What stands behind one copy is what is left, unless it begins with another.
LEMMA TrimOnce ==
  ASSUME NEW p \in Strings, NEW u \in Strings, p # << >>, ~ IsPrefix(p, u)
  PROVE  TrimStart(p \o u, p) = u
<1>. DEFINE s == p \o u
            t == Trimmed(s, p)
<1>1. s \in Strings /\ Len(s) = Len(p) + Len(u) /\ Len(p) \in Nat \ {0} /\ Len(u) \in Nat
  BY ConcatProperties, LengthFacts DEF Strings
<1>2. IsPrefix(p, s)
  BY <1>1, PrefixIsHead DEF Strings
<1>3. SubSeq(s, Len(p) + 1, Len(s)) = u
  BY RestOfConcat DEF Strings
<1>. HIDE DEF s
<1>4. /\ t[0] = s
      /\ \A n \in 0 .. Len(s) - 1 :
           t[n + 1] = IF IsPrefix(p, t[n]) THEN SubSeq(t[n], Len(p) + 1, Len(t[n])) ELSE t[n]
  BY <1>1, TrimmedFacts
<1>5. TrimStart(s, p) = t[Len(s)]
  BY DEF TrimStart
<1>. HIDE DEF t
<1>. DEFINE X == {n \in Nat : n + 1 <= Len(s) => t[n + 1] = u}
<1>6. 0 \in X
  <2>1. 0 \in 0 .. Len(s) - 1
    BY <1>1
  <2>. QED BY <1>2, <1>3, <1>4, <2>1
<1>7. ASSUME NEW n \in Nat, n \in X PROVE n + 1 \in X
  <2>1. SUFFICES ASSUME (n + 1) + 1 <= Len(s) PROVE t[(n + 1) + 1] = u
    OBVIOUS
  <2>2. n + 1 \in 0 .. Len(s) - 1 /\ t[n + 1] = u
    BY <1>1, <1>7, <2>1
  <2>. QED BY <1>4, <2>2
<1>. HIDE DEF X
<1>8. Len(s) - 1 \in X
  <2>1. Len(s) - 1 \in Nat
    BY <1>1
  <2>. QED BY <1>6, <1>7, <2>1, Induct
<1>9. t[(Len(s) - 1) + 1] = u /\ (Len(s) - 1) + 1 = Len(s)
  BY <1>1, <1>8 DEF X
<1>. QED BY <1>5, <1>9 DEF s

---------------------------------------------------------------------------
(* Paths *)

LEMMA CanonicalType ==
  ASSUME NEW s \in Strings
  PROVE  Canonical(s) \in Strings
<1>1. Len(s) \in 0 .. Len(s)
  BY LengthFacts
<1>. QED BY <1>1, NamesFacts DEF Canonical

\* What is read of a path up to a place in it does not depend on what follows.
LEMMA NamesOfHead ==
  ASSUME NEW u \in Strings, NEW v \in Strings
  PROVE  NamesUpTo(u \o v)[Len(u)] = Canonical(u)
<1>. DEFINE s == u \o v
            c == NamesUpTo(s)
            d == NamesUpTo(u)
            X == {n \in Nat : n <= Len(u) => c[n] = d[n]}
<1>1. /\ s \in Strings /\ Len(s) = Len(u) + Len(v) /\ Len(u) \in Nat /\ Len(v) \in Nat
      /\ \A i \in 1 .. Len(u) : s[i] = u[i]
  BY ConcatProperties, LengthFacts DEF Strings
<1>. HIDE DEF s
<1>2. /\ c[0] = << >>
      /\ \A n \in 0 .. Len(s) - 1 :
           c[n + 1] = IF s[n + 1] = Slash THEN c[n]
                      ELSE IF c[n] # << >> /\ s[n] = Slash THEN c[n] \o <<Slash, s[n + 1]>>
                      ELSE Append(c[n], s[n + 1])
  BY <1>1, NamesFacts
<1>3. /\ d[0] = << >>
      /\ \A n \in 0 .. Len(u) - 1 :
           d[n + 1] = IF u[n + 1] = Slash THEN d[n]
                      ELSE IF d[n] # << >> /\ u[n] = Slash THEN d[n] \o <<Slash, u[n + 1]>>
                      ELSE Append(d[n], u[n + 1])
  BY NamesFacts
<1>. HIDE DEF c, d
<1>4. 0 \in X
  BY <1>2, <1>3
<1>5. ASSUME NEW n \in Nat, n \in X PROVE n + 1 \in X
  <2>1. SUFFICES ASSUME n + 1 <= Len(u) PROVE c[n + 1] = d[n + 1]
    OBVIOUS
  <2>2. n \in 0 .. Len(u) - 1 /\ n \in 0 .. Len(s) - 1 /\ s[n + 1] = u[n + 1] /\ c[n] = d[n]
    BY <1>1, <1>5, <2>1
  <2>3. CASE n = 0
    <3>1. c[n] = << >> /\ d[n] = << >>
      BY <1>2, <1>3, <2>3
    <3>. QED BY <1>2, <1>3, <2>2, <3>1
  <2>4. CASE n # 0
    <3>1. s[n] = u[n]
      BY <1>1, <2>2, <2>4
    <3>. QED BY <1>2, <1>3, <2>2, <3>1
  <2>. QED BY <2>3, <2>4
<1>. HIDE DEF X
<1>6. Len(u) \in X
  BY <1>1, <1>4, <1>5, Induct
<1>. QED BY <1>1, <1>6 DEF X, c, d, s, Canonical

\* A slash in front of a path means nothing.
LEMMA CanonicalSlash ==
  ASSUME NEW u \in Strings
  PROVE  Canonical(<<Slash>> \o u) = Canonical(u)
<1>. DEFINE s == <<Slash>> \o u
            c == NamesUpTo(s)
            d == NamesUpTo(u)
            X == {n \in Nat : n <= Len(u) => c[n + 1] = d[n]}
<1>1. /\ s \in Strings /\ Len(s) = Len(u) + 1 /\ Len(u) \in Nat
      /\ s[1] = Slash /\ \A i \in 1 .. Len(u) : s[i + 1] = u[i]
  <2>1. <<Slash>> \in Strings /\ Len(<<Slash>>) = 1 /\ <<Slash>>[1] = Slash
    BY BytesAssumption DEF Strings
  <2>2. /\ s \in Strings /\ Len(s) = 1 + Len(u) /\ Len(u) \in Nat
        /\ \A i \in 1 .. 1 + Len(u) : s[i] = IF i <= 1 THEN <<Slash>>[i] ELSE u[i - 1]
    BY <2>1, ConcatProperties, LengthFacts DEF Strings
  <2>. HIDE DEF s
  <2>. QED BY <2>1, <2>2
<1>. HIDE DEF s
<1>2. /\ c[0] = << >>
      /\ \A n \in 0 .. Len(s) - 1 :
           c[n + 1] = IF s[n + 1] = Slash THEN c[n]
                      ELSE IF c[n] # << >> /\ s[n] = Slash THEN c[n] \o <<Slash, s[n + 1]>>
                      ELSE Append(c[n], s[n + 1])
  BY <1>1, NamesFacts
<1>3. /\ d[0] = << >>
      /\ \A n \in 0 .. Len(u) - 1 :
           d[n + 1] = IF u[n + 1] = Slash THEN d[n]
                      ELSE IF d[n] # << >> /\ u[n] = Slash THEN d[n] \o <<Slash, u[n + 1]>>
                      ELSE Append(d[n], u[n + 1])
  BY NamesFacts
<1>. HIDE DEF c, d
<1>4. 0 \in X
  <2>1. 0 \in 0 .. Len(s) - 1 /\ 0 + 1 = 1
    BY <1>1
  <2>2. c[0 + 1] = c[0]
    BY <1>1, <1>2, <2>1
  <2>. QED BY <1>2, <1>3, <2>2
<1>5. ASSUME NEW n \in Nat, n \in X PROVE n + 1 \in X
  <2>1. SUFFICES ASSUME n + 1 <= Len(u) PROVE c[(n + 1) + 1] = d[n + 1]
    OBVIOUS
  <2>2. /\ n \in 0 .. Len(u) - 1 /\ n + 1 \in 0 .. Len(s) - 1
        /\ s[(n + 1) + 1] = u[n + 1] /\ c[n + 1] = d[n]
    BY <1>1, <1>5, <2>1
  <2>3. CASE n = 0
    <3>1. c[n + 1] = << >> /\ d[n] = << >>
      BY <1>3, <2>2, <2>3
    <3>. QED BY <1>2, <1>3, <2>2, <3>1
  <2>4. CASE n # 0
    <3>1. s[n + 1] = u[n]
      BY <1>1, <2>2, <2>4
    <3>. QED BY <1>2, <1>3, <2>2, <3>1
  <2>. QED BY <2>3, <2>4
<1>. HIDE DEF X
<1>6. Len(u) \in X
  BY <1>1, <1>4, <1>5, Induct
<1>. QED BY <1>1, <1>6 DEF X, c, d, s, Canonical

\* Nor do many.
LEMMA CanonicalTrim ==
  ASSUME NEW s \in Strings
  PROVE  Canonical(TrimStart(s, <<Slash>>)) = Canonical(s)
<1>. DEFINE p == <<Slash>>
            t == Trimmed(s, p)
            X == {n \in Nat : n <= Len(s) => Canonical(t[n]) = Canonical(s)}
<1>1. p \in Strings
  BY BytesAssumption DEF Strings
<1>. HIDE DEF p
<1>2. /\ t \in [0 .. Len(s) -> Strings] /\ t[0] = s
      /\ \A n \in 0 .. Len(s) - 1 :
           t[n + 1] = IF IsPrefix(p, t[n]) THEN SubSeq(t[n], Len(p) + 1, Len(t[n])) ELSE t[n]
  BY <1>1, TrimmedFacts
<1>3. TrimStart(s, p) = t[Len(s)] /\ Len(s) \in Nat
  BY LengthFacts DEF TrimStart
<1>. HIDE DEF t
<1>4. 0 \in X
  BY <1>2
<1>5. ASSUME NEW n \in Nat, n \in X PROVE n + 1 \in X
  <2>1. SUFFICES ASSUME n + 1 <= Len(s) PROVE Canonical(t[n + 1]) = Canonical(s)
    OBVIOUS
  <2>2. n \in 0 .. Len(s) - 1 /\ Canonical(t[n]) = Canonical(s) /\ t[n] \in Strings
    BY <1>2, <1>3, <1>5, <2>1
  <2>3. CASE IsPrefix(p, t[n])
    <3>1. PICK u \in Strings : t[n] = p \o u
      BY <1>1, <2>2, <2>3, PrefixIsHead DEF Strings
    <3>2. t[n + 1] = u
      <4>1. t[n + 1] = SubSeq(t[n], Len(p) + 1, Len(t[n]))
        BY <1>2, <2>2, <2>3
      <4>2. SubSeq(p \o u, Len(p) + 1, Len(p \o u)) = u
        BY <1>1, RestOfConcat DEF Strings
      <4>. QED BY <3>1, <4>1, <4>2
    <3>. QED BY <2>2, <3>1, <3>2, CanonicalSlash DEF p
  <2>. QED BY <1>2, <2>2, <2>3
<1>. HIDE DEF X
<1>6. Len(s) \in X
  BY <1>3, <1>4, <1>5, Induct
<1>. QED BY <1>3, <1>6 DEF X, p

\* A clean path behind a directory: the directory's names, a slash if it has any, the path.
LEMMA CanonicalTail ==
  ASSUME NEW u \in Strings, NEW g \in Strings, Clean(g)
  PROVE  Canonical(u \o <<Slash>> \o g) =
           IF Canonical(u) = << >> THEN g ELSE Canonical(u) \o <<Slash>> \o g
<1>. DEFINE s == u \o <<Slash>> \o g
            c == NamesUpTo(s)
            d == Canonical(u)
            front == IF d = << >> THEN << >> ELSE d \o <<Slash>>
            m == Len(u) + 1
            Read(k) == IF g[k] = Slash THEN k - 1 ELSE k
            X == {k \in Nat : k + 1 <= Len(g) => c[m + (k + 1)] = front \o SubSeq(g, 1, Read(k + 1))}
<1>1. /\ <<Slash>> \in Strings /\ Len(<<Slash>>) = 1 /\ <<Slash>>[1] = Slash /\ Slash \in Nat
      /\ d \in Strings /\ << >> \in Strings
      /\ Len(u) \in Nat /\ Len(g) \in Nat \ {0} /\ \A i \in 1 .. Len(g) : g[i] \in Nat
  BY BytesAssumption, CanonicalType, LengthFacts DEF Strings, Clean
<1>2. u \o <<Slash>> \in Strings /\ Len(u \o <<Slash>>) = m /\ (u \o <<Slash>>)[m] = Slash
  <2>1. /\ u \o <<Slash>> \in Strings /\ Len(u \o <<Slash>>) = m
        /\ \A i \in 1 .. Len(u) + 1 : (u \o <<Slash>>)[i] = IF i <= Len(u) THEN u[i] ELSE <<Slash>>[i - Len(u)]
    BY <1>1, ConcatProperties DEF Strings
  <2>2. m \in 1 .. Len(u) + 1 /\ ~ (m <= Len(u)) /\ m - Len(u) = 1
    BY <1>1
  <2>. QED BY <1>1, <2>1, <2>2
<1>3. /\ s \in Strings /\ Len(s) = m + Len(g) /\ m \in Nat \ {0}
      /\ s[m] = Slash /\ \A k \in 1 .. Len(g) : s[m + k] = g[k]
  <2>1. /\ s \in Strings /\ Len(s) = m + Len(g) /\ m \in Nat \ {0}
        /\ \A i \in 1 .. m + Len(g) : s[i] = IF i <= m THEN (u \o <<Slash>>)[i] ELSE g[i - m]
    BY <1>1, <1>2, ConcatProperties DEF Strings
  <2>. HIDE DEF s, m
  <2>2. s[m] = Slash
    BY <1>1, <1>2, <2>1
  <2>3. ASSUME NEW k \in 1 .. Len(g) PROVE s[m + k] = g[k]
    <3>1. m + k \in 1 .. m + Len(g) /\ ~ (m + k <= m) /\ (m + k) - m = k
      BY <1>1, <2>1
    <3>. QED BY <2>1, <3>1
  <2>. QED BY <2>1, <2>2, <2>3
<1>4. c[m] = d
  <2>1. s = u \o (<<Slash>> \o g)
    BY <1>1, ConcatAssociative DEF Strings
  <2>2. c[Len(u)] = d
    <3>1. <<Slash>> \o g \in Strings
      BY <1>1, JoinTyped
    <3>2. NamesUpTo(u \o (<<Slash>> \o g))[Len(u)] = Canonical(u)
      BY <3>1, NamesOfHead
    <3>. QED BY <2>1, <3>2, Zenon
  <2>3. Len(u) \in 0 .. Len(s) - 1 /\ Len(u) + 1 = m
    BY <1>1, <1>3
  <2>4. c[Len(u) + 1] = c[Len(u)]
    BY <1>3, <2>3, NamesFacts
  <2>. QED BY <2>2, <2>3, <2>4
<1>5. \A n \in 0 .. Len(s) - 1 :
           c[n + 1] = IF s[n + 1] = Slash THEN c[n]
                      ELSE IF c[n] # << >> /\ s[n] = Slash THEN c[n] \o <<Slash, s[n + 1]>>
                      ELSE Append(c[n], s[n + 1])
  BY <1>3, NamesFacts
<1>6. front \in Strings
  BY <1>1, ConcatProperties DEF Strings
<1>7. Canonical(s) = c[m + Len(g)]
  BY <1>3 DEF Canonical
<1>8. g[1] # Slash /\ g[Len(g)] # Slash /\ \A k \in 1 .. Len(g) - 1 : g[k] # Slash \/ g[k + 1] # Slash
  BY DEF Clean, NoEmptyName
<1>9. \A i \in Nat : <<i>> \in Strings /\ << >> \o <<i>> = <<i>>
  BY ConcatEmptySeq DEF Strings
<1>10. ASSUME NEW k \in 1 .. Len(g)
       PROVE  /\ SubSeq(g, 1, k) \in Strings /\ SubSeq(g, 1, k - 1) \in Strings
              /\ SubSeq(g, 1, k) = SubSeq(g, 1, k - 1) \o <<g[k]>>
              /\ SubSeq(g, 1, k) # << >>
  <2>1. k \in Nat /\ k <= Len(g) /\ k - 1 \in Nat /\ k - 1 <= Len(g) /\ 1 \in 1 .. Len(g) /\ k # 0
    BY <1>1
  <2>2. SubSeq(g, 1, k) \in Strings /\ SubSeq(g, 1, k - 1) \in Strings /\ Len(SubSeq(g, 1, k)) = k
    BY <2>1, HeadFacts DEF Strings
  <2>3. SubSeq(g, 1, k) = SubSeq(g, 1, k - 1) \o <<g[k]>>
    BY <2>1, SubSeqRecursiveSecond DEF Strings
  <2>. QED BY <2>1, <2>2, <2>3, LengthFacts
<1>. HIDE DEF s, c, d, m
<1>11. 0 \in X
  <2>1. /\ m \in 0 .. Len(s) - 1 /\ 1 \in 1 .. Len(g) /\ s[m + 1] = g[1] /\ g[1] # Slash /\ g[1] \in Nat
        /\ 0 + 1 = 1
    BY <1>1, <1>3, <1>8
  <2>2. SubSeq(g, 1, 1) = <<g[1]>>
    <3>1. SubSeq(g, 1, 1) = SubSeq(g, 1, 1 - 1) \o <<g[1]>>
      BY <1>10, <2>1
    <3>2. SubSeq(g, 1, 1 - 1) = << >>
      BY SubSeqEmpty
    <3>. QED BY <1>1, <1>9, <2>1, <3>1, <3>2
  <2>3. c[m + 1] = front \o <<g[1]>>
    <3>1. CASE d = << >>
      <4>1. c[m + 1] = Append(<< >>, g[1])
        BY <1>4, <1>5, <2>1, <3>1
      <4>. QED BY <1>1, <1>9, <2>1, <3>1, <4>1
    <3>2. CASE d # << >>
      <4>1. c[m + 1] = d \o <<Slash, g[1]>>
        BY <1>3, <1>4, <1>5, <2>1, <3>2
      <4>2. d \o <<Slash, g[1]>> = (d \o <<Slash>>) \o <<g[1]>>
        <5>1. d \in Strings /\ Slash \in Nat /\ g[1] \in Nat
          BY <1>1, <2>1
        <5>. QED BY <5>1, AddBytes, Zenon
      <4>. QED BY <3>2, <4>1, <4>2, Zenon
    <3>. QED BY <3>1, <3>2
  <2>. HIDE DEF front
  <2>. QED BY <2>1, <2>2, <2>3
<1>. HIDE DEF front
<1>12. ASSUME NEW k \in Nat, k \in X PROVE k + 1 \in X
  <2>1. SUFFICES ASSUME (k + 1) + 1 <= Len(g)
                 PROVE  c[m + ((k + 1) + 1)] = front \o SubSeq(g, 1, Read((k + 1) + 1))
    OBVIOUS
  <2>. DEFINE j == k + 1
  <2>2. /\ j \in 1 .. Len(g) - 1 /\ j \in 1 .. Len(g) /\ j + 1 \in 1 .. Len(g) /\ (j + 1) - 1 = j
        /\ m + j \in 0 .. Len(s) - 1 /\ (m + j) + 1 = m + (j + 1) /\ j \in Nat \ {0}
    BY <1>1, <1>3, <2>1
  <2>3. c[m + j] = front \o SubSeq(g, 1, Read(j))
    BY <1>1, <1>12, <2>1
  <2>. HIDE DEF j
  <2>4. s[m + j] = g[j] /\ s[(m + j) + 1] = g[j + 1] /\ g[j] \in Nat /\ g[j + 1] \in Nat
    BY <1>1, <1>3, <2>2
  <2>5. c[m + (j + 1)] = IF g[j + 1] = Slash THEN c[m + j]
                         ELSE IF c[m + j] # << >> /\ g[j] = Slash THEN c[m + j] \o <<Slash, g[j + 1]>>
                         ELSE Append(c[m + j], g[j + 1])
    <3>1. c[(m + j) + 1] = IF s[(m + j) + 1] = Slash THEN c[m + j]
                         ELSE IF c[m + j] # << >> /\ s[m + j] = Slash THEN c[m + j] \o <<Slash, s[(m + j) + 1]>>
                         ELSE Append(c[m + j], s[(m + j) + 1])
      BY <1>5, <2>2
    <3>. QED BY <2>2, <2>4, <3>1
  <2>6. c[m + (j + 1)] = front \o SubSeq(g, 1, Read(j + 1))
    <3>1. CASE g[j + 1] = Slash
      <4>1. g[j] # Slash
        BY <1>8, <2>2, <3>1
      <4>2. c[m + (j + 1)] = front \o SubSeq(g, 1, j)
        BY <2>3, <2>5, <3>1, <4>1
      <4>. QED BY <2>2, <3>1, <4>2
    <3>2. CASE g[j + 1] # Slash /\ g[j] = Slash
      <4>1. c[m + j] = front \o SubSeq(g, 1, j - 1)
        BY <2>3, <3>2
      <4>2. j - 1 \in 1 .. Len(g)
        BY <1>1, <1>8, <2>2, <3>2
      <4>3. SubSeq(g, 1, j - 1) \in Strings /\ SubSeq(g, 1, j - 1) # << >>
        BY <1>10, <4>2
      <4>4. c[m + j] # << >> /\ c[m + j] \in Strings
        BY <1>6, <4>1, <4>3, ConcatEqualIffEmpty, ConcatProperties DEF Strings
      <4>5. c[m + (j + 1)] = (front \o SubSeq(g, 1, j - 1)) \o <<Slash, g[j + 1]>>
        BY <2>5, <3>2, <4>1, <4>4
      <4>6. SubSeq(g, 1, j) = SubSeq(g, 1, j - 1) \o <<Slash>>
        BY <1>10, <2>2, <3>2
      <4>7. SubSeq(g, 1, j + 1) = SubSeq(g, 1, j) \o <<g[j + 1]>>
        BY <1>10, <2>2
      <4>8. SubSeq(g, 1, j + 1) = SubSeq(g, 1, j - 1) \o <<Slash, g[j + 1]>>
        <5>1. SubSeq(g, 1, j - 1) \o <<Slash, g[j + 1]>> = (SubSeq(g, 1, j - 1) \o <<Slash>>) \o <<g[j + 1]>>
          <6>. DEFINE a == SubSeq(g, 1, j - 1)
                      i == g[j + 1]
          <6>1. a \in Strings /\ i \in Nat /\ Slash \in Nat
            BY <1>1, <2>4, <4>3
          <6>. HIDE DEF a, i
          <6>2. a \o <<Slash, i>> = (a \o <<Slash>>) \o <<i>>
            BY <6>1, AddBytes
          <6>. QED BY <6>2 DEF a, i
        <5>. QED BY <4>6, <4>7, <5>1, Zenon
      <4>9. <<Slash, g[j + 1]>> \in Strings
        BY <1>1, <2>4 DEF Strings
      <4>10. c[m + (j + 1)] = front \o SubSeq(g, 1, j + 1)
        <5>1. (front \o SubSeq(g, 1, j - 1)) \o <<Slash, g[j + 1]>> = front \o (SubSeq(g, 1, j - 1) \o <<Slash, g[j + 1]>>)
          BY <1>6, <4>3, <4>9, Regroup
        <5>. QED BY <4>5, <4>8, <5>1, Zenon
      <4>. QED BY <3>2, <4>10
    <3>3. CASE g[j + 1] # Slash /\ g[j] # Slash
      <4>1. c[m + j] = front \o SubSeq(g, 1, j)
        BY <2>3, <3>3
      <4>2. SubSeq(g, 1, j) \in Strings /\ SubSeq(g, 1, j + 1) = SubSeq(g, 1, j) \o <<g[j + 1]>>
        BY <1>10, <2>2
      <4>3. c[m + j] \in Strings
        BY <1>6, <4>1, <4>2, ConcatProperties DEF Strings
      <4>4. c[m + (j + 1)] = (front \o SubSeq(g, 1, j)) \o <<g[j + 1]>>
        <5>1. c[m + (j + 1)] = Append(c[m + j], g[j + 1])
          BY <2>5, <3>3
        <5>2. Append(c[m + j], g[j + 1]) = c[m + j] \o <<g[j + 1]>>
          BY <2>4, <4>3, AddBytes
        <5>. QED BY <4>1, <5>1, <5>2, Zenon
      <4>5. <<g[j + 1]>> \in Strings
        BY <2>4 DEF Strings
      <4>6. c[m + (j + 1)] = front \o SubSeq(g, 1, j + 1)
        <5>1. (front \o SubSeq(g, 1, j)) \o <<g[j + 1]>> = front \o (SubSeq(g, 1, j) \o <<g[j + 1]>>)
          <6>. DEFINE a == SubSeq(g, 1, j)
                      b == <<g[j + 1]>>
          <6>1. a \in Strings /\ b \in Strings
            BY <4>2, <4>5
          <6>. HIDE DEF a, b
          <6>2. (front \o a) \o b = front \o (a \o b)
            BY <1>6, <6>1, JoinTyped
          <6>. QED BY <6>2 DEF a, b
        <5>. QED BY <4>2, <4>4, <5>1, Zenon
      <4>. QED BY <3>3, <4>6
    <3>. QED BY <3>1, <3>2, <3>3
  <2>. QED BY <2>6 DEF j
<1>13. c[m + Len(g)] = front \o g
  <2>1. Len(g) - 1 \in Nat /\ (Len(g) - 1) + 1 = Len(g)
    BY <1>1
  <2>2. Len(g) - 1 \in X
    <3>. HIDE DEF X
    <3>. QED BY <1>11, <1>12, <2>1, Induct
  <2>3. c[m + Len(g)] = front \o SubSeq(g, 1, Read(Len(g)))
    BY <2>1, <2>2
  <2>. QED BY <1>8, <2>3, SubSeqFull DEF Strings
<1>14. CASE d = << >>
  BY <1>7, <1>13, <1>14, ConcatEmptySeq DEF front, s, d, Strings
<1>15. CASE d # << >>
  BY <1>7, <1>13, <1>15 DEF front, s, d
<1>. QED BY <1>14, <1>15 DEF d

\* What follows a directory in a clean path is clean.
LEMMA BelowFacts ==
  ASSUME NEW f \in Strings, Clean(f), NEW d \in Strings, d # << >>, IsPrefix(Append(d, Slash), f)
  PROVE  Below(f, d) \in Strings /\ Clean(Below(f, d)) /\ f = d \o <<Slash>> \o Below(f, d)
<1>. DEFINE h == Append(d, Slash)
<1>1. /\ h \in Seq(Nat) /\ Len(h) = Len(d) + 1 /\ h[Len(d) + 1] = Slash /\ Len(d) \in Nat
      /\ h = d \o <<Slash>> /\ f \in Seq(Nat)
  <2>1. Slash \in Nat /\ d \in Seq(Nat) /\ f \in Seq(Nat)
    BY BytesAssumption DEF Strings
  <2>2. Len(d) \in Nat
    BY <2>1, LengthFacts
  <2>3. h = d \o <<Slash>>
    BY <2>1, AppendIsConcat
  <2>4. h \in Seq(Nat) /\ Len(h) = Len(d) + 1 /\ h[Len(d) + 1] = Slash
    BY <2>1, AppendProperties
  <2>. QED BY <2>1, <2>2, <2>3, <2>4
<1>. HIDE DEF h
<1>2. PICK g \in Seq(Nat) : f = h \o g
  <2>1. IsPrefix(h, f)
    BY DEF h
  <2>2. h \in Seq(Nat) /\ f \in Seq(Nat)
    BY <1>1
  <2>. QED BY <2>1, <2>2, PrefixIsHead
<1>3. Below(f, d) = g
  <2>1. SubSeq(h \o g, Len(h) + 1, Len(h \o g)) = g
    BY <1>1, RestOfConcat
  <2>2. Len(h) + 1 = Len(d) + 2
    BY <1>1
  <2>. QED BY <1>2, <2>1, <2>2 DEF Below
<1>. DEFINE n == Len(h)
<1>4. /\ n \in Nat \ {0} /\ h[n] = Slash /\ Len(g) \in Nat /\ (Len(g) = 0 <=> g = << >>)
      /\ Len(f) = n + Len(g)
      /\ \A i \in 1 .. n + Len(g) : f[i] = IF i <= n THEN h[i] ELSE g[i - n]
  BY <1>1, <1>2, ConcatProperties, LenProperties, EmptySeq
<1>. HIDE DEF n
<1>5. f[n] = Slash
  BY <1>4
<1>6. \A i \in 1 .. Len(g) : f[n + i] = g[i]
  <2>1. ASSUME NEW i \in 1 .. Len(g) PROVE f[n + i] = g[i]
    <3>1. n + i \in 1 .. n + Len(g) /\ ~ (n + i <= n) /\ (n + i) - n = i
      BY <1>4
    <3>. QED BY <1>4, <3>1
  <2>. QED BY <2>1
<1>7. f[Len(f)] # Slash /\ \A i \in 1 .. Len(f) - 1 : f[i] # Slash \/ f[i + 1] # Slash
  BY DEF Clean, NoEmptyName
<1>8. Len(g) # 0
  BY <1>4, <1>5, <1>7
<1>9. g[1] # Slash /\ g[Len(g)] # Slash
  BY <1>4, <1>5, <1>6, <1>7, <1>8
<1>10. ASSUME NEW i \in 1 .. Len(g) - 1 PROVE g[i] # Slash \/ g[i + 1] # Slash
  <2>1. /\ n + i \in 1 .. Len(f) - 1 /\ (n + i) + 1 = n + (i + 1)
        /\ i \in 1 .. Len(g) /\ i + 1 \in 1 .. Len(g)
    BY <1>4
  <2>2. f[n + i] # Slash \/ f[(n + i) + 1] # Slash
    BY <1>7, <2>1
  <2>. QED BY <1>6, <2>1, <2>2
<1>11. Clean(g)
  BY <1>4, <1>8, <1>9, <1>10 DEF Clean, NoEmptyName
<1>12. f = d \o <<Slash>> \o g
  BY <1>1, <1>2, Zenon
<1>. QED BY <1>3, <1>11, <1>12 DEF Strings

\* The path that a listing gives a file leads to it.
LEMMA PathLeadsBack ==
  ASSUME NEW t \in Archives, NEW f \in Files[t], NEW top \in Strings,
         Canonical(top) = << >> \/ IsPrefix(Append(Canonical(top), Slash), f)
  PROVE  /\ top \o <<Slash>> \o Below(f, Canonical(top)) \in Strings
         /\ Canonical(top \o <<Slash>> \o Below(f, Canonical(top))) = f
<1>. DEFINE d == Canonical(top)
            g == Below(f, d)
<1>1. d \in Strings /\ f \in Strings /\ Clean(f) /\ <<Slash>> \in Strings
  BY CanonicalType, FilesAssumption, BytesAssumption DEF Strings
<1>2. g \in Strings /\ Clean(g) /\ f = IF d = << >> THEN g ELSE d \o <<Slash>> \o g
  <2>1. CASE d = << >>
    BY <1>1, <2>1 DEF Below
  <2>2. CASE d # << >>
    <3>1. IsPrefix(Append(d, Slash), f)
      BY <2>2
    <3>. HIDE DEF d
    <3>2. g \in Strings /\ Clean(g) /\ f = d \o <<Slash>> \o g
      BY <1>1, <2>2, <3>1, BelowFacts
    <3>. HIDE DEF g
    <3>. QED BY <2>2, <3>2
  <2>. QED BY <2>1, <2>2
<1>. HIDE DEF g
<1>3. Canonical(top \o <<Slash>> \o g) = IF d = << >> THEN g ELSE d \o <<Slash>> \o g
  BY <1>2, CanonicalTail
<1>4. top \o <<Slash>> \o g \in Strings
  <2>. DEFINE p == <<Slash>>
  <2>1. p \in Strings
    BY <1>1
  <2>. HIDE DEF p
  <2>2. (top \o p) \o g \in Strings
    BY <1>2, <2>1, JoinTyped
  <2>. QED BY <2>2 DEF p
<1>5. Canonical(top \o <<Slash>> \o g) = f
  BY <1>2, <1>3, Zenon
<1>. QED BY <1>4, <1>5 DEF g, d

LEMMA SearchFacts ==
  ASSUME NEW q \in Strings, NEW x \in Strings
  PROVE  SearchKey(q, x) \in Strings /\ SearchTop(SearchKey(q, x)) \in Strings
<1>1. SearchKey(q, x) \in Strings
  BY TrimFacts, EmptyIsPrefix DEF SearchKey
<1>2. ASSUME NEW s \in Strings PROVE SearchTop(s) \in Strings
  <2>. DEFINE N == {i \in DOMAIN s : s[i] = Slash}
  <2>1. Len(s) \in Nat /\ DOMAIN s = 1 .. Len(s)
    BY LengthFacts
  <2>2. CASE N = {}
    BY <2>2, EmptyIsPrefix DEF SearchTop
  <2>3. CASE N # {}
    <3>1. N \in SUBSET Nat /\ \A i \in N : i <= Len(s)
      BY <2>1
    <3>2. Max(N) \in N
      <4>. HIDE DEF N
      <4>. QED BY <2>1, <2>3, <3>1, MaxFacts
    <3>3. Max(N) - 1 \in Nat /\ Max(N) - 1 <= Len(s)
      BY <2>1, <3>2
    <3>4. SubSeq(s, 1, Max(N) - 1) \in Strings
      BY <3>3, HeadFacts DEF Strings
    <3>. QED BY <2>3, <3>4 DEF SearchTop
  <2>. QED BY <2>2, <2>3
<1>. QED BY <1>1, <1>2

\* An entry of a listing: its key is the mapping's prefix and a path that leads to its file.
LEMMA ListedFacts ==
  ASSUME NEW q \in Strings, NEW x \in Strings, NEW t \in Archives,
         NEW e \in Listed(q, [prefix |-> x, target |-> t])
  PROVE  /\ e.prefix = x /\ e.target = t /\ e.file \in Files[t] /\ e.key \in Strings
         /\ \E path \in Strings : e.key = x \o path /\ Canonical(path) = e.file
<1>. DEFINE s == SearchKey(q, x)
            top == SearchTop(s)
<1>1. s \in Strings /\ top \in Strings
  BY SearchFacts
<1>2. PICK h \in FileList(t, top) :
        e = [key |-> ListedKey(x, h.path), prefix |-> x, target |-> t, file |-> h.file]
  BY DEF Listed
<1>. HIDE DEF top
<1>3. PICK f \in Files[t] :
        /\ Canonical(top) = << >> \/ IsPrefix(Append(Canonical(top), Slash), f)
        /\ h = [path |-> top \o <<Slash>> \o Below(f, Canonical(top)), file |-> f]
  BY DEF FileList
<1>4. h.path \in Strings /\ Canonical(h.path) = f
  BY <1>1, <1>3, PathLeadsBack
<1>5. e.key = x \o h.path /\ x \o h.path \in Strings /\ e.prefix = x /\ e.target = t /\ e.file = f
  BY <1>2, <1>3, <1>4, JoinTyped DEF ListedKey
<1>. QED BY <1>4, <1>5

---------------------------------------------------------------------------
(* The order of strings, and the prefix that query finds *)

\* Of two strings one comes first.
LEMMA LessTotal ==
  ASSUME NEW s \in Strings, NEW t \in Strings, s # t
  PROVE  Less(s, t) \/ Less(t, s)
<1>. DEFINE D == {i \in Nat : i \in 1 .. Len(s) /\ i \in 1 .. Len(t) /\ s[i] # t[i]}
<1>1. /\ Len(s) \in Nat /\ DOMAIN s = 1 .. Len(s) /\ Len(t) \in Nat /\ DOMAIN t = 1 .. Len(t)
      /\ \A i \in 1 .. Len(s) : s[i] \in Nat
      /\ \A i \in 1 .. Len(t) : t[i] \in Nat
  BY LengthFacts
<1>2. CASE D = {}
  <2>1. IsPrefix(s, t) \/ IsPrefix(t, s)
    <3>1. CASE Len(s) <= Len(t)
      <4>1. \A i \in 1 .. Len(s) : s[i] = t[i]
        BY <1>1, <1>2, <3>1
      <4>. QED BY <3>1, <4>1, PrefixFacts DEF Strings
    <3>2. CASE ~ (Len(s) <= Len(t))
      <4>1. Len(t) <= Len(s) /\ \A i \in 1 .. Len(t) : t[i] = s[i]
        BY <1>1, <1>2, <3>2
      <4>. QED BY <4>1, PrefixFacts DEF Strings
    <3>. QED BY <3>1, <3>2
  <2>. QED BY <2>1 DEF Less, IsStrictPrefix
<1>3. CASE D # {}
  <2>1. PICK i \in D : \A j \in D : i <= j
    <3>. HIDE DEF D
    <3>1. D \in SUBSET Nat
      BY DEF D
    <3>. QED BY <1>3, <3>1, LeastExists
  <2>2. i \in DOMAIN s \cap DOMAIN t /\ s[i] \in Nat /\ t[i] \in Nat /\ s[i] # t[i]
    BY <1>1, <2>1
  <2>3. \A j \in 1 .. i - 1 : s[j] = t[j]
    BY <1>1, <2>1
  <2>4. s[i] < t[i] \/ t[i] < s[i]
    BY <2>2
  <2>5. CASE s[i] < t[i]
    BY <2>2, <2>3, <2>5 DEF Less
  <2>6. CASE t[i] < s[i]
    BY <2>2, <2>3, <2>6 DEF Less
  <2>. QED BY <2>4, <2>5, <2>6
<1>. QED BY <1>2, <1>3

\* Of two beginnings of one string the shorter comes first, and they are the same if they
\* are as long.
LEMMA PrefixOrder ==
  ASSUME NEW q \in Strings, NEW x \in Strings, NEW y \in Strings, IsPrefix(x, q), IsPrefix(y, q)
  PROVE  /\ Len(x) = Len(y) => x = y
         /\ x # y => (Less(y, x) <=> Len(y) <= Len(x))
<1>1. /\ Len(x) <= Len(q) /\ \A i \in 1 .. Len(x) : x[i] = q[i]
      /\ Len(y) <= Len(q) /\ \A i \in 1 .. Len(y) : y[i] = q[i]
  BY PrefixFacts DEF Strings
<1>2. /\ Len(x) \in Nat /\ DOMAIN x = 1 .. Len(x) /\ Len(y) \in Nat /\ DOMAIN y = 1 .. Len(y) /\ Len(q) \in Nat
      /\ \A i \in 1 .. Len(q) : q[i] \in Nat
  BY LengthFacts
<1>3. Len(x) = Len(y) => x = y
  BY <1>1, SeqEqual DEF Strings
<1>4. ASSUME x # y, Less(y, x) PROVE Len(y) <= Len(x)
  <2>1. ~ \E i \in DOMAIN y \cap DOMAIN x : y[i] < x[i]
    <3>1. ASSUME NEW i \in DOMAIN y \cap DOMAIN x, y[i] < x[i] PROVE FALSE
      <4>1. y[i] = q[i] /\ x[i] = q[i] /\ q[i] \in Nat
        BY <1>1, <1>2
      <4>. QED BY <3>1, <4>1
    <3>. QED BY <3>1
  <2>2. IsStrictPrefix(y, x)
    BY <1>4, <2>1 DEF Less
  <2>. QED BY <2>2 DEF IsStrictPrefix, IsPrefix
<1>5. ASSUME x # y, Len(y) <= Len(x) PROVE Less(y, x)
  <2>1. \A i \in 1 .. Len(y) : y[i] = x[i]
    BY <1>1, <1>2, <1>5
  <2>2. IsPrefix(y, x)
    BY <1>5, <2>1, PrefixFacts DEF Strings
  <2>. QED BY <1>5, <2>2 DEF Less, IsStrictPrefix
<1>. QED BY <1>3, <1>4, <1>5

\* A key that no mapping extends is cut nowhere, and gets the longest prefix it begins with.
LEMMA FoundLongest ==
  ASSUME \A x \in DOMAIN vmap : x \in Strings,
         NEW q \in Strings, ~ \E x \in DOMAIN vmap : IsStrictPrefix(q, x), OneByteEach(q)
  PROVE  /\ ~ CutsCharacter(q)
         /\ Chosen(q) = {x \in DOMAIN vmap : /\ IsPrefix(x, q)
                                            /\ \A y \in DOMAIN vmap : IsPrefix(y, q) => Len(y) <= Len(x)}
<1>1. Len(q) \in Nat /\ DOMAIN q = 1 .. Len(q)
  BY LengthFacts
<1>2. ~ CutsCharacter(q)
  <2>1. SUFFICES ASSUME NEW y \in DOMAIN vmap, Len(q) > Len(y), q[Len(y) + 1] \in Continuation PROVE FALSE
    BY DEF CutsCharacter, Seen
  <2>2. Len(y) + 1 \in DOMAIN q
    BY <1>1, <2>1, LengthFacts
  <2>. QED BY <2>1, <2>2 DEF OneByteEach
<1>. DEFINE M == {x \in DOMAIN vmap : IsPrefix(x, q)}
            L == {x \in M : \A y \in M : Len(y) <= Len(x)}
<1>3. Matching(q) = M
  <2>1. ASSUME NEW x \in DOMAIN vmap PROVE Matches(x, q) <=> IsPrefix(x, q)
    <3>1. x \in Strings /\ Len(x) \in Nat
      BY LengthFacts
    <3>2. CASE Len(q) > Len(x)
      BY <3>2 DEF Matches
    <3>3. CASE ~ (Len(q) > Len(x))
      <4>1. IsPrefix(q, x) => q = x
        BY DEF IsStrictPrefix
      <4>2. IsPrefix(q, q)
        BY <1>1, PrefixFacts DEF Strings
      <4>3. IsPrefix(x, q) => Len(x) = Len(q)
        BY <1>1, <3>1, <3>3 DEF IsPrefix
      <4>4. IsPrefix(x, q) => x = q
        BY <3>1, <4>2, <4>3, PrefixOrder
      <4>. QED BY <3>3, <4>1, <4>2, <4>4 DEF Matches
    <3>. QED BY <3>2, <3>3
  <2>. QED BY <2>1 DEF Matching
<1>4. Found(q) = L
  <2>1. ASSUME NEW x \in M, NEW y \in M PROVE (x = y \/ Less(y, x)) <=> Len(y) <= Len(x)
    <3>1. x \in Strings /\ y \in Strings /\ Len(x) \in Nat /\ Len(y) \in Nat
      BY LengthFacts
    <3>. QED BY <3>1, PrefixOrder
  <2>. QED BY <1>3, <2>1 DEF Found
<1>5. M # {} => L # {}
  <2>1. SUFFICES ASSUME M # {} PROVE \E x \in M : \A y \in M : Len(y) <= Len(x)
    OBVIOUS
  <2>. DEFINE N == {n \in Nat : \E x \in M : n = Len(x)}
  <2>2. \A x \in M : Len(x) \in N /\ Len(x) <= Len(q)
    BY LengthFacts DEF IsPrefix
  <2>3. N \in SUBSET Nat /\ N # {} /\ \A n \in N : n <= Len(q)
    BY <2>1, <2>2
  <2>. HIDE DEF M
  <2>4. Max(N) \in N /\ \A n \in N : n <= Max(N)
    <3>. HIDE DEF N
    <3>. QED BY <1>1, <2>3, MaxFacts
  <2>5. PICK x \in M : Max(N) = Len(x)
    BY <2>4
  <2>. QED BY <2>2, <2>4, <2>5
<1>6. Chosen(q) = L
  <2>1. CASE Found(q) # {}
    BY <1>4, <2>1 DEF Chosen
  <2>2. CASE Found(q) = {}
    <3>1. M = {}
      BY <1>4, <1>5, <2>2
    <3>2. << >> \notin DOMAIN vmap
      <4>1. IsPrefix(<< >>, q)
        BY EmptyIsPrefix
      <4>. QED BY <3>1, <4>1
    <3>. QED BY <1>4, <2>2, <3>2 DEF Chosen
  <2>. QED BY <2>1, <2>2
<1>. QED BY <1>2, <1>6

---------------------------------------------------------------------------
(* The inductive invariant *)

\* The map holds the first n settings that are read: for each prefix the last of them.
LastUpTo(i, n) == i \in Pairs /\ i <= n /\ \A j \in Pairs : j <= n /\ Prefix(j) = Prefix(i) => j <= i
Loaded(n) ==
  /\ DOMAIN vmap = {Prefix(i) : i \in {i \in Pairs : i <= n}}
  /\ \A i \in Pairs : LastUpTo(i, n) => vmap[Prefix(i)] = SettingsRead[i].target
MapInv ==
  /\ pc = "env" => (\A i \in 1 .. at - 1 : IsSet(i)) /\ Loaded(at - 1)
  /\ pc = "file" => at <= Len(lines) + 1 /\ Loaded(SlotsRead + at - 1)
  /\ pc \in {"query", "search", "done"} => Loaded(Len(SettingsRead))

\* What was answered is what the map and the archive of the route say.
Looked(q, r) ==
  LET f == Canonical(SearchKey(q, r.prefix))
  IN  CASE RunsThroughFile(r.target, f) -> Panics
        [] f \in Files[r.target] -> [target |-> r.target, file |-> f]
        [] OTHER -> NotFound
ListAnswer(q, r) ==
  IF RunsThroughFile(r.target, Canonical(SearchTop(SearchKey(q, r.prefix))))
  THEN Panics ELSE Listed(q, r)
RouteInv ==
  /\ pc \notin {"search", "done"} => route = NoRoute
  /\ pc = "search" => ~ CutsCharacter(key) /\ route \in Routes(key)
  /\ pc = "done" =>
       \/ CutsCharacter(key) /\ answer = Panics
       \/ ~ CutsCharacter(key) /\ Routes(key) = {} /\ answer = NotFound
       \/ ~ CutsCharacter(key) /\ route \in Routes(key)
            /\ answer = IF op = "list" THEN ListAnswer(key, route) ELSE Looked(key, route)

\* A key that a listing gave came from the archive that a full map has for its prefix.
FromInv ==
  /\ pc # "idle" /\ op = "list" => key \in Searches
  /\ from # NoKey =>
       /\ op = "get" /\ key = PathKey(from.key)
       /\ from.target # NoArchive
       /\ \E i \in Pairs : /\ LastUpTo(i, Len(SettingsRead))
                           /\ Prefix(i) = from.prefix /\ SettingsRead[i].target = from.target
       /\ \E q \in Searches : from \in Listed(q, [prefix |-> from.prefix, target |-> from.target])

RoutingInv == KeyTypeOK /\ MapInv /\ RouteInv /\ FromInv

---------------------------------------------------------------------------
(* The settings *)

LEMMA SlashFirst ==
  ASSUME NEW s \in Strings
  PROVE  IsPrefix(<<Slash>>, s) <=> ~ NoSlashFirst(s)
<1>. DEFINE p == <<Slash>>
<1>1. p \in Strings /\ Len(p) = 1 /\ p[1] = Slash
  BY BytesAssumption DEF Strings
<1>2. Len(s) \in Nat /\ (Len(s) = 0 <=> s = << >>)
  BY LengthFacts
<1>. HIDE DEF p
<1>3. p \in Seq(Nat) /\ s \in Seq(Nat)
  BY <1>1 DEF Strings
<1>4. ASSUME IsPrefix(p, s) PROVE s # << >> /\ s[1] = Slash
  <2>1. Len(p) <= Len(s) /\ \A i \in 1 .. Len(p) : p[i] = s[i]
    BY <1>3, <1>4, PrefixFacts
  <2>. QED BY <1>1, <1>2, <2>1
<1>5. ASSUME s # << >>, s[1] = Slash PROVE IsPrefix(p, s)
  <2>1. Len(p) <= Len(s) /\ \A i \in 1 .. Len(p) : p[i] = s[i]
    BY <1>1, <1>2, <1>5
  <2>. QED BY <1>3, <2>1, PrefixFacts
<1>. QED BY <1>4, <1>5 DEF NoSlashFirst, p

\* What is entered for a pair, and looked up for a path, does not begin with a slash.
LEMMA NoSlash ==
  ASSUME NEW s \in Strings
  PROVE  TrimStart(s, <<Slash>>) \in Strings /\ NoSlashFirst(TrimStart(s, <<Slash>>))
<1>. DEFINE p == <<Slash>>
<1>1. p \in Strings /\ p # << >>
  BY BytesAssumption DEF Strings
<1>. HIDE DEF p
<1>2. TrimStart(s, p) \in Strings /\ ~ IsPrefix(p, TrimStart(s, p))
  BY <1>1, TrimFacts
<1>. QED BY <1>2, SlashFirst DEF p

LEMMA EntryFacts ==
  ASSUME NEW s \in Settings \ {Malformed}
  PROVE  Entry(s) \in Strings /\ NoSlashFirst(Entry(s)) /\ s.target \in Archives \cup {NoArchive}
BY SettingAssumption, NoSlash DEF Entry

LEMMA SettingsFacts ==
  ASSUME KeyTypeOK
  PROVE  /\ SlotsRead \in 0 .. MaxSlots /\ (\A i \in 1 .. SlotsRead : IsSet(i)) /\ ~ IsSet(SlotsRead + 1)
         /\ Len(lines) \in Nat /\ Len(SettingsRead) = SlotsRead + Len(lines)
         /\ DOMAIN SettingsRead = 1 .. SlotsRead + Len(lines)
         /\ \A i \in 1 .. SlotsRead : SettingsRead[i] = slots[i]
         /\ \A i \in 1 .. Len(lines) : SettingsRead[SlotsRead + i] = lines[i]
         /\ \A i \in DOMAIN SettingsRead : SettingsRead[i] \in Settings
<1>. DEFINE N == {n \in 0 .. MaxSlots : \A i \in 1 .. n : IsSet(i)}
            h == [i \in 1 .. SlotsRead |-> slots[i]]
<1>1. MaxSlots \in Nat /\ slots \in [1 .. MaxSlots -> Settings \cup {Unset}] /\ lines \in Seq(Settings)
  BY BytesAssumption DEF KeyTypeOK
<1>2. SlotsRead \in N /\ \A n \in N : n <= SlotsRead
  <2>1. 0 \in N /\ N \in SUBSET Nat /\ \A n \in N : n <= MaxSlots
    BY <1>1
  <2>. HIDE DEF N
  <2>2. Max(N) \in N /\ \A n \in N : n <= Max(N)
    BY <1>1, <2>1, MaxFacts
  <2>. QED BY <2>2 DEF SlotsRead, N
<1>3. SlotsRead \in 0 .. MaxSlots /\ \A i \in 1 .. SlotsRead : IsSet(i)
  BY <1>2
<1>4. ~ IsSet(SlotsRead + 1)
  <2>1. SUFFICES ASSUME IsSet(SlotsRead + 1) PROVE FALSE
    OBVIOUS
  <2>2. SlotsRead + 1 \in 0 .. MaxSlots
    BY <1>1, <1>3, <2>1 DEF IsSet
  <2>3. \A i \in 1 .. SlotsRead + 1 : IsSet(i)
    BY <1>1, <1>3, <2>1
  <2>. QED BY <1>1, <1>2, <2>2, <2>3
<1>5. h \in Seq(Settings) /\ Len(h) = SlotsRead /\ \A i \in 1 .. SlotsRead : h[i] = slots[i]
  <2>1. \A i \in 1 .. SlotsRead : slots[i] \in Settings
    BY <1>1, <1>3 DEF IsSet
  <2>2. SlotsRead \in Nat
    BY <1>1, <1>3
  <2>. QED BY <2>1, <2>2
<1>6. SettingsRead = h \o lines
  BY DEF SettingsRead
<1>. HIDE DEF h
<1>7. /\ SettingsRead \in Seq(Settings) /\ Len(lines) \in Nat
      /\ Len(SettingsRead) = SlotsRead + Len(lines)
      /\ \A i \in 1 .. SlotsRead + Len(lines) :
           SettingsRead[i] = IF i <= SlotsRead THEN h[i] ELSE lines[i - SlotsRead]
  BY <1>1, <1>5, <1>6, ConcatProperties, LenProperties
<1>8. /\ DOMAIN SettingsRead = 1 .. SlotsRead + Len(lines)
      /\ \A i \in DOMAIN SettingsRead : SettingsRead[i] \in Settings
  BY <1>7, LenProperties, ElementOfSeq
<1>9. \A i \in 1 .. SlotsRead : SettingsRead[i] = slots[i]
  BY <1>1, <1>3, <1>5, <1>7
<1>10. ASSUME NEW i \in 1 .. Len(lines) PROVE SettingsRead[SlotsRead + i] = lines[i]
  <2>1. SlotsRead + i \in 1 .. SlotsRead + Len(lines) /\ ~ (SlotsRead + i <= SlotsRead) /\ (SlotsRead + i) - SlotsRead = i
    BY <1>1, <1>3, <1>7
  <2>. QED BY <1>7, <2>1
<1>. QED BY <1>3, <1>4, <1>7, <1>8, <1>9, <1>10

LEMMA PairFactsOfSettings ==
  ASSUME KeyTypeOK
  PROVE  /\ Pairs \subseteq 1 .. Len(SettingsRead)
         /\ \A i \in Pairs : /\ Prefix(i) \in Strings /\ NoSlashFirst(Prefix(i))
                             /\ SettingsRead[i].target \in Archives \cup {NoArchive}
<1>1. \A i \in Pairs : i \in 1 .. Len(SettingsRead) /\ SettingsRead[i] \in Settings \ {Malformed}
  BY SettingsFacts DEF Pairs
<1>. QED BY <1>1, EntryFacts DEF Prefix

\* The settings are the same as long as the variables and the file are.
LEMMA SameSettings ==
  ASSUME UNCHANGED <<slots, lines>>
  PROVE  /\ SlotsRead' = SlotsRead /\ SettingsRead' = SettingsRead /\ Pairs' = Pairs
         /\ \A i : (IsSet(i)' <=> IsSet(i)) /\ Prefix(i)' = Prefix(i)
         /\ \A i, n : LastUpTo(i, n)' <=> LastUpTo(i, n)
<1>1. \A i : IsSet(i)' <=> IsSet(i)
  BY DEF IsSet
<1>2. SlotsRead' = SlotsRead
  BY <1>1 DEF SlotsRead
<1>3. SettingsRead' = SettingsRead
  BY <1>2 DEF SettingsRead
<1>4. Pairs' = Pairs /\ \A i : Prefix(i)' = Prefix(i)
  BY <1>3 DEF Pairs, Prefix
<1>5. \A i, n : LastUpTo(i, n)' <=> LastUpTo(i, n)
  BY <1>4 DEF LastUpTo
<1>. QED BY <1>1, <1>2, <1>3, <1>4, <1>5

LEMMA SameLoaded ==
  ASSUME UNCHANGED <<slots, lines, vmap>>
  PROVE  \A n : Loaded(n)' <=> Loaded(n)
BY SameSettings DEF Loaded

\* A prefix that was entered has a last pair that was.
LEMMA LastExists ==
  ASSUME KeyTypeOK, NEW n \in Nat, NEW i \in Pairs, i <= n
  PROVE  \E j \in Pairs : LastUpTo(j, n) /\ Prefix(j) = Prefix(i)
<1>. DEFINE N == {j \in Pairs : j <= n /\ Prefix(j) = Prefix(i)}
<1>1. N \in SUBSET Nat /\ i \in N /\ \A j \in N : j <= n
  BY PairFactsOfSettings
<1>2. Max(N) \in N /\ \A j \in N : j <= Max(N)
  <2>. HIDE DEF N
  <2>. QED BY <1>1, MaxFacts
<1>. QED BY <1>2 DEF LastUpTo

\* Entering the next setting keeps the map in step with the settings.
LEMMA InsertLoads ==
  ASSUME KeyTypeOK, NEW n \in 1 .. Len(SettingsRead), Loaded(n - 1),
         Insert(SettingsRead[n]), UNCHANGED <<slots, lines>>
  PROVE  /\ Loaded(n)'
         /\ \A x \in DOMAIN vmap' : x \in Strings /\ NoSlashFirst(x) /\ vmap'[x] \in Archives \cup {NoArchive}
<1>1. /\ Len(SettingsRead) \in Nat /\ n \in Nat /\ SettingsRead[n] \in Settings /\ n \in DOMAIN SettingsRead
      /\ Pairs \subseteq Nat /\ \A i \in Pairs : i <= n <=> i <= n - 1 \/ i = n
  BY SettingsFacts, PairFactsOfSettings
<1>2. /\ DOMAIN vmap = {Prefix(i) : i \in {i \in Pairs : i <= n - 1}}
      /\ \A i \in Pairs : LastUpTo(i, n - 1) => vmap[Prefix(i)] = SettingsRead[i].target
  BY DEF Loaded
<1>3. /\ \A x \in DOMAIN vmap : x \in Strings /\ NoSlashFirst(x) /\ vmap[x] \in Archives \cup {NoArchive}
  BY DEF KeyTypeOK
<1>4. SUFFICES /\ DOMAIN vmap' = {Prefix(i) : i \in {i \in Pairs : i <= n}}
               /\ \A i \in Pairs : LastUpTo(i, n) => vmap'[Prefix(i)] = SettingsRead[i].target
               /\ \A x \in DOMAIN vmap' : x \in Strings /\ NoSlashFirst(x) /\ vmap'[x] \in Archives \cup {NoArchive}
  BY SameSettings DEF Loaded
<1>5. CASE SettingsRead[n] = Malformed
  <2>1. n \notin Pairs /\ vmap' = vmap
    BY <1>5 DEF Pairs, Insert
  <2>2. \A i \in Pairs : (i <= n <=> i <= n - 1) /\ (LastUpTo(i, n) => LastUpTo(i, n - 1))
    BY <1>1, <2>1 DEF LastUpTo
  <2>. QED BY <1>2, <1>3, <2>1, <2>2
<1>6. CASE SettingsRead[n] # Malformed
  <2>1. n \in Pairs /\ Prefix(n) = Entry(SettingsRead[n])
    BY <1>1, <1>6 DEF Pairs, Prefix
  <2>2. vmap' = [x \in DOMAIN vmap \cup {Prefix(n)} |-> IF x = Prefix(n) THEN SettingsRead[n].target ELSE vmap[x]]
    BY <1>6, <2>1 DEF Insert
  <2>3. DOMAIN vmap' = {Prefix(i) : i \in {i \in Pairs : i <= n}}
    BY <1>1, <1>2, <2>1, <2>2
  <2>4. ASSUME NEW i \in Pairs, LastUpTo(i, n) PROVE vmap'[Prefix(i)] = SettingsRead[i].target
    <3>1. CASE i = n
      BY <2>1, <2>2, <3>1
    <3>2. CASE i # n
      <4>1. i <= n - 1 /\ Prefix(i) # Prefix(n)
        BY <1>1, <2>1, <2>4, <3>2 DEF LastUpTo
      <4>2. LastUpTo(i, n - 1) /\ Prefix(i) \in DOMAIN vmap
        BY <1>1, <1>2, <2>4, <4>1 DEF LastUpTo
      <4>. QED BY <1>2, <2>2, <4>1, <4>2
    <3>. QED BY <3>1, <3>2
  <2>5. Prefix(n) \in Strings /\ NoSlashFirst(Prefix(n)) /\ SettingsRead[n].target \in Archives \cup {NoArchive}
    BY <2>1, PairFactsOfSettings
  <2>6. \A x \in DOMAIN vmap' : x \in Strings /\ NoSlashFirst(x) /\ vmap'[x] \in Archives \cup {NoArchive}
    BY <1>3, <2>2, <2>5
  <2>. QED BY <2>3, <2>4, <2>6
<1>. QED BY <1>5, <1>6

---------------------------------------------------------------------------
(* The invariant holds *)

LEMMA InitInv ==
  ASSUME Init
  PROVE  RoutingInv
<1>1. /\ slots \in [1 .. MaxSlots -> Settings \cup {Unset}] /\ lines \in Seq(Settings) /\ << >> \in Strings
      /\ DOMAIN vmap = {} /\ pc = "idle" /\ op = "list" /\ key = << >> /\ from = NoKey /\ at = 1
      /\ route = NoRoute /\ answer = NoAnswer
  BY SettingAssumption, EmptySeq DEF Init, NoMap, Strings
<1>2. KeyTypeOK
  BY <1>1 DEF KeyTypeOK, NoRoute
<1>. QED BY <1>1, <1>2 DEF RoutingInv, MapInv, RouteInv, FromInv

\* The parts of the invariant that are about the settings alone stay as they are.
LEMMA FromKept ==
  ASSUME FromInv, UNCHANGED <<slots, lines, op, key, from>>, pc # "idle"
  PROVE  FromInv'
<1>1. /\ op = "list" => key \in Searches
      /\ from # NoKey =>
           /\ op = "get" /\ key = PathKey(from.key)
           /\ from.target # NoArchive
           /\ \E i \in Pairs : /\ LastUpTo(i, Len(SettingsRead))
                               /\ Prefix(i) = from.prefix /\ SettingsRead[i].target = from.target
           /\ \E q \in Searches : from \in Listed(q, [prefix |-> from.prefix, target |-> from.target])
  BY DEF FromInv
<1>. QED BY <1>1, SameSettings DEF FromInv

LEMMA LoadSlotInv ==
  ASSUME RoutingInv, LoadSlot
  PROVE  RoutingInv'
<1>1. /\ KeyTypeOK /\ RouteInv /\ FromInv /\ pc = "env" /\ pc' = "env" /\ IsSet(at) /\ Insert(slots[at]) /\ at' = at + 1
      /\ UNCHANGED <<slots, lines, op, key, from, route, answer>>
      /\ (\A i \in 1 .. at - 1 : IsSet(i)) /\ Loaded(at - 1) /\ at \in Nat \ {0}
  BY DEF RoutingInv, MapInv, LoadSlot, KeyTypeOK
<1>2. at \in 1 .. SlotsRead
  <2>1. SlotsRead \in Nat /\ ~ IsSet(SlotsRead + 1)
    BY <1>1, SettingsFacts
  <2>2. ~ (SlotsRead + 1 <= at)
    BY <1>1, <2>1
  <2>. QED BY <1>1, <2>1, <2>2
<1>3. at \in 1 .. Len(SettingsRead) /\ SettingsRead[at] = slots[at]
  BY <1>1, <1>2, SettingsFacts
<1>4. PICK n \in 1 .. Len(SettingsRead) : n = at
  BY <1>3
<1>5. /\ Loaded(n)'
      /\ \A x \in DOMAIN vmap' : x \in Strings /\ NoSlashFirst(x) /\ vmap'[x] \in Archives \cup {NoArchive}
  BY <1>1, <1>3, <1>4, InsertLoads
<1>6. KeyTypeOK' /\ MapInv'
  <2>1. KeyTypeOK'
    BY <1>1, <1>5 DEF KeyTypeOK
  <2>2. at' - 1 = n /\ \A i \in 1 .. n : IsSet(i)'
    BY <1>1, <1>4, SameSettings
  <2>3. (\A i \in 1 .. at - 1 : IsSet(i))'
    BY <2>2
  <2>4. Loaded(at - 1)'
    BY <1>5, <2>2 DEF Loaded, LastUpTo
  <2>5. pc' = "env"
    BY <1>1
  <2>. QED BY <2>1, <2>3, <2>4, <2>5 DEF MapInv
<1>7. RouteInv' /\ FromInv'
  BY <1>1, FromKept DEF RouteInv
<1>. QED BY <1>6, <1>7 DEF RoutingInv

LEMMA SlotsLoadedInv ==
  ASSUME RoutingInv, SlotsLoaded
  PROVE  RoutingInv'
<1>1. /\ KeyTypeOK /\ RouteInv /\ FromInv /\ pc = "env" /\ pc' = "file" /\ ~ IsSet(at) /\ at' = 1
      /\ UNCHANGED <<slots, lines, op, key, from, vmap, route, answer>>
      /\ (\A i \in 1 .. at - 1 : IsSet(i)) /\ Loaded(at - 1) /\ at \in Nat \ {0}
  BY DEF RoutingInv, MapInv, SlotsLoaded, KeyTypeOK
<1>2. at - 1 = SlotsRead /\ SlotsRead \in Nat /\ Len(lines) \in Nat
  <2>1. SlotsRead \in Nat /\ ~ IsSet(SlotsRead + 1) /\ (\A i \in 1 .. SlotsRead : IsSet(i)) /\ Len(lines) \in Nat
    BY <1>1, SettingsFacts
  <2>2. ~ (at <= SlotsRead) /\ ~ (SlotsRead + 1 <= at - 1)
    BY <1>1, <2>1
  <2>. QED BY <1>1, <2>1, <2>2
<1>3. KeyTypeOK'
  BY <1>1 DEF KeyTypeOK
<1>4. MapInv'
  <2>1. Loaded(SlotsRead)
    BY <1>1, <1>2
  <2>2. (SlotsRead + at - 1)' = SlotsRead /\ (at <= Len(lines) + 1)'
    BY <1>1, <1>2, SameSettings
  <2>. DEFINE k == SlotsRead
              n == SlotsRead + at - 1
  <2>3. n' = k /\ vmap' = vmap /\ Loaded(k)
    BY <1>1, <2>1, <2>2
  <2>4. /\ Pairs' = Pairs /\ SettingsRead' = SettingsRead /\ \A i : Prefix(i)' = Prefix(i)
        /\ \A i : LastUpTo(i, n)' <=> LastUpTo(i, k)
    <3>1. /\ Pairs' = Pairs /\ SettingsRead' = SettingsRead
          /\ \A i : Prefix(i)' = Prefix(i)
      BY <1>1, SameSettings
    <3>. HIDE DEF k, n
    <3>. QED BY <2>3, <3>1 DEF LastUpTo
  <2>. HIDE DEF k, n
  <2>5. Loaded(n)'
    BY <2>3, <2>4 DEF Loaded
  <2>. QED BY <1>1, <2>2, <2>5 DEF MapInv, n
<1>5. RouteInv' /\ FromInv'
  BY <1>1, FromKept DEF RouteInv
<1>. QED BY <1>3, <1>4, <1>5 DEF RoutingInv

LEMMA LoadLineInv ==
  ASSUME RoutingInv, LoadLine
  PROVE  RoutingInv'
<1>1. /\ KeyTypeOK /\ RouteInv /\ FromInv /\ pc = "file" /\ pc' = "file" /\ at <= Len(lines)
      /\ Insert(lines[at]) /\ at' = at + 1
      /\ UNCHANGED <<slots, lines, op, key, from, route, answer>>
      /\ Loaded(SlotsRead + at - 1) /\ at \in Nat \ {0}
  BY DEF RoutingInv, MapInv, LoadLine, KeyTypeOK
<1>2. /\ SlotsRead \in Nat /\ Len(lines) \in Nat /\ at \in 1 .. Len(lines)
      /\ SlotsRead + at \in 1 .. Len(SettingsRead) /\ SettingsRead[SlotsRead + at] = lines[at]
  <2>1. /\ SlotsRead \in Nat /\ Len(lines) \in Nat /\ Len(SettingsRead) = SlotsRead + Len(lines)
        /\ \A i \in 1 .. Len(lines) : SettingsRead[SlotsRead + i] = lines[i]
    BY <1>1, SettingsFacts
  <2>2. at \in 1 .. Len(lines) /\ SlotsRead + at \in 1 .. SlotsRead + Len(lines)
    BY <1>1, <2>1
  <2>. QED BY <2>1, <2>2
<1>3. PICK n \in 1 .. Len(SettingsRead) : n = SlotsRead + at
  BY <1>2
<1>4. /\ Loaded(n)'
      /\ \A x \in DOMAIN vmap' : x \in Strings /\ NoSlashFirst(x) /\ vmap'[x] \in Archives \cup {NoArchive}
  BY <1>1, <1>2, <1>3, InsertLoads
<1>5. KeyTypeOK'
  BY <1>1, <1>4 DEF KeyTypeOK
<1>6. MapInv'
  <2>1. (SlotsRead + at - 1)' = n /\ (at <= Len(lines) + 1)'
    BY <1>1, <1>2, <1>3, SameSettings
  <2>2. Loaded(SlotsRead + at - 1)'
    BY <1>4, <2>1 DEF Loaded, LastUpTo
  <2>3. pc' = "file"
    BY <1>1
  <2>. QED BY <2>1, <2>2, <2>3 DEF MapInv
<1>7. RouteInv' /\ FromInv'
  BY <1>1, FromKept DEF RouteInv
<1>. QED BY <1>5, <1>6, <1>7 DEF RoutingInv

LEMMA FileLoadedInv ==
  ASSUME RoutingInv, FileLoaded
  PROVE  RoutingInv'
<1>1. /\ KeyTypeOK /\ RouteInv /\ FromInv /\ pc = "file" /\ pc' = "query" /\ at > Len(lines) /\ at' = 1
      /\ UNCHANGED <<slots, lines, op, key, from, vmap, route, answer>>
      /\ at <= Len(lines) + 1 /\ Loaded(SlotsRead + at - 1) /\ at \in Nat \ {0}
  BY DEF RoutingInv, MapInv, FileLoaded, KeyTypeOK
<1>2. SlotsRead + at - 1 = Len(SettingsRead)
  BY <1>1, SettingsFacts
<1>3. KeyTypeOK'
  BY <1>1 DEF KeyTypeOK
<1>4. MapInv'
  <2>1. Loaded(Len(SettingsRead))
    BY <1>1, <1>2
  <2>2. Loaded(Len(SettingsRead))'
    BY <1>1, <2>1, SameSettings DEF Loaded, LastUpTo
  <2>. QED BY <1>1, <2>2 DEF MapInv
<1>5. RouteInv' /\ FromInv'
  BY <1>1, FromKept DEF RouteInv
<1>. QED BY <1>3, <1>4, <1>5 DEF RoutingInv

LEMMA InvokeInv ==
  ASSUME RoutingInv, NEW o \in {"list", "get"}, NEW q \in Strings, NEW e, Invoke(o, q, e),
         o = "list" => q \in Searches,
         e # NoKey =>
           /\ o = "get" /\ q = PathKey(e.key) /\ e.target # NoArchive
           /\ \E i \in Pairs : /\ LastUpTo(i, Len(SettingsRead))
                               /\ Prefix(i) = e.prefix /\ SettingsRead[i].target = e.target
           /\ \E r \in Searches : e \in Listed(r, [prefix |-> e.prefix, target |-> e.target])
  PROVE  RoutingInv'
<1>1. /\ KeyTypeOK /\ pc' = "env" /\ op' = o /\ key' = q /\ from' = e /\ at' = 1
      /\ DOMAIN vmap' = {} /\ route' = NoRoute /\ answer' = NoAnswer /\ UNCHANGED <<slots, lines>>
  BY DEF RoutingInv, Invoke, NoMap
<1>2. KeyTypeOK'
  <2>1. << >> \in Strings
    BY EmptyIsPrefix
  <2>. QED BY <1>1, <2>1 DEF KeyTypeOK, NoRoute
<1>3. MapInv'
  <2>1. Pairs \subseteq Nat \ {0}
    BY <1>1, PairFactsOfSettings, SettingsFacts
  <2>2. Loaded(0)'
    <3>1. Pairs' = Pairs /\ \A i \in Pairs : ~ (i <= 0)
      BY <1>1, <2>1, SameSettings
    <3>2. {Prefix(i) : i \in {i \in Pairs : i <= 0}}' = {}
      BY <3>1
    <3>3. (\A i \in Pairs : LastUpTo(i, 0) => vmap[Prefix(i)] = SettingsRead[i].target)'
      BY <3>1 DEF LastUpTo
    <3>. QED BY <1>1, <3>2, <3>3 DEF Loaded
  <2>3. (at - 1)' = 0 /\ (\A i \in 1 .. at - 1 : IsSet(i))'
    BY <1>1
  <2>4. Loaded(at - 1)'
    BY <2>2, <2>3 DEF Loaded, LastUpTo
  <2>. QED BY <1>1, <2>3, <2>4 DEF MapInv
<1>4. RouteInv'
  BY <1>1 DEF RouteInv
<1>5. FromInv'
  BY <1>1, SameSettings DEF FromInv
<1>. QED BY <1>2, <1>3, <1>4, <1>5 DEF RoutingInv

LEMMA PathKeyFacts ==
  ASSUME NEW k \in Strings
  PROVE  PathKey(k) \in Strings
BY EncodeFacts, NoSlash DEF PathKey

LEMMA AskInv ==
  ASSUME RoutingInv, Ask
  PROVE  RoutingInv'
<1>1. CASE \E q \in Searches : Invoke("list", q, NoKey)
  BY <1>1, InvokeInv, BytesAssumption
<1>2. CASE \E k \in Keys : Invoke("get", PathKey(k), NoKey)
  BY <1>2, InvokeInv, BytesAssumption, PathKeyFacts
<1>. QED BY <1>1, <1>2 DEF Ask

\* A route is of a mapping, to its archive.
LEMMA RouteFacts ==
  ASSUME KeyTypeOK, NEW q, NEW r \in Routes(q)
  PROVE  /\ r.prefix \in DOMAIN vmap /\ r.prefix \in Strings /\ NoSlashFirst(r.prefix)
         /\ r.target = vmap[r.prefix] /\ r.target \in Archives /\ r.target # NoArchive
         /\ r = [prefix |-> r.prefix, target |-> r.target]
<1>1. PICK x \in Chosen(q) : vmap[x] # NoArchive /\ r = [prefix |-> x, target |-> vmap[x]]
  BY DEF Routes
<1>2. x \in DOMAIN vmap
  BY DEF Chosen, Found, Matching
<1>. QED BY <1>1, <1>2 DEF KeyTypeOK

\* In a full map the target of a prefix is that of its last pair.
LEMMA FullMap ==
  ASSUME KeyTypeOK, Loaded(Len(SettingsRead)), NEW x \in DOMAIN vmap
  PROVE  \E i \in Pairs : LastUpTo(i, Len(SettingsRead)) /\ Prefix(i) = x /\ SettingsRead[i].target = vmap[x]
<1>1. PICK i \in Pairs : Prefix(i) = x /\ i <= Len(SettingsRead)
  BY DEF Loaded
<1>2. Len(SettingsRead) \in Nat
  BY SettingsFacts
<1>3. PICK j \in Pairs : LastUpTo(j, Len(SettingsRead)) /\ Prefix(j) = x
  BY <1>1, <1>2, LastExists
<1>. QED BY <1>3 DEF Loaded

LEMMA AskListedInv ==
  ASSUME RoutingInv, AskListed
  PROVE  RoutingInv'
<1>1. /\ KeyTypeOK /\ RouteInv /\ FromInv /\ Loaded(Len(SettingsRead))
      /\ pc = "done" /\ op = "list" /\ answer \notin {NotFound, Panics} /\ key \in Strings /\ key \in Searches
  BY DEF RoutingInv, MapInv, AskListed, KeyTypeOK, FromInv
<1>2. answer = Listed(key, route) /\ route \in Routes(key)
  BY <1>1 DEF RouteInv, ListAnswer
<1>3. PICK e \in Listed(key, route) : Invoke("get", PathKey(e.key), e)
  BY <1>2 DEF AskListed
<1>4. /\ route.prefix \in DOMAIN vmap /\ route.prefix \in Strings /\ route.target = vmap[route.prefix]
      /\ route.target \in Archives /\ route.target # NoArchive
      /\ route = [prefix |-> route.prefix, target |-> route.target]
  BY <1>1, <1>2, RouteFacts
<1>5. PICK i \in Pairs : /\ LastUpTo(i, Len(SettingsRead)) /\ Prefix(i) = route.prefix
                         /\ SettingsRead[i].target = route.target
  BY <1>1, <1>4, FullMap
<1>6. e \in Listed(key, [prefix |-> route.prefix, target |-> route.target])
  BY <1>3, <1>4, Zenon
<1>7. e.prefix = route.prefix /\ e.target = route.target /\ e.key \in Strings
  BY <1>1, <1>4, <1>6, ListedFacts
<1>8. e \in Listed(key, [prefix |-> e.prefix, target |-> e.target])
  BY <1>6, <1>7
<1>9. PathKey(e.key) \in Strings
  BY <1>7, PathKeyFacts
<1>. QED BY <1>1, <1>3, <1>4, <1>5, <1>7, <1>8, <1>9, InvokeInv

LEMMA SameRoutes ==
  ASSUME UNCHANGED <<vmap, key>>
  PROVE  (CutsCharacter(key)' <=> CutsCharacter(key)) /\ Routes(key)' = Routes(key)
BY DEF CutsCharacter, Routes, Seen, Chosen, Found, Matching

\* Once the map is loaded it stays until the next invocation.
LEMMA MapKept ==
  ASSUME MapInv, UNCHANGED <<slots, lines, vmap>>,
         pc \in {"query", "search"}, pc' \in {"search", "done"}
  PROVE  MapInv'
<1>1. Loaded(Len(SettingsRead))
  BY DEF MapInv
<1>2. Loaded(Len(SettingsRead))'
  BY <1>1, SameSettings DEF Loaded, LastUpTo
<1>. QED BY <1>2 DEF MapInv

LEMMA FindRouteInv ==
  ASSUME RoutingInv, FindRoute
  PROVE  RoutingInv'
<1>1. /\ KeyTypeOK /\ MapInv /\ RouteInv /\ FromInv /\ pc = "query"
      /\ UNCHANGED <<slots, lines, op, key, from, at, vmap>>
  BY DEF RoutingInv, FindRoute
<1>2. route = NoRoute /\ answer = NoAnswer
  BY <1>1 DEF RouteInv, KeyTypeOK
<1>3. /\ FromInv' /\ (CutsCharacter(key)' <=> CutsCharacter(key)) /\ Routes(key)' = Routes(key)
  BY <1>1, FromKept, SameRoutes
<1>4. CASE CutsCharacter(key) /\ pc' = "done" /\ answer' = Panics /\ UNCHANGED route
  <2>1. KeyTypeOK'
    BY <1>1, <1>2, <1>4 DEF KeyTypeOK
  <2>2. RouteInv' /\ MapInv'
    BY <1>1, <1>3, <1>4, MapKept DEF RouteInv
  <2>. QED BY <1>3, <2>1, <2>2 DEF RoutingInv
<1>5. CASE ~ CutsCharacter(key) /\ Routes(key) = {} /\ pc' = "done" /\ answer' = NotFound /\ UNCHANGED route
  <2>1. KeyTypeOK'
    BY <1>1, <1>2, <1>5 DEF KeyTypeOK
  <2>2. RouteInv' /\ MapInv'
    BY <1>1, <1>3, <1>5, MapKept DEF RouteInv
  <2>. QED BY <1>3, <2>1, <2>2 DEF RoutingInv
<1>6. CASE ~ CutsCharacter(key) /\ \E r \in Routes(key) : pc' = "search" /\ route' = r /\ UNCHANGED answer
  <2>1. pc' = "search" /\ route' \in Routes(key) /\ answer' = NoAnswer
    BY <1>2, <1>6
  <2>2. route'.prefix \in DOMAIN vmap /\ route'.prefix \in Strings /\ route'.target \in Archives
    <3>1. PICK r \in Routes(key) : r = route'
      BY <2>1
    <3>. QED BY <1>1, <3>1, RouteFacts
  <2>3. KeyTypeOK'
    BY <1>1, <2>1, <2>2 DEF KeyTypeOK
  <2>4. RouteInv' /\ MapInv'
    BY <1>1, <1>3, <1>6, <2>1, MapKept DEF RouteInv
  <2>. QED BY <1>3, <2>3, <2>4 DEF RoutingInv
<1>. QED BY <1>4, <1>5, <1>6 DEF FindRoute

LEMMA ListInv ==
  ASSUME RoutingInv, List
  PROVE  RoutingInv'
<1>1. /\ KeyTypeOK /\ MapInv /\ RouteInv /\ FromInv /\ pc = "search" /\ pc' = "done" /\ op = "list"
      /\ answer' = ListAnswer(key, route)
      /\ UNCHANGED <<slots, lines, op, key, from, at, vmap, route>>
  BY DEF RoutingInv, List, ListAnswer
<1>2. /\ FromInv' /\ MapInv' /\ (CutsCharacter(key)' <=> CutsCharacter(key)) /\ Routes(key)' = Routes(key)
  BY <1>1, FromKept, MapKept, SameRoutes
<1>3. KeyTypeOK'
  BY <1>1 DEF KeyTypeOK
<1>4. RouteInv'
  BY <1>1, <1>2 DEF RouteInv
<1>. QED BY <1>2, <1>3, <1>4 DEF RoutingInv

LEMMA LookupInv ==
  ASSUME RoutingInv, Lookup
  PROVE  RoutingInv'
<1>1. /\ KeyTypeOK /\ MapInv /\ RouteInv /\ FromInv /\ pc = "search" /\ pc' = "done" /\ op = "get"
      /\ answer' = Looked(key, route)
      /\ UNCHANGED <<slots, lines, op, key, from, at, vmap, route>>
  BY DEF RoutingInv, Lookup, Looked
<1>2. /\ FromInv' /\ MapInv' /\ (CutsCharacter(key)' <=> CutsCharacter(key)) /\ Routes(key)' = Routes(key)
  BY <1>1, FromKept, MapKept, SameRoutes
<1>3. KeyTypeOK'
  BY <1>1 DEF KeyTypeOK
<1>4. RouteInv'
  BY <1>1, <1>2 DEF RouteInv
<1>. QED BY <1>2, <1>3, <1>4 DEF RoutingInv

LEMMA StepInv ==
  RoutingInv /\ [Next]_keyVars => RoutingInv'
<1>1. SUFFICES ASSUME RoutingInv, [Next]_keyVars PROVE RoutingInv'
  OBVIOUS
<1>2. CASE UNCHANGED keyVars
  <2>1. UNCHANGED <<slots, lines, pc, op, key, from, at, vmap, route, answer>>
    BY <1>2 DEF keyVars
  <2>2. KeyTypeOK' /\ RouteInv'
    BY <1>1, <2>1, SameRoutes DEF RoutingInv, KeyTypeOK, RouteInv
  <2>3. FromInv'
    BY <1>1, <2>1, SameSettings DEF RoutingInv, FromInv
  <2>4. MapInv'
    <3>1. MapInv
      BY <1>1 DEF RoutingInv
    <3>2. pc = "env" => (\A i \in 1 .. at - 1 : IsSet(i))' /\ Loaded(at - 1)'
      <4>1. SUFFICES ASSUME pc = "env" PROVE (\A i \in 1 .. at - 1 : IsSet(i))' /\ Loaded(at - 1)'
        OBVIOUS
      <4>2. PICK n : n = at - 1
        OBVIOUS
      <4>3. Loaded(n)' /\ (at - 1)' = n
        BY <2>1, <3>1, <4>1, <4>2, SameLoaded DEF MapInv
      <4>4. (\A i \in 1 .. at - 1 : IsSet(i))'
        BY <2>1, <3>1, <4>1, SameSettings DEF MapInv
      <4>. QED BY <4>3, <4>4 DEF Loaded, LastUpTo
    <3>3. pc = "file" => (at <= Len(lines) + 1)' /\ Loaded(SlotsRead + at - 1)'
      <4>1. SUFFICES ASSUME pc = "file" PROVE (at <= Len(lines) + 1)' /\ Loaded(SlotsRead + at - 1)'
        OBVIOUS
      <4>2. PICK n : n = SlotsRead + at - 1
        OBVIOUS
      <4>3. Loaded(n)' /\ (SlotsRead + at - 1)' = n
        BY <2>1, <3>1, <4>1, <4>2, SameLoaded, SameSettings DEF MapInv
      <4>4. (at <= Len(lines) + 1)'
        BY <2>1, <3>1, <4>1 DEF MapInv
      <4>. QED BY <4>3, <4>4 DEF Loaded, LastUpTo
    <3>4. pc \in {"query", "search", "done"} => Loaded(Len(SettingsRead))'
      <4>1. SUFFICES ASSUME pc \in {"query", "search", "done"} PROVE Loaded(Len(SettingsRead))'
        OBVIOUS
      <4>2. PICK n : n = Len(SettingsRead)
        OBVIOUS
      <4>3. Loaded(n)' /\ Len(SettingsRead)' = n
        BY <2>1, <3>1, <4>1, <4>2, SameLoaded, SameSettings DEF MapInv
      <4>. QED BY <4>3 DEF Loaded, LastUpTo
    <3>. QED BY <2>1, <3>2, <3>3, <3>4 DEF MapInv
  <2>. QED BY <2>2, <2>3, <2>4 DEF RoutingInv
<1>. QED
  BY <1>1, <1>2, AskInv, AskListedInv, LoadSlotInv, SlotsLoadedInv, LoadLineInv, FileLoadedInv,
     FindRouteInv, ListInv, LookupInv DEF Next

\* Every variable keeps its type, and no prefix in the map begins with a slash.
THEOREM KeyTypeCorrect == Spec => []KeyTypeOK
<1>1. Init => RoutingInv
  BY InitInv
<1>2. RoutingInv => KeyTypeOK
  BY DEF RoutingInv
<1>. QED BY <1>1, <1>2, StepInv, PTL DEF Spec

---------------------------------------------------------------------------
(* Which archive serves a key *)

\* The pairs that may serve a key are those of the prefix that is chosen.
LEMMA BestFacts ==
  ASSUME KeyTypeOK, Loaded(Len(SettingsRead)), key \in Strings, ~ Extended(key), OneByteEach(key)
  PROVE  /\ ~ CutsCharacter(key)
         /\ \A i \in Pairs : i \in Best(key) <=> Prefix(i) \in Chosen(key)
<1>1. /\ Len(SettingsRead) \in Nat /\ Pairs \subseteq 1 .. Len(SettingsRead)
      /\ \A i \in Pairs : Prefix(i) \in Strings
  BY SettingsFacts, PairFactsOfSettings
<1>2. DOMAIN vmap = Mapped
  BY <1>1 DEF Loaded, Mapped
<1>3. ~ \E x \in DOMAIN vmap : IsStrictPrefix(key, x)
  BY <1>2 DEF Extended
<1>4. \A x \in DOMAIN vmap : x \in Strings
  BY DEF KeyTypeOK
<1>5. /\ ~ CutsCharacter(key)
      /\ Chosen(key) = {x \in DOMAIN vmap : /\ IsPrefix(x, key)
                                            /\ \A y \in DOMAIN vmap : IsPrefix(y, key) => Len(y) <= Len(x)}
  BY <1>3, <1>4, FoundLongest
<1>6. ASSUME NEW i \in Pairs, i \in Best(key) PROVE Prefix(i) \in Chosen(key)
  <2>1. /\ IsPrefix(Prefix(i), key) /\ Prefix(i) \in Mapped
        /\ \A j \in Pairs : IsPrefix(Prefix(j), key) => Len(Prefix(j)) <= Len(Prefix(i))
    BY <1>6 DEF Best, Mapped
  <2>2. \A y \in Mapped : IsPrefix(y, key) => Len(y) <= Len(Prefix(i))
    BY <2>1 DEF Mapped
  <2>. QED BY <1>2, <1>5, <2>1, <2>2
<1>7. ASSUME NEW i \in Pairs, Prefix(i) \in Chosen(key) PROVE i \in Best(key)
  BY <1>2, <1>5, <1>7 DEF Best, Mapped
<1>. QED BY <1>5, <1>6, <1>7

LEMMA RoutingIsRight ==
  ASSUME RoutingInv
  PROVE  RoutedToLongest
<1>1. SUFFICES ASSUME pc \in {"search", "done"}, ~ Extended(key), OneByteEach(key)
               PROVE  \/ \E i \in Best(key) :
                           /\ Serves(i)
                           /\ route = [prefix |-> Prefix(i), target |-> SettingsRead[i].target]
                      \/ answer = NotFound /\ (Best(key) = {} \/ \E i \in Best(key) : ~Serves(i))
  BY DEF RoutedToLongest
<1>2. /\ KeyTypeOK /\ RouteInv /\ key \in Strings /\ Loaded(Len(SettingsRead))
      /\ Best(key) \subseteq Pairs
  BY <1>1 DEF RoutingInv, MapInv, KeyTypeOK, Best
<1>3. /\ ~ CutsCharacter(key)
      /\ \A i \in Pairs : i \in Best(key) <=> Prefix(i) \in Chosen(key)
  BY <1>1, <1>2, BestFacts
<1>4. ASSUME NEW x \in Chosen(key)
      PROVE  \E i \in Best(key) : Prefix(i) = x /\ SettingsRead[i].target = vmap[x]
  <2>1. x \in DOMAIN vmap
    BY DEF Chosen, Found, Matching
  <2>2. PICK i \in Pairs : Prefix(i) = x /\ SettingsRead[i].target = vmap[x]
    BY <1>2, <2>1, FullMap
  <2>. QED BY <1>3, <2>2
<1>5. CASE Routes(key) # {}
  <2>1. route \in Routes(key)
    BY <1>1, <1>2, <1>3, <1>5 DEF RouteInv
  <2>2. PICK x \in Chosen(key) : vmap[x] # NoArchive /\ route = [prefix |-> x, target |-> vmap[x]]
    BY <2>1 DEF Routes
  <2>. QED BY <1>4, <2>2 DEF Serves
<1>6. CASE Routes(key) = {}
  <2>1. answer = NotFound
    BY <1>1, <1>2, <1>3, <1>6 DEF RouteInv
  <2>2. ASSUME NEW i \in Best(key) PROVE \E j \in Best(key) : ~Serves(j)
    <3>1. Prefix(i) \in Chosen(key)
      BY <1>2, <1>3
    <3>2. vmap[Prefix(i)] = NoArchive
      BY <1>6, <3>1 DEF Routes
    <3>. QED BY <1>4, <3>1, <3>2 DEF Serves
  <2>. QED BY <2>1, <2>2
<1>. QED BY <1>5, <1>6

\* A key that no mapping extends is served by an archive that was set for the longest
\* mapped prefix it begins with, and refused if there is none.
THEOREM KeysAreRouted == Spec => []RoutedToLongest
<1>1. Init => RoutingInv
  BY InitInv
<1>2. RoutingInv => RoutedToLongest
  BY RoutingIsRight
<1>. QED BY <1>1, <1>2, StepInv, PTL DEF Spec

---------------------------------------------------------------------------
(* A key that was listed is found again *)

\* Cutting a string at its start leaves no byte that was not in it.
LEMMA TrimBytes ==
  ASSUME NEW s \in Strings, NEW p \in Strings, NEW T \in SUBSET Nat, s \in Seq(T)
  PROVE  TrimStart(s, p) \in Seq(T)
<1>. DEFINE t == Trimmed(s, p)
            X == {n \in Nat : n <= Len(s) => t[n] \in Seq(T)}
<1>1. /\ Len(s) \in Nat /\ Len(p) \in Nat /\ t[0] = s
      /\ \A n \in 0 .. Len(s) - 1 :
           t[n + 1] = IF IsPrefix(p, t[n]) THEN SubSeq(t[n], Len(p) + 1, Len(t[n])) ELSE t[n]
  BY TrimmedFacts, LengthFacts
<1>2. TrimStart(s, p) = t[Len(s)]
  BY DEF TrimStart
<1>. HIDE DEF t
<1>3. 0 \in X
  BY <1>1
<1>4. ASSUME NEW n \in Nat, n \in X PROVE n + 1 \in X
  <2>1. SUFFICES ASSUME n + 1 <= Len(s) PROVE t[n + 1] \in Seq(T)
    OBVIOUS
  <2>2. t[n] \in Seq(T) /\ n \in 0 .. Len(s) - 1
    BY <1>1, <1>4, <2>1
  <2>3. CASE IsPrefix(p, t[n])
    <3>1. Len(p) <= Len(t[n]) /\ Len(t[n]) \in Nat
      BY <2>2, <2>3, LenProperties DEF IsPrefix
    <3>2. Len(p) + 1 \in Nat \ {0} /\ Len(p) + 1 <= Len(t[n]) + 1
      BY <1>1, <3>1
    <3>3. SubSeq(t[n], Len(p) + 1, Len(t[n])) \in Seq(T)
      BY <2>2, <3>2, RestFacts
    <3>. QED BY <1>1, <2>2, <2>3, <3>3
  <2>4. CASE ~ IsPrefix(p, t[n])
    BY <1>1, <2>2, <2>4
  <2>. QED BY <2>3, <2>4
<1>. HIDE DEF X
<1>5. Len(s) \in X
  BY <1>1, <1>3, <1>4, Induct
<1>. QED BY <1>1, <1>2, <1>5 DEF X

\* A string that begins with x begins with no slash, if x does not; x matches it, and it is
\* no shorter than x.
LEMMA BehindPrefix ==
  ASSUME NEW x \in Strings, NEW u \in Strings, NoSlashFirst(x), x # << >>
  PROVE  /\ x \o u \in Strings /\ NoSlashFirst(x \o u) /\ IsPrefix(x, x \o u) /\ Len(x) <= Len(x \o u)
<1>1. x \o u \in Strings
  BY JoinTyped
<1>2. x \in Seq(Nat) /\ u \in Seq(Nat) /\ x \o u \in Seq(Nat)
  BY <1>1 DEF Strings
<1>3. IsPrefix(x, x \o u)
  BY <1>2, PrefixIsHead
<1>4. Len(x) <= Len(x \o u) /\ \A i \in 1 .. Len(x) : x[i] = (x \o u)[i]
  BY <1>2, <1>3, PrefixFacts
<1>5. Len(x) \in Nat \ {0} /\ x[1] # Slash
  BY LengthFacts DEF NoSlashFirst
<1>6. (x \o u)[1] # Slash
  BY <1>4, <1>5
<1>. QED BY <1>1, <1>3, <1>4, <1>6 DEF NoSlashFirst

\* The key that a client asks for, if the listed key has no byte that a URL escapes.
LEMMA AskedKey ==
  ASSUME NEW k \in Strings, \A i \in DOMAIN k : k[i] \notin Escaped
  PROVE  /\ PathKey(k) = TrimStart(k, <<Slash>>) /\ PathKey(k) \in Strings
         /\ OneByteEach(PathKey(k))
<1>. DEFINE T == Nat \ Escaped
            p == <<Slash>>
<1>1. Encode(k) = k
  BY EncodeFacts
<1>2. PathKey(k) = TrimStart(k, p)
  BY <1>1 DEF PathKey
<1>3. p \in Strings
  BY BytesAssumption DEF Strings
<1>. HIDE DEF p
<1>4. k \in Seq(T)
  <2>1. \A i \in 1 .. Len(k) : k[i] \in T
    BY LengthFacts
  <2>2. k \in Seq(Nat)
    BY DEF Strings
  <2>. HIDE DEF T
  <2>. QED BY <2>1, <2>2
<1>5. TrimStart(k, p) \in Strings /\ TrimStart(k, p) \in Seq(T)
  <2>1. T \in SUBSET Nat
    OBVIOUS
  <2>. HIDE DEF T
  <2>. QED BY <1>3, <1>4, <2>1, TrimFacts, TrimBytes
<1>6. ASSUME NEW i \in DOMAIN TrimStart(k, p) PROVE TrimStart(k, p)[i] \notin Continuation
  <2>. DEFINE s == TrimStart(k, p)
  <2>1. s \in Seq(T) /\ i \in DOMAIN s
    BY <1>5, <1>6
  <2>. HIDE DEF s, T
  <2>2. s[i] \in T
    BY <2>1, LenProperties, ElementOfSeq
  <2>. QED BY <2>2, BytesAssumption DEF s, T
<1>. QED BY <1>2, <1>5, <1>6 DEF OneByteEach, p

\* If no other mapping takes the key, its own does.
LEMMA OwnRoute ==
  ASSUME KeyTypeOK, Loaded(Len(SettingsRead)), NEW q \in Strings, NEW x \in DOMAIN vmap,
         IsPrefix(x, q), ~ TakenFrom(x, q), vmap[x] # NoArchive
  PROVE  Routes(q) = {[prefix |-> x, target |-> vmap[x]]}
<1>1. DOMAIN vmap = Mapped
  BY PairFactsOfSettings DEF Loaded, Mapped
<1>2. \A y \in DOMAIN vmap : y \in Strings
  BY DEF KeyTypeOK
<1>3. Matches(x, q)
  <2>1. x \in Seq(Nat) /\ q \in Seq(Nat) /\ Len(x) \in Nat /\ Len(q) \in Nat
    BY <1>2, LengthFacts DEF Strings
  <2>2. Len(x) <= Len(q) /\ \A i \in 1 .. Len(x) : x[i] = q[i]
    BY <2>1, PrefixFacts
  <2>3. Len(q) <= Len(x) => IsPrefix(q, x)
    BY <2>1, <2>2, PrefixFacts
  <2>. QED BY <2>1, <2>3 DEF Matches
<1>4. \A y \in Matching(q) : y = x \/ Less(y, x)
  BY <1>1, <1>2, LessTotal DEF Matching, TakenFrom
<1>5. x \in Matching(q)
  BY <1>3 DEF Matching
<1>6. \A z \in Found(q) : z = x
  <2>1. ASSUME NEW z \in Found(q), z # x PROVE FALSE
    <3>1. z \in Matching(q) /\ Less(x, z)
      BY <1>5, <2>1 DEF Found
    <3>. QED BY <1>1, <3>1 DEF TakenFrom, Matching
  <2>. QED BY <2>1
<1>7. x \in Found(q)
  BY <1>4, <1>5 DEF Found
<1>8. Chosen(q) = {x}
  BY <1>6, <1>7 DEF Chosen
<1>. QED BY <1>8 DEF Routes

LEMMA PrefixTwice ==
  ASSUME NEW x \in Strings, NEW path \in Strings, IsPrefix(x, path)
  PROVE  IsPrefix(x \o x, x \o path)
<1>1. PICK u \in Strings : path = x \o u
  BY PrefixIsHead DEF Strings
<1>2. x \o x \in Strings /\ x \o path \in Strings /\ x \o (x \o u) = (x \o x) \o u
  <2>1. x \o (x \o u) = (x \o x) \o u
    BY Regroup
  <2>. QED BY <2>1, JoinTyped
<1>3. x \o path = (x \o x) \o u
  BY <1>1, <1>2, Zenon
<1>. DEFINE y == x \o x
            z == x \o path
<1>4. y \in Strings /\ z \in Strings /\ z = y \o u
  BY <1>2, <1>3
<1>. HIDE DEF y, z
<1>5. IsPrefix(y, z)
  BY <1>4, PrefixIsHead DEF Strings
<1>. QED BY <1>5 DEF y, z

\* What a key leads to, of a mapping's prefix and a path, if the path does not begin with the prefix.
LEMMA KeyLeadsBack ==
  ASSUME NEW x \in Strings, NoSlashFirst(x), NEW path \in Strings,
         x # << >> => ~ IsPrefix(x \o x, x \o path)
  PROVE  /\ TrimStart(x \o path, <<Slash>>) \in Strings
         /\ IsPrefix(x, TrimStart(x \o path, <<Slash>>))
         /\ Canonical(SearchKey(TrimStart(x \o path, <<Slash>>), x)) = Canonical(path)
<1>. DEFINE q == TrimStart(x \o path, <<Slash>>)
<1>1. x \o path \in Strings /\ q \in Strings
  BY JoinTyped, NoSlash
<1>. HIDE DEF q
<1>2. CASE x = << >>
  <2>1. x \o path = path
    BY <1>2 DEF Strings
  <2>2. IsPrefix(x, q) /\ SearchKey(q, x) = q
    <3>1. ~ (Len(q) < Len(x))
      BY <1>1, <1>2, LengthFacts
    <3>2. SearchKey(q, x) = TrimStart(q, x)
      BY <3>1 DEF SearchKey
    <3>3. TrimStart(q, x) = q
      BY <1>1, <1>2, TrimFacts
    <3>. QED BY <1>1, <1>2, <3>2, <3>3, EmptyIsPrefix
  <2>3. Canonical(q) = Canonical(path)
    BY <2>1, CanonicalTrim DEF q
  <2>. QED BY <1>1, <2>2, <2>3 DEF q
<1>3. CASE x # << >>
  <2>1. NoSlashFirst(x \o path) /\ IsPrefix(x, x \o path) /\ Len(x) <= Len(x \o path)
    BY <1>3, BehindPrefix
  <2>2. q = x \o path
    <3>. DEFINE p == <<Slash>>
    <3>1. p \in Strings /\ ~ IsPrefix(p, x \o path)
      <4>1. p \in Strings
        BY BytesAssumption DEF Strings
      <4>. QED BY <1>1, <2>1, <4>1, SlashFirst
    <3>. HIDE DEF p
    <3>2. TrimStart(x \o path, p) = x \o path
      BY <1>1, <3>1, TrimFacts
    <3>. QED BY <3>2 DEF p, q
  <2>3. ~ IsPrefix(x, path)
    <3>1. SUFFICES ASSUME IsPrefix(x, path) PROVE FALSE
      OBVIOUS
    <3>2. IsPrefix(x \o x, x \o path)
      BY <3>1, PrefixTwice
    <3>. QED BY <1>3, <3>2
  <2>4. TrimStart(x \o path, x) = path
    BY <1>3, <2>3, TrimOnce
  <2>5. ~ (Len(q) < Len(x))
    BY <1>1, <2>1, <2>2, LengthFacts
  <2>6. SearchKey(q, x) = path
    BY <2>2, <2>4, <2>5 DEF SearchKey
  <2>7. IsPrefix(x, q) /\ Canonical(SearchKey(q, x)) = Canonical(path)
    BY <2>1, <2>2, <2>6
  <2>. QED BY <1>1, <2>7 DEF q
<1>. QED BY <1>2, <1>3

LEMMA ComingBack ==
  ASSUME RoutingInv
  PROVE  KeysComeBack
<1>1. SUFFICES ASSUME pc = "done", op = "get", from # NoKey,
                      ~ TakenFrom(from.prefix, key),
                      \A i \in DOMAIN from.key : from.key[i] \notin Escaped,
                      from.prefix # << >> => ~ IsPrefix(from.prefix \o from.prefix, from.key)
               PROVE  answer = [target |-> from.target, file |-> from.file]
  BY DEF KeysComeBack
<1>. DEFINE x == from.prefix
            t == from.target
<1>2. /\ KeyTypeOK /\ RouteInv /\ key \in Strings /\ Loaded(Len(SettingsRead)) /\ key = PathKey(from.key)
      /\ t # NoArchive
  BY <1>1 DEF RoutingInv, MapInv, KeyTypeOK, FromInv
<1>3. PICK i \in Pairs : LastUpTo(i, Len(SettingsRead)) /\ Prefix(i) = x /\ SettingsRead[i].target = t
  BY <1>1 DEF RoutingInv, FromInv
<1>4. PICK q \in Searches : from \in Listed(q, [prefix |-> x, target |-> t])
  BY <1>1 DEF RoutingInv, FromInv
<1>5. x \in Strings /\ NoSlashFirst(x) /\ t \in Archives /\ x \in DOMAIN vmap /\ vmap[x] = t
  <2>1. Prefix(i) \in Strings /\ NoSlashFirst(Prefix(i)) /\ SettingsRead[i].target \in Archives \cup {NoArchive}
    BY <1>2, PairFactsOfSettings
  <2>2. Prefix(i) \in DOMAIN vmap /\ vmap[Prefix(i)] = SettingsRead[i].target
    BY <1>2, <1>3 DEF Loaded, LastUpTo
  <2>. QED BY <1>2, <1>3, <2>1, <2>2
<1>6. q \in Strings
  BY BytesAssumption
<1>. HIDE DEF x, t
<1>7. from.file \in Files[t] /\ from.key \in Strings /\ \E path \in Strings : from.key = x \o path /\ Canonical(path) = from.file
  BY <1>4, <1>5, <1>6, ListedFacts
<1>8. PICK path \in Strings : from.key = x \o path /\ Canonical(path) = from.file
  BY <1>7
<1>9. key = TrimStart(x \o path, <<Slash>>) /\ OneByteEach(key)
  BY <1>1, <1>2, <1>7, <1>8, AskedKey
<1>10. x # << >> => ~ IsPrefix(x \o x, x \o path)
  BY <1>1, <1>8 DEF x
<1>11. IsPrefix(x, key) /\ Canonical(SearchKey(key, x)) = from.file
  BY <1>5, <1>8, <1>9, <1>10, KeyLeadsBack
<1>12. Routes(key) = {[prefix |-> x, target |-> t]}
  BY <1>1, <1>2, <1>5, <1>11, OwnRoute DEF x
<1>13. ~ CutsCharacter(key)
  <2>1. ASSUME NEW y \in DOMAIN vmap, Len(key) > Len(y) PROVE key[Len(y) + 1] \notin Continuation
    <3>1. y \in Strings /\ Len(y) \in Nat /\ Len(key) \in Nat /\ DOMAIN key = 1 .. Len(key)
      BY <1>2, LengthFacts DEF KeyTypeOK
    <3>2. Len(y) + 1 \in DOMAIN key
      BY <2>1, <3>1
    <3>. QED BY <1>9, <3>2 DEF OneByteEach
  <2>. QED BY <2>1 DEF CutsCharacter, Seen
<1>14. route = [prefix |-> x, target |-> t] /\ answer = Looked(key, route)
  BY <1>1, <1>2, <1>12, <1>13 DEF RouteInv
<1>15. answer = [target |-> t, file |-> from.file]
  <2>1. ~RunsThroughFile(t, from.file)
    BY <1>5, <1>7, FilesAssumption DEF RunsThroughFile
  <2>. QED BY <1>7, <1>11, <1>14, <2>1 DEF Looked
<1>. QED BY <1>15 DEF t

\* A key that a listing gave is found again under the archive and the path it was listed
\* for, unless another mapping takes it, its URL is not the key itself, or the prefix of its
\* mapping stands in it twice.
THEOREM ListedKeysComeBack == Spec => []KeysComeBack
<1>1. Init => RoutingInv
  BY InitInv
<1>2. RoutingInv => KeysComeBack
  BY ComingBack
<1>. QED BY <1>1, <1>2, StepInv, PTL DEF Spec

---------------------------------------------------------------------------
(* A listing has the keys that begin with the prefix asked for *)

LEMMA CommonPrefix ==
  ASSUME NEW a \in Strings, NEW b \in Strings, NEW c \in Strings
  PROVE  IsPrefix(a \o b, a \o c) <=> IsPrefix(b, c)
<1>. DEFINE y == a \o b
            z == a \o c
<1>1. y \in Strings /\ z \in Strings
  BY JoinTyped
<1>2. ASSUME NEW u \in Strings, c = b \o u PROVE z = y \o u
  <2>1. a \o (b \o u) = (a \o b) \o u
    BY Regroup
  <2>. QED BY <1>2, <2>1, Zenon
<1>3. ASSUME NEW u \in Strings, z = y \o u PROVE c = b \o u
  <2>. DEFINE v == b \o u
  <2>1. v \in Strings /\ a \o v = y \o u
    <3>1. b \o u \in Strings
      BY JoinTyped
    <3>2. a \o (b \o u) = (a \o b) \o u
      BY Regroup
    <3>. QED BY <3>1, <3>2, Zenon
  <2>. HIDE DEF v
  <2>2. a \o c = a \o v
    BY <1>3, <2>1
  <2>3. SubSeq(a \o c, Len(a) + 1, Len(a \o c)) = c /\ SubSeq(a \o v, Len(a) + 1, Len(a \o v)) = v
    BY <2>1, RestOfConcat DEF Strings
  <2>4. c = v
    BY <2>2, <2>3, Zenon
  <2>. QED BY <2>4 DEF v
<1>. HIDE DEF y, z
<1>4. IsPrefix(y, z) <=> \E u \in Strings : z = y \o u
  BY <1>1, PrefixIsHead DEF Strings
<1>5. IsPrefix(b, c) <=> \E u \in Strings : c = b \o u
  BY PrefixIsHead DEF Strings
<1>6. IsPrefix(y, z) <=> IsPrefix(b, c)
  BY <1>2, <1>3, <1>4, <1>5, Zenon
<1>. QED BY <1>6 DEF y, z

LEMMA CanonicalOfNothing == Canonical(<< >>) = << >>
<1>. DEFINE e == << >>
<1>1. e \in Strings /\ Len(e) = 0
  BY EmptySeq DEF Strings
<1>2. Canonical(e) = NamesUpTo(e)[Len(e)]
  BY DEF Canonical
<1>. HIDE DEF e
<1>3. NamesUpTo(e)[0] = << >>
  BY <1>1, NamesFacts
<1>. QED BY <1>1, <1>2, <1>3 DEF e

\* A path of names, behind a slash.
LEMMA CanonicalClean ==
  ASSUME NEW g \in Strings, Clean(g)
  PROVE  Canonical(<<Slash>> \o g) = g
<1>. DEFINE e == << >>
            p == <<Slash>>
<1>1. e \in Strings /\ Canonical(e) = << >> /\ p \in Strings /\ e \o p = p
  BY EmptySeq, CanonicalOfNothing, BytesAssumption DEF Strings
<1>2. Canonical(e \o p \o g) = IF Canonical(e) = << >> THEN g ELSE Canonical(e) \o p \o g
  <2>. HIDE DEF e
  <2>. QED BY <1>1, CanonicalTail DEF p
<1>. HIDE DEF e, p
<1>3. Canonical(p \o g) = g
  BY <1>1, <1>2
<1>. QED BY <1>3 DEF p

\* The directory that is searched for s, and the paths it is searched for: every file that s
\* begins the path of is below it.
LEMMA TopFacts ==
  ASSUME NEW s \in Strings, NoEmptyName(s), s = << >> \/ s[1] = Slash
  PROVE  LET d == Canonical(SearchTop(s)) IN
         \A f \in Strings : Clean(f) =>
           /\ d = << >> \/ IsPrefix(Append(d, Slash), f)
                => SearchTop(s) \o <<Slash>> \o Below(f, d) = <<Slash>> \o f
           /\ IsPrefix(s, <<Slash>> \o f) => d = << >> \/ IsPrefix(Append(d, Slash), f)
<1>. DEFINE N == {i \in DOMAIN s : s[i] = Slash}
            p == <<Slash>>
            top == SearchTop(s)
            d == Canonical(top)
<1>1. /\ Len(s) \in Nat /\ DOMAIN s = 1 .. Len(s) /\ (Len(s) = 0 <=> s = << >>)
      /\ p \in Strings /\ Len(p) = 1 /\ p[1] = Slash
  BY LengthFacts, BytesAssumption DEF Strings
<1>2. top = IF N = {} THEN << >> ELSE SubSeq(s, 1, Max(N) - 1)
  BY DEF SearchTop
<1>3. SUFFICES ASSUME NEW f \in Strings, Clean(f)
               PROVE  /\ d = << >> \/ IsPrefix(Append(d, Slash), f) => top \o p \o Below(f, d) = p \o f
                      /\ IsPrefix(s, p \o f) => d = << >> \/ IsPrefix(Append(d, Slash), f)
  OBVIOUS
<1>4. ASSUME top = << >>
      PROVE  /\ d = << >> \/ IsPrefix(Append(d, Slash), f) => top \o p \o Below(f, d) = p \o f
             /\ IsPrefix(s, p \o f) => d = << >> \/ IsPrefix(Append(d, Slash), f)
  <2>1. d = << >>
    BY <1>4, CanonicalOfNothing
  <2>2. Below(f, d) = f
    BY <2>1 DEF Below
  <2>3. top \o p = p
    BY <1>1, <1>4 DEF Strings
  <2>. HIDE DEF top, d, p
  <2>. QED BY <2>1, <2>2, <2>3
<1>5. CASE s = << >>
  <2>1. N = {}
    BY <1>1, <1>5
  <2>. HIDE DEF N
  <2>2. top = << >>
    BY <1>2, <2>1
  <2>. QED BY <1>4, <2>2
<1>6. CASE s # << >>
  <2>. DEFINE m == Max(N)
  <2>1. 1 \in N /\ N \in SUBSET Nat /\ \A i \in N : i <= Len(s)
    BY <1>1, <1>6
  <2>2. m \in N
    <3>. HIDE DEF N
    <3>. QED BY <1>1, <2>1, MaxFacts
  <2>3. m \in 1 .. Len(s) /\ s[m] = Slash
    BY <1>1, <2>2
  <2>4. top = SubSeq(s, 1, m - 1)
    <3>. HIDE DEF N
    <3>. QED BY <1>2, <2>1
  <2>. HIDE DEF m, N, top
  <2>5. top \in Strings /\ Len(top) = m - 1 /\ \A i \in 1 .. m - 1 : top[i] = s[i]
    <3>1. m - 1 \in Nat /\ m - 1 <= Len(s)
      BY <1>1, <2>3
    <3>. QED BY <2>4, <3>1, HeadFacts DEF Strings
  <2>6. CASE m = 1
    <3>1. top = << >>
      BY <2>5, <2>6, LengthFacts
    <3>. QED BY <1>4, <3>1
  <2>7. CASE m # 1
    <3>. HIDE DEF p, d
    <3>0. p \in Strings
      BY <1>1
    <3>1. s[1] = Slash /\ m >= 2 /\ m \in Nat
      BY <1>1, <1>6, <2>3, <2>7
    <3>2. top # << >> /\ top[1] = Slash
      BY <2>5, <3>1, LengthFacts
    <3>3. IsPrefix(p, top)
      BY <2>5, <3>2, SlashFirst DEF NoSlashFirst, p
    <3>4. PICK g \in Strings : top = p \o g
      BY <1>1, <2>5, <3>3, PrefixIsHead DEF Strings
    <3>5. /\ Len(g) \in Nat /\ Len(top) = 1 + Len(g)
          /\ \A i \in 1 .. 1 + Len(g) : top[i] = IF i <= 1 THEN p[i] ELSE g[i - 1]
      <4>1. p \in Seq(Nat) /\ g \in Seq(Nat) /\ Len(g) \in Nat
        BY <1>1, LengthFacts DEF Strings
      <4>2. /\ Len(p \o g) = Len(p) + Len(g)
            /\ \A i \in 1 .. Len(p) + Len(g) : (p \o g)[i] = IF i <= Len(p) THEN p[i] ELSE g[i - Len(p)]
        BY <4>1, ConcatProperties
      <4>. QED BY <1>1, <3>4, <4>1, <4>2
    <3>6. Len(g) = m - 2
      BY <2>5, <3>1, <3>5
    <3>7. ASSUME NEW i \in 1 .. Len(g) PROVE g[i] = s[i + 1]
      <4>1. i + 1 \in 1 .. 1 + Len(g) /\ ~ (i + 1 <= 1) /\ (i + 1) - 1 = i /\ i + 1 \in 1 .. m - 1
        BY <3>1, <3>5, <3>6
      <4>. QED BY <2>5, <3>5, <4>1
    <3>8. Clean(g)
      <4>1. \A i \in 1 .. Len(s) - 1 : s[i] # Slash \/ s[i + 1] # Slash
        BY DEF NoEmptyName
      <4>2. s[2] # Slash /\ m # 2
        <5>1. 1 \in 1 .. Len(s) - 1 /\ 1 + 1 = 2
          BY <1>1, <2>3, <3>1
        <5>2. s[2] # Slash
          BY <3>1, <4>1, <5>1
        <5>. QED BY <2>3, <5>2
      <4>3. Len(g) \in Nat \ {0} /\ g # << >> /\ g[1] # Slash
        <5>1. Len(g) \in Nat \ {0} /\ 1 \in 1 .. Len(g)
          BY <3>1, <3>6, <4>2
        <5>. QED BY <3>7, <4>2, <5>1, LengthFacts
      <4>4. g[Len(g)] # Slash
        <5>1. Len(g) \in 1 .. Len(g) /\ Len(g) + 1 = m - 1 /\ m - 1 \in 1 .. Len(s) - 1 /\ (m - 1) + 1 = m
          BY <1>1, <2>3, <3>1, <3>6, <4>3
        <5>2. s[m - 1] # Slash
          BY <2>3, <4>1, <5>1
        <5>. QED BY <3>7, <5>1, <5>2
      <4>5. ASSUME NEW i \in 1 .. Len(g) - 1 PROVE g[i] # Slash \/ g[i + 1] # Slash
        <5>1. i \in 1 .. Len(g) /\ i + 1 \in 1 .. Len(g) /\ i + 1 \in 1 .. Len(s) - 1
          BY <1>1, <2>3, <3>1, <3>6, <4>3
        <5>. QED BY <3>7, <4>1, <5>1
      <4>. QED BY <4>3, <4>4, <4>5 DEF Clean, NoEmptyName
    <3>9. d = g /\ g # << >>
      BY <3>4, <3>8, CanonicalClean DEF d, p, Clean
    <3>10. Append(g, Slash) = g \o p
      BY <1>1, AddBytes, BytesAssumption DEF p
    <3>11. ASSUME IsPrefix(Append(g, Slash), f) PROVE top \o p \o Below(f, g) = p \o f
      <4>1. Below(f, g) \in Strings /\ f = g \o p \o Below(f, g)
        BY <1>3, <3>9, <3>11, BelowFacts DEF p
      <4>. DEFINE b == Below(f, g)
      <4>. HIDE DEF b
      <4>2. (p \o g) \o p = p \o (g \o p) /\ g \o p \in Strings
        <5>1. (p \o g) \o p = p \o (g \o p)
          BY <3>0, Regroup
        <5>. QED BY <3>0, <5>1, JoinTyped, Zenon
      <4>. DEFINE h == g \o p
      <4>3. h \in Strings /\ b \in Strings
        BY <4>1, <4>2 DEF b
      <4>. HIDE DEF h
      <4>4. (p \o h) \o b = p \o (h \o b)
        BY <3>0, <4>3, Regroup
      <4>. QED BY <3>4, <4>1, <4>2, <4>4, Zenon DEF b, h
    <3>12. ASSUME IsPrefix(s, p \o f) PROVE IsPrefix(Append(g, Slash), f)
      <4>. DEFINE h == g \o p
                  k == top \o p
                  j == p \o f
      <4>1. k \in Strings /\ h \in Strings /\ j \in Strings /\ k = p \o h
        <5>1. g \o p \in Strings /\ top \o p \in Strings /\ p \o f \in Strings
          BY <1>1, <2>5, JoinTyped
        <5>2. (p \o g) \o p = p \o (g \o p)
          BY <3>0, Regroup
        <5>. QED BY <3>4, <5>1, <5>2, Zenon
      <4>2. Len(k) = m /\ \A i \in 1 .. m : k[i] = IF i <= m - 1 THEN top[i] ELSE p[i - (m - 1)]
        <5>1. Len(k) = Len(top) + Len(p) /\ \A i \in 1 .. Len(top) + Len(p) : k[i] = IF i <= Len(top) THEN top[i] ELSE p[i - Len(top)]
          BY <1>1, <2>5, ConcatProperties DEF Strings
        <5>2. Len(top) + Len(p) = m
          BY <1>1, <2>5, <3>1
        <5>. QED BY <2>5, <5>1, <5>2
      <4>. HIDE DEF k, j
      <4>3. ASSUME NEW i \in 1 .. m PROVE k[i] = s[i]
        <5>1. CASE i <= m - 1
          BY <2>5, <4>2, <5>1
        <5>2. CASE ~ (i <= m - 1)
          <6>1. i = m /\ i - (m - 1) = 1
            BY <3>1, <5>2
          <6>. QED BY <1>1, <2>3, <4>2, <5>2, <6>1
        <5>. QED BY <5>1, <5>2
      <4>4. Len(s) <= Len(j) /\ Len(j) \in Nat /\ \A i \in 1 .. Len(s) : s[i] = j[i]
        <5>1. s \in Seq(Nat) /\ j \in Seq(Nat) /\ IsPrefix(s, j)
          BY <3>12, <4>1 DEF Strings, j
        <5>. QED BY <5>1, PrefixFacts, LengthFacts, <4>1
      <4>5. IsPrefix(k, j)
        <5>1. k \in Seq(Nat) /\ j \in Seq(Nat)
          BY <4>1 DEF Strings
        <5>2. Len(k) <= Len(j) /\ \A i \in 1 .. Len(k) : k[i] = j[i]
          BY <1>1, <2>3, <4>2, <4>3, <4>4
        <5>. QED BY <5>1, <5>2, PrefixFacts
      <4>. HIDE DEF h
      <4>6. IsPrefix(p \o h, p \o f)
        BY <4>1, <4>5 DEF j
      <4>7. IsPrefix(h, f)
        BY <1>1, <4>1, <4>6, CommonPrefix
      <4>. QED BY <3>10, <4>7 DEF h
    <3>. QED BY <3>9, <3>11, <3>12
  <2>. QED BY <2>6, <2>7
<1>. QED BY <1>5, <1>6

\* What is searched for, below the prefix of the mapping: a path that begins with a slash, or
\* all of them; and a file's path begins with it as its key begins with what was asked for.
LEMMA SearchBelow ==
  ASSUME NEW q \in Strings, NEW x \in Strings, NoSlashFirst(x), NoEmptyName(q),
         IsPrefix(q, x) \/ IsPrefix(Append(x, Slash), q)
  PROVE  /\ NoEmptyName(SearchKey(q, x)) /\ (SearchKey(q, x) = << >> \/ SearchKey(q, x)[1] = Slash)
         /\ \A f \in Strings : IsPrefix(q, x \o <<Slash>> \o f) <=> IsPrefix(SearchKey(q, x), <<Slash>> \o f)
<1>. DEFINE p == <<Slash>>
            e == << >>
<1>1. /\ p \in Strings /\ Len(p) = 1 /\ p[1] = Slash /\ e \in Strings /\ Append(x, Slash) = x \o p
  BY EmptySeq, BytesAssumption, AddBytes DEF Strings
<1>2. p \in Strings /\ e \in Strings
  BY <1>1
<1>3. Len(q) \in Nat /\ Len(x) \in Nat /\ DOMAIN q = 1 .. Len(q) /\ (Len(x) = 0 <=> x = << >>)
  BY LengthFacts
<1>4. CASE IsPrefix(q, x)
  <2>1. SearchKey(q, x) = e
    <3>1. CASE Len(q) < Len(x)
      BY <3>1 DEF SearchKey
    <3>2. CASE ~ (Len(q) < Len(x))
      <4>1. SearchKey(q, x) = TrimStart(q, x) /\ Len(q) = Len(x) /\ \A i \in 1 .. Len(q) : q[i] = x[i]
        <5>1. q \in Seq(Nat) /\ x \in Seq(Nat)
          BY DEF Strings
        <5>2. Len(q) <= Len(x) /\ \A i \in 1 .. Len(q) : q[i] = x[i]
          BY <1>4, <5>1, PrefixFacts
        <5>. QED BY <1>3, <3>2, <5>2 DEF SearchKey
      <4>2. q = x
        <5>1. q \in Seq(Nat) /\ x \in Seq(Nat)
          BY DEF Strings
        <5>. QED BY <4>1, <5>1, SeqEqual
      <4>3. CASE x = e
        <5>1. TrimStart(q, x) = q
          BY <4>3, TrimFacts
        <5>. QED BY <4>1, <4>2, <4>3, <5>1
      <4>4. CASE x # e
        <5>1. x \o e = x
          BY DEF Strings
        <5>2. ~ IsPrefix(x, e)
          <6>1. Len(e) = 0 /\ ~ (Len(x) <= 0)
            BY <1>3, <4>4
          <6>2. x \in Seq(Nat) /\ e \in Seq(Nat)
            BY <1>2 DEF Strings
          <6>. HIDE DEF e
          <6>. QED BY <6>1, <6>2, PrefixFacts
        <5>3. TrimStart(x \o e, x) = e
          BY <1>2, <4>4, <5>2, TrimOnce
        <5>. QED BY <4>1, <4>2, <5>1, <5>3, Zenon
      <4>. QED BY <4>3, <4>4
    <3>. QED BY <3>1, <3>2
  <2>2. ASSUME NEW f \in Strings PROVE IsPrefix(q, x \o p \o f) /\ IsPrefix(e, p \o f)
    <3>1. p \o f \in Strings /\ x \o p \in Strings
      BY <1>2, JoinTyped
    <3>2. IsPrefix(e, p \o f)
      <4>. DEFINE y == p \o f
      <4>. HIDE DEF y
      <4>. QED BY <3>1, EmptyIsPrefix DEF y
    <3>3. PICK u \in Strings : x = q \o u
      BY <1>4, PrefixIsHead DEF Strings
    <3>. DEFINE v == p \o f
    <3>4. v \in Strings
      BY <3>1
    <3>5. x \o p \o f = x \o v
      <4>1. x \in Strings /\ p \in Strings /\ f \in Strings
        BY <1>2
      <4>. HIDE DEF p
      <4>. QED BY <4>1, Regroup
    <3>. HIDE DEF p, v
    <3>6. (q \o u) \o v = q \o (u \o v)
      <4>1. q \in Strings /\ u \in Strings /\ v \in Strings
        BY <3>4
      <4>. QED BY <4>1, Regroup
    <3>. DEFINE w == u \o v
    <3>7. w \in Strings
      BY <3>4, JoinTyped
    <3>8. x \o p \o f = q \o w
      BY <3>3, <3>5, <3>6, Zenon
    <3>. DEFINE z == x \o p \o f
    <3>9. z \in Strings /\ z = q \o w
      BY <1>2, <3>1, <3>8, JoinTyped
    <3>. HIDE DEF w, z
    <3>10. IsPrefix(q, z)
      BY <3>7, <3>9, PrefixIsHead DEF Strings
    <3>. QED BY <3>2, <3>10 DEF z, p
  <2>3. NoEmptyName(e)
    BY DEF NoEmptyName
  <2>. QED BY <2>1, <2>2, <2>3
<1>5. CASE IsPrefix(x \o p, q)
  <2>. DEFINE y == x \o p
  <2>1. y \in Strings /\ IsPrefix(y, q)
    BY <1>2, <1>5, JoinTyped
  <2>. HIDE DEF y, p
  <2>2. PICK w \in Strings : q = y \o w
    BY <2>1, PrefixIsHead DEF Strings
  <2>. DEFINE s == p \o w
  <2>3. s \in Strings /\ q = x \o s
    <3>1. p \o w \in Strings
      BY <1>2, JoinTyped
    <3>2. (x \o p) \o w = x \o (p \o w)
      BY <1>2, Regroup
    <3>. QED BY <2>2, <3>1, <3>2, Zenon DEF y
  <2>4. s[1] = Slash /\ Len(s) = 1 + Len(w) /\ Len(w) \in Nat
    <3>1. p \in Seq(Nat) /\ w \in Seq(Nat) /\ Len(w) \in Nat
      BY <1>2, LengthFacts DEF Strings
    <3>2. /\ Len(p \o w) = Len(p) + Len(w)
          /\ \A i \in 1 .. Len(p) + Len(w) : (p \o w)[i] = IF i <= Len(p) THEN p[i] ELSE w[i - Len(p)]
      BY <3>1, ConcatProperties
    <3>3. 1 \in 1 .. Len(p) + Len(w) /\ 1 <= Len(p)
      BY <1>1, <3>1
    <3>. QED BY <1>1, <3>1, <3>2, <3>3
  <2>. HIDE DEF s
  <2>5. /\ Len(q) = Len(x) + Len(s) /\ Len(s) \in Nat
        /\ \A i \in 1 .. Len(x) + Len(s) : q[i] = IF i <= Len(x) THEN x[i] ELSE s[i - Len(x)]
    <3>1. x \in Seq(Nat) /\ s \in Seq(Nat) /\ Len(s) \in Nat
      BY <2>3, LengthFacts DEF Strings
    <3>. QED BY <2>3, <3>1, ConcatProperties
  <2>6. NoEmptyName(s)
    <3>1. ASSUME NEW i \in 1 .. Len(s) - 1 PROVE s[i] # Slash \/ s[i + 1] # Slash
      <4>. DEFINE k == Len(x) + i
      <4>1. k \in 1 .. Len(q) - 1 /\ k \in 1 .. Len(x) + Len(s) /\ ~ (k <= Len(x)) /\ k - Len(x) = i
        BY <1>3, <2>5
      <4>2. k + 1 \in 1 .. Len(x) + Len(s) /\ ~ (k + 1 <= Len(x)) /\ (k + 1) - Len(x) = i + 1
        BY <1>3, <2>5
      <4>. HIDE DEF k
      <4>3. q[k] = s[i] /\ q[k + 1] = s[i + 1]
        BY <2>5, <4>1, <4>2
      <4>. QED BY <4>1, <4>3 DEF NoEmptyName
    <3>. QED BY <3>1 DEF NoEmptyName
  <2>7. SearchKey(q, x) = s
    <3>1. SearchKey(q, x) = TrimStart(q, x)
      BY <1>3, <2>5 DEF SearchKey
    <3>2. CASE x = e
      <4>1. e \o s = s
        BY <2>3 DEF Strings
      <4>2. TrimStart(q, x) = q
        BY <3>2, TrimFacts
      <4>. QED BY <2>3, <3>1, <3>2, <4>1, <4>2
    <3>3. CASE x # e
      <4>1. ~ IsPrefix(x, s)
        <5>1. x \in Seq(Nat) /\ s \in Seq(Nat)
          BY <2>3 DEF Strings
        <5>2. Len(x) \in Nat \ {0} /\ x[1] # Slash
          BY <1>3, <3>3 DEF NoSlashFirst
        <5>. QED BY <2>4, <5>1, <5>2, PrefixFacts
      <4>2. TrimStart(x \o s, x) = s
        BY <2>3, <3>3, <4>1, TrimOnce
      <4>. QED BY <2>3, <3>1, <4>2, Zenon
    <3>. QED BY <3>2, <3>3
  <2>8. ASSUME NEW f \in Strings PROVE IsPrefix(q, x \o p \o f) <=> IsPrefix(s, p \o f)
    <3>. DEFINE v == p \o f
    <3>1. v \in Strings
      BY <1>2, JoinTyped
    <3>2. x \o p \o f = x \o v
      <4>1. x \in Strings /\ p \in Strings /\ f \in Strings
        BY <1>2
      <4>. QED BY <4>1, Regroup
    <3>. HIDE DEF v
    <3>3. IsPrefix(x \o s, x \o v) <=> IsPrefix(s, v)
      BY <2>3, <3>1, CommonPrefix
    <3>. QED BY <2>3, <3>2, <3>3, Zenon DEF v
  <2>9. s # << >>
    BY <2>3, <2>4, LengthFacts
  <2>. QED BY <2>4, <2>6, <2>7, <2>8 DEF p
<1>6. IsPrefix(q, x) \/ IsPrefix(x \o p, q)
  BY <1>1
<1>. QED BY <1>4, <1>5, <1>6

LEMMA ListingIsExact ==
  ASSUME RoutingInv
  PROVE  ListingMatchesSearch
<1>1. SUFFICES ASSUME pc = "done", op = "list", answer \notin {NotFound, Panics}, NoEmptyName(key),
                      IsPrefix(key, route.prefix) \/ IsPrefix(Append(route.prefix, Slash), key)
               PROVE  {e.key : e \in answer} =
                        {k \in {route.prefix \o <<Slash>> \o f : f \in Files[route.target]} : IsPrefix(key, k)}
  BY DEF ListingMatchesSearch
<1>. DEFINE x == route.prefix
            t == route.target
            s == SearchKey(key, x)
            top == SearchTop(s)
            d == Canonical(top)
            p == <<Slash>>
<1>2. /\ KeyTypeOK /\ key \in Strings /\ answer = Listed(key, route) /\ route \in Routes(key)
  BY <1>1 DEF RoutingInv, RouteInv, KeyTypeOK, ListAnswer
<1>3. x \in Strings /\ NoSlashFirst(x) /\ t \in Archives
  BY <1>2, RouteFacts
<1>4. s \in Strings /\ top \in Strings
  BY <1>2, <1>3, SearchFacts
<1>5. /\ NoEmptyName(s) /\ (s = << >> \/ s[1] = Slash)
      /\ \A f \in Strings : IsPrefix(key, x \o p \o f) <=> IsPrefix(s, p \o f)
  BY <1>1, <1>2, <1>3, SearchBelow
<1>6. \A f \in Files[t] : f \in Strings /\ Clean(f)
  BY <1>3, FilesAssumption
<1>7. \A f \in Files[t] :
        /\ d = << >> \/ IsPrefix(Append(d, Slash), f) => top \o p \o Below(f, d) = p \o f
        /\ IsPrefix(s, p \o f) => d = << >> \/ IsPrefix(Append(d, Slash), f)
  <2>. HIDE DEF s
  <2>. QED BY <1>4, <1>5, <1>6, TopFacts
<1>8. FileList(t, top) =
        {[path |-> top \o p \o Below(f, d), file |-> f] :
           f \in {f \in Files[t] : d = << >> \/ IsPrefix(Append(d, Slash), f)}}
  BY DEF FileList
<1>9. answer = {[key |-> x \o h.path, prefix |-> x, target |-> t, file |-> h.file] :
                  h \in {h \in FileList(t, top) : IsPrefix(s, h.path)}}
  BY <1>2 DEF Listed, ListedKey
<1>10. \A f \in Files[t] : x \o p \o f = x \o (p \o f)
  <2>1. p \in Strings
    BY BytesAssumption DEF Strings
  <2>. HIDE DEF p, x, t
  <2>. QED BY <1>3, <1>6, <2>1, Regroup
<1>. HIDE DEF x, t, s, top, d, p
<1>11. ASSUME NEW e \in answer
       PROVE  \E f \in Files[t] : e.key = x \o p \o f /\ IsPrefix(key, x \o p \o f)
  <2>1. PICK h \in FileList(t, top) : IsPrefix(s, h.path) /\ e.key = x \o h.path
    BY <1>9
  <2>2. PICK f \in Files[t] : /\ d = << >> \/ IsPrefix(Append(d, Slash), f)
                              /\ h.path = top \o p \o Below(f, d)
    BY <1>8
  <2>3. h.path = p \o f
    BY <1>7, <2>2
  <2>. QED BY <1>5, <1>6, <1>10, <2>1, <2>3
<1>12. ASSUME NEW f \in Files[t], IsPrefix(key, x \o p \o f)
       PROVE  \E e \in answer : e.key = x \o p \o f
  <2>1. IsPrefix(s, p \o f)
    BY <1>5, <1>6, <1>12
  <2>2. (d = << >> \/ IsPrefix(Append(d, Slash), f)) /\ top \o p \o Below(f, d) = p \o f
    BY <1>7, <2>1
  <2>. DEFINE h == [path |-> top \o p \o Below(f, d), file |-> f]
  <2>3. h \in FileList(t, top) /\ h.path = top \o p \o Below(f, d)
    BY <1>8, <2>2
  <2>4. h.path = p \o f
    BY <2>2, <2>3, Zenon
  <2>. HIDE DEF h
  <2>. DEFINE e == [key |-> x \o h.path, prefix |-> x, target |-> t, file |-> h.file]
  <2>5. e \in answer
    BY <1>9, <2>1, <2>3, <2>4
  <2>6. e.key = x \o p \o f
    BY <1>10, <2>4
  <2>. QED BY <2>5, <2>6
<1>13. {e.key : e \in answer} = {k \in {x \o p \o f : f \in Files[t]} : IsPrefix(key, k)}
  BY <1>11, <1>12
<1>. QED BY <1>13 DEF x, t, p

\* A listing of what is above a mapping, or below it and its slash, is exactly the files of
\* its archive whose keys begin with the prefix asked for, if the lambda does not panic.
THEOREM ListingsMatch == Spec => []ListingMatchesSearch
<1>1. Init => RoutingInv
  BY InitInv
<1>2. RoutingInv => ListingMatchesSearch
  BY ListingIsExact
<1>. QED BY <1>1, <1>2, StepInv, PTL DEF Spec
=============================================================================

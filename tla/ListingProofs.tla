--------------------------- MODULE ListingProofs ---------------------------
(***************************************************************************)
(* Paging through the keys below a prefix.  The list an instance makes is  *)
(* in the order of the directory tree, whatever version it is made from,   *)
(* and what the client was given never comes after its token in that       *)
(* order: so nothing is given twice, and what is in all versions is not    *)
(* skipped.                                                                *)
(***************************************************************************)
EXTENDS Listing, DataLemmas

---------------------------------------------------------------------------
(* The order of the list *)

\* f and g part in a directory in which the way to f comes first.
Before(f, g) ==
  \E k \in 1 .. Len(f) :
    k <= Len(g) /\ (\A i \in 1 .. k - 1 : f[i] = g[i]) /\ f[k] < g[k]

Ordered(s) == \A i, j \in DOMAIN s : i < j => Before(s[i], s[j])

\* s has the paths X, in order.
Lists(s, X) == s \in Seq(Path) /\ Ordered(s) /\ ToSet(s) = X

\* A path and the names in it.
LEMMA PathFacts ==
  ASSUME NEW f \in Path
  PROVE  /\ f \in Seq(Nat) /\ Len(f) \in Nat
         /\ \A k \in 1 .. Len(f) : f[k] \in 1 .. LastName /\ f[k] \in Nat
<1>1. f \in Seq(1 .. LastName) /\ 1 .. LastName \subseteq Nat
  BY FilesAssumption DEF Path
<1>2. f \in Seq(Nat) /\ Len(f) \in Nat
  BY <1>1, SeqMonotonic, LenProperties
<1>3. \A k \in 1 .. Len(f) : f[k] \in 1 .. LastName
  BY <1>1, ElementOfSeq
<1>. QED BY <1>1, <1>2, <1>3

LEMMA BeforeTransitive ==
  ASSUME NEW f \in Path, NEW g \in Path, NEW h \in Path, Before(f, g), Before(g, h)
  PROVE  Before(f, h)
<1>1. PICK k \in 1 .. Len(f) :
        k <= Len(g) /\ (\A i \in 1 .. k - 1 : f[i] = g[i]) /\ f[k] < g[k]
  BY DEF Before
<1>2. PICK l \in 1 .. Len(g) :
        l <= Len(h) /\ (\A i \in 1 .. l - 1 : g[i] = h[i]) /\ g[l] < h[l]
  BY DEF Before
<1>3. /\ Len(f) \in Nat /\ Len(g) \in Nat /\ Len(h) \in Nat
      /\ \A i \in 1 .. Len(f) : f[i] \in Nat
      /\ \A i \in 1 .. Len(g) : g[i] \in Nat
      /\ \A i \in 1 .. Len(h) : h[i] \in Nat
  BY PathFacts
<1>4. CASE k <= l
  <2>1. f[k] < h[k]
    <3>1. CASE k = l
      BY <1>1, <1>2, <1>3, <3>1
    <3>2. CASE k < l
      BY <1>1, <1>2, <1>3, <3>2
    <3>. QED BY <1>3, <1>4, <3>1, <3>2
  <2>2. k <= Len(h) /\ \A i \in 1 .. k - 1 : f[i] = h[i]
    BY <1>1, <1>2, <1>3, <1>4
  <2>. QED BY <2>1, <2>2 DEF Before
<1>5. CASE l < k
  <2>1. l \in 1 .. Len(f) /\ f[l] = g[l]
    BY <1>1, <1>2, <1>3, <1>5
  <2>2. \A i \in 1 .. l - 1 : f[i] = h[i]
    BY <1>1, <1>2, <1>3, <1>5
  <2>. QED BY <1>2, <2>1, <2>2 DEF Before
<1>. QED BY <1>3, <1>4, <1>5

LEMMA BeforeIrreflexive ==
  ASSUME NEW f \in Path, Before(f, f)
  PROVE  FALSE
BY PathFacts DEF Before

---------------------------------------------------------------------------
(* Lists *)

LEMMA ListsNothing == Lists(<< >>, {})
<1>1. << >> \in Seq(Path)
  BY EmptySeq
<1>2. DOMAIN << >> = {}
  <2>1. \A S : << >> \in Seq(S) => DOMAIN << >> = 1 .. Len(<< >>) /\ Len(<< >>) = 0
    BY LenProperties, EmptySeq
  <2>. QED BY <1>1, <2>1
<1>. QED BY <1>1, <1>2 DEF Lists, Ordered, ToSet

LEMMA ListsOne ==
  ASSUME NEW f \in Path
  PROVE  Lists(<<f>>, {f})
<1>1. <<f>> \in Seq(Path) /\ DOMAIN <<f>> = {1} /\ <<f>>[1] = f
  OBVIOUS
<1>. QED BY <1>1 DEF Lists, Ordered, ToSet

\* The elements of a list, by their place.
LEMMA ListPlaces ==
  ASSUME NEW s \in Seq(Path)
  PROVE  /\ Len(s) \in Nat /\ DOMAIN s = 1 .. Len(s)
         /\ \A i \in 1 .. Len(s) : s[i] \in Path /\ s[i] \in ToSet(s)
         /\ \A f \in ToSet(s) : \E i \in 1 .. Len(s) : f = s[i]
         /\ ToSet(s) \subseteq Path
<1>1. Len(s) \in Nat /\ DOMAIN s = 1 .. Len(s)
  BY LenProperties
<1>2. \A i \in 1 .. Len(s) : s[i] \in Path
  BY ElementOfSeq
<1>. QED BY <1>1, <1>2 DEF ToSet

\* A list, and another one of what comes later.
LEMMA ListsBoth ==
  ASSUME NEW s, NEW X, NEW t, NEW Y, Lists(s, X), Lists(t, Y),
         \A f \in X, g \in Y : Before(f, g)
  PROVE  Lists(s \o t, X \cup Y)
<1>1. s \in Seq(Path) /\ t \in Seq(Path) /\ Ordered(s) /\ Ordered(t)
      /\ ToSet(s) = X /\ ToSet(t) = Y
  BY DEF Lists
<1>2. Len(s) \in Nat /\ Len(t) \in Nat /\ DOMAIN s = 1 .. Len(s) /\ DOMAIN t = 1 .. Len(t)
      /\ (\A i \in 1 .. Len(s) : s[i] \in X) /\ (\A i \in 1 .. Len(t) : t[i] \in Y)
      /\ (\A f \in X : \E i \in 1 .. Len(s) : f = s[i])
      /\ (\A f \in Y : \E i \in 1 .. Len(t) : f = t[i])
  BY <1>1, ListPlaces
<1>. DEFINE u == s \o t
<1>3. /\ u \in Seq(Path) /\ Len(u) = Len(s) + Len(t)
      /\ \A i \in 1 .. Len(s) + Len(t) : u[i] = IF i <= Len(s) THEN s[i] ELSE t[i - Len(s)]
  BY <1>1, ConcatProperties
<1>. HIDE DEF u
<1>4. DOMAIN u = 1 .. Len(s) + Len(t)
  BY <1>3, LenProperties
<1>5. ASSUME NEW i \in DOMAIN u, NEW j \in DOMAIN u, i < j PROVE Before(u[i], u[j])
  <2>1. CASE j <= Len(s)
    <3>1. i \in DOMAIN s /\ j \in DOMAIN s /\ u[i] = s[i] /\ u[j] = s[j]
      BY <1>2, <1>3, <1>4, <1>5, <2>1
    <3>. QED BY <1>1, <1>5, <3>1 DEF Ordered
  <2>2. CASE i <= Len(s) /\ ~ (j <= Len(s))
    <3>1. i \in 1 .. Len(s) /\ j - Len(s) \in 1 .. Len(t) /\ u[i] = s[i] /\ u[j] = t[j - Len(s)]
      BY <1>2, <1>3, <1>4, <1>5, <2>2
    <3>. QED BY <1>2, <3>1
  <2>3. CASE ~ (i <= Len(s))
    <3>1. ~ (j <= Len(s)) /\ i \in 1 .. Len(s) + Len(t) /\ j \in 1 .. Len(s) + Len(t)
      BY <1>2, <1>4, <1>5, <2>3
    <3>2. i - Len(s) \in DOMAIN t /\ j - Len(s) \in DOMAIN t /\ i - Len(s) < j - Len(s)
      BY <1>2, <1>5, <2>3, <3>1
    <3>3. u[i] = t[i - Len(s)] /\ u[j] = t[j - Len(s)]
      BY <1>3, <2>3, <3>1
    <3>. QED BY <1>1, <3>2, <3>3 DEF Ordered
  <2>. QED BY <1>2, <1>4, <1>5, <2>1, <2>2, <2>3
<1>6. ASSUME NEW f \in ToSet(u) PROVE f \in X \cup Y
  <2>1. PICK i \in 1 .. Len(s) + Len(t) : f = u[i]
    BY <1>4 DEF ToSet
  <2>2. CASE i <= Len(s)
    BY <1>2, <1>3, <2>1, <2>2
  <2>3. CASE ~ (i <= Len(s))
    <3>1. i - Len(s) \in 1 .. Len(t)
      BY <1>2, <2>3
    <3>. QED BY <1>2, <1>3, <2>1, <2>3, <3>1
  <2>. QED BY <2>2, <2>3
<1>7. ASSUME NEW f \in X \cup Y PROVE f \in ToSet(u)
  <2>1. CASE f \in X
    <3>1. PICK i \in 1 .. Len(s) : f = s[i]
      BY <1>2, <2>1
    <3>2. i \in DOMAIN u /\ u[i] = s[i]
      BY <1>2, <1>3, <1>4
    <3>. QED BY <3>1, <3>2 DEF ToSet
  <2>2. CASE f \in Y
    <3>1. PICK i \in 1 .. Len(t) : f = t[i]
      BY <1>2, <2>2
    <3>2. Len(s) + i \in 1 .. Len(s) + Len(t) /\ ~ (Len(s) + i <= Len(s))
          /\ (Len(s) + i) - Len(s) = i
      BY <1>2
    <3>3. u[Len(s) + i] = t[i]
      BY <1>3, <3>2
    <3>. QED BY <1>4, <3>1, <3>2, <3>3 DEF ToSet
  <2>. QED BY <2>1, <2>2
<1>8. ToSet(u) = X \cup Y
  BY <1>6, <1>7
<1>. QED BY <1>3, <1>5, <1>8 DEF Lists, Ordered, u

\* A list up to some place, and from there on.
LEMMA ListsHead ==
  ASSUME NEW s, NEW X, Lists(s, X), NEW n \in Nat, n <= Len(s)
  PROVE  /\ Lists(SubSeq(s, 1, n), {s[i] : i \in 1 .. n})
         /\ \A f \in X : f \in {s[i] : i \in 1 .. n} \/ (n > 0 => Before(s[n], f))
<1>1. s \in Seq(Path) /\ Ordered(s) /\ ToSet(s) = X
  BY DEF Lists
<1>2. Len(s) \in Nat /\ DOMAIN s = 1 .. Len(s)
      /\ (\A f \in X : \E i \in 1 .. Len(s) : f = s[i])
  BY <1>1, ListPlaces
<1>. DEFINE t == SubSeq(s, 1, n)
<1>3. t \in Seq(Path) /\ Len(t) = n /\ \A i \in 1 .. n : t[i] = s[i]
  BY <1>1, HeadFacts
<1>4. DOMAIN t = 1 .. n
  BY <1>3, LenProperties
<1>. HIDE DEF t
<1>5. Ordered(t)
  BY <1>1, <1>2, <1>3, <1>4 DEF Ordered
<1>6. ToSet(t) = {s[i] : i \in 1 .. n}
  BY <1>3, <1>4 DEF ToSet
<1>7. ASSUME NEW f \in X, f \notin {s[i] : i \in 1 .. n}, n > 0 PROVE Before(s[n], f)
  <2>1. PICK i \in 1 .. Len(s) : f = s[i]
    BY <1>2
  <2>2. n < i /\ n \in 1 .. Len(s)
    BY <1>2, <1>7, <2>1
  <2>. QED BY <1>1, <1>2, <2>1, <2>2 DEF Ordered
<1>. QED BY <1>3, <1>5, <1>6, <1>7 DEF Lists, t

LEMMA ListsRest ==
  ASSUME NEW s, NEW X, Lists(s, X), NEW n \in 1 .. Len(s)
  PROVE  Lists(SubSeq(s, n + 1, Len(s)), {f \in X : Before(s[n], f)})
<1>1. s \in Seq(Path) /\ Ordered(s) /\ ToSet(s) = X
  BY DEF Lists
<1>2. Len(s) \in Nat /\ DOMAIN s = 1 .. Len(s)
      /\ (\A f \in X : \E i \in 1 .. Len(s) : f = s[i])
      /\ \A i \in 1 .. Len(s) : s[i] \in X /\ s[i] \in Path
  BY <1>1, ListPlaces
<1>. DEFINE t == SubSeq(s, n + 1, Len(s))
<1>3. /\ t \in Seq(Path) /\ Len(t) = Len(s) - n
      /\ \A i \in 1 .. Len(s) - n : t[i] = s[n + i]
  <2>1. n + 1 \in Nat \ {0} /\ n + 1 <= Len(s) + 1
    BY <1>2
  <2>2. /\ t \in Seq(Path) /\ Len(t) = Len(s) - (n + 1) + 1
        /\ \A i \in 1 .. Len(s) - (n + 1) + 1 : t[i] = s[(n + 1) + i - 1]
    BY <1>1, <2>1, RestFacts
  <2>. HIDE DEF t
  <2>3. Len(s) - (n + 1) + 1 = Len(s) - n /\ \A i \in 1 .. Len(s) - n : (n + 1) + i - 1 = n + i
    BY <1>2
  <2>4. /\ t \in Seq(Path) /\ Len(t) = Len(s) - n
        /\ \A i \in 1 .. Len(s) - n : t[i] = s[(n + 1) + i - 1]
    BY <2>2, <2>3
  <2>. QED BY <2>3, <2>4
<1>4. DOMAIN t = 1 .. Len(s) - n
  BY <1>3, LenProperties
<1>. HIDE DEF t
<1>5. ASSUME NEW i \in DOMAIN t, NEW j \in DOMAIN t, i < j PROVE Before(t[i], t[j])
  <2>1. n + i \in DOMAIN s /\ n + j \in DOMAIN s /\ n + i < n + j
    BY <1>2, <1>4, <1>5
  <2>2. t[i] = s[n + i] /\ t[j] = s[n + j]
    BY <1>3, <1>4
  <2>. QED BY <1>1, <2>1, <2>2 DEF Ordered
<1>6. ASSUME NEW f \in ToSet(t) PROVE f \in X /\ Before(s[n], f)
  <2>1. PICK i \in 1 .. Len(s) - n : f = t[i]
    BY <1>4 DEF ToSet
  <2>2. f = s[n + i] /\ n + i \in 1 .. Len(s) /\ n < n + i
    BY <1>2, <1>3, <2>1
  <2>. QED BY <1>1, <1>2, <2>2 DEF Ordered
<1>7. ASSUME NEW f \in X, Before(s[n], f) PROVE f \in ToSet(t)
  <2>1. PICK i \in 1 .. Len(s) : f = s[i]
    BY <1>2
  <2>2. ~ (i <= n)
    <3>1. ASSUME i = n PROVE FALSE
      BY <1>2, <1>7, <2>1, <3>1, BeforeIrreflexive
    <3>2. ASSUME i < n PROVE FALSE
      <4>1. Before(f, s[n])
        BY <1>1, <1>2, <2>1, <3>2 DEF Ordered
      <4>2. Before(f, f)
        BY <1>2, <1>7, <2>1, <4>1, BeforeTransitive
      <4>. QED BY <1>2, <2>1, <4>2, BeforeIrreflexive
    <3>. QED BY <1>2, <3>1, <3>2
  <2>3. i - n \in 1 .. Len(s) - n /\ n + (i - n) = i
    BY <1>2, <2>2
  <2>4. i - n \in DOMAIN t /\ t[i - n] = f
    BY <1>3, <1>4, <2>1, <2>3
  <2>. QED BY <2>4 DEF ToSet
<1>8. ToSet(t) = {f \in X : Before(s[n], f)}
  BY <1>6, <1>7
<1>. QED BY <1>3, <1>5, <1>8 DEF Lists, Ordered, t

---------------------------------------------------------------------------
(* The files below a directory *)

Below(v, dir) == {f \in Files[v] : IsStrictPrefix(dir, f)}

LEMMA BelowFacts ==
  ASSUME NEW v \in Versions, NEW dir \in Seq(Nat), NEW f \in Files[v]
  PROVE  /\ f \in Path /\ Len(f) \in Nat /\ Len(f) <= Depth /\ Len(dir) \in Nat
         /\ f \in Below(v, dir)
              <=> Len(dir) < Len(f) /\ \A i \in 1 .. Len(dir) : f[i] = dir[i]
         /\ f \in Below(v, dir) =>
              Len(dir) + 1 \in 1 .. Len(f) /\ f[Len(dir) + 1] \in 1 .. LastName
<1>1. f \in Path /\ Len(f) <= Depth
  BY FilesAssumption
<1>2. f \in Seq(Nat) /\ Len(f) \in Nat /\ \A k \in 1 .. Len(f) : f[k] \in 1 .. LastName
  BY <1>1, PathFacts
<1>3. Len(dir) \in Nat
  BY LenProperties
<1>4. IsPrefix(dir, f) <=> Len(dir) <= Len(f) /\ \A i \in 1 .. Len(dir) : dir[i] = f[i]
  BY <1>2, PrefixFacts
<1>5. Len(dir) = Len(f) /\ IsPrefix(dir, f) => dir = f
  BY <1>2, <1>4, SeqEqual
<1>6. f \in Below(v, dir) <=> IsPrefix(dir, f) /\ dir # f
  BY DEF Below, IsStrictPrefix
<1>7. f \in Below(v, dir) <=> Len(dir) < Len(f) /\ \A i \in 1 .. Len(dir) : f[i] = dir[i]
  <2>1. ASSUME f \in Below(v, dir)
        PROVE  Len(dir) < Len(f) /\ \A i \in 1 .. Len(dir) : f[i] = dir[i]
    BY <1>2, <1>3, <1>4, <1>5, <1>6, <2>1
  <2>2. ASSUME Len(dir) < Len(f), \A i \in 1 .. Len(dir) : f[i] = dir[i]
        PROVE  f \in Below(v, dir)
    <3>1. dir # f
      BY <1>2, <1>3, <2>2
    <3>. QED BY <1>2, <1>3, <1>4, <1>6, <2>2, <3>1
  <2>. QED BY <2>1, <2>2
<1>8. f \in Below(v, dir) =>
        Len(dir) + 1 \in 1 .. Len(f) /\ f[Len(dir) + 1] \in 1 .. LastName
  BY <1>2, <1>3, <1>7
<1>. QED BY <1>1, <1>2, <1>3, <1>7, <1>8

\* The files of one entry of a directory.
LEMMA EntryBelow ==
  ASSUME NEW v \in Versions, NEW dir \in Seq(Nat), NEW n \in 1 .. LastName
  PROVE  /\ Append(dir, n) \in Seq(Nat) /\ Len(Append(dir, n)) = Len(dir) + 1
         /\ n \in Names(v, dir) <=> \E f \in Below(v, dir) : f[Len(dir) + 1] = n
         /\ Append(dir, n) \in Files[v] =>
              {f \in Below(v, dir) : f[Len(dir) + 1] = n} = {Append(dir, n)}
         /\ Append(dir, n) \notin Files[v] =>
              {f \in Below(v, dir) : f[Len(dir) + 1] = n} = Below(v, Append(dir, n))
<1>. DEFINE e == Append(dir, n)
<1>1. n \in Nat /\ Len(dir) \in Nat
  BY FilesAssumption, LenProperties
<1>2. /\ e \in Seq(Nat) /\ Len(e) = Len(dir) + 1 /\ e[Len(dir) + 1] = n
      /\ \A i \in 1 .. Len(dir) : e[i] = dir[i]
  BY <1>1, AppendProperties
<1>. HIDE DEF e
<1>3. n \in Names(v, dir) <=> \E f \in Below(v, dir) : f[Len(dir) + 1] = n
  BY DEF Names, Below
<1>4. ASSUME NEW f \in Files[v]
      PROVE  f \in Below(v, dir) /\ f[Len(dir) + 1] = n <=> f = e \/ f \in Below(v, e)
  <2>1. /\ Len(f) \in Nat
        /\ f \in Below(v, dir)
             <=> Len(dir) < Len(f) /\ \A i \in 1 .. Len(dir) : f[i] = dir[i]
        /\ f \in Below(v, e) <=> Len(e) < Len(f) /\ \A i \in 1 .. Len(e) : f[i] = e[i]
    BY <1>2, <1>4, BelowFacts
  <2>2. f \in Seq(Nat)
    BY <1>4, FilesAssumption, PathFacts
  <2>3. ASSUME f \in Below(v, dir), f[Len(dir) + 1] = n PROVE f = e \/ f \in Below(v, e)
    <3>1. \A i \in 1 .. Len(e) : f[i] = e[i]
      <4>1. \A i \in 1 .. Len(e) : i \in 1 .. Len(dir) \/ i = Len(dir) + 1
        BY <1>1, <1>2
      <4>. QED BY <1>2, <2>1, <2>3, <4>1
    <3>2. CASE Len(f) = Len(e)
      <4>1. \A i \in 1 .. Len(f) : f[i] = e[i]
        BY <3>1, <3>2
      <4>2. f = e
        BY <1>2, <2>2, <3>2, <4>1, SeqEqual
      <4>. QED BY <4>2
    <3>3. CASE Len(f) # Len(e)
      BY <1>1, <1>2, <2>1, <2>3, <3>1, <3>3
    <3>. QED BY <3>2, <3>3
  <2>4. ASSUME f = e \/ f \in Below(v, e) PROVE f \in Below(v, dir) /\ f[Len(dir) + 1] = n
    <3>1. Len(dir) < Len(f) /\ \A i \in 1 .. Len(dir) + 1 : f[i] = e[i]
      BY <1>1, <1>2, <2>1, <2>4
    <3>2. \A i \in 1 .. Len(dir) : f[i] = dir[i]
      BY <1>1, <1>2, <3>1
    <3>3. f[Len(dir) + 1] = n
      BY <1>1, <1>2, <3>1
    <3>. QED BY <2>1, <3>1, <3>2, <3>3
  <2>. QED BY <2>3, <2>4
<1>5. Below(v, dir) \subseteq Files[v] /\ Below(v, e) \subseteq Files[v]
  BY DEF Below
<1>6. ASSUME e \in Files[v] PROVE Below(v, e) = {}
  BY <1>6, FilesAssumption DEF Below, IsStrictPrefix
<1>7. e \in Files[v] => {f \in Below(v, dir) : f[Len(dir) + 1] = n} = {e}
  BY <1>4, <1>5, <1>6
<1>8. e \notin Files[v] => {f \in Below(v, dir) : f[Len(dir) + 1] = n} = Below(v, e)
  BY <1>4, <1>5
<1>. QED BY <1>2, <1>3, <1>7, <1>8 DEF e

\* The entries of a directory are taken one by one.
LEMMA SiblingsFacts ==
  ASSUME NEW v \in Versions, NEW dir \in Seq(Nat), NEW below \in [Seq(Nat) -> Seq(Path)]
  PROVE  /\ Siblings(v, dir, below) \in [0 .. LastName -> Seq(Path)]
         /\ Siblings(v, dir, below)[0] = << >>
         /\ \A n \in 0 .. LastName - 1 :
              Siblings(v, dir, below)[n + 1] =
                IF n + 1 \notin Names(v, dir) THEN Siblings(v, dir, below)[n]
                ELSE IF Append(dir, n + 1) \in Files[v]
                     THEN Append(Siblings(v, dir, below)[n], Append(dir, n + 1))
                     ELSE Siblings(v, dir, below)[n] \o below[Append(dir, n + 1)]
<1>. DEFINE Add(n, s) == IF n \notin Names(v, dir) THEN s
                         ELSE IF Append(dir, n) \in Files[v] THEN Append(s, Append(dir, n))
                         ELSE s \o below[Append(dir, n)]
            step == [e \in Nat \X Seq(Path) |-> Add(e[1], e[2])]
            Is(g) == g = [n \in 0 .. LastName |-> IF n = 0 THEN << >> ELSE Add(n, g[n - 1])]
<1>1. LastName \in Nat /\ << >> \in Seq(Path)
  BY FilesAssumption, EmptySeq
<1>2. ASSUME NEW n \in Nat, NEW s \in Seq(Path) PROVE Add(n, s) \in Seq(Path)
  <2>1. Append(dir, n) \in Seq(Nat)
    BY AppendProperties
  <2>2. below[Append(dir, n)] \in Seq(Path)
    BY <2>1
  <2>3. s \o below[Append(dir, n)] \in Seq(Path)
    BY <2>2, ConcatProperties
  <2>4. CASE Append(dir, n) \in Files[v]
    <3>1. Append(s, Append(dir, n)) \in Seq(Path)
      BY <2>4, FilesAssumption, AppendProperties
    <3>. QED BY <2>4, <3>1
  <2>5. CASE Append(dir, n) \notin Files[v]
    BY <2>3, <2>5
  <2>. QED BY <2>4, <2>5
<1>. HIDE DEF Add
<1>3. step \in [Nat \X Seq(Path) -> Seq(Path)]
  BY <1>2
<1>4. \A n \in Nat, s \in Seq(Path) : step[<<n, s>>] = Add(n, s)
  OBVIOUS
<1>. HIDE DEF step
<1>5. PICK g : Upto(Seq(Path), << >>, step, LastName, g)
  BY <1>1, <1>3, Recursion
<1>6. /\ g \in [0 .. LastName -> Seq(Path)] /\ g[0] = << >>
      /\ \A n \in 0 .. LastName - 1 : g[n + 1] = Add(n + 1, g[n])
  <2>1. /\ g \in [0 .. LastName -> Seq(Path)] /\ g[0] = << >>
        /\ \A n \in 0 .. LastName - 1 : g[n + 1] = step[<<n + 1, g[n]>>]
    BY <1>5 DEF Upto
  <2>2. ASSUME NEW n \in 0 .. LastName - 1 PROVE g[n + 1] = Add(n + 1, g[n])
    <3>1. n + 1 \in Nat /\ n \in 0 .. LastName
      BY <1>1
    <3>2. g[n] \in Seq(Path)
      BY <2>1, <3>1
    <3>. QED BY <1>4, <2>1, <3>1, <3>2
  <2>. QED BY <2>1, <2>2
<1>7. ASSUME NEW n \in 0 .. LastName PROVE g[n] = IF n = 0 THEN << >> ELSE Add(n, g[n - 1])
  <2>1. CASE n = 0
    BY <1>6, <2>1
  <2>2. CASE n # 0
    <3>1. n - 1 \in 0 .. LastName - 1 /\ (n - 1) + 1 = n
      BY <1>1, <2>2
    <3>. QED BY <1>6, <2>2, <3>1
  <2>. QED BY <2>1, <2>2
<1>8. Is(g)
  BY <1>6, <1>7
<1>9. Siblings(v, dir, below) = CHOOSE h : Is(h)
  BY DEF Siblings, Add
<1>. DEFINE t == Siblings(v, dir, below)
<1>10. t = [n \in 0 .. LastName |-> IF n = 0 THEN << >> ELSE Add(n, t[n - 1])]
  <2>. HIDE DEF Is
  <2>1. Is(CHOOSE h : Is(h))
    BY <1>8
  <2>. QED BY <2>1, <1>9 DEF Is
<1>. HIDE DEF t
<1>11. t[0] = << >> /\ \A n \in 0 .. LastName - 1 : t[n + 1] = Add(n + 1, t[n])
  BY <1>1, <1>10
<1>12. \A n \in 0 .. LastName : t[n] \in Seq(Path)
  <2>. DEFINE X == {n \in Nat : n <= LastName => t[n] \in Seq(Path)}
  <2>1. 0 \in X
    BY <1>1, <1>11
  <2>2. ASSUME NEW n \in Nat, n \in X PROVE n + 1 \in X
    BY <1>1, <1>2, <1>11, <2>2
  <2>. HIDE DEF X
  <2>3. \A n \in Nat : n \in X
    BY <2>1, <2>2, Induct
  <2>. QED BY <1>1, <2>3 DEF X
<1>13. t \in [0 .. LastName -> Seq(Path)]
  BY <1>10, <1>12
<1>. QED BY <1>11, <1>13 DEF t, Add

\* If what lies below each subdirectory is listed in order, so is what lies below.
LEMMA SiblingsList ==
  ASSUME NEW v \in Versions, NEW dir \in Seq(Nat), NEW below \in [Seq(Nat) -> Seq(Path)],
         \A n \in 1 .. LastName :
           Append(dir, n) \notin Files[v] => Lists(below[Append(dir, n)], Below(v, Append(dir, n)))
  PROVE  Lists(Siblings(v, dir, below)[LastName], Below(v, dir))
<1>. DEFINE t == Siblings(v, dir, below)
            Upto1(n) == {f \in Below(v, dir) : f[Len(dir) + 1] <= n}
            One(n) == {f \in Below(v, dir) : f[Len(dir) + 1] = n}
            Good(n) == Lists(t[n], Upto1(n))
            X == {n \in Nat : n <= LastName => Good(n)}
<1>1. LastName \in Nat /\ Len(dir) \in Nat
  BY FilesAssumption, LenProperties
<1>2. \A f \in Below(v, dir) :
        /\ f \in Path /\ Len(dir) + 1 \in 1 .. Len(f) /\ f[Len(dir) + 1] \in 1 .. LastName
        /\ \A i \in 1 .. Len(dir) : f[i] = dir[i]
  <2>1. Below(v, dir) \subseteq Files[v]
    BY DEF Below
  <2>. QED BY <2>1, BelowFacts
<1>3. /\ t \in [0 .. LastName -> Seq(Path)] /\ t[0] = << >>
      /\ \A n \in 0 .. LastName - 1 :
           t[n + 1] = IF n + 1 \notin Names(v, dir) THEN t[n]
                      ELSE IF Append(dir, n + 1) \in Files[v] THEN Append(t[n], Append(dir, n + 1))
                      ELSE t[n] \o below[Append(dir, n + 1)]
  BY SiblingsFacts, Zenon
<1>. HIDE DEF t
<1>4. 0 \in X
  <2>1. Upto1(0) = {}
    BY <1>1, <1>2
  <2>2. Good(0)
    BY <1>3, <2>1, ListsNothing, Zenon
  <2>. HIDE DEF Good
  <2>. QED BY <2>2
<1>5. ASSUME NEW n \in Nat, n \in X PROVE n + 1 \in X
  <2>. SUFFICES ASSUME n + 1 <= LastName PROVE Lists(t[n + 1], Upto1(n + 1))
    <3>. HIDE DEF Good
    <3>1. SUFFICES ASSUME n + 1 <= LastName PROVE Good(n + 1)
      OBVIOUS
    <3>. QED BY <3>1 DEF Good
  <2>1. n \in 0 .. LastName - 1 /\ n + 1 \in 1 .. LastName /\ Lists(t[n], Upto1(n))
    <3>. HIDE DEF Good
    <3>1. n \in 0 .. LastName - 1 /\ n + 1 \in 1 .. LastName /\ Good(n)
      BY <1>1, <1>5
    <3>. QED BY <3>1 DEF Good
  <2>2. Upto1(n + 1) = Upto1(n) \cup One(n + 1)
    BY <1>1, <1>2
  <2>3. \A f \in Upto1(n), g \in One(n + 1) : Before(f, g)
    <3>1. ASSUME NEW f \in Upto1(n), NEW g \in One(n + 1) PROVE Before(f, g)
      <4>1. f \in Below(v, dir) /\ g \in Below(v, dir)
            /\ f[Len(dir) + 1] <= n /\ g[Len(dir) + 1] = n + 1
        OBVIOUS
      <4>2. /\ Len(dir) + 1 \in 1 .. Len(f) /\ Len(dir) + 1 <= Len(g)
            /\ \A i \in 1 .. (Len(dir) + 1) - 1 : f[i] = g[i]
        BY <1>1, <1>2, <4>1
      <4>3. f[Len(dir) + 1] < g[Len(dir) + 1]
        BY <1>1, <1>2, <4>1
      <4>. QED BY <4>2, <4>3 DEF Before
    <3>. QED BY <3>1
  <2>4. CASE n + 1 \notin Names(v, dir)
    <3>1. One(n + 1) = {}
      BY <2>1, <2>4, EntryBelow
    <3>2. t[n + 1] = t[n] /\ Upto1(n + 1) = Upto1(n)
      BY <1>3, <2>1, <2>2, <2>4, <3>1
    <3>. QED BY <2>1, <3>2
  <2>5. ASSUME NEW w, Lists(w, One(n + 1)), t[n + 1] = t[n] \o w
        PROVE  Lists(t[n + 1], Upto1(n + 1))
    <3>. HIDE DEF Upto1, One
    <3>1. Lists(t[n] \o w, Upto1(n) \cup One(n + 1))
      BY <2>1, <2>3, <2>5, ListsBoth
    <3>. QED BY <2>2, <2>5, <3>1, Zenon
  <2>6. CASE n + 1 \in Names(v, dir) /\ Append(dir, n + 1) \in Files[v]
    <3>1. One(n + 1) = {Append(dir, n + 1)} /\ Append(dir, n + 1) \in Path
      BY <2>1, <2>6, EntryBelow, FilesAssumption
    <3>2. Lists(<<Append(dir, n + 1)>>, One(n + 1))
      BY <3>1, ListsOne
    <3>3. t[n + 1] = Append(t[n], Append(dir, n + 1))
      BY <1>3, <2>1, <2>6
    <3>4. t[n] \in Seq(Path)
      BY <2>1 DEF Lists
    <3>5. Append(t[n], Append(dir, n + 1)) = t[n] \o <<Append(dir, n + 1)>>
      BY <3>1, <3>4, AppendIsConcat, Zenon
    <3>6. t[n + 1] = t[n] \o <<Append(dir, n + 1)>>
      BY <3>3, <3>5, Zenon
    <3>. HIDE DEF Upto1, One
    <3>. QED BY <2>5, <3>2, <3>6
  <2>7. CASE n + 1 \in Names(v, dir) /\ Append(dir, n + 1) \notin Files[v]
    <3>0. n + 1 \in 1 .. LastName /\ One(n + 1) = Below(v, Append(dir, n + 1))
      BY <2>1, <2>7, EntryBelow
    <3>1. Lists(below[Append(dir, n + 1)], One(n + 1))
      <4>1. Lists(below[Append(dir, n + 1)], Below(v, Append(dir, n + 1)))
        BY <2>7, <3>0
      <4>. QED BY <3>0, <4>1, Zenon
    <3>2. t[n + 1] = t[n] \o below[Append(dir, n + 1)]
      BY <1>3, <2>1, <2>7
    <3>. HIDE DEF Upto1, One
    <3>. QED BY <2>5, <3>1, <3>2
  <2>. QED BY <2>4, <2>6, <2>7
<1>6. LastName \in X
  <2>. HIDE DEF X
  <2>. QED BY <1>1, <1>4, <1>5, Induct
<1>7. Upto1(LastName) = Below(v, dir)
  BY <1>2
<1>8. Good(LastName)
  <2>. HIDE DEF Good
  <2>. QED BY <1>1, <1>6
<1>. QED BY <1>7, <1>8, Zenon DEF t

\* The tree is walked down as far as there are names.
LEMMA WalkFacts ==
  ASSUME NEW v \in Versions
  PROVE  /\ \A h \in 0 .. Depth : TraverseTree(v)[h] \in [Seq(Nat) -> Seq(Path)]
         /\ \A dir \in Seq(Nat) : TraverseTree(v)[0][dir] = << >>
         /\ \A h \in 0 .. Depth - 1, dir \in Seq(Nat) :
              TraverseTree(v)[h + 1][dir] = Siblings(v, dir, TraverseTree(v)[h])[LastName]
<1>. DEFINE T == [Seq(Nat) -> Seq(Path)]
            Down(b) == [dir \in Seq(Nat) |-> Siblings(v, dir, b)[LastName]]
            Nothing == [dir \in Seq(Nat) |-> << >>]
            step == [e \in Nat \X T |-> Down(e[2])]
            Level(h, b) == [dir \in Seq(Nat) |-> IF h = 0 THEN << >> ELSE Siblings(v, dir, b)[LastName]]
            Is(g) == g = [h \in 0 .. Depth |-> Level(h, g[h - 1])]
<1>1. Depth \in Nat /\ LastName \in Nat
  BY FilesAssumption
<1>2. ASSUME NEW b \in T PROVE Down(b) \in T
  <2>1. \A dir \in Seq(Nat) : Siblings(v, dir, b)[LastName] \in Seq(Path)
    BY <1>1, SiblingsFacts
  <2>. QED BY <2>1
<1>3. Nothing \in T
  BY EmptySeq
<1>4. \A b : Level(0, b) = Nothing
  OBVIOUS
<1>5. \A b, h : h # 0 => Level(h, b) = Down(b)
  OBVIOUS
<1>. HIDE DEF T, Down, Nothing, Level
<1>6. step \in [Nat \X T -> T]
  BY <1>2
<1>7. \A h \in Nat, b \in T : step[<<h, b>>] = Down(b)
  OBVIOUS
<1>. HIDE DEF step
<1>8. PICK g : Upto(T, Nothing, step, Depth, g)
  BY <1>1, <1>3, <1>6, Recursion
<1>9. /\ g \in [0 .. Depth -> T] /\ g[0] = Nothing
      /\ \A h \in 0 .. Depth - 1 : g[h + 1] = Down(g[h])
  <2>1. /\ g \in [0 .. Depth -> T] /\ g[0] = Nothing
        /\ \A h \in 0 .. Depth - 1 : g[h + 1] = step[<<h + 1, g[h]>>]
    BY <1>8 DEF Upto
  <2>2. ASSUME NEW h \in 0 .. Depth - 1 PROVE g[h + 1] = Down(g[h])
    <3>1. h + 1 \in Nat /\ h \in 0 .. Depth
      BY <1>1
    <3>2. g[h] \in T
      BY <2>1, <3>1
    <3>. QED BY <1>7, <2>1, <3>1, <3>2
  <2>. QED BY <2>1, <2>2
<1>10. ASSUME NEW h \in 0 .. Depth PROVE g[h] = Level(h, g[h - 1])
  <2>1. CASE h = 0
    BY <1>4, <1>9, <2>1
  <2>2. CASE h # 0
    <3>1. h - 1 \in 0 .. Depth - 1 /\ (h - 1) + 1 = h
      BY <1>1, <2>2
    <3>. QED BY <1>5, <1>9, <2>2, <3>1
  <2>. QED BY <2>1, <2>2
<1>11. Is(g)
  BY <1>9, <1>10
<1>12. TraverseTree(v) = CHOOSE w : Is(w)
  BY DEF TraverseTree, Level
<1>. DEFINE t == TraverseTree(v)
<1>13. t = [h \in 0 .. Depth |-> Level(h, t[h - 1])]
  <2>. HIDE DEF Is
  <2>1. Is(CHOOSE w : Is(w))
    BY <1>11
  <2>. QED BY <2>1, <1>12 DEF Is
<1>. HIDE DEF t
<1>14. t[0] = Nothing /\ \A h \in 0 .. Depth - 1 : t[h + 1] = Down(t[h])
  <2>1. t[0] = Nothing
    BY <1>1, <1>4, <1>13
  <2>2. ASSUME NEW h \in 0 .. Depth - 1 PROVE t[h + 1] = Down(t[h])
    <3>1. h + 1 \in 0 .. Depth /\ h + 1 # 0 /\ (h + 1) - 1 = h
      BY <1>1
    <3>2. t[h + 1] = Level(h + 1, t[h])
      BY <1>13, <3>1
    <3>. QED BY <1>5, <3>1, <3>2
  <2>. QED BY <2>1, <2>2
<1>15. \A h \in 0 .. Depth : t[h] \in T
  <2>. DEFINE X == {h \in Nat : h <= Depth => t[h] \in T}
  <2>1. 0 \in X
    BY <1>3, <1>14
  <2>2. ASSUME NEW h \in Nat, h \in X PROVE h + 1 \in X
    BY <1>1, <1>2, <1>14, <2>2
  <2>. HIDE DEF X
  <2>3. \A h \in Nat : h \in X
    BY <2>1, <2>2, Induct
  <2>. QED BY <1>1, <2>3 DEF X
<1>16. \A dir \in Seq(Nat) : Nothing[dir] = << >>
  BY DEF Nothing
<1>17. \A b, dir : dir \in Seq(Nat) => Down(b)[dir] = Siblings(v, dir, b)[LastName]
  BY DEF Down
<1>18. \A h \in 0 .. Depth - 1, dir \in Seq(Nat) : t[h + 1][dir] = Siblings(v, dir, t[h])[LastName]
  BY <1>14, <1>17, Zenon
<1>19. \A dir \in Seq(Nat) : t[0][dir] = << >>
  BY <1>14, <1>16
<1>. QED BY <1>15, <1>18, <1>19 DEF t, T

\* h names further down than dir there is nothing, and what is less far down is listed.
LEMMA WalkList ==
  ASSUME NEW v \in Versions
  PROVE  \A h \in 0 .. Depth, dir \in Seq(Nat) :
           Len(dir) + h >= Depth => Lists(TraverseTree(v)[h][dir], Below(v, dir))
<1>. DEFINE t == TraverseTree(v)
            Good(h) == \A dir \in Seq(Nat) : Len(dir) + h >= Depth => Lists(t[h][dir], Below(v, dir))
            X == {h \in Nat : h <= Depth => Good(h)}
<1>1. Depth \in Nat /\ LastName \in Nat
  BY FilesAssumption
<1>2. /\ \A h \in 0 .. Depth : t[h] \in [Seq(Nat) -> Seq(Path)]
      /\ \A dir \in Seq(Nat) : t[0][dir] = << >>
      /\ \A h \in 0 .. Depth - 1, dir \in Seq(Nat) :
           t[h + 1][dir] = Siblings(v, dir, t[h])[LastName]
  BY WalkFacts, Zenon
<1>. HIDE DEF t
<1>3. Good(0)
  <2>1. ASSUME NEW dir \in Seq(Nat), Len(dir) + 0 >= Depth PROVE Lists(t[0][dir], Below(v, dir))
    <3>1. Below(v, dir) = {}
      <4>1. ASSUME NEW f \in Below(v, dir) PROVE FALSE
        <5>1. f \in Files[v]
          BY DEF Below
        <5>2. Len(f) \in Nat /\ Len(f) <= Depth /\ Len(dir) \in Nat /\ Len(dir) < Len(f)
          BY <5>1, BelowFacts
        <5>. QED BY <1>1, <2>1, <5>2
      <4>. QED BY <4>1
    <3>. QED BY <1>2, <3>1, ListsNothing
  <2>. QED BY <2>1
<1>4. ASSUME NEW h \in Nat, h + 1 <= Depth, Good(h) PROVE Good(h + 1)
  <2>1. h \in 0 .. Depth - 1 /\ h \in 0 .. Depth
    BY <1>1, <1>4
  <2>2. ASSUME NEW dir \in Seq(Nat), Len(dir) + (h + 1) >= Depth
        PROVE  Lists(t[h + 1][dir], Below(v, dir))
    <3>1. t[h] \in [Seq(Nat) -> Seq(Path)] /\ t[h + 1][dir] = Siblings(v, dir, t[h])[LastName]
      BY <1>2, <2>1
    <3>2. ASSUME NEW n \in 1 .. LastName, Append(dir, n) \notin Files[v]
          PROVE  Lists(t[h][Append(dir, n)], Below(v, Append(dir, n)))
      <4>1. Append(dir, n) \in Seq(Nat) /\ Len(Append(dir, n)) = Len(dir) + 1
        BY EntryBelow
      <4>2. Len(dir) \in Nat
        BY LenProperties
      <4>3. Len(Append(dir, n)) + h >= Depth
        BY <1>1, <2>2, <4>1, <4>2
      <4>. QED BY <1>4, <4>1, <4>3
    <3>3. Lists(Siblings(v, dir, t[h])[LastName], Below(v, dir))
      BY <3>1, <3>2, SiblingsList
    <3>. QED BY <3>1, <3>3
  <2>. QED BY <2>2
<1>. HIDE DEF Good
<1>5. \A h \in Nat : h \in X
  <2>1. 0 \in X
    BY <1>3
  <2>2. ASSUME NEW h \in Nat, h \in X PROVE h + 1 \in X
    BY <1>1, <1>4, <2>2
  <2>. HIDE DEF X
  <2>. QED BY <2>1, <2>2, Induct
<1>6. \A h \in 0 .. Depth : Good(h)
  BY <1>1, <1>5
<1>. QED BY <1>6 DEF Good, t

\* The list an instance makes has every file below Top, in order.
LEMMA FileListIsRight ==
  ASSUME NEW v \in Versions
  PROVE  Lists(FileList[v], Below(v, Top))
<1>1. FileList[v] = TraverseTree(v)[Depth][Top]
  BY DEF FileList
<1>2. Depth \in 0 .. Depth /\ Top \in Seq(Nat) /\ Len(Top) \in Nat /\ Len(Top) + Depth >= Depth
  <2>1. Depth \in Nat /\ Top \in Seq(Nat) /\ Len(Top) \in Nat
    BY FilesAssumption, ClientAssumption, LenProperties
  <2>. QED BY <2>1
<1>. QED BY <1>1, <1>2, WalkList

---------------------------------------------------------------------------
(* A page *)

\* What of X is behind a token.
Behind(X, last) == {f \in X : last = NoToken \/ (last \in X /\ Before(last, f))}

LEMMA AfterTokenList ==
  ASSUME NEW s, NEW X, Lists(s, X), NEW last \in Path \cup {NoToken}
  PROVE  Lists(AfterToken(s, last), Behind(X, last))
<1>. DEFINE I == {i \in 1 .. Len(s) : s[i] = last}
            at == IF I # {} THEN Min(I) ELSE 0
<1>1. s \in Seq(Path) /\ ToSet(s) = X
  BY DEF Lists
<1>2. /\ Len(s) \in Nat /\ (\A f \in X : \E i \in 1 .. Len(s) : f = s[i])
      /\ \A i \in 1 .. Len(s) : s[i] \in X
  BY <1>1, ListPlaces
<1>3. AfterToken(s, last) = IF last = NoToken THEN s
                            ELSE IF at = 0 THEN << >> ELSE SubSeq(s, at + 1, Len(s))
  BY DEF AfterToken, SelectInSeq
<1>4. CASE last = NoToken
  <2>1. Behind(X, last) = X
    BY <1>4 DEF Behind
  <2>. QED BY <1>3, <1>4, <2>1, Zenon
<1>5. CASE last # NoToken /\ I = {}
  <2>1. last \notin X
    BY <1>2, <1>5
  <2>2. Behind(X, last) = {}
    BY <1>5, <2>1 DEF Behind
  <2>3. AfterToken(s, last) = << >>
    BY <1>3, <1>5
  <2>. QED BY <2>2, <2>3, ListsNothing
<1>6. CASE last # NoToken /\ I # {}
  <2>1. I \in SUBSET Nat
    BY <1>2
  <2>2. Min(I) \in I
    BY <1>6, <2>1, MinFacts
  <2>3. at \in 1 .. Len(s) /\ s[at] = last /\ at # 0
    BY <1>2, <1>6, <2>2
  <2>. HIDE DEF at
  <2>4. AfterToken(s, last) = SubSeq(s, at + 1, Len(s))
    BY <1>3, <1>6, <2>3
  <2>5. Behind(X, last) = {f \in X : Before(s[at], f)}
    BY <1>2, <1>6, <2>3 DEF Behind
  <2>6. Lists(SubSeq(s, at + 1, Len(s)), {f \in X : Before(s[at], f)})
    BY <2>3, ListsRest
  <2>. QED BY <2>4, <2>5, <2>6, Zenon
<1>. QED BY <1>4, <1>5, <1>6

\* The keys that are wanted are retained one by one.
LEMMA RetainedFacts ==
  ASSUME NEW s \in Seq(Path)
  PROVE  /\ Retained(s) \in [0 .. Len(s) -> Seq(Path)] /\ Retained(s)[0] = << >>
         /\ \A n \in 0 .. Len(s) - 1 :
              Retained(s)[n + 1] = IF StartsWith(s[n + 1]) THEN Append(Retained(s)[n], s[n + 1])
                                   ELSE Retained(s)[n]
<1>. DEFINE Add(n, r) == IF StartsWith(s[n]) THEN Append(r, s[n]) ELSE r
            step == [e \in Nat \X Seq(Path) |-> IF e[1] \in 1 .. Len(s) THEN Add(e[1], e[2]) ELSE e[2]]
            Is(g) == g = [n \in 0 .. Len(s) |-> IF n = 0 THEN << >> ELSE Add(n, g[n - 1])]
<1>1. Len(s) \in Nat /\ << >> \in Seq(Path)
  BY LenProperties, EmptySeq
<1>2. ASSUME NEW n \in 1 .. Len(s), NEW r \in Seq(Path) PROVE Add(n, r) \in Seq(Path)
  <2>1. s[n] \in Path
    BY ElementOfSeq
  <2>2. Append(r, s[n]) \in Seq(Path)
    BY <2>1, AppendProperties
  <2>. QED BY <2>2
<1>. HIDE DEF Add
<1>3. step \in [Nat \X Seq(Path) -> Seq(Path)]
  BY <1>2
<1>4. \A n \in 1 .. Len(s), r \in Seq(Path) : step[<<n, r>>] = Add(n, r)
  BY <1>1
<1>. HIDE DEF step
<1>5. PICK g : Upto(Seq(Path), << >>, step, Len(s), g)
  BY <1>1, <1>3, Recursion
<1>6. /\ g \in [0 .. Len(s) -> Seq(Path)] /\ g[0] = << >>
      /\ \A n \in 0 .. Len(s) - 1 : g[n + 1] = Add(n + 1, g[n])
  <2>1. /\ g \in [0 .. Len(s) -> Seq(Path)] /\ g[0] = << >>
        /\ \A n \in 0 .. Len(s) - 1 : g[n + 1] = step[<<n + 1, g[n]>>]
    BY <1>5 DEF Upto
  <2>2. ASSUME NEW n \in 0 .. Len(s) - 1 PROVE g[n + 1] = Add(n + 1, g[n])
    <3>1. n + 1 \in 1 .. Len(s) /\ n \in 0 .. Len(s)
      BY <1>1
    <3>2. g[n] \in Seq(Path)
      BY <2>1, <3>1
    <3>. QED BY <1>4, <2>1, <3>1, <3>2
  <2>. QED BY <2>1, <2>2
<1>7. ASSUME NEW n \in 0 .. Len(s) PROVE g[n] = IF n = 0 THEN << >> ELSE Add(n, g[n - 1])
  <2>1. CASE n = 0
    BY <1>6, <2>1
  <2>2. CASE n # 0
    <3>1. n - 1 \in 0 .. Len(s) - 1 /\ (n - 1) + 1 = n
      BY <1>1, <2>2
    <3>. QED BY <1>6, <2>2, <3>1
  <2>. QED BY <2>1, <2>2
<1>8. Is(g)
  BY <1>6, <1>7
<1>9. Retained(s) = CHOOSE h : Is(h)
  BY DEF Retained, Add
<1>. DEFINE t == Retained(s)
<1>10. t = [n \in 0 .. Len(s) |-> IF n = 0 THEN << >> ELSE Add(n, t[n - 1])]
  <2>. HIDE DEF Is
  <2>1. Is(CHOOSE h : Is(h))
    BY <1>8
  <2>. QED BY <2>1, <1>9 DEF Is
<1>. HIDE DEF t
<1>11. t[0] = << >> /\ \A n \in 0 .. Len(s) - 1 : t[n + 1] = Add(n + 1, t[n])
  BY <1>1, <1>10
<1>12. \A n \in 0 .. Len(s) : t[n] \in Seq(Path)
  <2>. DEFINE X == {n \in Nat : n <= Len(s) => t[n] \in Seq(Path)}
  <2>1. 0 \in X
    BY <1>1, <1>11
  <2>2. ASSUME NEW n \in Nat, n \in X PROVE n + 1 \in X
    BY <1>1, <1>2, <1>11, <2>2
  <2>. HIDE DEF X
  <2>3. \A n \in Nat : n \in X
    BY <2>1, <2>2, Induct
  <2>. QED BY <1>1, <2>3 DEF X
<1>13. t \in [0 .. Len(s) -> Seq(Path)]
  BY <1>10, <1>12
<1>. QED BY <1>11, <1>13 DEF t, Add

LEMMA RetainList ==
  ASSUME NEW s, NEW X, Lists(s, X)
  PROVE  Lists(Retain(s), {f \in X : StartsWith(f)})
<1>. DEFINE r == Retained(s)
            Kept(n) == {f \in {s[i] : i \in 1 .. n} : StartsWith(f)}
            Good(n) == Lists(r[n], Kept(n))
            Y == {n \in Nat : n <= Len(s) => Good(n)}
<1>1. s \in Seq(Path) /\ Ordered(s) /\ ToSet(s) = X
  BY DEF Lists
<1>2. /\ Len(s) \in Nat /\ DOMAIN s = 1 .. Len(s)
      /\ (\A i \in 1 .. Len(s) : s[i] \in Path /\ s[i] \in X)
      /\ \A f \in X : \E i \in 1 .. Len(s) : f = s[i]
  BY <1>1, ListPlaces
<1>3. /\ r[0] = << >>
      /\ \A n \in 0 .. Len(s) - 1 :
           r[n + 1] = IF StartsWith(s[n + 1]) THEN Append(r[n], s[n + 1]) ELSE r[n]
  BY <1>1, RetainedFacts, Zenon
<1>. HIDE DEF r
<1>4. Good(0)
  <2>1. Kept(0) = {}
    OBVIOUS
  <2>. QED BY <1>3, <2>1, ListsNothing, Zenon
<1>5. ASSUME NEW n \in Nat, n + 1 <= Len(s), Good(n) PROVE Good(n + 1)
  <2>1. n \in 0 .. Len(s) - 1 /\ n + 1 \in 1 .. Len(s) /\ s[n + 1] \in Path
    BY <1>2, <1>5
  <2>2. CASE ~ StartsWith(s[n + 1])
    <3>1. Kept(n + 1) = Kept(n)
      BY <2>1, <2>2
    <3>2. r[n + 1] = r[n]
      BY <1>3, <2>1, <2>2
    <3>. QED BY <1>5, <3>1, <3>2, Zenon
  <2>3. CASE StartsWith(s[n + 1])
    <3>1. Kept(n + 1) = Kept(n) \cup {s[n + 1]}
      BY <2>1, <2>3
    <3>2. \A f \in Kept(n), g \in {s[n + 1]} : Before(f, g)
      <4>1. ASSUME NEW i \in 1 .. n PROVE Before(s[i], s[n + 1])
        <5>1. i \in DOMAIN s /\ n + 1 \in DOMAIN s /\ i < n + 1
          BY <1>2, <2>1
        <5>. QED BY <1>1, <5>1 DEF Ordered
      <4>. QED BY <4>1
    <3>. HIDE DEF Kept
    <3>3. Lists(r[n] \o <<s[n + 1]>>, Kept(n) \cup {s[n + 1]})
      BY <1>5, <2>1, <3>2, ListsOne, ListsBoth
    <3>4. r[n + 1] = Append(r[n], s[n + 1]) /\ r[n] \in Seq(Path)
      BY <1>3, <1>5, <2>1, <2>3 DEF Lists
    <3>5. Append(r[n], s[n + 1]) = r[n] \o <<s[n + 1]>>
      BY <2>1, <3>4, AppendIsConcat, Zenon
    <3>. QED BY <3>1, <3>3, <3>4, <3>5, Zenon
  <2>. QED BY <2>2, <2>3
<1>6. Good(Len(s))
  <2>. HIDE DEF Good
  <2>1. 0 \in Y
    BY <1>4
  <2>2. ASSUME NEW n \in Nat, n \in Y PROVE n + 1 \in Y
    BY <1>2, <1>5, <2>2
  <2>3. \A n \in Nat : n \in Y
    <3>. HIDE DEF Y
    <3>. QED BY <2>1, <2>2, Induct
  <2>. QED BY <1>2, <2>3
<1>7. Kept(Len(s)) = {f \in X : StartsWith(f)}
  BY <1>2
<1>. QED BY <1>6, <1>7, Zenon DEF Retain, r

\* A page is the first keys, and names the last of them if there are more.
LEMMA PageFacts ==
  ASSUME NEW s, NEW X, Lists(s, X), NEW max \in Nat, Page(s, max) # Failed
  PROVE  LET page == Page(s, max) IN
         /\ page = [keys |-> page.keys, last |-> page.last]
         /\ page.keys \in Seq(Path) /\ Ordered(page.keys) /\ ToSet(page.keys) \subseteq X
         /\ page.last \in Path \cup {NoToken}
         /\ page.last = NoToken => ToSet(page.keys) = X
         /\ page.last # NoToken =>
              /\ page.keys # << >> /\ page.last = Last(page.keys)
              /\ \A f \in X : f \in ToSet(page.keys) \/ Before(page.last, f)
<1>. DEFINE page == Page(s, max)
<1>1. s \in Seq(Path) /\ Ordered(s) /\ ToSet(s) = X
  BY DEF Lists
<1>2. /\ Len(s) \in Nat
      /\ \A i \in 1 .. Len(s) : s[i] \in Path /\ s[i] \in X
  BY <1>1, ListPlaces
<1>3. CASE Len(s) <= max
  <2>1. page = [keys |-> s, last |-> NoToken]
    BY <1>3 DEF Page
  <2>2. page.keys = s /\ page.last = NoToken
    BY <2>1
  <2>. QED BY <1>1, <2>1, <2>2, Zenon
<1>4. CASE ~ (Len(s) <= max)
  <2>. DEFINE t == SubSeq(s, 1, max)
  <2>1. max # 0 /\ max \in 1 .. Len(s)
    BY <1>2, <1>4 DEF Page
  <2>2. page = [keys |-> t, last |-> s[max]]
    BY <1>4, <2>1 DEF Page
  <2>3. page.keys = t /\ page.last = s[max]
    BY <2>2
  <2>4. /\ Lists(t, {s[i] : i \in 1 .. max})
        /\ \A f \in X : f \in {s[i] : i \in 1 .. max} \/ (max > 0 => Before(s[max], f))
    <3>1. max <= Len(s)
      BY <1>2, <2>1
    <3>. QED BY <3>1, ListsHead, Zenon
  <2>5. t \in Seq(Path) /\ Len(t) = max /\ \A i \in 1 .. max : t[i] = s[i]
    BY <1>1, <1>2, <2>1, HeadFacts
  <2>. HIDE DEF t
  <2>6. Ordered(t) /\ ToSet(t) = {s[i] : i \in 1 .. max}
    BY <2>4 DEF Lists
  <2>7. {s[i] : i \in 1 .. max} \subseteq X
    BY <1>2, <2>1
  <2>8. s[max] \in Path /\ s[max] # NoToken
    BY <1>2, <2>1, SentinelAssumption
  <2>9. t # << >> /\ s[max] = Last(t)
    <3>1. Last(t) = t[max] /\ t[max] = s[max]
      BY <2>1, <2>5 DEF Last
    <3>2. t # << >>
      BY <2>1, <2>5, EmptySeq
    <3>. QED BY <3>1, <3>2
  <2>10. \A f \in X : f \in ToSet(t) \/ Before(s[max], f)
    BY <2>1, <2>4, <2>6
  <2>. HIDE DEF page
  <2>11. page = [keys |-> page.keys, last |-> page.last]
    BY <2>2, <2>3, Zenon
  <2>12. ToSet(t) \subseteq X
    BY <2>6, <2>7, Zenon
  <2>. QED BY <2>3, <2>5, <2>6, <2>8, <2>9, <2>10, <2>11, <2>12, Zenon DEF page
<1>. QED BY <1>3, <1>4

\* What is wanted is what is below Top and begins like the rest of the prefix.
LEMMA WantedFacts ==
  ASSUME NEW v \in Versions
  PROVE  /\ Wanted(v) = {f \in Below(v, Top) : StartsWith(f)}
         /\ Wanted(v) \subseteq Path /\ Wanted(v) \subseteq Files[v]
<1>1. Wanted(v) = {f \in Below(v, Top) : StartsWith(f)}
  BY DEF Wanted, Below, StartsWith
<1>2. Files[v] \subseteq Path
  BY FilesAssumption
<1>. QED BY <1>1, <1>2 DEF Wanted

\* An answer: keys that were asked for, in order and behind the token; and if the token is
\* of this version, every other one of them is behind the last.
LEMMA HandlerFacts ==
  ASSUME NEW v \in Versions, NEW max \in MaxKeys, NEW last \in Path \cup {NoToken},
         NEW r, r = Handler(v, max, last), r # Failed
  PROVE  /\ r \in Answers
         /\ Ordered(r.keys) /\ ToSet(r.keys) \subseteq Wanted(v)
         /\ last # NoToken => \A f \in ToSet(r.keys) : Before(last, f)
         /\ r.token # NoToken => r.truncated
         /\ r.truncated => r.keys # << >> /\ r.token = Token(Last(r.keys), TokenField)
         /\ \A f \in Wanted(v) :
              (last # NoToken => last \in Below(v, Top) /\ Before(last, f)) =>
                f \in ToSet(r.keys) \/ (r.truncated /\ Before(Last(r.keys), f))
<1>. DEFINE X == {f \in Behind(Below(v, Top), last) : StartsWith(f)}
            s == Retain(AfterToken(FileList[v], last))
            page == Page(s, max)
<1>1. Lists(s, X)
  BY FileListIsRight, AfterTokenList, RetainList
<1>2. max \in Nat
  BY ClientAssumption
<1>3. page = FilterResult(FileList[v], max, last)
  BY DEF FilterResult
<1>4. /\ page # Failed
      /\ r = [keys |-> page.keys, truncated |-> page.last # NoToken, token |-> Token(page.last, TokenField)]
  <2>1. page # Failed
    BY <1>3 DEF Handler
  <2>. QED BY <1>3, <2>1 DEF Handler
<1>. HIDE DEF X, s
<1>5. /\ page.keys \in Seq(Path) /\ Ordered(page.keys) /\ ToSet(page.keys) \subseteq X
      /\ page.last \in Path \cup {NoToken}
      /\ page.last = NoToken => ToSet(page.keys) = X
      /\ page.last # NoToken =>
           /\ page.keys # << >> /\ page.last = Last(page.keys)
           /\ \A f \in X : f \in ToSet(page.keys) \/ Before(page.last, f)
  BY <1>1, <1>2, <1>4, PageFacts
<1>. HIDE DEF page
<1>6. r.keys = page.keys /\ r.truncated = (page.last # NoToken) /\ r.token = Token(page.last, TokenField)
  BY <1>4
<1>7. r \in Answers
  <2>1. Token(page.last, TokenField) \in Path \cup {NoToken}
    BY <1>5 DEF Token
  <2>. QED BY <1>4, <1>5, <2>1 DEF Answers
<1>8. X \subseteq Wanted(v) /\ (last # NoToken => \A f \in X : Before(last, f))
  BY WantedFacts DEF X, Behind
<1>9. \A f \in Wanted(v) : (last # NoToken => last \in Below(v, Top) /\ Before(last, f)) => f \in X
  BY WantedFacts DEF X, Behind
<1>10. /\ Ordered(r.keys) /\ ToSet(r.keys) \subseteq Wanted(v)
       /\ last # NoToken => \A f \in ToSet(r.keys) : Before(last, f)
  BY <1>5, <1>6, <1>8
<1>11. r.token # NoToken => r.truncated
  BY <1>6 DEF Token
<1>12. r.truncated => r.keys # << >> /\ r.token = Token(Last(r.keys), TokenField)
  BY <1>5, <1>6
<1>13. \A f \in X : f \in ToSet(r.keys) \/ (r.truncated /\ Before(Last(r.keys), f))
  BY <1>5, <1>6
<1>. QED BY <1>7, <1>9, <1>10, <1>11, <1>12, <1>13

---------------------------------------------------------------------------
(* The client *)

\* What was given is in order and asked for, and its last key is the token; an answer on
\* its way is to the token that the client still has.
ListedInv ==
  /\ version \in [Instance -> Versions]
  /\ pc \in {"ask", "answered", "listed", "gaveup"}
  /\ tries \in 0 .. MaxTries
  /\ token \in Path \cup {NoToken}
  /\ listed \in Seq(Path) /\ Ordered(listed)
  /\ \A f \in ToSet(listed) : \E v \in Versions : f \in Wanted(v)
  /\ token # NoToken => listed # << >> /\ token = Last(listed)
  /\ pc \in {"ask", "answered"} /\ token = NoToken => listed = << >>
  /\ reply # NoReply <=> pc = "answered"
  /\ pc = "answered" => \E v \in Versions, max \in MaxKeys : reply = Handler(v, max, token)

\* The keys of all versions that were not given yet are behind the token, as long as the
\* client goes on and no key was given that is not in all of them.
NothingSkipped ==
  (\A f \in ToSet(listed), v \in Versions : f \in Files[v]) =>
    \A v \in Versions : \A f \in Wanted(v) :
      (\A w \in Versions : f \in Files[w]) =>
        \/ f \in ToSet(listed)
        \/ pc # "listed" /\ (token # NoToken => Before(token, f))

LEMMA InitListed == Init => ListedInv /\ NothingSkipped
<1>1. MaxTries \in Nat /\ NoReply = NoReply
  BY ClientAssumption
<1>2. Lists(<< >>, {})
  BY ListsNothing
<1>. QED BY <1>1, <1>2 DEF Init, ListedInv, NothingSkipped, Lists

\* What was given is not behind the token.
LEMMA GivenFacts ==
  ASSUME ListedInv
  PROVE  /\ Lists(listed, ToSet(listed)) /\ ToSet(listed) \subseteq Path
         /\ token # NoToken =>
              /\ token \in Path /\ token \in ToSet(listed)
              /\ \A f \in ToSet(listed) : f = token \/ Before(f, token)
<1>1. listed \in Seq(Path) /\ Ordered(listed)
  BY DEF ListedInv
<1>2. /\ Len(listed) \in Nat /\ DOMAIN listed = 1 .. Len(listed)
      /\ (\A i \in 1 .. Len(listed) : listed[i] \in Path /\ listed[i] \in ToSet(listed))
      /\ (\A f \in ToSet(listed) : \E i \in 1 .. Len(listed) : f = listed[i])
      /\ ToSet(listed) \subseteq Path
  BY <1>1, ListPlaces
<1>3. ASSUME token # NoToken
      PROVE  /\ token \in Path /\ token \in ToSet(listed)
             /\ \A f \in ToSet(listed) : f = token \/ Before(f, token)
  <2>1. listed # << >> /\ token = listed[Len(listed)]
    BY <1>3 DEF ListedInv, Last
  <2>2. Len(listed) \in 1 .. Len(listed)
    <3>1. Len(listed) \in Nat \ {0}
      BY <1>1, <2>1, EmptySeq
    <3>. QED BY <3>1
  <2>3. ASSUME NEW f \in ToSet(listed) PROVE f = token \/ Before(f, token)
    <3>1. PICK i \in 1 .. Len(listed) : f = listed[i]
      BY <1>2
    <3>2. CASE i = Len(listed)
      BY <2>1, <3>1, <3>2
    <3>3. CASE i < Len(listed)
      BY <1>1, <1>2, <2>1, <2>2, <3>1, <3>3 DEF Ordered
    <3>4. i = Len(listed) \/ i < Len(listed)
      BY <2>2
    <3>. QED BY <3>2, <3>3, <3>4
  <2>. QED BY <1>2, <2>1, <2>2, <2>3
<1>. QED BY <1>1, <1>2, <1>3 DEF Lists

\* The answer that the client takes was made for its token.
LEMMA AnswerFacts ==
  ASSUME ListedInv, Receive
  PROVE  \E v \in Versions :
           /\ reply \in Answers
           /\ Ordered(reply.keys) /\ ToSet(reply.keys) \subseteq Wanted(v)
           /\ token # NoToken => \A f \in ToSet(reply.keys) : Before(token, f)
           /\ reply.token # NoToken => reply.truncated
           /\ reply.truncated =>
                reply.keys # << >> /\ reply.token = Token(Last(reply.keys), TokenField)
           /\ \A f \in Wanted(v) :
                (token # NoToken => token \in Below(v, Top) /\ Before(token, f)) =>
                  f \in ToSet(reply.keys) \/ (reply.truncated /\ Before(Last(reply.keys), f))
<1>1. pc = "answered" /\ reply # Failed /\ token \in Path \cup {NoToken}
  BY DEF Receive, ListedInv
<1>2. PICK v \in Versions, max \in MaxKeys : reply = Handler(v, max, token)
  BY <1>1 DEF ListedInv
<1>. HIDE DEF Answers, Ordered, ToSet, Last
<1>. QED BY <1>1, <1>2, HandlerFacts

\* And so what the client was given stays in order.
LEMMA ReceiveFacts ==
  ASSUME ListedInv, Receive
  PROVE  /\ Lists(listed', ToSet(listed) \cup ToSet(reply.keys))
         /\ \A f \in ToSet(listed') : \E v \in Versions : f \in Wanted(v)
         /\ reply \in Answers
         /\ reply.truncated => listed' # << >> /\ Last(listed') = Last(reply.keys)
<1>1. PICK v \in Versions :
        /\ reply \in Answers
        /\ Ordered(reply.keys) /\ ToSet(reply.keys) \subseteq Wanted(v)
        /\ token # NoToken => \A f \in ToSet(reply.keys) : Before(token, f)
        /\ reply.truncated => reply.keys # << >>
  BY AnswerFacts
<1>2. reply.keys \in Seq(Path) /\ listed \in Seq(Path) /\ listed' = listed \o reply.keys
  BY <1>1 DEF Answers, Receive, ListedInv
<1>3. Lists(listed, ToSet(listed)) /\ Lists(reply.keys, ToSet(reply.keys))
  BY <1>1, <1>2, GivenFacts DEF Lists
<1>4. \A f \in ToSet(listed), g \in ToSet(reply.keys) : Before(f, g)
  <2>1. CASE token = NoToken
    <3>1. listed = << >>
      BY <2>1 DEF ListedInv, Receive
    <3>2. ToSet(listed) = {}
      BY <3>1, ListsNothing DEF Lists
    <3>. QED BY <3>2
  <2>2. CASE token # NoToken
    <3>1. ASSUME NEW f \in ToSet(listed), NEW g \in ToSet(reply.keys) PROVE Before(f, g)
      <4>1. f \in Path /\ token \in Path /\ (f = token \/ Before(f, token))
        BY <2>2, GivenFacts
      <4>2. g \in Path /\ Before(token, g)
        BY <1>1, <2>2, WantedFacts
      <4>. QED BY <4>1, <4>2, BeforeTransitive
    <3>. QED BY <3>1
  <2>. QED BY <2>1, <2>2
<1>5. Lists(listed', ToSet(listed) \cup ToSet(reply.keys))
  <2>1. Lists(listed \o reply.keys, ToSet(listed) \cup ToSet(reply.keys))
    BY <1>3, <1>4, ListsBoth, Zenon
  <2>. QED BY <1>2, <2>1, Zenon
<1>6. ASSUME NEW f \in ToSet(listed') PROVE \E w \in Versions : f \in Wanted(w)
  <2>1. f \in ToSet(listed) \/ f \in ToSet(reply.keys)
    BY <1>5, <1>6, Zenon DEF Lists
  <2>. QED BY <1>1, <2>1 DEF ListedInv
<1>7. ASSUME reply.truncated PROVE listed' # << >> /\ Last(listed') = Last(reply.keys)
  <2>1. reply.keys # << >>
    BY <1>1, <1>7
  <2>2. Len(reply.keys) \in Nat \ {0} /\ Len(listed) \in Nat
    BY <1>2, <2>1, EmptySeq, LenProperties
  <2>3. /\ Len(listed \o reply.keys) = Len(listed) + Len(reply.keys)
        /\ \A i \in 1 .. Len(listed) + Len(reply.keys) :
             (listed \o reply.keys)[i] =
               IF i <= Len(listed) THEN listed[i] ELSE reply.keys[i - Len(listed)]
    BY <1>2, ConcatProperties
  <2>4. /\ Len(listed') = Len(listed) + Len(reply.keys)
        /\ \A i \in 1 .. Len(listed) + Len(reply.keys) :
             listed'[i] = IF i <= Len(listed) THEN listed[i] ELSE reply.keys[i - Len(listed)]
    BY <1>2, <2>3, Zenon
  <2>5. /\ Len(listed') \in 1 .. Len(listed) + Len(reply.keys) /\ ~ (Len(listed') <= Len(listed))
        /\ Len(listed') - Len(listed) = Len(reply.keys) /\ Len(listed') # 0
    BY <2>2, <2>4
  <2>6. listed'[Len(listed')] = reply.keys[Len(reply.keys)]
    BY <2>4, <2>5
  <2>. QED BY <2>5, <2>6, EmptySeq DEF Last
<1>. QED BY <1>1, <1>5, <1>6, <1>7

LEMMA ReceiveListed == ListedInv /\ Receive => ListedInv'
<1>. SUFFICES ASSUME ListedInv, Receive PROVE ListedInv'
  OBVIOUS
<1>1. /\ reply \in Answers
      /\ reply.token # NoToken => reply.truncated
      /\ reply.truncated => reply.token = Token(Last(reply.keys), TokenField)
  BY AnswerFacts
<1>2. /\ Lists(listed', ToSet(listed) \cup ToSet(reply.keys))
      /\ \A f \in ToSet(listed') : \E v \in Versions : f \in Wanted(v)
      /\ reply.truncated => listed' # << >> /\ Last(listed') = Last(reply.keys)
  BY ReceiveFacts
<1>3. reply.token \in Path \cup {NoToken} /\ reply.truncated \in BOOLEAN
  BY <1>1 DEF Answers
<1>4. listed' \in Seq(Path) /\ Ordered(listed')
  BY <1>2 DEF Lists
<1>5. /\ pc' \in {"ask", "listed"} /\ (pc' = "ask" => reply.truncated /\ reply.token # NoToken)
      /\ token' = IF reply.truncated THEN reply.token ELSE NoToken
      /\ reply' = NoReply /\ tries' = 0 /\ version' = version
  BY DEF Receive
<1>6. token' \in Path \cup {NoToken}
  BY <1>3, <1>5
<1>7. token' # NoToken => listed' # << >> /\ token' = Last(listed')
  BY <1>1, <1>2, <1>5 DEF Token
<1>8. pc' \in {"ask", "answered"} /\ token' = NoToken => listed' = << >>
  BY <1>5
<1>9. tries' \in 0 .. MaxTries
  BY <1>5, ClientAssumption
<1>10. version' \in [Instance -> Versions]
  BY <1>5 DEF ListedInv
<1>11. \A f \in ToSet(listed)' : \E v \in Versions : f \in Wanted(v)'
  BY <1>2 DEF ToSet, Wanted, StartsWith
<1>12. Ordered(listed)'
  BY <1>4 DEF Ordered, Before
<1>13. Last(listed)' = Last(listed')
  BY DEF Last
<1>. QED BY <1>4, <1>5, <1>6, <1>7, <1>8, <1>9, <1>10, <1>11, <1>12, <1>13 DEF ListedInv

LEMMA StepListed == ListedInv /\ [Next]_vars => ListedInv'
<1>. SUFFICES ASSUME ListedInv, [Next]_vars PROVE ListedInv'
  OBVIOUS
<1>1. ASSUME NEW i \in Instance, NEW max \in MaxKeys, ListObjectsV2(i, max) PROVE ListedInv'
  <2>1. version[i] \in Versions
    BY DEF ListedInv
  <2>2. reply' = Handler(version[i], max, token)
    BY <1>1 DEF ListObjectsV2
  <2>3. reply' # NoReply
    <3>1. CASE reply' = Failed
      BY <3>1, SentinelAssumption
    <3>2. CASE reply' # Failed
      <4>1. token \in Path \cup {NoToken}
        BY DEF ListedInv
      <4>2. reply' \in Answers
        BY <2>1, <2>2, <3>2, <4>1, HandlerFacts
      <4>. QED BY <4>2, SentinelAssumption
    <3>. QED BY <3>1, <3>2
  <2>4. \E v \in Versions, m \in MaxKeys : reply' = Handler(v, m, token')
    BY <1>1, <2>1, <2>2 DEF ListObjectsV2
  <2>. QED BY <1>1, <2>3, <2>4 DEF ListedInv, ListObjectsV2
<1>2. CASE NoAnswer
  <2>1. tries' \in 0 .. MaxTries
    BY <1>2, ClientAssumption DEF NoAnswer, ListedInv
  <2>. QED BY <1>2, <2>1 DEF ListedInv, NoAnswer
<1>3. CASE Receive
  BY <1>3, ReceiveListed
<1>4. ASSUME NEW i \in Instance, NEW v \in Versions, Replace(i, v) PROVE ListedInv'
  BY <1>4 DEF ListedInv, Replace
<1>5. CASE UNCHANGED vars
  BY <1>5 DEF ListedInv, vars
<1>. QED BY <1>1, <1>2, <1>3, <1>4, <1>5 DEF Next, Invoke

LEMMA AlwaysListed == Spec => []ListedInv
<1>. QED BY InitListed, StepListed, PTL DEF Spec

\* Every variable has its type, and a token names the last key given, whatever version
\* answers which page.
THEOREM ListingTypeCorrect == Spec => []ListingTypeOK
<1>1. ListedInv => ListingTypeOK
  <2>. SUFFICES ASSUME ListedInv PROVE ListingTypeOK
    OBVIOUS
  <2>1. ToSet(listed) \subseteq UNION {Files[v] : v \in Versions}
    BY WantedFacts DEF ListedInv
  <2>2. reply \in Answers \cup {Failed, NoReply}
    <3>1. SUFFICES ASSUME pc = "answered", reply # Failed PROVE reply \in Answers
      BY DEF ListedInv
    <3>2. \E v \in Versions, max \in MaxKeys : reply = Handler(v, max, token)
      BY <3>1 DEF ListedInv
    <3>3. token \in Path \cup {NoToken}
      BY DEF ListedInv
    <3>. QED BY <3>1, <3>2, <3>3, HandlerFacts
  <2>. QED BY <2>1, <2>2 DEF ListedInv, ListingTypeOK
<1>. QED BY <1>1, AlwaysListed, PTL

\* No key is given twice, and none that was not asked for, although each page may come from
\* another version of the archive.
THEOREM KeysGivenOnce == Spec => []KeysOnce
<1>1. ListedInv => KeysOnce
  <2>. SUFFICES ASSUME ListedInv PROVE KeysOnce
    OBVIOUS
  <2>1. /\ Len(listed) \in Nat /\ DOMAIN listed = 1 .. Len(listed) /\ Ordered(listed)
        /\ \A i \in 1 .. Len(listed) : listed[i] \in Path /\ listed[i] \in ToSet(listed)
    BY ListPlaces DEF ListedInv
  <2>2. ASSUME NEW j \in DOMAIN listed, NEW k \in DOMAIN listed, listed[j] = listed[k]
        PROVE  j = k
    <3>1. ASSUME NEW a \in DOMAIN listed, NEW b \in DOMAIN listed, listed[a] = listed[b]
          PROVE  ~ (a < b)
      BY <2>1, <3>1, BeforeIrreflexive DEF Ordered
    <3>2. ~ (j < k) /\ ~ (k < j)
      BY <2>2, <3>1
    <3>. QED BY <2>1, <2>2, <3>2
  <2>3. \A k \in DOMAIN listed : \E v \in Versions : listed[k] \in Wanted(v)
    BY <2>1 DEF ListedInv
  <2>. QED BY <2>2, <2>3 DEF KeysOnce
<1>. QED BY <1>1, AlwaysListed, PTL

---------------------------------------------------------------------------
(* Nothing is skipped *)

LEMMA ReceiveSkipsNothing ==
  ASSUME TokenField = "ContinuationToken", ListedInv, NothingSkipped, Receive
  PROVE  NothingSkipped'
<1>. SUFFICES ASSUME \A f \in ToSet(listed'), w \in Versions : f \in Files[w],
                     NEW u \in Versions, NEW f \in Wanted(u), \A w \in Versions : f \in Files[w]
              PROVE  \/ f \in ToSet(listed')
                     \/ pc' # "listed" /\ (token' # NoToken => Before(token', f))
  BY DEF NothingSkipped, ToSet, Wanted, StartsWith, Before
<1>1. PICK v \in Versions :
        /\ reply.token # NoToken => reply.truncated
        /\ reply.truncated =>
             reply.keys # << >> /\ reply.token = Token(Last(reply.keys), TokenField)
        /\ \A g \in Wanted(v) :
             (token # NoToken => token \in Below(v, Top) /\ Before(token, g)) =>
               g \in ToSet(reply.keys) \/ (reply.truncated /\ Before(Last(reply.keys), g))
        /\ reply \in Answers
  BY AnswerFacts
<1>2. /\ ToSet(listed') = ToSet(listed) \cup ToSet(reply.keys)
      /\ reply.truncated => listed' # << >> /\ Last(listed') = Last(reply.keys)
      /\ listed' \in Seq(Path)
  BY ReceiveFacts DEF Lists
<1>3. /\ pc' = IF reply.truncated /\ reply.token # NoToken THEN "ask" ELSE "listed"
      /\ token' = IF reply.truncated THEN reply.token ELSE NoToken
      /\ pc = "answered"
  BY DEF Receive
<1>4. CASE f \in ToSet(listed)
  BY <1>2, <1>4
<1>5. CASE f \notin ToSet(listed)
  <2>1. token # NoToken => Before(token, f)
    BY <1>2, <1>5 DEF NothingSkipped
  <2>2. f \in Wanted(v)
    BY DEF Wanted
  <2>3. token # NoToken => token \in Below(v, Top)
    <3>1. ASSUME token # NoToken PROVE token \in Below(v, Top)
      <4>1. token \in ToSet(listed)
        BY <3>1, GivenFacts
      <4>2. token \in Files[v]
        BY <1>2, <4>1
      <4>3. StartsWith(token)
        BY <4>1 DEF ListedInv, Wanted
      <4>. QED BY <4>2, <4>3 DEF StartsWith, Below
    <3>. QED BY <3>1
  <2>4. f \in ToSet(reply.keys) \/ (reply.truncated /\ Before(Last(reply.keys), f))
    BY <1>1, <2>1, <2>2, <2>3
  <2>5. ASSUME reply.truncated PROVE reply.token = Last(reply.keys) /\ reply.token # NoToken
    <3>1. reply.token = Last(reply.keys)
      BY <1>1, <2>5 DEF Token
    <3>2. Last(listed') \in Path
      <4>1. listed' # << >> /\ listed' \in Seq(Path)
        BY <1>2, <2>5
      <4>2. Len(listed') \in Nat \ {0}
        BY <4>1, EmptySeq
      <4>3. Len(listed') \in 1 .. Len(listed')
        BY <4>2
      <4>. QED BY <4>1, <4>3, ElementOfSeq DEF Last
    <3>3. Last(reply.keys) \in Path
      BY <1>2, <2>5, <3>2
    <3>. QED BY <3>1, <3>3, SentinelAssumption
  <2>. QED BY <1>2, <1>3, <2>4, <2>5
<1>. QED BY <1>4, <1>5

LEMMA SkipsNothing ==
  ASSUME TokenField = "ContinuationToken"
  PROVE  ListedInv /\ NothingSkipped /\ [Next]_vars => NothingSkipped'
<1>. SUFFICES ASSUME ListedInv, NothingSkipped, [Next]_vars PROVE NothingSkipped'
  OBVIOUS
<1>1. CASE Receive
  BY <1>1, ReceiveSkipsNothing
<1>2. ASSUME listed' = listed, token' = token, pc' = pc \/ pc' # "listed" PROVE NothingSkipped'
  BY <1>2 DEF NothingSkipped, Wanted, StartsWith, Before, ToSet
<1>3. CASE Invoke
  BY <1>2, <1>3 DEF Invoke, ListObjectsV2
<1>4. CASE NoAnswer
  BY <1>2, <1>4 DEF NoAnswer
<1>5. ASSUME NEW i \in Instance, NEW v \in Versions, Replace(i, v) PROVE NothingSkipped'
  BY <1>2, <1>5 DEF Replace
<1>6. CASE UNCHANGED vars
  BY <1>2, <1>6 DEF vars
<1>. QED BY <1>1, <1>3, <1>4, <1>5, <1>6 DEF Next

\* A client that looks for the next token in the field in which the lambda puts it is given
\* every key that is in all versions, unless it is given one that is not.
THEOREM ListingsAreComplete ==
  ASSUME TokenField = "ContinuationToken"
  PROVE  Spec => []ListingComplete
<1>1. ListedInv /\ NothingSkipped => ListingComplete
  <2>. SUFFICES ASSUME ListedInv, NothingSkipped PROVE ListingComplete
    OBVIOUS
  <2>1. /\ DOMAIN listed = 1 .. Len(listed)
        /\ \A g \in ToSet(listed) : \E i \in 1 .. Len(listed) : g = listed[i]
    BY ListPlaces DEF ListedInv
  <2>. QED BY <2>1 DEF NothingSkipped, ListingComplete
<1>2. Init => NothingSkipped
  BY InitListed
<1>3. ListedInv /\ NothingSkipped /\ [Next]_vars => NothingSkipped'
  BY SkipsNothing
<1>. QED BY <1>1, <1>2, <1>3, AlwaysListed, PTL DEF Spec
=============================================================================

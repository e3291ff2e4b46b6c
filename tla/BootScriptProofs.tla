-------------------------- MODULE BootScriptProofs --------------------------
(***************************************************************************)
(* The theorems about BootScript, for lists of overlays of any length with *)
(* any names and any number of attempts.                                   *)
(***************************************************************************)
EXTENDS BootScript, FiniteSetTheorems, SequenceTheorems, TLAPS

-----------------------------------------------------------------------------
(* Lists as sets of names.                                                 *)

\* What ToSet makes of a list, element by element.
LEMMA ToSetElements ==
  ASSUME NEW S, NEW s \in Seq(S)
  PROVE  /\ ToSet(s) \subseteq S
         /\ \A i \in 1..Len(s) : s[i] \in ToSet(s)
         /\ \A x \in ToSet(s) : \E i \in 1..Len(s) : s[i] = x
  BY DEF ToSet

\* The loops take one name from a list.
LEMMA ToSetTail ==
  ASSUME NEW S, NEW s \in Seq(S), s # <<>>
  PROVE  ToSet(s) = {Head(s)} \cup ToSet(Tail(s))
<1>1. /\ Tail(s) \in Seq(S) /\ Len(Tail(s)) = Len(s) - 1 /\ Len(s) \in Nat \ {0}
      /\ \A i \in 1..Len(Tail(s)) : Tail(s)[i] = s[i + 1]
  BY HeadTailProperties, EmptySeq
<1>2. Head(s) = s[1]
  OBVIOUS
<1>3. ASSUME NEW x \in ToSet(s) PROVE x \in {Head(s)} \cup ToSet(Tail(s))
  <2>1. PICK i \in 1..Len(s) : s[i] = x
    BY ToSetElements
  <2>2. CASE i = 1
    BY <2>1, <2>2, <1>2
  <2>3. CASE i # 1
    <3>1. i - 1 \in 1..Len(Tail(s)) /\ Tail(s)[i - 1] = x
      BY <2>1, <2>3, <1>1
    <3> QED BY Zenon, <3>1, <1>1, ToSetElements
  <2> QED BY <2>2, <2>3
<1>4. ASSUME NEW x \in ToSet(Tail(s)) PROVE x \in ToSet(s)
  <2>1. PICK i \in 1..Len(Tail(s)) : Tail(s)[i] = x
    BY Zenon, <1>1, ToSetElements
  <2>2. i + 1 \in 1..Len(s) /\ s[i + 1] = x
    BY <2>1, <1>1
  <2> QED BY <2>2, ToSetElements
<1>5. Head(s) \in ToSet(s)
  BY <1>1, <1>2, ToSetElements
<1> QED BY <1>3, <1>4, <1>5

\* A list with one name more.
LEMMA ToSetAppend ==
  ASSUME NEW S, NEW s \in Seq(S), NEW e \in S
  PROVE  ToSet(Append(s, e)) = ToSet(s) \cup {e}
<1> DEFINE t == Append(s, e)
<1>1. /\ t \in Seq(S) /\ Len(t) = Len(s) + 1 /\ Len(s) \in Nat
      /\ \A i \in 1..Len(s) : t[i] = s[i]
      /\ t[Len(s) + 1] = e
  BY AppendProperties, LenProperties
<1> HIDE DEF t
<1>2. ASSUME NEW x \in ToSet(t) PROVE x \in ToSet(s) \cup {e}
  <2>1. PICK i \in 1..Len(t) : t[i] = x
    BY <1>1, ToSetElements
  <2>2. i \in 1..Len(s) \/ i = Len(s) + 1
    BY <1>1
  <2> QED BY <2>1, <2>2, <1>1, ToSetElements
<1>3. ASSUME NEW x \in ToSet(s) PROVE x \in ToSet(t)
  <2>1. PICK i \in 1..Len(s) : s[i] = x
    BY ToSetElements
  <2>2. i \in 1..Len(t) /\ t[i] = x
    BY <2>1, <1>1
  <2> QED BY <2>2, <1>1, ToSetElements
<1>4. e \in ToSet(t)
  <2>1. Len(s) + 1 \in 1..Len(t)
    BY <1>1
  <2> QED BY <2>1, <1>1, ToSetElements
<1>5. ToSet(t) = ToSet(s) \cup {e}
  BY <1>2, <1>3, <1>4
<1> QED BY <1>5 DEF t

-----------------------------------------------------------------------------
(* What the media need.                                                    *)

\* No medium both needs and blocks an overlay, and none needs two.
LEMMA MediumFacts ==
  ASSUME NEW m
  PROVE  /\ RequiredOn(m) = {} \/ RequiredOn(m) = {"emmc-enabled"}
              \/ RequiredOn(m) = {"sdcard-enabled"}
         /\ RequiredOn(m) \subseteq AllNames
         /\ RequiredOn(m) \cap BlockedOn(m) = {}
         /\ Otg \cap RequiredOn(m) = {} /\ Otg \cap BlockedOn(m) = {}
         /\ "user" \notin BlockedOn(m)
  BY DEF RequiredOn, BlockedOn, AllNames, Otg

\* SetToSeq on the sets it is used for.
LEMMA SetToSeqOne ==
  /\ SetToSeq({}) = <<>>
  /\ \A x : SetToSeq({x}) = <<x>>
<1>1. SetToSeq({}) = <<>>
  <2>1. Cardinality({}) = 0
    BY FS_EmptySet
  <2>2. \A f \in [1..0 -> {}] : f = <<>>
    OBVIOUS
  <2>3. <<>> \in [1..0 -> {}] /\ IsInjective(<<>>)
    BY DEF IsInjective
  <2> QED BY <2>1, <2>2, <2>3 DEF SetToSeq
<1>2. ASSUME NEW x PROVE SetToSeq({x}) = <<x>>
  <2>1. Cardinality({x}) = 1
    BY FS_Singleton
  <2>2. \A f \in [1..1 -> {x}] : f = <<x>>
    OBVIOUS
  <2>3. <<x>> \in [1..1 -> {x}] /\ IsInjective(<<x>>)
    BY DEF IsInjective
  <2> QED BY <2>1, <2>2, <2>3 DEF SetToSeq
<1> QED BY <1>1, <1>2

-----------------------------------------------------------------------------
(* The body of the corrected list.                                         *)

\* An initial interval has as many elements as its end says.
LEMMA IntervalSize ==
  ASSUME NEW n \in Nat
  PROVE  Cardinality(1..n) = n
<1>1. Cardinality(1..n) = IF 1 > n THEN 0 ELSE n - 1 + 1
  BY FS_Interval
<1> QED BY <1>1

\* The kept positions up to n are finitely many.
LEMMA KeptFinite ==
  ASSUME NEW m, NEW S, NEW list \in Seq(S)
  PROVE  /\ Kept(m, list) \subseteq 1..Len(list)
         /\ IsFiniteSet(Kept(m, list)) /\ Cardinality(Kept(m, list)) \in Nat
         /\ \A n \in Int :
              /\ IsFiniteSet(KeptUpto(m, list, n)) /\ Place(m, list, n) \in Nat
              /\ Place(m, list, n) <= Cardinality(Kept(m, list))
<1>1. Kept(m, list) \subseteq 1..Len(list)
  BY DEF Kept
<1>2. IsFiniteSet(1..Len(list))
  BY FS_Interval
<1>3. IsFiniteSet(Kept(m, list)) /\ Cardinality(Kept(m, list)) \in Nat
  BY <1>1, <1>2, FS_Subset, FS_CardinalityType
<1>4. ASSUME NEW n \in Int
      PROVE  /\ IsFiniteSet(KeptUpto(m, list, n)) /\ Place(m, list, n) \in Nat
             /\ Place(m, list, n) <= Cardinality(Kept(m, list))
  <2>1. KeptUpto(m, list, n) \in SUBSET Kept(m, list)
    BY DEF KeptUpto
  <2> QED BY <2>1, <1>3, FS_Subset, FS_CardinalityType DEF Place
<1> QED BY <1>1, <1>3, <1>4

\* Two kept positions do not get the same place.
LEMMA PlaceApart ==
  ASSUME NEW m, NEW S, NEW list \in Seq(S),
         NEW i \in Kept(m, list), NEW j \in Kept(m, list), i < j
  PROVE  Place(m, list, i) < Place(m, list, j)
<1> DEFINE I == KeptUpto(m, list, i)
           J == KeptUpto(m, list, j)
<1>1. i \in Int /\ j \in Int /\ Kept(m, list) \subseteq Int
  BY KeptFinite
<1>2. I \in SUBSET J /\ j \in J /\ j \notin I
  BY <1>1 DEF KeptUpto
<1>3. IsFiniteSet(J) /\ Cardinality(J) \in Nat /\ Cardinality(I) \in Nat
  BY <1>1, KeptFinite DEF Place
<1> HIDE DEF I, J
<1>4. Cardinality(I) <= Cardinality(J) /\ Cardinality(I) # Cardinality(J)
  BY <1>2, <1>3, FS_Subset
<1>5. Cardinality(I) < Cardinality(J)
  BY <1>3, <1>4
<1> QED BY <1>5 DEF I, J, Place

LEMMA PlaceUnique ==
  ASSUME NEW m, NEW S, NEW list \in Seq(S),
         NEW i \in Kept(m, list), NEW j \in Kept(m, list),
         Place(m, list, i) = Place(m, list, j)
  PROVE  i = j
<1>1. i \in Int /\ j \in Int
  BY KeptFinite
<1>2. Place(m, list, i) \in Int /\ Place(m, list, j) \in Int
  BY <1>1, KeptFinite
<1>3. i < j => Place(m, list, i) < Place(m, list, j)
  BY PlaceApart
<1>4. j < i => Place(m, list, j) < Place(m, list, i)
  BY PlaceApart
<1> QED BY <1>1, <1>2, <1>3, <1>4

\* The places are the positions of the body.
LEMMA PlaceOnto ==
  ASSUME NEW m, NEW S, NEW list \in Seq(S)
  PROVE  LET n == Cardinality(Kept(m, list)) IN
         /\ \A i \in Kept(m, list) : Place(m, list, i) \in 1..n
         /\ \A k \in 1..n : \E i \in Kept(m, list) : Place(m, list, i) = k
<1> DEFINE K == Kept(m, list)
           n == Cardinality(K)
           f == [i \in K |-> Place(m, list, i)]
<1>1. K \subseteq Int /\ n \in Nat /\ IsFiniteSet(K)
  BY KeptFinite
<1>2. ASSUME NEW i \in K PROVE Place(m, list, i) \in 1..n
  <2>1. /\ IsFiniteSet(KeptUpto(m, list, i)) /\ Place(m, list, i) \in Nat
        /\ Place(m, list, i) <= n
    BY <1>1, KeptFinite
  <2>2. i \in KeptUpto(m, list, i)
    BY <1>1 DEF KeptUpto
  <2>3. Place(m, list, i) # 0
    BY <2>1, <2>2, FS_EmptySet DEF Place
  <2> QED BY <2>1, <2>3, <1>1
<1>3. f \in Injection(K, 1..n)
  <2>1. f \in [K -> 1..n]
    BY <1>2
  <2>2. \A a, b \in K : f[a] = f[b] => a = b
    BY PlaceUnique
  <2> QED BY <2>1, <2>2 DEF Injection, IsInjective
<1>4. IsFiniteSet(1..n) /\ Cardinality(1..n) = n
  BY <1>1, FS_Interval, IntervalSize
<1>5. f \in Surjection(K, 1..n)
  <2> HIDE DEF K, f
  <2> QED BY <1>3, <1>4, FS_Injection DEF n
<1>6. ASSUME NEW k \in 1..n PROVE \E i \in K : Place(m, list, i) = k
  BY Zenon, <1>5 DEF Surjection
<1> QED BY <1>2, <1>6

\* A name of a list has a first position: of the intervals 1..i that end at the
\* name, one has no other inside it.
LEMMA FirstPosition ==
  ASSUME NEW S, NEW list \in Seq(S), NEW x \in ToSet(list)
  PROVE  \E i \in 1..Len(list) : list[i] = x /\ \A j \in 1..(i - 1) : list[j] # x
<1> DEFINE T == {1..i : i \in {k \in 1..Len(list) : list[k] = x}}
           D == 1..Len(list)
<1>1. IsWellFoundedOn(StrictSubsetOrdering(D), FiniteSubsetsOf(D))
  BY FS_StrictSubsetOrderingWellFounded
<1>2. T \subseteq FiniteSubsetsOf(D)
  <2>1. ASSUME NEW i \in 1..Len(list) PROVE 1..i \in FiniteSubsetsOf(D)
    <3>1. IsFiniteSet(1..i)
      BY FS_Interval
    <3>2. 1..i \subseteq D
      OBVIOUS
    <3> QED BY <3>1, <3>2 DEF FiniteSubsetsOf
  <2> QED BY <2>1
<1>3. T # {}
  <2>1. PICK i \in 1..Len(list) : list[i] = x
    BY ToSetElements
  <2> QED BY <2>1
<1>4. PICK I \in T : \A J \in T : ~(<<J, I>> \in StrictSubsetOrdering(D))
  <2> HIDE DEF T, D
  <2> QED BY <1>1, <1>2, <1>3, WFMin
<1>5. PICK i \in 1..Len(list) : list[i] = x /\ I = 1..i
  BY <1>4
<1>6. ASSUME NEW j \in 1..(i - 1), list[j] = x PROVE FALSE
  <2>1. j \in 1..Len(list) /\ 1..j \in T
    BY <1>6
  <2>2. 1..j \subseteq 1..i /\ 1..j # 1..i
    BY <1>6
  <2>3. 1..j \subseteq D /\ 1..i \subseteq D
    BY <2>1
  <2>4. <<1..j, 1..i>> \in StrictSubsetOrdering(D)
    <3> HIDE DEF D
    <3> QED BY <2>2, <2>3, Zenon DEF StrictSubsetOrdering
  <2> QED BY Zenon, <2>1, <2>4, <1>4, <1>5
<1> QED BY <1>5, <1>6

\* The body has the kept names, each at its place.
LEMMA BodyElements ==
  ASSUME NEW m, NEW S, NEW list \in Seq(S)
  PROVE  /\ Body(m, list) \in Seq(S)
         /\ Len(Body(m, list)) = Cardinality(Kept(m, list))
         /\ \A i \in Kept(m, list) :
              /\ Place(m, list, i) \in 1..Cardinality(Kept(m, list))
              /\ Body(m, list)[Place(m, list, i)] = list[i]
<1> DEFINE n == Cardinality(Kept(m, list))
           At(k) == CHOOSE i \in Kept(m, list) : Place(m, list, i) = k
<1>1. n \in Nat /\ \A i \in Kept(m, list) : list[i] \in S
  BY KeptFinite
<1>2. ASSUME NEW k \in 1..n
      PROVE  At(k) \in Kept(m, list) /\ Place(m, list, At(k)) = k
  BY PlaceOnto
<1>3. \A i \in Kept(m, list) : Place(m, list, i) \in 1..n /\ At(Place(m, list, i)) = i
  <2> TAKE i \in Kept(m, list)
  <2>1. Place(m, list, i) \in 1..n
    BY PlaceOnto
  <2> QED BY <2>1, <1>2, PlaceUnique
<1> HIDE DEF At, n
<1>4. Body(m, list) = [k \in 1..n |-> list[At(k)]]
  BY DEF Body, At, n
<1>5. Body(m, list) \in [1..n -> S]
  BY <1>1, <1>2, <1>4
<1>6. Body(m, list) \in Seq(S) /\ Len(Body(m, list)) = n
  BY <1>1, <1>5
<1>7. \A i \in Kept(m, list) :
        Place(m, list, i) \in 1..n /\ Body(m, list)[Place(m, list, i)] = list[i]
  BY <1>3, <1>4
<1> QED BY <1>6, <1>7 DEF n

\* A list with the kept names at their places is the body.
LEMMA BodyUnique ==
  ASSUME NEW m, NEW S, NEW list \in Seq(S), NEW s \in Seq(S),
         Len(s) = Cardinality(Kept(m, list)),
         \A k \in DOMAIN s : \E i \in Kept(m, list) :
           Place(m, list, i) = k /\ s[k] = list[i]
  PROVE  s = Body(m, list)
<1>1. Body(m, list) \in Seq(S) /\ Len(Body(m, list)) = Len(s)
  BY BodyElements
<1>2. ASSUME NEW k \in 1..Len(s) PROVE s[k] = Body(m, list)[k]
  <2>1. PICK i \in Kept(m, list) : Place(m, list, i) = k /\ s[k] = list[i]
    OBVIOUS
  <2>2. Body(m, list)[Place(m, list, i)] = list[i]
    BY BodyElements
  <2> QED BY <2>1, <2>2
<1> QED BY <1>1, <1>2, SeqEqual

\* The names of the body are those of the list without the blocked one, and the
\* required one is there at most once.
LEMMA BodyNames ==
  ASSUME NEW m, NEW S, NEW list \in Seq(S)
  PROVE  LET b == Body(m, list) IN
         /\ ToSet(b) = ToSet(list) \ BlockedOn(m)
         /\ \A k, l \in DOMAIN b : b[k] = b[l] /\ b[k] \in RequiredOn(m) => k = l
<1> DEFINE b == Body(m, list)
           K == Kept(m, list)
<1>1. b \in Seq(S) /\ DOMAIN b = 1..Cardinality(K) /\ K \subseteq 1..Len(list)
  BY BodyElements, KeptFinite
<1>2. ASSUME NEW k \in DOMAIN b
      PROVE  \E i \in K : Place(m, list, i) = k /\ b[k] = list[i]
  <2>1. PICK i \in K : Place(m, list, i) = k
    BY <1>1, PlaceOnto
  <2> QED BY <2>1, BodyElements
<1>3. ASSUME NEW i \in K PROVE list[i] \in ToSet(b)
  <2>1. Place(m, list, i) \in DOMAIN b /\ b[Place(m, list, i)] = list[i]
    BY <1>1, BodyElements
  <2> QED BY <2>1 DEF ToSet
<1> HIDE DEF b
<1>4. ASSUME NEW x \in ToSet(b) PROVE x \in ToSet(list) \ BlockedOn(m)
  <2>1. PICK k \in DOMAIN b : b[k] = x
    BY DEF ToSet
  <2>2. PICK i \in K : b[k] = list[i]
    BY <1>2
  <2> QED BY <2>1, <2>2, <1>1, ToSetElements DEF Kept
<1>5. ASSUME NEW x \in ToSet(list), x \notin BlockedOn(m) PROVE x \in ToSet(b)
  <2>1. PICK i \in 1..Len(list) : list[i] = x /\ \A j \in 1..(i - 1) : list[j] # x
    BY FirstPosition
  <2>2. i \in K
    BY <2>1, <1>5 DEF Kept
  <2> QED BY <2>1, <2>2, <1>3
<1>6. ASSUME NEW k \in DOMAIN b, NEW l \in DOMAIN b, b[k] = b[l], b[k] \in RequiredOn(m)
      PROVE  k = l
  <2>1. PICK i \in K : Place(m, list, i) = k /\ b[k] = list[i]
    BY <1>2
  <2>2. PICK j \in K : Place(m, list, j) = l /\ b[l] = list[j]
    BY <1>2
  <2>3. i \in Nat \ {0} /\ j \in Nat \ {0}
    BY <1>1
  <2>4. ASSUME NEW c \in K, NEW d \in K, c < d, list[d] \in RequiredOn(m)
        PROVE  list[c] # list[d]
    <3>1. c \in 1..(d - 1)
      BY <2>4, <1>1
    <3>2. \A e \in 1..(d - 1) : list[e] # list[d]
      BY <2>4 DEF Kept
    <3> QED BY <3>1, <3>2
  <2>5. ~(i < j) /\ ~(j < i)
    BY Zenon, <2>1, <2>2, <2>4, <1>6
  <2> QED BY <2>1, <2>2, <2>3, <2>5
<1> QED BY <1>4, <1>5, <1>6 DEF b

-----------------------------------------------------------------------------
(* The corrected list.                                                     *)

\* A name of R is at most once in a list.
Once(R, s) == \A k, l \in DOMAIN s : s[k] = s[l] /\ s[k] \in R => k = l

LEMMA OnceAppend ==
  ASSUME NEW S, NEW s \in Seq(S), NEW e \in S, NEW R, Once(R, s),
         e \in R => e \notin ToSet(s)
  PROVE  Once(R, Append(s, e))
<1> DEFINE t == Append(s, e)
<1>1. /\ DOMAIN t = 1..(Len(s) + 1) /\ Len(s) \in Nat
      /\ \A i \in 1..Len(s) : t[i] = s[i] /\ s[i] \in ToSet(s)
      /\ t[Len(s) + 1] = e
  BY AppendProperties, LenProperties, ToSetElements
<1> HIDE DEF t
<1>2. ASSUME NEW k \in DOMAIN t, NEW l \in DOMAIN t, t[k] = t[l], t[k] \in R
      PROVE  k = l
  <2>1. k \in 1..Len(s) \/ k = Len(s) + 1
    BY <1>1
  <2>2. l \in 1..Len(s) \/ l = Len(s) + 1
    BY <1>1
  <2>3. CASE k \in 1..Len(s) /\ l \in 1..Len(s)
    BY <2>3, <1>1, <1>2 DEF Once
  <2>4. CASE k = Len(s) + 1 \/ l = Len(s) + 1
    BY SMTT(30), <2>1, <2>2, <2>4, <1>1, <1>2
  <2> QED BY <2>1, <2>2, <2>3, <2>4
<1> QED BY <1>2 DEF Once, t

\* What Full adds to the body is what the step force adds to it.
LEMMA FullIs ==
  ASSUME NEW m, NEW list \in Seq(AllNames)
  PROVE  Full(m, list) =
           IF RequiredOn(m) \subseteq ToSet(list) THEN Body(m, list)
           ELSE Append(Body(m, list), CHOOSE name \in RequiredOn(m) : TRUE)
<1>1. Body(m, list) \in Seq(AllNames)
  BY BodyElements
<1>2. CASE RequiredOn(m) \subseteq ToSet(list)
  <2>1. RequiredOn(m) \ ToSet(list) = {}
    BY <1>2
  <2> QED BY Zenon, <1>1, <1>2, <2>1, SetToSeqOne, ConcatEmptySeq DEF Full
<1>3. CASE ~(RequiredOn(m) \subseteq ToSet(list))
  <2>1. PICK x \in AllNames : RequiredOn(m) = {x}
    BY <1>3, MediumFacts
  <2>2. RequiredOn(m) \ ToSet(list) = {x} /\ (CHOOSE name \in RequiredOn(m) : TRUE) = x
    BY <1>3, <2>1
  <2>3. Full(m, list) = Body(m, list) \o <<x>>
    BY Zenon, <2>2, SetToSeqOne DEF Full
  <2> QED BY <1>1, <1>3, <2>2, <2>3, AppendIsConcat
<1> QED BY <1>2, <1>3

LEMMA FullNames ==
  ASSUME NEW m, NEW list \in Seq(AllNames)
  PROVE  /\ Full(m, list) \in Seq(AllNames)
         /\ ToSet(Full(m, list)) = (ToSet(list) \ BlockedOn(m)) \cup RequiredOn(m)
         /\ Once(RequiredOn(m), Full(m, list))
<1> DEFINE b == Body(m, list)
<1>1. /\ b \in Seq(AllNames) /\ ToSet(b) = ToSet(list) \ BlockedOn(m)
      /\ Once(RequiredOn(m), b)
  BY BodyElements, BodyNames DEF Once
<1>2. RequiredOn(m) \cap BlockedOn(m) = {}
  BY MediumFacts
<1> HIDE DEF b
<1>3. CASE RequiredOn(m) \subseteq ToSet(list)
  <2>1. Full(m, list) = b
    BY <1>3, FullIs DEF b
  <2> QED BY <1>1, <1>2, <1>3, <2>1
<1>4. CASE ~(RequiredOn(m) \subseteq ToSet(list))
  <2>1. PICK x \in AllNames : RequiredOn(m) = {x}
    BY <1>4, MediumFacts
  <2>2. Full(m, list) = Append(b, x) /\ x \notin ToSet(b)
    BY <1>1, <1>4, <2>1, FullIs DEF b
  <2>3. Append(b, x) \in Seq(AllNames) /\ ToSet(Append(b, x)) = ToSet(b) \cup {x}
    BY <1>1, AppendProperties, ToSetAppend
  <2>4. Once(RequiredOn(m), Append(b, x))
    BY <1>1, <2>2, OnceAppend
  <2> QED BY SMTT(30), <1>1, <2>1, <2>2, <2>3, <2>4
<1> QED BY <1>3, <1>4

\* What Wanted adds is what the step load adds.
LEMMA WantedIs ==
  ASSUME NEW m, NEW list \in Seq(AllNames)
  PROVE  Wanted(m, list) = WithOtg(Full(m, list))
<1>1. Full(m, list) \in Seq(AllNames) /\ "usb-otg-host" \in AllNames
  BY FullNames DEF AllNames, Otg
<1> QED BY <1>1, ConcatEmptySeq, AppendIsConcat DEF Wanted, WithOtg

\* The corrected list has no blocked overlay, the required one once, and one for
\* the OTG port.
LEMMA WantedNames ==
  ASSUME NEW m, NEW list \in Seq(AllNames)
  PROVE  LET w == Wanted(m, list) IN
         /\ w \in Seq(AllNames)
         /\ BlockedOn(m) \cap ToSet(w) = {} /\ RequiredOn(m) \subseteq ToSet(w)
         /\ Otg \cap ToSet(w) # {}
         /\ Once(RequiredOn(m), w)
<1> DEFINE f == Full(m, list)
<1>1. /\ f \in Seq(AllNames) /\ Once(RequiredOn(m), f)
      /\ BlockedOn(m) \cap ToSet(f) = {} /\ RequiredOn(m) \subseteq ToSet(f)
  BY FullNames, MediumFacts
<1>2. Wanted(m, list) = IF ToSet(f) \cap Otg = {} THEN Append(f, "usb-otg-host") ELSE f
  BY WantedIs DEF WithOtg
<1> HIDE DEF f
<1>3. "usb-otg-host" \in AllNames /\ "usb-otg-host" \in Otg
  BY DEF AllNames, Otg
<1>4. "usb-otg-host" \notin RequiredOn(m) /\ "usb-otg-host" \notin BlockedOn(m)
  BY <1>3, MediumFacts
<1>5. /\ Append(f, "usb-otg-host") \in Seq(AllNames)
      /\ ToSet(Append(f, "usb-otg-host")) = ToSet(f) \cup {"usb-otg-host"}
      /\ Once(RequiredOn(m), Append(f, "usb-otg-host"))
  BY SMTT(30), <1>1, <1>3, <1>4, AppendProperties, ToSetAppend, OnceAppend
<1> QED BY SMTT(30), <1>1, <1>2, <1>3, <1>4, <1>5

\* Correcting a corrected list changes nothing.
LEMMA WantedTwice ==
  ASSUME NEW m, NEW list \in Seq(AllNames)
  PROVE  Wanted(m, Wanted(m, list)) = Wanted(m, list)
<1> DEFINE w == Wanted(m, list)
<1>1. /\ w \in Seq(AllNames)
      /\ BlockedOn(m) \cap ToSet(w) = {} /\ RequiredOn(m) \subseteq ToSet(w)
      /\ Otg \cap ToSet(w) # {}
      /\ Once(RequiredOn(m), w)
  BY WantedNames
<1> HIDE DEF w
<1>2. DOMAIN w = 1..Len(w) /\ Len(w) \in Nat
  BY <1>1, LenProperties
<1>3. Kept(m, w) = 1..Len(w)
  <2>1. ASSUME NEW i \in 1..Len(w) PROVE i \in Kept(m, w)
    <3>1. w[i] \notin BlockedOn(m)
      BY <1>1, ToSetElements
    <3>2. ASSUME w[i] \in RequiredOn(m), NEW j \in 1..(i - 1) PROVE w[j] # w[i]
      <4>1. j \in 1..Len(w) /\ j # i
        BY <1>2
      <4> QED BY <4>1, <3>2, <1>1, <1>2 DEF Once
    <3> QED BY <3>1, <3>2, <1>2 DEF Kept
  <2> QED BY <2>1, <1>2 DEF Kept
<1>4. ASSUME NEW i \in 1..Len(w) PROVE Place(m, w, i) = i
  <2>1. KeptUpto(m, w, i) = 1..i
    BY <1>2, <1>3 DEF KeptUpto
  <2>2. Cardinality(1..i) = i
    BY <1>2, IntervalSize
  <2> QED BY <2>1, <2>2 DEF Place
<1>5. Cardinality(1..Len(w)) = Len(w)
  BY <1>2, IntervalSize
<1>6. w = Body(m, w)
  <2>1. Len(w) = Cardinality(Kept(m, w))
    BY <1>3, <1>5
  <2>2. \A k \in DOMAIN w : \E i \in Kept(m, w) : Place(m, w, i) = k /\ w[k] = w[i]
    BY <1>2, <1>3, <1>4
  <2> QED BY <1>1, <2>1, <2>2, BodyUnique
<1>7. Full(m, w) = w
  BY <1>1, <1>6, FullIs
<1>8. Wanted(m, w) = w
  BY <1>1, <1>7, WantedIs DEF WithOtg
<1> QED BY <1>8 DEF w

-----------------------------------------------------------------------------
(* The loop that corrects the list.                                        *)

\* One turn of the loop, at position n + 1 of the list.
LEMMA FilterOne ==
  ASSUME NEW m, NEW S, NEW list \in Seq(S), NEW n \in 0..(Len(list) - 1),
         NEW f \in Seq(S), Filtered(m, list, n, f)
  PROVE  Filtered(m, list, n + 1,
                  IF n + 1 \in Kept(m, list) THEN Append(f, list[n + 1]) ELSE f)
<1> DEFINE K == Kept(m, list)
           upto(k) == KeptUpto(m, list, k)
<1>0. n \in Int
  OBVIOUS
<1>1. /\ K \subseteq 1..Len(list) /\ Len(list) \in Nat
      /\ IsFiniteSet(upto(n)) /\ Cardinality(upto(n)) \in Nat
  <2>1. \A k \in Int : IsFiniteSet(KeptUpto(m, list, k)) /\ Place(m, list, k) \in Nat
    BY Zenon, KeptFinite
  <2>2. K \subseteq 1..Len(list)
    BY KeptFinite
  <2>3. IsFiniteSet(upto(n)) /\ Place(m, list, n) \in Nat
    BY <1>0, <2>1
  <2>4. Cardinality(upto(n)) \in Nat
    BY <2>3 DEF Place
  <2>5. Len(list) \in Nat
    OBVIOUS
  <2> QED BY <2>2, <2>3, <2>4, <2>5
<1>2. n \in Nat /\ n + 1 \notin upto(n) /\ list[n + 1] \in S
  BY <1>1 DEF KeptUpto
<1>3. CASE n + 1 \notin K
  <2>1. upto(n + 1) = upto(n)
    BY <1>1, <1>2, <1>3 DEF KeptUpto
  <2>2. \A i \in K : i <= n => i <= n + 1
    BY <1>1, <1>2
  <2>3. Len(f) = Cardinality(upto(n + 1))
    BY <2>1 DEF Filtered
  <2>4. \A k \in DOMAIN f : \E i \in K :
          i <= n + 1 /\ Place(m, list, i) = k /\ f[k] = list[i]
    BY <2>2 DEF Filtered
  <2>5. Filtered(m, list, n + 1, f)
    BY <2>3, <2>4 DEF Filtered
  <2> QED BY <1>3, <2>5
<1>4. CASE n + 1 \in K
  <2> DEFINE g == Append(f, list[n + 1])
  <2>1. upto(n + 1) = upto(n) \cup {n + 1}
    BY <1>1, <1>2, <1>4 DEF KeptUpto
  <2>2. Cardinality(upto(n + 1)) = Cardinality(upto(n)) + 1
    BY SMTT(30), <1>1, <1>2, <2>1, FS_AddElement
  <2>3. /\ g \in Seq(S) /\ DOMAIN g = 1..(Len(f) + 1) /\ Len(g) = Len(f) + 1
        /\ \A k \in 1..Len(f) : g[k] = f[k]
        /\ g[Len(f) + 1] = list[n + 1]
        /\ Len(f) \in Nat /\ DOMAIN f = 1..Len(f)
    BY <1>2, AppendProperties, LenProperties
  <2>4. Len(f) = Cardinality(upto(n))
    BY DEF Filtered
  <2> HIDE DEF g
  <2>5. Place(m, list, n + 1) = Len(f) + 1
    BY <2>2, <2>4 DEF Place
  <2>6. ASSUME NEW k \in DOMAIN g
        PROVE  \E i \in K : i <= n + 1 /\ Place(m, list, i) = k /\ g[k] = list[i]
    <3>1. CASE k = Len(f) + 1
      BY SMTT(30), <3>1, <1>2, <1>4, <2>3, <2>5
    <3>2. CASE k # Len(f) + 1
      <4>1. k \in DOMAIN f /\ g[k] = f[k]
        BY <3>2, <2>3
      <4>2. PICK i \in K : i <= n /\ Place(m, list, i) = k /\ f[k] = list[i]
        BY <4>1 DEF Filtered
      <4>3. i <= n + 1
        BY SMTT(30), <4>2, <1>1, <1>2
      <4> QED BY <4>1, <4>2, <4>3
    <3> QED BY <3>1, <3>2
  <2>7. Filtered(m, list, n + 1, g)
    BY <2>2, <2>3, <2>4, <2>6 DEF Filtered
  <2> QED BY <1>4, <2>7 DEF g
<1> QED BY <1>3, <1>4

\* At the start of the loop nothing has been kept.
LEMMA FilterNone ==
  ASSUME NEW m, NEW S, NEW list \in Seq(S)
  PROVE  Filtered(m, list, 0, <<>>)
<1>1. KeptUpto(m, list, 0) = {}
  BY KeptFinite DEF KeptUpto
<1>2. Cardinality({}) = 0 /\ Len(<<>>) = 0 /\ DOMAIN <<>> = {}
  BY FS_EmptySet
<1>3. Len(<<>>) = Cardinality(KeptUpto(m, list, 0))
  BY Zenon, <1>1, <1>2
<1> QED BY <1>2, <1>3 DEF Filtered

\* At its end the body of the corrected list has been kept.
LEMMA FilterAll ==
  ASSUME NEW m, NEW S, NEW list \in Seq(S), NEW f \in Seq(S),
         Filtered(m, list, Len(list), f)
  PROVE  f = Body(m, list)
<1>1. KeptUpto(m, list, Len(list)) = Kept(m, list)
  BY KeptFinite DEF KeptUpto
<1>2. Len(f) = Cardinality(Kept(m, list))
  BY <1>1 DEF Filtered
<1>3. \A k \in DOMAIN f : \E i \in Kept(m, list) : Place(m, list, i) = k /\ f[k] = list[i]
  BY Zenon DEF Filtered
<1> QED BY <1>2, <1>3, BodyUnique

-----------------------------------------------------------------------------
(* The inductive invariant.                                                *)

\* The lists of armbianEnv.txt are lists of names.
LEMMA ListsAreSeqs ==
  /\ Lists \subseteq Seq(AllNames) /\ User \subseteq Seq(AllNames)
  /\ <<>> \in Seq(AllNames) /\ <<"uart1">> \in Seq(AllNames)
<1>1. ASSUME NEW list \in Lists PROVE list \in Seq(AllNames)
  <2>1. PICK k \in 0..MaxLen : list \in [1..k -> Names]
    BY DEF Lists, SeqOf
  <2>2. k \in Nat /\ list \in [1..k -> AllNames]
    BY <2>1, BootAssumption DEF AllNames
  <2> QED BY <2>2, SeqDef
<1>2. "user" \in AllNames /\ "uart1" \in AllNames
  BY DEF AllNames
<1>3. <<>> \in Seq(AllNames) /\ <<"uart1">> \in Seq(AllNames) /\ <<"user">> \in Seq(AllNames)
  BY <1>2
<1> QED BY <1>1, <1>3 DEF User

\* The media, one by one.
LEMMA MediaAre == Media = {"usb", "sd", "emmc", "nand"}
<1>1. Len(Targets) = 4 /\ DOMAIN Targets = 1..4
  BY DEF Targets
<1>2. /\ Targets[1] = "usb" /\ Targets[2] = "sd" /\ Targets[3] = "emmc"
      /\ Targets[4] = "nand" /\ 1..4 = {1, 2, 3, 4}
  BY DEF Targets
<1> QED BY <1>1, <1>2 DEF Media, ToSet

\* What names a root device names one on its medium.
LEMMA RootsAre ==
  /\ NoRoot \in Roots
  /\ \A m \in Media : \A by \in {"env", "partuuid", "name"} :
       [by |-> by, on |-> m] \in Roots /\ [by |-> by, on |-> m].on = m
  BY DEF Roots

LEMMA InitIInv == Init => IInv
<1> SUFFICES ASSUME Init PROVE IInv
  OBVIOUS
<1>1. TypeOK
  <2>1. /\ xmio_overrides \in Seq(AllNames) /\ overlays \in Seq(AllNames)
        /\ filtered_overlays \in Seq(AllNames) /\ todo \in Seq(AllNames)
        /\ input \in Seq(AllNames)
    BY ListsAreSeqs DEF Init
  <2>2. 1 \in 1..MaxAttempts
    BY BootAssumption
  <2>3. rootdev \in Roots /\ user_overlays \in User
    BY DEF Init, Roots, User
  <2>4. fdt \in [applied : SUBSET AllNames, magic : BOOLEAN]
    BY DEF Init
  <2>5. last \in [medium : Media \cup {""}, overlays : Seq(AllNames)]
    BY ZenonT(30), ListsAreSeqs DEF Init
  <2> QED BY ZenonT(30), <2>1, <2>2, <2>3, <2>4, <2>5 DEF Init, TypeOK
<1> QED BY <1>1 DEF Init, IInv, CorrectedList, RootInv, TreeInv, WholeOrOriginal, LastInv

\* The tree is looked at only from the first load on.
LEMMA ImportStep ==
  ASSUME IInv, import
  PROVE  IInv'
<1>0. /\ medium \in Media /\ medium' = medium
      /\ rootdev' = NoRoot \/ rootdev' = [by |-> "env", on |-> medium]
  BY DEF IInv, TypeOK, import, RootBefore
<1>1. PICK list \in {Unset} \cup Lists :
        overlays' = IF xmio_overrides # <<>> THEN xmio_overrides
                    ELSE IF list # Unset THEN list ELSE overlays
  BY DEF import
<1>2. overlays' \in Seq(AllNames)
  BY ZenonT(30), <1>1, ListsAreSeqs DEF IInv, TypeOK
<1>3. TypeOK'
  <2>1. medium' \in Media /\ partuuid' \in {""} \cup Media
    BY DEF IInv, TypeOK, import, UuidBefore
  <2>2. rootdev' \in Roots
    BY Zenon, <1>0, RootsAre
  <2>4. user_overlays' \in User
    BY DEF IInv, TypeOK, import
  <2>3. /\ xmio_overrides' \in Seq(AllNames) /\ filtered_overlays' \in Seq(AllNames)
        /\ todo' \in Seq(AllNames) /\ input' \in Seq(AllNames)
    BY <1>2, ListsAreSeqs DEF IInv, TypeOK, import
  <2> QED BY ZenonT(30), <1>2, <2>1, <2>2, <2>3, <2>4 DEF IInv, TypeOK, import
<1>4. FilterInv'
  <2>1. PICK l \in Seq(AllNames) : l = input'
    BY <1>2 DEF import
  <2>2. PICK m : m = medium'
    OBVIOUS
  <2>3. /\ todo' = l /\ filtered_overlays' = <<>> /\ required_boot_overlay_seen' = FALSE
        /\ Seen' = 0
    BY <2>1 DEF import, Seen
  <2>4. Filtered(m, l, 0, <<>>)
    BY FilterNone
  <2> QED BY <2>1, <2>2, <2>3, <2>4 DEF FilterInv
<1>5. RootInv'
  <2>1. rootdev' = NoRoot \/ rootdev'.on = medium
    BY <1>0, RootsAre
  <2>2. partuuid' \in {"", medium} /\ pc' = "filter"
    BY DEF import, UuidBefore
  <2> QED BY <1>0, <2>1, <2>2 DEF RootInv
<1> QED BY ZenonT(30), <1>3, <1>4, <1>5
    DEF IInv, import, CorrectedList, TreeInv, WholeOrOriginal, LastInv

\* A turn keeps the overlay when its position is one that is kept: the flag tells
\* whether the required overlay was there before.
LEMMA FilterTurn ==
  ASSUME NEW m, NEW l \in Seq(AllNames), NEW n \in 0..(Len(l) - 1), NEW seen \in BOOLEAN,
         seen <=> \E i \in 1..n : l[i] \in RequiredOn(m)
  PROVE  /\ n + 1 \in Kept(m, l) <=>
              /\ l[n + 1] \notin BlockedOn(m)
              /\ l[n + 1] \in RequiredOn(m) => ~seen
         /\ (seen \/ l[n + 1] \in RequiredOn(m)) <=>
              \E i \in 1..(n + 1) : l[i] \in RequiredOn(m)
<1>1. n \in Nat /\ n + 1 \in DOMAIN l /\ Len(l) \in Nat
  BY LenProperties
<1>2. 1..(n + 1) = (1..n) \cup {n + 1} /\ 1..((n + 1) - 1) = 1..n
  BY <1>1
<1>3. ASSUME l[n + 1] \in RequiredOn(m)
      PROVE  seen <=> \E j \in 1..n : l[j] = l[n + 1]
  <2>1. RequiredOn(m) = {l[n + 1]}
    BY <1>3, MediumFacts
  <2> QED BY <2>1
<1>4. n + 1 \in Kept(m, l) <=>
        /\ l[n + 1] \notin BlockedOn(m)
        /\ l[n + 1] \in RequiredOn(m) => \A j \in 1..n : l[j] # l[n + 1]
  BY <1>1, <1>2 DEF Kept
<1> QED BY <1>2, <1>3, <1>4

LEMMA FilterStep ==
  ASSUME IInv, filter
  PROVE  IInv'
<1>1. PICK l \in Seq(AllNames), t \in Seq(AllNames), f \in Seq(AllNames), m \in Media :
        l = input /\ t = todo /\ f = filtered_overlays /\ m = medium
  BY DEF IInv, TypeOK
<1>2. PICK seen \in BOOLEAN : seen = required_boot_overlay_seen
  BY DEF IInv, TypeOK
<1>3. /\ t # <<>> /\ Len(t) \in Nat \ {0} /\ Len(l) \in Nat /\ Head(t) = t[1]
      /\ Tail(t) \in Seq(AllNames) /\ Len(Tail(t)) = Len(t) - 1
      /\ \A i \in 1..Len(Tail(t)) : Tail(t)[i] = t[i + 1]
      /\ DOMAIN t = 1..Len(t) /\ DOMAIN Tail(t) = 1..(Len(t) - 1)
  BY SMTT(30), <1>1, HeadTailProperties, EmptySeq, LenProperties DEF filter
<1> DEFINE n == Len(l) - Len(t)
<1>4. /\ n >= 0 /\ \A k \in DOMAIN t : t[k] = l[n + k]
      /\ seen <=> \E i \in 1..n : l[i] \in RequiredOn(m)
      /\ Filtered(m, l, n, f)
  BY <1>1, <1>2 DEF IInv, filter, FilterInv, Seen, required_boot_overlay
<1>5. n \in 0..(Len(l) - 1) /\ Len(l) - Len(Tail(t)) = n + 1 /\ Head(t) = l[n + 1]
  BY SMTT(30), <1>3, <1>4
<1>6. /\ n + 1 \in Kept(m, l) <=>
           /\ l[n + 1] \notin BlockedOn(m)
           /\ l[n + 1] \in RequiredOn(m) => ~seen
      /\ (seen \/ l[n + 1] \in RequiredOn(m)) <=>
           \E i \in 1..(n + 1) : l[i] \in RequiredOn(m)
  <2> HIDE DEF n
  <2> QED BY Zenon, <1>4, <1>5, FilterTurn
<1>7. /\ medium' = m /\ input' = l /\ todo' = Tail(t)
      /\ filtered_overlays' = IF n + 1 \in Kept(m, l) THEN Append(f, l[n + 1]) ELSE f
      /\ required_boot_overlay_seen' = (seen \/ l[n + 1] \in RequiredOn(m))
  <2> HIDE DEF n
  <2>1. n + 1 \in Kept(m, l) <=> keep_overlay(Head(t))
    BY ZenonT(30), <1>1, <1>2, <1>5, <1>6
       DEF keep_overlay, required_boot_overlay, blocked_boot_overlay
  <2> QED BY <1>1, <1>2, <1>5, <2>1 DEF filter, required_boot_overlay
<1>8. TypeOK'
  <2>1. filtered_overlays' \in Seq(AllNames)
    <3>1. l[n + 1] \in AllNames
      BY <1>3, <1>5
    <3> QED BY <1>7, <3>1, AppendProperties
  <2>2. required_boot_overlay_seen' \in BOOLEAN
    BY SMTT(30), <1>7
  <2> QED BY ZenonT(30), <1>1, <1>3, <1>7, <2>1, <2>2 DEF IInv, TypeOK, filter
<1>9. FilterInv'
  <2>1. Filtered(m, l, n + 1, IF n + 1 \in Kept(m, l) THEN Append(f, l[n + 1]) ELSE f)
    <3>1. n \in 0..(Len(l) - 1) /\ Filtered(m, l, n, f)
      BY <1>4, <1>5
    <3> HIDE DEF n
    <3> QED BY <3>1, FilterOne
  <2>2. ASSUME NEW k \in DOMAIN Tail(t) PROVE Tail(t)[k] = l[(n + 1) + k]
    <3>1. n \in Int
      BY <1>5
    <3> HIDE DEF n
    <3>2. k \in 1..(Len(t) - 1) /\ k + 1 \in DOMAIN t
      BY <1>3
    <3>3. Tail(t)[k] = t[k + 1] /\ t[k + 1] = l[n + (k + 1)]
      BY <1>3, <1>4, <3>2
    <3>4. n + (k + 1) = (n + 1) + k
      BY <3>1, <3>2
    <3> QED BY <3>3, <3>4
  <2>3. Seen' = n + 1 /\ n + 1 >= 0
    <3>1. Seen' = Len(l) - Len(Tail(t))
      BY <1>7 DEF Seen
    <3>2. n \in Nat
      BY <1>5
    <3> HIDE DEF n
    <3>3. Len(l) - Len(Tail(t)) = n + 1
      BY Zenon, <1>5
    <3>4. Seen' = n + 1
      BY <3>1, <3>3
    <3>5. n + 1 >= 0
      BY <3>2
    <3> QED BY <3>4, <3>5
  <2> HIDE DEF n
  <2> QED BY Zenon, <1>6, <1>7, <2>1, <2>2, <2>3 DEF FilterInv, required_boot_overlay
<1> QED BY <1>8, <1>9
    DEF IInv, filter, CorrectedList, RootInv, TreeInv, WholeOrOriginal, LastInv

\* The flag says what FullIs asks for: whether the list has the required overlay.
LEMMA SeenAll ==
  ASSUME NEW m, NEW l \in Seq(AllNames), NEW seen \in BOOLEAN,
         seen <=> \E i \in 1..Len(l) : l[i] \in RequiredOn(m)
  PROVE  RequiredOn(m) \subseteq ToSet(l) <=> ~(RequiredOn(m) # {} /\ ~seen)
<1>1. seen <=> RequiredOn(m) \cap ToSet(l) # {}
  BY ToSetElements
<1>2. RequiredOn(m) = {} \/ \E x : RequiredOn(m) = {x}
  BY Zenon, MediumFacts
<1> QED BY <1>1, <1>2

LEMMA ForceStep ==
  ASSUME IInv, force
  PROVE  IInv'
<1>1. PICK l \in Seq(AllNames), f \in Seq(AllNames), m \in Media, seen \in BOOLEAN :
        l = input /\ f = filtered_overlays /\ m = medium /\ seen = required_boot_overlay_seen
  BY DEF IInv, TypeOK
<1>2. Len(l) \in Nat /\ Seen = Len(l)
  BY <1>1, LenProperties DEF force, Seen
<1>3. (seen <=> \E i \in 1..Len(l) : l[i] \in RequiredOn(m)) /\ Filtered(m, l, Len(l), f)
  BY <1>1, <1>2 DEF IInv, force, FilterInv, required_boot_overlay
<1>4. f = Body(m, l)
  BY <1>3, FilterAll
<1>5. overlays' = Full(m, l)
  <2>1. overlays' = IF RequiredOn(m) # {} /\ ~seen
                    THEN Append(f, CHOOSE name \in RequiredOn(m) : TRUE) ELSE f
    BY <1>1 DEF force, Forced, required_boot_overlay
  <2>2. RequiredOn(m) \subseteq ToSet(l) <=> ~(RequiredOn(m) # {} /\ ~seen)
    BY <1>3, SeenAll
  <2>3. Full(m, l) = IF RequiredOn(m) \subseteq ToSet(l) THEN Body(m, l)
                     ELSE Append(Body(m, l), CHOOSE name \in RequiredOn(m) : TRUE)
    BY FullIs
  <2> QED BY SMTT(30), <1>4, <2>1, <2>2, <2>3
<1>6. rootdev' \in Roots /\ rootdev'.on = m
  <2>1. /\ partuuid \in {"", m} /\ rootdev \in Roots
        /\ rootdev = NoRoot \/ rootdev.on = m
    BY <1>1 DEF IInv, TypeOK, RootInv, force
  <2>2. RootOf(partuuid) \in Roots /\ RootOf(partuuid).on = m
    BY ZenonT(30), <1>1, <2>1, RootsAre DEF RootOf
  <2> QED BY ZenonT(30), <2>1, <2>2 DEF force
<1>7. TypeOK'
  <2>1. overlays' \in Seq(AllNames)
    BY <1>5, FullNames
  <2> QED BY <1>6, <2>1 DEF IInv, TypeOK, force
<1>8. overlays' = Full(medium', input')
  BY <1>1, <1>5 DEF force
<1>9. RootInv'
  BY SMTT(30), <1>1, <1>6 DEF RootInv, force
<1> QED BY <1>7, <1>8, <1>9 DEF IInv, force, CorrectedList, TreeInv, WholeOrOriginal, LastInv

LEMMA LoadStep ==
  ASSUME IInv, load
  PROVE  IInv'
<1>1. PICK l \in Seq(AllNames), m \in Media : l = input /\ m = medium
  BY DEF IInv, TypeOK
<1>2. overlays' = Wanted(m, l)
  BY <1>1, WantedIs DEF IInv, load
<1>3. overlays' \in Seq(AllNames)
  BY <1>2, WantedNames
<1>4. fdt' \in [applied : SUBSET AllNames, magic : BOOLEAN]
  <2>1. fdt' = Loaded \/ fdt' = fdt
    BY DEF load, LoadDtb
  <2>2. Loaded \in [applied : SUBSET AllNames, magic : BOOLEAN]
    BY DEF Loaded
  <2> QED BY <2>1, <2>2 DEF IInv, TypeOK
<1>5. TypeOK'
  BY <1>3, <1>4 DEF IInv, TypeOK, load
<1>6. overlays' = Wanted(medium', input')
  BY SMTT(30), <1>1, <1>2 DEF load
<1>7. ASSUME "dtb" \notin Faults PROVE TreeInv'
  <2>1. fdt' = Loaded /\ todo' = overlays' /\ pc' = "apply"
    BY <1>7 DEF load, LoadDtb
  <2>2. fdt'.magic /\ fdt'.applied = {}
    BY <2>1 DEF Loaded
  <2> QED BY <2>1, <2>2 DEF TreeInv, Applying, WholeOrOriginal
<1> QED BY <1>5, <1>6, <1>7 DEF IInv, load, CorrectedList, RootInv, LastInv

-----------------------------------------------------------------------------
(* The loops that apply the overlays.                                      *)

\* One turn, for the names of either loop: the tree keeps its shape, and what it
\* has and what is still to come are all of the names but the missing ones.
LEMMA ApplyTurn ==
  ASSUME TypeOK, ApplyNext
  PROVE  /\ todo' \in Seq(AllNames) /\ overlay_error' \in BOOLEAN
         /\ fdt' \in [applied : SUBSET AllNames, magic : BOOLEAN]
         /\ \A names : Applying(names) => Applying(names)'
<1>1. PICK t \in Seq(AllNames), x \in AllNames, r \in Seq(AllNames) :
        /\ t = todo /\ x = Head(t) /\ r = Tail(t)
        /\ ToSet(t) = {x} \cup ToSet(r)
  <2>1. todo \in Seq(AllNames) /\ todo # <<>>
    BY DEF TypeOK, ApplyNext
  <2>2. Head(todo) \in AllNames /\ Tail(todo) \in Seq(AllNames)
    BY <2>1, HeadTailProperties
  <2>3. ToSet(todo) = {Head(todo)} \cup ToSet(Tail(todo))
    BY <2>1, ToSetTail
  <2> QED BY Zenon, <2>1, <2>2, <2>3
<1>2. PICK a \in SUBSET AllNames, g \in BOOLEAN : fdt = [applied |-> a, magic |-> g]
  BY DEF TypeOK
<1>3. todo' = r /\ overlay_error \in BOOLEAN
  BY <1>1 DEF ApplyNext, TypeOK
<1>4. \/ /\ fdt' = [applied |-> a \cup {x}, magic |-> g] /\ g
         /\ overlay_error' = overlay_error /\ missing' = missing
      \/ /\ overlay_error' = TRUE
         /\ \E b \in SUBSET AllNames, h \in BOOLEAN : fdt' = [applied |-> b, magic |-> h]
      \/ fdt' = fdt /\ overlay_error' = overlay_error /\ missing' = missing \cup {x}
  <2>1. ASSUME FdtApply(x), missing' = missing
        PROVE  \/ /\ fdt' = [applied |-> a \cup {x}, magic |-> g] /\ g
                  /\ overlay_error' = overlay_error /\ missing' = missing
               \/ /\ overlay_error' = TRUE
                  /\ \E b \in SUBSET AllNames, h \in BOOLEAN : fdt' = [applied |-> b, magic |-> h]
    <3>1. CASE /\ fdt.magic
               /\ fdt' = [fdt EXCEPT !.applied = @ \cup {x}]
               /\ UNCHANGED overlay_error
      BY Zenon, <1>2, <2>1, <3>1
    <3>2. CASE overlay_error' = TRUE /\ UNCHANGED fdt
      BY Zenon, <1>2, <3>2
    <3>3. ASSUME overlay_error' = TRUE, NEW half \in {{}, {x}},
                 fdt' = [applied |-> fdt.applied \cup half, magic |-> FALSE]
          PROVE  overlay_error' = TRUE
                   /\ \E b \in SUBSET AllNames, h \in BOOLEAN :
                        fdt' = [applied |-> b, magic |-> h]
      <4>1. a \cup half \in SUBSET AllNames /\ fdt.applied = a
        BY <1>2, <3>3
      <4> QED BY Zenon, <3>3, <4>1
    <3> QED BY Zenon, <2>1, <3>1, <3>2, <3>3 DEF FdtApply
  <2> QED BY Zenon, <1>1, <2>1 DEF ApplyNext
<1>5. fdt' \in [applied : SUBSET AllNames, magic : BOOLEAN]
  BY <1>2, <1>4
<1>6. overlay_error' \in BOOLEAN
  BY Zenon, <1>3, <1>4
<1>7. ASSUME NEW names, Applying(names) PROVE Applying(names)'
  <2>1. ToSet(r) \subseteq names /\ x \in names
    BY <1>1, <1>7 DEF Applying
  <2>2. ASSUME ~overlay_error'
        PROVE  /\ fdt'.magic /\ fdt'.applied \subseteq names
               /\ names \subseteq fdt'.applied \cup missing' \cup ToSet(r)
    <3>1. ~overlay_error
      BY SMTT(30), <1>3, <1>4, <2>2
    <3>2. /\ g /\ a \subseteq names
          /\ names \subseteq a \cup missing \cup ToSet(t)
      BY SMTT(30), <1>1, <1>2, <1>7, <3>1 DEF Applying
    <3>3. CASE /\ fdt' = [applied |-> a \cup {x}, magic |-> g] /\ missing' = missing
      BY SMTT(30), <1>1, <2>1, <3>2, <3>3
    <3>4. CASE fdt' = fdt /\ missing' = missing \cup {x}
      BY SMTT(30), <1>1, <1>2, <3>2, <3>4
    <3> QED BY SMTT(30), <1>4, <2>2, <3>3, <3>4
  <2> QED BY <1>3, <2>1, <2>2 DEF Applying
<1> QED BY SMTT(30), <1>1, <1>3, <1>5, <1>6, <1>7

\* A turn of the loop over overlays, or of the one over user_overlays.
LEMMA ApplySteps ==
  ASSUME IInv, apply \/ apply_user_next
  PROVE  IInv'
<1>1. TypeOK /\ ApplyNext /\ UNCHANGED <<medium, env, pc, attempts, input, last>>
  BY DEF IInv, apply, apply_user_next
<1>2. /\ todo' \in Seq(AllNames) /\ overlay_error' \in BOOLEAN
      /\ fdt' \in [applied : SUBSET AllNames, magic : BOOLEAN]
  BY <1>1, ApplyTurn
<1>3. TypeOK'
  BY <1>1, <1>2 DEF TypeOK, env
<1>4. ASSUME "dtb" \notin Faults PROVE TreeInv'
  <2>1. TreeInv /\ (pc = "apply" \/ pc = "apply_user") /\ pc' = pc
    BY SMTT(30), <1>1, <1>4 DEF IInv, apply, apply_user_next
  <2>2. CASE pc = "apply"
    <3>1. PICK names : names = ToSet(overlays)
      OBVIOUS
    <3>2. Applying(names)
      BY <2>1, <2>2, <3>1 DEF TreeInv
    <3>3. Applying(names)'
      BY <1>1, <3>2, ApplyTurn
    <3>4. ToSet(overlays)' = names
      BY SMTT(30), <1>1, <3>1 DEF env
    <3> QED BY <2>1, <2>2, <3>3, <3>4 DEF TreeInv, WholeOrOriginal, Applying
  <2>3. CASE pc = "apply_user"
    <3>1. PICK names : names = ToSet(overlays) \cup ToSet(user_overlays)
      BY Zenon
    <3>2. Applying(names)
      BY <2>1, <2>3, <3>1 DEF TreeInv
    <3>3. Applying(names)'
      BY <1>1, <3>2, ApplyTurn
    <3>4. (ToSet(overlays) \cup ToSet(user_overlays))' = names
      BY <1>1, <3>1 DEF env
    <3> QED BY <2>1, <2>3, <3>3, <3>4 DEF TreeInv, WholeOrOriginal, Applying
  <2> QED BY <2>1, <2>2, <2>3
<1>5. CorrectedList' /\ RootInv' /\ LastInv'
  BY <1>1 DEF IInv, CorrectedList, RootInv, LastInv, env
<1>6. pc' # "filter" /\ pc' # "load"
  BY <1>1 DEF apply, apply_user_next
<1> QED BY SMTT(30), <1>3, <1>4, <1>5, <1>6 DEF IInv

LEMMA ApplyUserStep ==
  ASSUME IInv, apply_user
  PROVE  IInv'
<1>1. user_overlays \in Seq(AllNames)
  BY ListsAreSeqs DEF IInv, TypeOK
<1>2. TypeOK'
  BY ZenonT(30), <1>1 DEF IInv, TypeOK, apply_user, env
<1>3. ASSUME "dtb" \notin Faults PROVE TreeInv'
  <2>1. ToSet(<<>>) = {}
    BY DEF ToSet
  <2>2. Applying(ToSet(overlays)) /\ todo = <<>>
    BY <1>3 DEF IInv, TreeInv, apply_user
  <2>3. (Applying(ToSet(overlays) \cup ToSet(user_overlays)))'
    BY SMTT(30), <2>1, <2>2 DEF Applying, apply_user, env
  <2> QED BY <2>3 DEF TreeInv, WholeOrOriginal, apply_user
<1> QED BY <1>2, <1>3 DEF IInv, CorrectedList, RootInv, LastInv, apply_user, env

LEMMA RestoreStep ==
  ASSUME IInv, restore
  PROVE  IInv'
<1>1. fdt' = Loaded \/ fdt' = fdt
  BY DEF restore, LoadDtb
<1>2. TypeOK'
  <2>1. Loaded \in [applied : SUBSET AllNames, magic : BOOLEAN]
    BY DEF Loaded
  <2> QED BY <1>1, <2>1 DEF IInv, TypeOK, restore, env
<1>3. ASSUME "dtb" \notin Faults PROVE WholeOrOriginal'
  <2>1. Applying(ToSet(overlays) \cup ToSet(user_overlays)) /\ ToSet(todo) = {}
    BY <1>3 DEF IInv, TreeInv, restore, ToSet
  <2>2. CASE overlay_error
    <3>1. fdt' = Loaded /\ overlay_error'
      BY <1>3, <2>2 DEF restore, LoadDtb
    <3>2. fdt'.magic /\ fdt'.applied = {}
      BY <3>1 DEF Loaded
    <3> QED BY <3>1, <3>2 DEF WholeOrOriginal
  <2>3. CASE ~overlay_error
    BY SMTT(30), <2>1, <2>3 DEF Applying, WholeOrOriginal, restore, env
  <2> QED BY SMTT(30), <2>2, <2>3
<1> QED BY <1>2, <1>3 DEF IInv, TreeInv, CorrectedList, RootInv, LastInv, restore, env

-----------------------------------------------------------------------------
(* The kernel, or another attempt.                                         *)

LEMMA BootzStep ==
  ASSUME IInv, bootz
  PROVE  IInv'
<1>1. TypeOK'
  BY ZenonT(30) DEF IInv, TypeOK, bootz, env
<1> QED
  BY ZenonT(30), <1>1 DEF IInv, TreeInv, WholeOrOriginal, CorrectedList, RootInv, LastInv,
                          bootz, env

\* What the attempt leaves in overlays is a list its medium calls for.
LEMMA AgainStep ==
  ASSUME IInv, Again, medium' \in Media, xmio_overrides' \in {<<>>, <<"uart1">>, xmio_overrides}
  PROVE  IInv'
<1>1. PICK l \in Seq(AllNames), o \in Seq(AllNames), m \in Media :
        l = input /\ o = overlays /\ m = medium
  BY DEF IInv, TypeOK
<1>2. last' = [medium |-> m, overlays |-> o]
  BY SMTT(30), <1>1 DEF Again
<1>3. TypeOK'
  <2>1. last' \in [medium : Media \cup {""}, overlays : Seq(AllNames)]
    BY <1>2
  <2>2. attempts' \in 1..MaxAttempts
    <3>1. attempts \in 1..MaxAttempts /\ attempts < MaxAttempts /\ attempts' = attempts + 1
      BY DEF IInv, TypeOK, Again
    <3> QED BY SMTT(30), <3>1, BootAssumption
  <2>3. xmio_overrides' \in Seq(AllNames)
    BY ListsAreSeqs DEF IInv, TypeOK
  <2> QED BY ZenonT(30), <2>1, <2>2, <2>3 DEF IInv, TypeOK, Again
<1>4. LastInv'
  <2>1. o = Wanted(m, l)
    BY <1>1 DEF IInv, CorrectedList, Again
  <2>2. Wanted(m, o) = o
    BY <2>1, WantedTwice
  <2> QED BY ZenonT(30), <1>2, <2>2 DEF LastInv
<1> QED
  BY SMTT(30), <1>3, <1>4 DEF IInv, TreeInv, WholeOrOriginal, CorrectedList, RootInv, Again

LEMMA NextIInv == IInv /\ [Next]_vars => IInv'
<1> SUFFICES ASSUME IInv, [Next]_vars PROVE IInv'
  OBVIOUS
<1>1. CASE import
  BY <1>1, ImportStep
<1>2. CASE filter
  BY SMTT(30), <1>2, FilterStep
<1>3. CASE force
  BY <1>3, ForceStep
<1>4. CASE load
  BY <1>4, LoadStep
<1>5. CASE apply \/ apply_user_next
  BY SMTT(30), <1>5, ApplySteps
<1>6. CASE apply_user
  BY <1>6, ApplyUserStep
<1>7. CASE restore
  BY <1>7, RestoreStep
<1>8. CASE bootz
  BY <1>8, BootzStep
<1>9. CASE script_failed
  BY <1>9, AgainStep DEF script_failed
<1>10. CASE boot
  BY <1>10, AgainStep DEF boot
<1>11. CASE UNCHANGED vars
  <2>1. TypeOK' /\ CorrectedList' /\ RootInv' /\ LastInv'
    BY ZenonT(30), <1>11 DEF vars, env, IInv, TypeOK, CorrectedList, RootInv, LastInv
  <2>2. ASSUME pc' = "filter" PROVE FilterInv'
    BY SMTT(30), <1>11, <2>2 DEF vars, env, IInv, FilterInv, Seen, required_boot_overlay
  <2>3. ASSUME TreeInv PROVE TreeInv'
    BY <1>11, <2>3 DEF vars, env, TreeInv, Applying, WholeOrOriginal
  <2>4. pc' = "load" => overlays' = Full(medium', input')
    BY <1>11 DEF vars, env, IInv
  <2> QED BY SMTT(30), <2>1, <2>2, <2>3, <2>4 DEF IInv
<1> QED
  BY SMTT(30), <1>1, <1>2, <1>3, <1>4, <1>5, <1>6, <1>7, <1>8, <1>9, <1>10, <1>11
     DEF Next, Done

-----------------------------------------------------------------------------
(* The theorems.                                                           *)

\* IInv is an invariant of the script, over every run of it and every error of
\* an overlay or of the load of the tree.
THEOREM Inductive == Spec => []IInv
<1>1. Init => IInv
  BY InitIInv
<1>2. IInv /\ [Next]_vars => IInv'
  BY NextIInv
<1> QED BY <1>1, <1>2, PTL DEF Spec

\* The overlays that are applied are the list the medium calls for (boot.cmd 129-173
\* and 238-251).
THEOREM Corrected == Spec => []CorrectedList
<1>1. IInv => CorrectedList
  BY DEF IInv
<1> QED BY <1>1, Inductive, PTL

\* What that list is: none of its overlays is blocked, the required one is there and
\* there once, and so is one for the OTG port.
Fitting ==
  pc \in {"apply", "apply_user", "bootz"} =>
    /\ blocked_boot_overlay \cap ToSet(overlays) = {}
    /\ required_boot_overlay \subseteq ToSet(overlays)
    /\ Once(required_boot_overlay, overlays)
    /\ Otg \cap ToSet(overlays) # {}

LEMMA IInvFitting == IInv => Fitting
<1> SUFFICES ASSUME IInv, pc \in {"apply", "apply_user", "bootz"}
             PROVE  /\ BlockedOn(medium) \cap ToSet(overlays) = {}
                    /\ RequiredOn(medium) \subseteq ToSet(overlays)
                    /\ Once(RequiredOn(medium), overlays)
                    /\ Otg \cap ToSet(overlays) # {}
  BY DEF Fitting, required_boot_overlay, blocked_boot_overlay
<1>1. overlays = Wanted(medium, input) /\ input \in Seq(AllNames)
  BY DEF IInv, CorrectedList, TypeOK
<1> QED BY <1>1, WantedNames

\* However long armbianEnv.txt's list is, whatever it names and however often, and
\* whatever an earlier attempt left (boot.cmd 112-173 and 238-251).
THEOREM ListFits == Spec => []Fitting
<1> QED BY IInvFitting, Inductive, PTL

\* The root device is on the medium of this attempt (boot.cmd 12-13, 175-203).
THEOREM OwnRoot == Spec => []RootIsOwn
<1>1. IInv => RootIsOwn
  BY DEF IInv, RootInv, RootIsOwn
<1> QED BY <1>1, Inductive, PTL

\* The correction does not pile up over the attempts: a list that was corrected
\* for the medium is left as it is (boot.cmd 129-251).
THEOREM Retry == Spec => []SameOnRetry
<1>1. IInv => SameOnRetry
  <2> SUFFICES ASSUME IInv, pc = "bootz", medium = last.medium, input = last.overlays
               PROVE  overlays = last.overlays
    BY DEF SameOnRetry
  <2>1. medium # ""
    BY MediaAre DEF IInv, TypeOK
  <2>2. Wanted(medium, input) = input
    BY <2>1 DEF IInv, LastInv
  <2> QED BY <2>2 DEF IInv, CorrectedList
<1> QED BY <1>1, Inductive, PTL

\* If every load of the device tree succeeds, the kernel gets all the overlays that
\* have a file or the original tree, and never a damaged one (boot.cmd 253-271).
THEOREM WholeTree ==
  ASSUME "dtb" \notin Faults
  PROVE  Spec => []WholeOrOriginal
<1>1. IInv => WholeOrOriginal
  BY DEF IInv, TreeInv
<1> QED BY <1>1, Inductive, PTL

\* Then the blocked overlay is not in the kernel's tree: none of the overlays that
\* are applied is it, nor is a user's (boot.cmd 114-115).
THEOREM Unblocked ==
  ASSUME "dtb" \notin Faults
  PROVE  Spec => []BlockedNotInTree
<1>1. IInv => BlockedNotInTree
  <2> SUFFICES ASSUME IInv, pc = "bootz" PROVE BlockedOn(medium) \cap fdt.applied = {}
    BY DEF BlockedNotInTree, blocked_boot_overlay
  <2>1. fdt.applied \subseteq ToSet(overlays) \cup ToSet(user_overlays)
    BY DEF IInv, TreeInv, WholeOrOriginal
  <2>2. BlockedOn(medium) \cap ToSet(overlays) = {}
    BY IInvFitting DEF Fitting, blocked_boot_overlay
  <2>3. ToSet(user_overlays) \subseteq {"user"}
    <3>1. user_overlays \in Seq({"user"})
      <4>1. user_overlays = <<>> \/ user_overlays = <<"user">>
        BY DEF IInv, TypeOK, User
      <4>2. <<>> \in Seq({"user"}) /\ <<"user">> \in Seq({"user"})
        OBVIOUS
      <4> QED BY Zenon, <4>1, <4>2
    <3> QED BY <3>1, ToSetElements
  <2>4. "user" \notin BlockedOn(medium)
    BY MediumFacts
  <2> QED BY SMTT(30), <2>1, <2>2, <2>3, <2>4
<1> QED BY <1>1, Inductive, PTL

\* RequiredInTree holds of every attempt without an overlay error: what the run
\* boot_restore refutes is its claim about the restored tree, and nothing else.
THEOREM RequiredUnlessRestored ==
  ASSUME "dtb" \notin Faults
  PROVE  Spec => [](overlay_error \/ RequiredInTree)
<1>1. IInv => overlay_error \/ RequiredInTree
  <2> SUFFICES ASSUME IInv, pc = "bootz", ~overlay_error
               PROVE  RequiredOn(medium) \subseteq fdt.applied \cup missing
    BY DEF RequiredInTree, required_boot_overlay
  <2>1. ToSet(overlays) \subseteq fdt.applied \cup missing
    BY DEF IInv, TreeInv, WholeOrOriginal
  <2>2. RequiredOn(medium) \subseteq ToSet(overlays)
    BY IInvFitting DEF Fitting, required_boot_overlay
  <2> QED BY <2>1, <2>2
<1> QED BY <1>1, Inductive, PTL
=============================================================================

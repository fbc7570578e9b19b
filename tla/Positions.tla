------------------------------ MODULE Positions ------------------------------
(***************************************************************************)
(* A part of a sequence, in its order: what erasing from a vector or       *)
(* copying the elements that satisfy a condition leaves.  It is given by   *)
(* the positions that are kept, so that one can prove about it; TLC counts *)
(* the positions.  With it, what one can say of all rounds of a loop, and  *)
(* how many elements of a sequence are of a kind.                          *)
(***************************************************************************)
EXTENDS Naturals, Sequences, FiniteSetTheorems, SequenceTheorems, WellFoundedInduction, TLAPS

RankIn(kept, i) == Cardinality({j \in kept : j <= i})
AtPositions(s, kept) == [k \in 1..Cardinality(kept) |-> s[CHOOSE i \in kept : RankIn(kept, i) = k]]

LEMMA RanksIncrease ==
  ASSUME NEW kept, IsFiniteSet(kept), kept \subseteq Nat, NEW i \in kept
  PROVE  /\ RankIn(kept, i) \in 1..Cardinality(kept)
         /\ \A j \in kept : i < j => RankIn(kept, i) < RankIn(kept, j)
<1> DEFINE upto(j) == {h \in kept : h <= j}
<1>1. \A j \in kept : IsFiniteSet(upto(j)) /\ Cardinality(upto(j)) \in Nat /\ Cardinality(upto(j)) <= Cardinality(kept)
  BY FS_Subset, FS_CardinalityType
<1>2. Cardinality(kept) \in Nat
  BY FS_CardinalityType
<1>3. ASSUME NEW j \in kept, i < j PROVE upto(i) \subseteq upto(j) /\ j \in upto(j) /\ j \notin upto(i)
  <2>1. i \in Nat /\ j \in Nat /\ \A h \in kept : h \in Nat
    OBVIOUS
  <2>2. \A h \in kept : h <= i => h <= j
    BY <1>3, <2>1
  <2>3. ~(j <= i) /\ j <= j
    BY <1>3, <2>1
  <2> QED BY <2>2, <2>3
<1>4. \A j \in kept : i < j => Cardinality(upto(i)) < Cardinality(upto(j))
  <2> SUFFICES ASSUME NEW j \in kept, i < j PROVE Cardinality(upto(i)) < Cardinality(upto(j))
    OBVIOUS
  <2> HIDE DEF upto
  <2>1. upto(i) \subseteq upto(j) /\ upto(i) # upto(j)
    BY <1>3
  <2> QED BY <1>1, <2>1, FS_Subset
<1>5. Cardinality(upto(i)) >= 1
  <2>1. i \in upto(i)
    OBVIOUS
  <2> HIDE DEF upto
  <2>2. Cardinality(upto(i)) # 0
    BY <1>1, <2>1, FS_EmptySet
  <2> QED BY <1>1, <2>2
<1> HIDE DEF upto
<1>6. RankIn(kept, i) = Cardinality(upto(i)) /\ \A j \in kept : RankIn(kept, j) = Cardinality(upto(j))
  BY DEF RankIn, upto
<1> QED BY <1>1, <1>2, <1>4, <1>5, <1>6

(* r has the elements of s at the kept positions and no others, in their   *)
(* order: from says where each was.                                        *)
IsPart(r, s, kept) ==
  \E from \in [DOMAIN r -> kept] :
    /\ \A k \in DOMAIN r : r[k] = s[from[k]]
    /\ \A k, l \in DOMAIN r : k < l => from[k] < from[l]
    /\ \A i \in kept : \E k \in DOMAIN r : from[k] = i

LEMMA PartOfSequence ==
  ASSUME NEW S, NEW s \in Seq(S), NEW kept, kept \subseteq DOMAIN s
  PROVE  AtPositions(s, kept) \in Seq(S) /\ IsPart(AtPositions(s, kept), s, kept)
<1> DEFINE n == Cardinality(kept)
           r == AtPositions(s, kept)
           from == [k \in 1..n |-> CHOOSE i \in kept : RankIn(kept, i) = k]
           rank == [i \in kept |-> RankIn(kept, i)]
<1>1. IsFiniteSet(kept) /\ kept \subseteq Nat /\ n \in Nat
  <2>1. DOMAIN s = 1..Len(s) /\ Len(s) \in Nat
    BY LenProperties
  <2>2. IsFiniteSet(1..Len(s))
    BY <2>1, FS_Interval, Z3
  <2>3. kept \subseteq 1..Len(s)
    BY <2>1
  <2>4. IsFiniteSet(kept)
    BY <2>2, <2>3, FS_Subset
  <2>5. kept \subseteq Nat
    <3>1. \A x \in 1..Len(s) : x \in Nat
      BY <2>1
    <3> QED BY <2>3, <3>1
  <2> QED BY <2>4, <2>5, FS_CardinalityType
<1>2. IsFiniteSet(1..n) /\ Cardinality(1..n) = n
  BY <1>1, FS_Interval, Z3
<1>3. rank \in Injection(kept, 1..n)
  <2>1. rank \in [kept -> 1..n]
    BY <1>1, RanksIncrease
  <2>2. ASSUME NEW i \in kept, NEW j \in kept, i # j PROVE rank[i] # rank[j]
    <3>1. i < j \/ j < i
      BY <1>1, <2>2
    <3>2. RankIn(kept, i) \in Nat /\ RankIn(kept, j) \in Nat /\ RankIn(kept, i) # RankIn(kept, j)
      BY <1>1, <3>1, RanksIncrease
    <3> QED BY <3>2
  <2> QED BY <2>1, <2>2 DEF Injection, IsInjective
<1>4. rank \in Surjection(kept, 1..n)
  BY <1>2, <1>3, FS_Injection
<1>5. \A k \in 1..n : \E i \in kept : RankIn(kept, i) = k
  BY <1>4 DEF Surjection
<1>6. \A k \in 1..n : from[k] \in kept /\ RankIn(kept, from[k]) = k
  BY <1>5
<1>7. from \in [1..n -> kept]
  BY <1>6
<1>8. DOMAIN r = 1..n /\ \A k \in 1..n : r[k] = s[from[k]]
  BY DEF AtPositions
<1>9. r \in Seq(S)
  <2>1. \A k \in 1..n : s[from[k]] \in S
    BY <1>7, ElementOfSeq
  <2>2. r \in [1..n -> S]
    <3>1. r = [k \in 1..n |-> s[from[k]]]
      BY DEF AtPositions
    <3> HIDE DEF r, from
    <3> QED BY <2>1, <3>1
  <2> QED BY <1>1, <2>2, SeqDef
<1>10. ASSUME NEW k \in 1..n, NEW l \in 1..n, k < l PROVE from[k] < from[l]
  <2>1. from[k] \in kept /\ from[l] \in kept /\ RankIn(kept, from[k]) = k /\ RankIn(kept, from[l]) = l
    BY <1>6
  <2>2. from[k] \in Nat /\ from[l] \in Nat
    BY <1>1, <2>1
  <2>3. from[k] # from[l]
    BY <1>10, <2>1
  <2>4. ~(from[l] < from[k])
    BY <1>1, <1>10, <2>1, RanksIncrease
  <2> QED BY <2>2, <2>3, <2>4
<1>11. \A i \in kept : \E k \in 1..n : from[k] = i
  <2> SUFFICES ASSUME NEW i \in kept PROVE from[rank[i]] = i /\ rank[i] \in 1..n
    OBVIOUS
  <2>1. rank[i] \in 1..n /\ RankIn(kept, from[rank[i]]) = rank[i] /\ from[rank[i]] \in kept
    BY <1>3, <1>6 DEF Injection
  <2>2. rank[from[rank[i]]] = rank[i]
    BY <2>1
  <2> QED BY <1>3, <2>1, <2>2 DEF Injection, IsInjective
<1> HIDE DEF from, r, n
<1>12. IsPart(r, s, kept)
  <2>1. DOMAIN r = 1..n
    BY <1>8
  <2>2. from \in [DOMAIN r -> kept] /\ \A k \in DOMAIN r : r[k] = s[from[k]]
    BY <1>7, <1>8
  <2>3. \A k, l \in DOMAIN r : k < l => from[k] < from[l]
    BY <1>10, <2>1
  <2>4. \A i \in kept : \E k \in DOMAIN r : from[k] = i
    BY <1>11, <2>1
  <2> HIDE DEF rank
  <2> QED BY <2>2, <2>3, <2>4, Zenon DEF IsPart
<1> QED BY <1>9, <1>12 DEF r

(* The elements of the part are those at the positions that are kept.      *)
LEMMA ElementsOfPart ==
  ASSUME NEW S, NEW s \in Seq(S), NEW kept, kept \subseteq DOMAIN s
  PROVE  {AtPositions(s, kept)[k] : k \in DOMAIN AtPositions(s, kept)} = {s[i] : i \in kept}
<1> DEFINE r == AtPositions(s, kept)
<1>1. IsPart(r, s, kept)
  BY PartOfSequence
<1> HIDE DEF r
<1>2. {r[k] : k \in DOMAIN r} = {s[i] : i \in kept}
  BY <1>1 DEF IsPart
<1> QED BY <1>2 DEF r

(* Induction over the natural numbers, as a statement about a set: what    *)
(* holds of a loop after any number of its rounds.                         *)
LEMMA SmallestExists ==
  ASSUME NEW T, T \subseteq Nat, T # {}
  PROVE  \E x \in T : \A y \in T : x <= y
<1> DEFINE R == OpToRel(<, Nat)
<1>1. IsWellFoundedOn(R, Nat)
  BY NatLessThanWellFounded
<1>0. \A u, v \in Nat : u < v => <<u, v>> \in R
  BY DEF OpToRel
<1> HIDE DEF R
<1>2. \E x \in T : \A y \in T : ~ (<<y, x>> \in R)
  BY <1>1, WFMin
<1>3. PICK x \in T : \A y \in T : ~ (<<y, x>> \in R)
  BY <1>2
<1>4. ASSUME NEW y \in T PROVE x <= y
  <2>1. ~ (<<y, x>> \in R)
    BY <1>3
  <2>2. x \in Nat /\ y \in Nat
    OBVIOUS
  <2>3. ~(y < x)
    BY <2>1, <2>2, <1>0
  <2> QED BY <2>2, <2>3
<1> QED BY <1>4

LEMMA SetInduction ==
  ASSUME NEW S, 0 \in S, \A n \in Nat : n \in S => n + 1 \in S
  PROVE  Nat \subseteq S
<1>1. SUFFICES ASSUME Nat \ S # {} PROVE FALSE
  OBVIOUS
<1>2. PICK x \in Nat \ S : \A y \in Nat \ S : x <= y
  BY <1>1, SmallestExists
<1>3. x # 0 /\ x - 1 \in Nat /\ x - 1 \in S
  BY <1>2
<1> QED BY <1>3

-----------------------------------------------------------------------------
(* How many of the elements of a sequence are in a set.                     *)
CountIn(s, S) == Cardinality({i \in DOMAIN s : s[i] \in S})
OneIf(b) == IF b THEN 1 ELSE 0

LEMMA CountType ==
  ASSUME NEW E, NEW s \in Seq(E), NEW S
  PROVE  CountIn(s, S) \in Nat /\ ((\A i \in DOMAIN s : s[i] \notin S) => CountIn(s, S) = 0)
<1> DEFINE A == {i \in DOMAIN s : s[i] \in S}
<1>1. IsFiniteSet(DOMAIN s)
  BY LenProperties, FS_Interval
<1>2. IsFiniteSet(A)
  BY <1>1, FS_Subset
<1>3. Cardinality(A) \in Nat
  <2> HIDE DEF A
  <2> QED BY <1>2, FS_CardinalityType
<1>4. ASSUME \A i \in DOMAIN s : s[i] \notin S PROVE Cardinality(A) = 0
  <2>1. A = {}
    BY <1>4
  <2> QED BY <2>1, FS_EmptySet
<1> QED BY <1>3, <1>4 DEF CountIn

LEMMA CountBehind ==
  ASSUME NEW E, NEW s \in Seq(E), NEW r \in Seq(E), NEW S, Len(r) = Len(s) + 1, \A i \in 1..Len(s) : r[i + 1] = s[i]
  PROVE  CountIn(r, S) = CountIn(s, S) + OneIf(r[1] \in S)
<1> DEFINE A == {i \in DOMAIN s : s[i] \in S}
           B == {i + 1 : i \in A}
           C == {i \in DOMAIN r : r[i] \in S}
           f == [i \in A |-> i + 1]
<1>1. DOMAIN s = 1..Len(s) /\ DOMAIN r = 1..(Len(s) + 1) /\ Len(s) \in Nat
  BY LenProperties
<1>2. IsFiniteSet(A)
  <2>1. IsFiniteSet(DOMAIN s)
    BY <1>1, FS_Interval
  <2>2. A \subseteq DOMAIN s
    OBVIOUS
  <2> HIDE DEF A
  <2> QED BY <2>1, <2>2, FS_Subset
<1>3. \A i \in A : i \in Nat /\ i \in 1..Len(s)
  BY <1>1
<1>4. f \in Bijection(A, B)
  <2>1. f \in Injection(A, B)
    BY <1>3 DEF Injection, IsInjective
  <2>2. f \in Surjection(A, B)
    BY DEF Surjection
  <2> QED BY <2>1, <2>2 DEF Bijection
<1>5. IsFiniteSet(B) /\ Cardinality(B) = Cardinality(A)
  <2> HIDE DEF A, B, f
  <2>1. ExistsBijection(A, B)
    BY <1>4 DEF ExistsBijection
  <2> QED BY <1>2, <2>1, FS_Bijection
<1>6. 1 \notin B
  BY <1>3
<1>7. \A j \in C : j = 1 \/ j \in B
  <2> SUFFICES ASSUME NEW j \in C, j # 1 PROVE j \in B
    OBVIOUS
  <2>1. j - 1 \in 1..Len(s) /\ (j - 1) + 1 = j
    BY <1>1
  <2>2. s[j - 1] = r[j]
    BY <2>1
  <2>3. j - 1 \in A
    BY <1>1, <2>1, <2>2
  <2> QED BY <2>1, <2>3
<1>8. \A j \in B : j \in C
  <2> SUFFICES ASSUME NEW i \in A PROVE i + 1 \in C
    OBVIOUS
  <2>1. i + 1 \in 1..(Len(s) + 1) /\ r[i + 1] = s[i]
    BY <1>1, <1>3
  <2> QED BY <1>1, <2>1
<1>9. 1 \in DOMAIN r
  BY <1>1
<1>10. CASE r[1] \in S
  <2>1. C = B \cup {1}
    BY <1>7, <1>8, <1>9, <1>10
  <2> HIDE DEF B, C
  <2>2. Cardinality(C) = Cardinality(B) + 1
    BY <1>5, <1>6, <2>1, FS_AddElement
  <2> QED BY <1>5, <1>10, <2>2 DEF CountIn, C, OneIf
<1>11. CASE r[1] \notin S
  <2>1. C = B
    BY <1>7, <1>8, <1>11
  <2>2. Cardinality(A) \in Nat
    <3> HIDE DEF A
    <3> QED BY <1>2, FS_CardinalityType
  <2>3. CountIn(r, S) = Cardinality(C) /\ CountIn(s, S) = Cardinality(A)
    BY DEF CountIn
  <2> HIDE DEF A, B, C
  <2>4. Cardinality(C) = Cardinality(A) + 0 /\ OneIf(r[1] \in S) = 0
    BY <1>5, <1>11, <2>1, <2>2 DEF OneIf
  <2> QED BY <2>3, <2>4
<1> QED BY <1>10, <1>11

LEMMA CountFirst ==
  ASSUME NEW E, NEW s \in Seq(E), NEW e \in E, NEW S
  PROVE  <<e>> \o s \in Seq(E) /\ CountIn(<<e>> \o s, S) = CountIn(s, S) + OneIf(e \in S)
<1> DEFINE h == <<e>>
           r == h \o s
<1>1. h \in Seq(E) /\ Len(h) = 1 /\ h[1] = e
  OBVIOUS
<1> HIDE DEF h
<1>2. Len(s) \in Nat
  BY LenProperties
<1>3. r \in Seq(E) /\ Len(r) = Len(s) + 1 /\ \A i \in 1..Len(r) : r[i] = IF i <= 1 THEN h[i] ELSE s[i - 1]
  <2>1. r \in Seq(E) /\ Len(r) = Len(h) + Len(s)
        /\ \A i \in 1..(Len(h) + Len(s)) : r[i] = IF i <= Len(h) THEN h[i] ELSE s[i - Len(h)]
    BY <1>1, ConcatProperties
  <2> HIDE DEF r
  <2>2. Len(h) + Len(s) = Len(s) + 1
    BY <1>1, <1>2
  <2> QED BY <1>1, <2>1, <2>2
<1>4. r[1] = e /\ \A i \in 1..Len(s) : r[i + 1] = s[i]
  <2>1. 1 \in 1..Len(r) /\ \A i \in 1..Len(s) : i + 1 \in 1..Len(r) /\ ~(i + 1 <= 1) /\ (i + 1) - 1 = i
    BY <1>2, <1>3
  <2> QED BY <1>1, <1>3, <2>1
<1> HIDE DEF r
<1>5. CountIn(r, S) = CountIn(s, S) + OneIf(r[1] \in S)
  BY <1>3, <1>4, CountBehind
<1> QED BY <1>3, <1>4, <1>5 DEF r, h

LEMMA CountTail ==
  ASSUME NEW E, NEW s \in Seq(E), s # <<>>, NEW S
  PROVE  Tail(s) \in Seq(E) /\ CountIn(s, S) = CountIn(Tail(s), S) + OneIf(s[1] \in S)
<1> DEFINE r == Tail(s)
<1>1. Len(s) \in Nat \ {0}
  BY EmptySeq, LenProperties
<1>2. r \in Seq(E) /\ Len(r) = Len(s) - 1 /\ \A i \in 1..Len(r) : r[i] = s[i + 1]
  BY HeadTailProperties
<1> HIDE DEF r
<1>3. Len(s) = Len(r) + 1
  BY <1>1, <1>2
<1>4. CountIn(s, S) = CountIn(r, S) + OneIf(s[1] \in S)
  BY <1>2, <1>3, CountBehind
<1> QED BY <1>2, <1>4 DEF r

LEMMA CountChanged ==
  ASSUME NEW E, NEW s \in Seq(E), s # <<>>, NEW e \in E, NEW S
  PROVE  /\ [s EXCEPT ![1] = e] \in Seq(E)
         /\ CountIn([s EXCEPT ![1] = e], S) = CountIn(Tail(s), S) + OneIf(e \in S)
<1> DEFINE t == Tail(s)
           r == [s EXCEPT ![1] = e]
<1>1. Len(s) \in Nat \ {0}
  BY EmptySeq, LenProperties
<1>2. t \in Seq(E) /\ Len(t) = Len(s) - 1 /\ \A i \in 1..Len(t) : t[i] = s[i + 1]
  BY HeadTailProperties
<1>3. r \in Seq(E) /\ Len(r) = Len(s) /\ r[1] = e /\ \A i \in 1..Len(s) : i # 1 => r[i] = s[i]
  BY <1>1, ExceptSeq, LenProperties
<1> HIDE DEF t, r
<1>4. Len(r) = Len(t) + 1 /\ \A i \in 1..Len(t) : i + 1 \in 1..Len(s) /\ i + 1 # 1
  BY <1>1, <1>2, <1>3
<1>5. \A i \in 1..Len(t) : r[i + 1] = t[i]
  BY <1>2, <1>3, <1>4
<1>6. CountIn(r, S) = CountIn(t, S) + OneIf(r[1] \in S)
  BY <1>2, <1>3, <1>4, <1>5, CountBehind
<1> QED BY <1>3, <1>6 DEF r, t

LEMMA CountLast ==
  ASSUME NEW E, NEW s \in Seq(E), NEW e \in E, NEW S
  PROVE  Append(s, e) \in Seq(E) /\ CountIn(Append(s, e), S) = CountIn(s, S) + OneIf(e \in S)
<1> DEFINE A == {i \in DOMAIN s : s[i] \in S}
           r == Append(s, e)
           C == {i \in DOMAIN r : r[i] \in S}
           m == Len(s) + 1
<1>1. /\ DOMAIN s = 1..Len(s) /\ Len(s) \in Nat /\ r \in Seq(E) /\ Len(r) = Len(s) + 1
      /\ r[Len(s) + 1] = e /\ \A i \in 1..Len(s) : r[i] = s[i]
  BY AppendProperties, LenProperties
<1>2. DOMAIN r = 1..m
  BY <1>1, LenProperties
<1>3. IsFiniteSet(A)
  <2>1. IsFiniteSet(DOMAIN s)
    BY <1>1, FS_Interval
  <2>2. A \subseteq DOMAIN s
    OBVIOUS
  <2> HIDE DEF A
  <2> QED BY <2>1, <2>2, FS_Subset
<1>4. m \notin DOMAIN s /\ m \in DOMAIN r /\ r[m] = e /\ \A i \in DOMAIN r : i = m \/ i \in DOMAIN s
  BY <1>1, <1>2
<1>5. \A i \in DOMAIN s : i \in DOMAIN r /\ r[i] = s[i]
  BY <1>1, <1>2
<1> HIDE DEF r, m
<1>6. CASE e \in S
  <2>1. C = A \cup {m} /\ m \notin A
    BY <1>4, <1>5, <1>6
  <2> HIDE DEF A, C
  <2>2. Cardinality(C) = Cardinality(A) + 1
    BY <1>3, <2>1, FS_AddElement
  <2> QED BY <1>1, <1>6, <2>2 DEF CountIn, A, C, OneIf, r
<1>7. CASE e \notin S
  <2>1. C = A
    BY <1>4, <1>5, <1>7
  <2>2. Cardinality(A) \in Nat
    <3> HIDE DEF A
    <3> QED BY <1>3, FS_CardinalityType
  <2>3. CountIn(r, S) = Cardinality(C) /\ CountIn(s, S) = Cardinality(A)
    BY DEF CountIn
  <2> HIDE DEF A, C
  <2>4. Cardinality(C) = Cardinality(A) + 0 /\ OneIf(e \in S) = 0
    BY <1>7, <2>1, <2>2 DEF OneIf
  <2> QED BY <1>1, <2>3, <2>4 DEF r
<1> QED BY <1>6, <1>7
=============================================================================

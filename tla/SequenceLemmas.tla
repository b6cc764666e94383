--------------------------- MODULE SequenceLemmas ---------------------------
(***************************************************************************)
(* Lemmas about sequences as both delivery storages use them: a stock is   *)
(* split, joined, and loses a member.                                      *)
(***************************************************************************)
EXTENDS Integers, Sequences, FiniteSets, SequencesExt, SequenceTheorems, FiniteSetTheorems, TLAPS

(* A part of a sequence is a sequence over the same set. *)
LEMMA SubSeqType ==
  ASSUME NEW S, NEW q \in Seq(S), NEW m \in Nat \ {0}, NEW n \in 0..Len(q)
  PROVE  SubSeq(q, m, n) \in Seq(S)
BY SubSeqProperties

(* A nonempty set of numbers has a least element: the set 0..i that no other *)
(* one is included in.                                                       *)
LEMMA LeastNatural ==
  ASSUME NEW I \in SUBSET Nat, I # {}
  PROVE  \E i \in I : \A j \in I : i =< j
<1> DEFINE T == {0..i : i \in I}
           R == StrictSubsetOrdering(Nat)
<1>1. T \subseteq FiniteSubsetsOf(Nat)
  <2> SUFFICES ASSUME NEW i \in I
               PROVE  IsFiniteSet(0..i) /\ 0..i \subseteq Nat
    BY DEF FiniteSubsetsOf
  <2> QED  BY FS_Interval
<1>2. T # {}
  OBVIOUS
<1>3. \E x \in T : \A y \in T : ~ (<<y, x>> \in R)
  <2> HIDE DEF T, R
  <2>1. IsWellFoundedOn(R, FiniteSubsetsOf(Nat))
    BY FS_StrictSubsetOrderingWellFounded DEF R
  <2> QED  BY <1>1, <1>2, <2>1, WFMin
<1>4. PICK i \in I : \A y \in T : <<y, 0..i>> \notin R
  BY <1>3
<1>5. ASSUME NEW j \in I, j < i
      PROVE  FALSE
  <2>1. 0..j \subseteq 0..i /\ 0..j # 0..i
    BY <1>5
  <2>2. <<0..j, 0..i>> \in R
    BY <2>1 DEF StrictSubsetOrdering
  <2> QED  BY <1>4, <2>2
<1> QED  BY <1>5

(* The position RemoveFirst removes. *)
LEMMA RemoveFirstPosition ==
  ASSUME NEW A, NEW q \in Seq(A), NEW link, \E i \in 1..Len(q) : q[i] = link
  PROVE  \E i \in 1..Len(q) : RemoveFirst(q, link) = SubSeq(q, 1, i - 1) \o SubSeq(q, i + 1, Len(q))
<1> DEFINE I == {i \in 1..Len(q) : q[i] = link}
           m == Min(I)
<1>1. I \in SUBSET Nat /\ I # {}
  BY LenProperties
<1>2. \E i \in I : \A j \in I : i =< j
  <2> HIDE DEF I
  <2> QED  BY <1>1, LeastNatural
<1>3. m \in I
  BY <1>2 DEF Min
<1>4. SelectInSeq(q, LAMBDA v : v = link) = m
  BY <1>1 DEF SelectInSeq
<1>5. RemoveFirst(q, link) = RemoveAt(q, m)
  BY <1>4 DEF RemoveFirst
<1> QED  BY <1>3, <1>5 DEF RemoveAt

(* Removing a member leaves a sequence over the same set. *)
LEMMA RemoveFirstType ==
  ASSUME NEW A, NEW q \in Seq(A), NEW link
  PROVE  RemoveFirst(q, link) \in Seq(A)
<1>1. CASE \E i \in 1..Len(q) : q[i] = link
  <2>1. PICK i \in 1..Len(q) : RemoveFirst(q, link) = SubSeq(q, 1, i - 1) \o SubSeq(q, i + 1, Len(q))
    BY <1>1, RemoveFirstPosition
  <2>2. Len(q) \in Nat
    BY LenProperties
  <2>3. SubSeq(q, 1, i - 1) \in Seq(A) /\ SubSeq(q, i + 1, Len(q)) \in Seq(A)
    BY <2>2, SubSeqType
  <2> QED  BY <2>1, <2>3, ConcatProperties
<1>2. CASE ~ \E i \in 1..Len(q) : q[i] = link
  BY <1>2 DEF RemoveFirst
<1> QED  BY <1>1, <1>2

(* The members of a finite set in some order. *)
LEMMA ArrangementType ==
  ASSUME NEW A, NEW S \in SUBSET A, IsFiniteSet(S), NEW q \in SetToSeqs(S)
  PROVE  q \in Seq(A) /\ IsInjective(q) /\ ToSet(q) \subseteq S
<1> DEFINE D == 1..Cardinality(S)
<1>1. Cardinality(S) \in Nat
  BY FS_CardinalityType
<1>2. q \in [D -> S] /\ \A i, j \in D : i # j => q[i] # q[j]
  BY DEF SetToSeqs
<1>3. q \in Seq(A)
  <2>1. q \in [D -> A]
    BY <1>2
  <2> QED  BY <1>1, <2>1, SeqDef
<1>4. DOMAIN q = D
  BY <1>2
<1> QED  BY <1>2, <1>3, <1>4 DEF IsInjective, ToSet

(* The members of a sequence, by position. *)
LEMMA ToSetSeq ==
  ASSUME NEW S, NEW q \in Seq(S)
  PROVE  /\ ToSet(q) = {q[i] : i \in 1..Len(q)}
         /\ ToSet(q) \subseteq S
BY LenProperties DEF ToSet

(* The empty sequence has none. *)
LEMMA EmptyToSet == ToSet(<<>>) = {} /\ IsInjective(<<>>)
BY DEF ToSet, IsInjective

(* The members of a part of a sequence; a part of an injective one is injective. *)
LEMMA Slice ==
  ASSUME NEW A, NEW q \in Seq(A), NEW m \in 1..Len(q) + 1, NEW n \in m - 1..Len(q)
  PROVE  /\ ToSet(SubSeq(q, m, n)) = {q[i] : i \in m..n}
         /\ IsInjective(q) => IsInjective(SubSeq(q, m, n))
<1> DEFINE r == SubSeq(q, m, n)
<1>1. Len(q) \in Nat /\ DOMAIN q = 1..Len(q) /\ \A i \in 1..Len(q) : q[i] \in A
  BY LenProperties, ElementOfSeq
<1>2. m \in Int /\ n \in Int /\ \A i \in m..n : i \in 1..Len(q)
  BY <1>1
<1>3. /\ r \in Seq(A)
      /\ Len(r) = IF m <= n THEN n - m + 1 ELSE 0
      /\ \A i \in 1..n - m + 1 : r[i] = q[m + i - 1]
  BY <1>1, <1>2, SubSeqProperties
<1>4. DOMAIN r = 1..n - m + 1
  <2>1. DOMAIN r = 1..Len(r)
    BY <1>3, LenProperties
  <2> HIDE DEF r
  <2> QED  BY <1>1, <1>2, <1>3, <2>1
<1> HIDE DEF r
<1>5. ToSet(r) = {q[i] : i \in m..n}
  <2>1. ASSUME NEW i \in 1..n - m + 1
        PROVE  r[i] \in {q[k] : k \in m..n}
    <3>1. m + i - 1 \in m..n
      BY <1>2
    <3> QED  BY <1>3, <3>1
  <2>2. ASSUME NEW k \in m..n
        PROVE  q[k] \in ToSet(r)
    <3>1. k - m + 1 \in 1..n - m + 1 /\ m + (k - m + 1) - 1 = k
      BY <1>2
    <3>2. r[k - m + 1] = q[k]
      BY <1>3, <3>1
    <3> QED  BY <1>4, <3>1, <3>2 DEF ToSet
  <2> QED  BY <1>4, <2>1, <2>2 DEF ToSet
<1>6. ASSUME IsInjective(q), NEW i \in 1..n - m + 1, NEW j \in 1..n - m + 1, r[i] = r[j]
      PROVE  i = j
  <2>1. m + i - 1 \in 1..Len(q) /\ m + j - 1 \in 1..Len(q)
    BY <1>1, <1>2
  <2>2. q[m + i - 1] = q[m + j - 1]
    BY <1>3, <1>6
  <2>3. m + i - 1 = m + j - 1
    BY <1>1, <1>6, <2>1, <2>2 DEF IsInjective
  <2> QED  BY <1>2, <2>3
<1> QED  BY <1>4, <1>5, <1>6 DEF IsInjective, r

(* Both parts of an injective sequence are injective, and disjoint. *)
LEMMA SplitInjective ==
  ASSUME NEW A, NEW q \in Seq(A), IsInjective(q), NEW k \in 0..Len(q)
  PROVE  /\ IsInjective(SubSeq(q, 1, k))
         /\ IsInjective(SubSeq(q, k + 1, Len(q)))
         /\ ToSet(SubSeq(q, 1, k)) \cup ToSet(SubSeq(q, k + 1, Len(q))) = ToSet(q)
         /\ ToSet(SubSeq(q, 1, k)) \cap ToSet(SubSeq(q, k + 1, Len(q))) = {}
<1>1. Len(q) \in Nat /\ DOMAIN q = 1..Len(q)
  BY LenProperties
<1>2. k \in 1 - 1..Len(q) /\ k + 1 \in 1..Len(q) + 1 /\ Len(q) \in (k + 1) - 1..Len(q) /\ 1 \in 1..Len(q) + 1
  BY <1>1
<1>3. /\ ToSet(SubSeq(q, 1, k)) = {q[i] : i \in 1..k}
      /\ IsInjective(SubSeq(q, 1, k))
  BY <1>2, Slice
<1>4. /\ ToSet(SubSeq(q, k + 1, Len(q))) = {q[i] : i \in k + 1..Len(q)}
      /\ IsInjective(SubSeq(q, k + 1, Len(q)))
  BY <1>2, Slice
<1>5. ToSet(q) = {q[i] : i \in 1..Len(q)}
  BY ToSetSeq
<1>6. {q[i] : i \in 1..k} \cap {q[i] : i \in k + 1..Len(q)} = {}
  <2> SUFFICES ASSUME NEW i \in 1..k, NEW j \in k + 1..Len(q), q[i] = q[j]
               PROVE  FALSE
    OBVIOUS
  <2>1. i \in 1..Len(q) /\ j \in 1..Len(q) /\ i # j
    BY <1>1
  <2> QED  BY <1>1, <2>1 DEF IsInjective
<1>7. {q[i] : i \in 1..k} \cup {q[i] : i \in k + 1..Len(q)} = {q[i] : i \in 1..Len(q)}
  <2>1. 1..k \cup (k + 1..Len(q)) = 1..Len(q)
    BY <1>1
  <2> QED  BY <2>1, Zenon
<1> QED  BY <1>3, <1>4, <1>5, <1>6, <1>7

(* Two disjoint injective sequences make one. *)
LEMMA JoinInjective ==
  ASSUME NEW A, NEW p \in Seq(A), NEW q \in Seq(A)
  PROVE  /\ ToSet(p \o q) = ToSet(p) \cup ToSet(q)
         /\ IsInjective(p) /\ IsInjective(q) /\ ToSet(p) \cap ToSet(q) = {} => IsInjective(p \o q)
<1>1. /\ Len(p) \in Nat /\ DOMAIN p = 1..Len(p)
      /\ Len(q) \in Nat /\ DOMAIN q = 1..Len(q)
  BY LenProperties
<1>2. /\ p \o q \in Seq(A)
      /\ Len(p \o q) = Len(p) + Len(q)
      /\ \A i \in 1..Len(p) + Len(q) : (p \o q)[i] = IF i <= Len(p) THEN p[i] ELSE q[i - Len(p)]
  BY ConcatProperties
<1>3. DOMAIN (p \o q) = 1..Len(p) + Len(q)
  BY <1>2, LenProperties
<1> DEFINE r == p \o q
<1> HIDE DEF r
<1>4. ASSUME NEW l, l \in ToSet(r)
      PROVE  l \in ToSet(p) \cup ToSet(q)
  <2>1. PICK i \in 1..Len(p) + Len(q) : l = r[i]
    BY <1>3, <1>4 DEF ToSet, r
  <2>2. CASE i <= Len(p)
    BY <1>1, <1>2, <2>1, <2>2 DEF ToSet, r
  <2>3. CASE i > Len(p)
    BY <1>1, <1>2, <2>1, <2>3 DEF ToSet, r
  <2> QED  BY <1>1, <2>2, <2>3
<1>5. ASSUME NEW l, l \in ToSet(p)
      PROVE  l \in ToSet(r)
  BY <1>1, <1>2, <1>3, <1>5 DEF ToSet, r
<1>6. ASSUME NEW l, l \in ToSet(q)
      PROVE  l \in ToSet(r)
  <2>1. PICK i \in 1..Len(q) : l = q[i]
    BY <1>1, <1>6 DEF ToSet
  <2>2. l = r[Len(p) + i] /\ Len(p) + i \in 1..Len(p) + Len(q)
    BY <1>1, <1>2, <2>1 DEF r
  <2> QED  BY <1>3, <2>2 DEF ToSet, r
<1>7. ASSUME IsInjective(p), IsInjective(q), ToSet(p) \cap ToSet(q) = {}
      PROVE  IsInjective(r)
  <2> SUFFICES ASSUME NEW i \in 1..Len(p) + Len(q), NEW j \in 1..Len(p) + Len(q), r[i] = r[j]
               PROVE  i = j
    BY <1>3 DEF IsInjective, r
  <2>1. \A m \in 1..Len(p), n \in 1..Len(q) : p[m] # q[n]
    BY <1>1, <1>7 DEF ToSet
  <2>2. CASE i <= Len(p) /\ j <= Len(p)
    BY <1>1, <1>2, <1>7, <2>2 DEF IsInjective, r
  <2>3. CASE i > Len(p) /\ j > Len(p)
    BY <1>1, <1>2, <1>7, <2>3 DEF IsInjective, r
  <2>4. CASE i <= Len(p) /\ j > Len(p)
    BY <1>1, <1>2, <2>1, <2>4 DEF r
  <2>5. CASE i > Len(p) /\ j <= Len(p)
    BY <1>1, <1>2, <2>1, <2>5 DEF r
  <2> QED  BY <1>1, <2>2, <2>3, <2>4, <2>5
<1> QED  BY <1>4, <1>5, <1>6, <1>7 DEF r

(* Removing a member keeps a sequence injective. *)
LEMMA RemoveFirstInjective ==
  ASSUME NEW A, NEW q \in Seq(A), IsInjective(q), NEW link
  PROVE  /\ IsInjective(RemoveFirst(q, link))
         /\ ToSet(RemoveFirst(q, link)) \subseteq ToSet(q)
<1>1. CASE \E i \in 1..Len(q) : q[i] = link
  <2>1. PICK i \in 1..Len(q) : RemoveFirst(q, link) = SubSeq(q, 1, i - 1) \o SubSeq(q, i + 1, Len(q))
    BY <1>1, RemoveFirstPosition
  <2>2. Len(q) \in Nat /\ i - 1 \in 0..Len(q) /\ i \in 0..Len(q)
    BY LenProperties
  <2> DEFINE p == SubSeq(q, 1, i - 1)
             r == SubSeq(q, i + 1, Len(q))
  <2>3. p \in Seq(A) /\ r \in Seq(A)
    BY <2>2, SubSeqType
  <2>4. /\ IsInjective(p)
        /\ ToSet(p) \subseteq ToSet(q)
        /\ IsInjective(r)
        /\ ToSet(r) \subseteq ToSet(q)
    BY <2>2, SplitInjective
  <2>5. ToSet(p) \cap ToSet(r) = {}
    <3>1. ToSet(SubSeq(q, 1, i)) \cap ToSet(r) = {}
      BY <2>2, SplitInjective
    <3>2. /\ ToSet(p) = {q[n] : n \in 1..i - 1}
          /\ ToSet(SubSeq(q, 1, i)) = {q[n] : n \in 1..i}
      BY <2>2, Slice
    <3>3. 1..i - 1 \subseteq 1..i
      OBVIOUS
    <3> QED  BY <3>1, <3>2, <3>3
  <2> HIDE DEF p, r
  <2>6. RemoveFirst(q, link) = p \o r
    BY <2>1 DEF p, r
  <2> QED  BY <2>3, <2>4, <2>5, <2>6, JoinInjective
<1>2. CASE ~ \E i \in 1..Len(q) : q[i] = link
  BY <1>2 DEF RemoveFirst
<1> QED  BY <1>1, <1>2

(* A sequence that is gone through from the front: the next member. *)
LEMMA NextOfRest ==
  ASSUME NEW A, NEW q \in Seq(A), NEW n \in 0..Len(q), SubSeq(q, n + 1, Len(q)) # <<>>
  PROVE  LET rest == SubSeq(q, n + 1, Len(q))
         IN /\ n < Len(q) /\ Head(rest) = q[n + 1] /\ q[n + 1] \in A
            /\ Tail(rest) = SubSeq(q, (n + 1) + 1, Len(q))
            /\ Append(SubSeq(q, 1, n), q[n + 1]) = SubSeq(q, 1, n + 1)
<1> DEFINE rest == SubSeq(q, n + 1, Len(q))
           front == SubSeq(q, 1, n)
           longer == Append(front, q[n + 1])
<1>1. Len(q) \in Nat /\ n \in Nat /\ \A i \in 1..Len(q) : q[i] \in A
  BY LenProperties, ElementOfSeq
<1>2. n < Len(q)
  <2>1. rest \in Seq(A) /\ Len(rest) = IF n + 1 <= Len(q) THEN Len(q) - (n + 1) + 1 ELSE 0
    BY <1>1, SubSeqProperties
  <2> HIDE DEF rest
  <2>2. rest # <<>> => Len(rest) # 0
    BY <2>1, EmptySeq
  <2>3. rest # <<>>
    BY DEF rest
  <2> QED  BY <1>1, <2>1, <2>2, <2>3
<1>3. Head(rest) = q[n + 1] /\ Tail(rest) = SubSeq(q, (n + 1) + 1, Len(q))
  BY <1>1, <1>2, HeadTailOfSubSeq
<1>4. /\ front \in Seq(A) /\ Len(front) = n /\ \A i \in 1..n : front[i] = q[i]
  BY <1>1, SubSeqProperties
<1>5. /\ SubSeq(q, 1, n + 1) \in Seq(A) /\ Len(SubSeq(q, 1, n + 1)) = n + 1
      /\ \A i \in 1..n + 1 : SubSeq(q, 1, n + 1)[i] = q[i]
  BY <1>1, <1>2, SubSeqProperties
<1>6. q[n + 1] \in A
  BY <1>1, <1>2
<1> HIDE DEF front
<1>7. /\ longer \in Seq(A) /\ Len(longer) = n + 1 /\ longer[n + 1] = q[n + 1]
      /\ \A i \in 1..n : longer[i] = front[i]
  BY <1>4, <1>6, AppendProperties
<1> HIDE DEF longer
<1>8. \A i \in 1..n + 1 : longer[i] = SubSeq(q, 1, n + 1)[i]
  BY <1>1, <1>4, <1>5, <1>7
<1>9. longer = SubSeq(q, 1, n + 1)
  BY <1>5, <1>7, <1>8, SeqEqual
<1> QED  BY <1>2, <1>3, <1>6, <1>9 DEF longer, front

(* When nothing is left, the front is all of it. *)
LEMMA NothingOfRest ==
  ASSUME NEW A, NEW q \in Seq(A), NEW n \in 0..Len(q), SubSeq(q, n + 1, Len(q)) = <<>>
  PROVE  SubSeq(q, 1, n) = q
<1>1. Len(q) \in Nat /\ n \in Nat /\ \A i \in 1..Len(q) : q[i] \in A
  BY LenProperties, ElementOfSeq
<1>2. n = Len(q)
  <2> DEFINE rest == SubSeq(q, n + 1, Len(q))
  <2>1. Len(rest) = IF n + 1 <= Len(q) THEN Len(q) - (n + 1) + 1 ELSE 0
    BY <1>1, SubSeqProperties
  <2>2. rest = <<>>
    OBVIOUS
  <2> HIDE DEF rest
  <2>3. Len(rest) = 0
    BY <2>2, EmptySeq
  <2> QED  BY <1>1, <2>1, <2>3
<1>3. /\ SubSeq(q, 1, n) \in Seq(A) /\ Len(SubSeq(q, 1, n)) = Len(q)
      /\ \A i \in 1..Len(q) : SubSeq(q, 1, n)[i] = q[i]
  BY <1>1, <1>2, SubSeqProperties
<1> QED  BY <1>3, SeqEqual
=============================================================================

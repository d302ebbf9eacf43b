---------------------------- MODULE ListingProofs ----------------------------
(***************************************************************************)
(* Proofs about Listing, for any paths and keys the store may hold, any    *)
(* page size and any changes between the pages and during them.            *)
(*                                                                         *)
(* comparePaths is shown to be a strict total order, so a finite set of    *)
(* entries has its n first ones and a latest one.  On the flat stores a    *)
(* page is a cut of what the service has left.  On the filesystem the      *)
(* invariant VisitInv says, between any two system calls of a walk, that   *)
(* what was always there has been returned, is on the page or lies at or   *)
(* under something still to be visited, and that the page lies before all  *)
(* of that.  Both come down to GoodReturn, what a List call returns, and   *)
(* from that follows Progress, which the theorems are about.               *)
(***************************************************************************)
EXTENDS Listing, TLAPS, SequenceTheorems, FiniteSetTheorems, WellFoundedInduction

-----------------------------------------------------------------------------
(* Sequences of numbers, position by position.                             *)

Names == Seq(Nat)

LEMMA LenIs == \A s \in Names : /\ Len(s) \in Nat /\ DOMAIN s = 1..Len(s)
                                /\ \A i \in 1..Len(s) : s[i] \in Nat
BY LenProperties, ElementOfSeq DEF Names

LEMMA SameSeq ==
  ASSUME NEW s \in Names, NEW t \in Names, Len(s) = Len(t), \A i \in 1..Len(s) : s[i] = t[i]
  PROVE  s = t
BY SeqEqual DEF Names

LEMMA CutIs ==
  ASSUME NEW s \in Names, NEW n \in 0..Len(s)
  PROVE  /\ SubSeq(s, 1, n) \in Names /\ Len(SubSeq(s, 1, n)) = n
         /\ \A i \in 1..n : SubSeq(s, 1, n)[i] = s[i]
<1>1. Len(s) \in Nat /\ \A i \in 1..n : s[i] \in Nat
  BY LenIs
<1>2. /\ SubSeq(s, 1, n) \in Seq(Nat) /\ Len(SubSeq(s, 1, n)) = IF 1 <= n THEN n - 1 + 1 ELSE 0
      /\ \A i \in 1..(n - 1 + 1) : SubSeq(s, 1, n)[i] = s[1 + i - 1]
  BY <1>1, SubSeqProperties
<1> QED BY <1>1, <1>2 DEF Names

LEMMA FrontIs ==
  ASSUME NEW s \in Names, s # <<>>
  PROVE  /\ Front(s) \in Names /\ Len(s) >= 1 /\ Len(Front(s)) = Len(s) - 1
         /\ \A i \in 1..(Len(s) - 1) : Front(s)[i] = s[i]
<1>1. Len(s) \in Nat \ {0}
  BY EmptySeq DEF Names
<1>2. Len(s) - 1 \in 0..Len(s)
  BY <1>1
<1>3. /\ SubSeq(s, 1, Len(s) - 1) \in Names /\ Len(SubSeq(s, 1, Len(s) - 1)) = Len(s) - 1
      /\ \A i \in 1..(Len(s) - 1) : SubSeq(s, 1, Len(s) - 1)[i] = s[i]
  BY <1>2, CutIs
<1> QED BY <1>1, <1>3 DEF Front

LEMMA EmptyIs == <<>> \in Names /\ Len(<<>>) = 0 /\ \A s \in Names : Len(s) = 0 => s = <<>>
BY EmptySeq DEF Names

Agree(a, b, n) == \A i \in 1..n : a[i] = b[i]

LEMMA PrefixIs ==
  ASSUME NEW a \in Names, NEW b \in Names
  PROVE  /\ IsPrefix(a, b) <=> Len(a) <= Len(b) /\ Agree(a, b, Len(a))
         /\ IsStrictPrefix(a, b) <=> Len(a) < Len(b) /\ Agree(a, b, Len(a))
<1>1. Len(a) \in Nat /\ Len(b) \in Nat
  BY LenIs
<1>2. SubSeq(a, 1, Len(a)) = a
  BY SubSeqFull DEF Names
<1>3. ASSUME Len(a) <= Len(b) PROVE a = SubSeq(b, 1, Len(a)) <=> Agree(a, b, Len(a))
  <2>1. Len(a) \in 0..Len(b)
    BY <1>1, <1>3
  <2>2. /\ SubSeq(b, 1, Len(a)) \in Names /\ Len(SubSeq(b, 1, Len(a))) = Len(a)
        /\ \A i \in 1..Len(a) : SubSeq(b, 1, Len(a))[i] = b[i]
    BY <2>1, CutIs
  <2>3. ASSUME Agree(a, b, Len(a)) PROVE a = SubSeq(b, 1, Len(a))
    BY <2>2, <2>3, SameSeq DEF Agree
  <2>4. ASSUME a = SubSeq(b, 1, Len(a)) PROVE Agree(a, b, Len(a))
    BY <2>2, <2>4 DEF Agree
  <2> QED BY <2>3, <2>4
<1>4. IsPrefix(a, b) <=> Len(a) <= Len(b) /\ Agree(a, b, Len(a))
  BY <1>2, <1>3 DEF IsPrefix
<1>5. Len(a) = Len(b) /\ Agree(a, b, Len(a)) => a = b
  BY SameSeq DEF Agree
<1> QED BY <1>1, <1>4, <1>5 DEF IsStrictPrefix

LEMMA LeastNat ==
  ASSUME NEW T \in SUBSET Nat, T # {} PROVE \E n \in T : \A i \in T : n <= i
<1> DEFINE R == OpToRel(<, Nat)
<1>1. IsWellFoundedOn(R, Nat)
  BY NatLessThanWellFounded
<1>2. \A i, n \in Nat : i < n => <<i, n>> \in R
  BY DEF OpToRel
<1> HIDE DEF R
<1>3. PICK n \in T : \A i \in T : ~(<<i, n>> \in R)
  BY <1>1, WFMin
<1>4. ASSUME NEW i \in T PROVE n <= i
  <2>1. ~(i < n)
    BY <1>2, <1>3
  <2> QED BY <2>1
<1> QED BY <1>4

-----------------------------------------------------------------------------
(* comparePaths is a strict total order.                                   *)

\* The first name in which a and b differ is smaller in a.
SmallerAt(a, b, i) ==
  i \in 1..Len(a) /\ i \in 1..Len(b) /\ a[i] < b[i] /\ Agree(a, b, i - 1)

LEMMA BeforeIs ==
  ASSUME NEW a \in Names, NEW b \in Names
  PROVE  Before(a, b) <=> \/ Len(a) < Len(b) /\ Agree(a, b, Len(a))
                          \/ \E i \in Nat : SmallerAt(a, b, i)
<1>1. Len(a) \in Nat /\ Len(b) \in Nat
  BY LenIs
<1> QED BY <1>1, PrefixIs DEF Before, SmallerAt, Agree

LEMMA BeforeIrreflexive == \A a \in Names : ~Before(a, a)
<1> SUFFICES ASSUME NEW a \in Names, Before(a, a) PROVE FALSE
  OBVIOUS
<1>1. Len(a) \in Nat /\ \A i \in 1..Len(a) : a[i] \in Nat
  BY LenIs
<1> QED BY <1>1, BeforeIs DEF SmallerAt

LEMMA BeforeTransitive ==
  ASSUME NEW a \in Names, NEW b \in Names, NEW c \in Names, Before(a, b), Before(b, c)
  PROVE  Before(a, c)
<1>1. Len(a) \in Nat /\ Len(b) \in Nat /\ Len(c) \in Nat
  BY LenIs
<1>2. /\ \A i \in 1..Len(a) : a[i] \in Nat
      /\ \A i \in 1..Len(b) : b[i] \in Nat
      /\ \A i \in 1..Len(c) : c[i] \in Nat
  BY LenIs
<1>3. CASE Len(a) < Len(b) /\ Agree(a, b, Len(a))
  <2>1. CASE Len(b) < Len(c) /\ Agree(b, c, Len(b))
    <3>1. Len(a) < Len(c) /\ Agree(a, c, Len(a))
      BY <1>1, <1>3, <2>1 DEF Agree
    <3> QED BY <3>1, BeforeIs
  <2>2. ASSUME NEW i \in Nat, SmallerAt(b, c, i) PROVE Before(a, c)
    <3>1. CASE i <= Len(a)
      <4>1. SmallerAt(a, c, i)
        BY <1>1, <1>3, <2>2, <3>1 DEF Agree, SmallerAt
      <4> QED BY <4>1, BeforeIs
    <3>2. CASE i > Len(a)
      <4>1. Len(a) < Len(c) /\ Agree(a, c, Len(a))
        BY <1>1, <1>3, <2>2, <3>2 DEF Agree, SmallerAt
      <4> QED BY <4>1, BeforeIs
    <3> QED BY <1>1, <3>1, <3>2
  <2> QED BY <2>1, <2>2, BeforeIs
<1>4. ASSUME NEW i \in Nat, SmallerAt(a, b, i) PROVE Before(a, c)
  <2>1. CASE Len(b) < Len(c) /\ Agree(b, c, Len(b))
    <3>1. SmallerAt(a, c, i)
      BY <1>1, <1>4, <2>1 DEF Agree, SmallerAt
    <3> QED BY <3>1, BeforeIs
  <2>2. ASSUME NEW j \in Nat, SmallerAt(b, c, j) PROVE Before(a, c)
    <3>1. CASE i < j
      <4>1. SmallerAt(a, c, i)
        BY <1>1, <1>4, <2>2, <3>1 DEF Agree, SmallerAt
      <4> QED BY <4>1, BeforeIs
    <3>2. CASE j < i
      <4>1. SmallerAt(a, c, j)
        BY <1>1, <1>4, <2>2, <3>2 DEF Agree, SmallerAt
      <4> QED BY <4>1, BeforeIs
    <3>3. CASE i = j
      <4>1. a[i] < c[i]
        BY <1>2, <1>4, <2>2, <3>3 DEF SmallerAt
      <4>2. SmallerAt(a, c, i)
        BY <1>1, <1>4, <2>2, <3>3, <4>1 DEF Agree, SmallerAt
      <4> QED BY <4>2, BeforeIs
    <3> QED BY <3>1, <3>2, <3>3
  <2> QED BY <2>1, <2>2, BeforeIs
<1> QED BY <1>3, <1>4, BeforeIs

LEMMA BeforeAsymmetric ==
  ASSUME NEW a \in Names, NEW b \in Names, Before(a, b) PROVE ~Before(b, a)
BY BeforeTransitive, BeforeIrreflexive

LEMMA BeforeTotal ==
  ASSUME NEW a \in Names, NEW b \in Names, a # b PROVE Before(a, b) \/ Before(b, a)
<1>1. Len(a) \in Nat /\ Len(b) \in Nat
  BY LenIs
<1> DEFINE D == {i \in Nat : i \in 1..Len(a) /\ i \in 1..Len(b) /\ a[i] # b[i]}
<1>2. CASE D = {}
  <2>1. \A i \in Nat : i \in 1..Len(a) /\ i \in 1..Len(b) => a[i] = b[i]
    BY <1>2
  <2>2. CASE Len(a) < Len(b)
    BY <1>1, <2>1, <2>2, BeforeIs DEF Agree
  <2>3. CASE Len(b) < Len(a)
    BY <1>1, <2>1, <2>3, BeforeIs DEF Agree
  <2>4. CASE Len(a) = Len(b)
    BY <1>1, <2>1, <2>4, SameSeq
  <2> QED BY <1>1, <2>2, <2>3, <2>4
<1>3. CASE D # {}
  <2>1. PICK n \in D : \A i \in D : n <= i
    BY <1>3, LeastNat
  <2>2. n \in Nat /\ n \in 1..Len(a) /\ n \in 1..Len(b) /\ a[n] # b[n]
    BY <2>1
  <2>3. \A i \in 1..(n - 1) : a[i] = b[i]
    <3> SUFFICES ASSUME NEW i \in 1..(n - 1), a[i] # b[i] PROVE FALSE
      OBVIOUS
    <3>1. i \in Nat /\ i \in 1..Len(a) /\ i \in 1..Len(b) /\ i < n
      BY <1>1, <2>2
    <3>2. i \in D
      BY <3>1
    <3> QED BY <2>1, <2>2, <3>1, <3>2
  <2>4. a[n] \in Nat /\ b[n] \in Nat
    BY <2>2, LenIs
  <2>5. SmallerAt(a, b, n) \/ SmallerAt(b, a, n)
    BY <2>2, <2>3, <2>4 DEF SmallerAt, Agree
  <2> QED BY <2>2, <2>5, BeforeIs
<1> QED BY <1>2, <1>3

-----------------------------------------------------------------------------
(* Directories above a path.                                               *)

LEMMA PrefixOrSame ==
  ASSUME NEW a \in Names, NEW b \in Names
  PROVE  IsPrefix(a, b) <=> a = b \/ IsStrictPrefix(a, b)
<1>1. Len(a) \in Nat
  BY LenIs
<1>2. IsPrefix(a, a)
  BY <1>1, PrefixIs DEF Agree
<1> QED BY <1>2 DEF IsStrictPrefix

LEMMA StrictTransitive ==
  ASSUME NEW a \in Names, NEW b \in Names, NEW c \in Names,
         IsStrictPrefix(a, b), IsStrictPrefix(b, c)
  PROVE  IsStrictPrefix(a, c)
<1>1. Len(a) \in Nat /\ Len(b) \in Nat /\ Len(c) \in Nat
  BY LenIs
<1>2. Len(a) < Len(b) /\ Agree(a, b, Len(a)) /\ Len(b) < Len(c) /\ Agree(b, c, Len(b))
  BY PrefixIs
<1>3. Len(a) < Len(c) /\ Agree(a, c, Len(a))
  BY <1>1, <1>2 DEF Agree
<1> QED BY <1>3, PrefixIs

\* Of two paths above a third one lies above the other.
LEMMA Chain ==
  ASSUME NEW a \in Names, NEW b \in Names, NEW c \in Names,
         IsStrictPrefix(a, c), IsStrictPrefix(b, c)
  PROVE  a = b \/ IsStrictPrefix(a, b) \/ IsStrictPrefix(b, a)
<1>1. Len(a) \in Nat /\ Len(b) \in Nat /\ Len(c) \in Nat
  BY LenIs
<1>2. Len(a) < Len(c) /\ Agree(a, c, Len(a)) /\ Len(b) < Len(c) /\ Agree(b, c, Len(b))
  BY PrefixIs
<1>3. CASE Len(a) < Len(b)
  <2>1. Agree(a, b, Len(a))
    BY <1>1, <1>2, <1>3 DEF Agree
  <2> QED BY <1>3, <2>1, PrefixIs
<1>4. CASE Len(b) < Len(a)
  <2>1. Agree(b, a, Len(b))
    BY <1>1, <1>2, <1>4 DEF Agree
  <2> QED BY <1>4, <2>1, PrefixIs
<1>5. CASE Len(a) = Len(b)
  <2>1. \A i \in 1..Len(a) : a[i] = b[i]
    BY <1>1, <1>2, <1>5 DEF Agree
  <2> QED BY <1>5, <2>1, SameSeq
<1> QED BY <1>1, <1>3, <1>4, <1>5

LEMMA AboveIsBefore ==
  ASSUME NEW a \in Names, NEW b \in Names, IsStrictPrefix(a, b) PROVE Before(a, b)
BY DEF Before

LEMMA NotAboveItself == \A a \in Names : ~IsStrictPrefix(a, a)
BY AboveIsBefore, BeforeIrreflexive

\* What lies under a comes before b as a does, unless b lies there too.
LEMMA BelowIsBefore ==
  ASSUME NEW a \in Names, NEW b \in Names, NEW c \in Names,
         Before(a, b), ~IsStrictPrefix(a, b), IsStrictPrefix(a, c)
  PROVE  Before(c, b)
<1>1. Len(a) \in Nat /\ Len(b) \in Nat /\ Len(c) \in Nat
  BY LenIs
<1>2. Len(a) < Len(c) /\ Agree(a, c, Len(a))
  BY PrefixIs
<1>3. PICK i \in Nat : SmallerAt(a, b, i)
  BY BeforeIs, PrefixIs
<1>4. SmallerAt(c, b, i)
  BY <1>1, <1>2, <1>3 DEF SmallerAt, Agree
<1> QED BY <1>4, BeforeIs

LEMMA AncestorsAre ==
  ASSUME NEW p \in Names, NEW q
  PROVE  q \in Ancestors(p) <=> q \in Names /\ q # <<>> /\ IsStrictPrefix(q, p)
<1>1. Len(p) \in Nat
  BY LenIs
<1>2. ASSUME NEW i \in 1..(Len(p) - 1), q = SubSeq(p, 1, i)
      PROVE  q \in Names /\ q # <<>> /\ IsStrictPrefix(q, p)
  <2>1. i \in 0..Len(p) /\ i \in Nat /\ i # 0 /\ i < Len(p)
    BY <1>1
  <2>2. q \in Names /\ Len(q) = i /\ \A j \in 1..i : q[j] = p[j]
    BY <1>2, <2>1, CutIs
  <2> QED BY <2>1, <2>2, EmptyIs, PrefixIs DEF Agree
<1>3. ASSUME q \in Names, q # <<>>, IsStrictPrefix(q, p)
      PROVE  \E i \in 1..(Len(p) - 1) : q = SubSeq(p, 1, i)
  <2>1. Len(q) \in Nat /\ Len(q) # 0 /\ Len(q) < Len(p) /\ Agree(q, p, Len(q))
    BY <1>3, LenIs, EmptyIs, PrefixIs
  <2>2. Len(q) \in 1..(Len(p) - 1) /\ Len(q) \in 0..Len(p)
    BY <1>1, <2>1
  <2>3. /\ SubSeq(p, 1, Len(q)) \in Names /\ Len(SubSeq(p, 1, Len(q))) = Len(q)
        /\ \A j \in 1..Len(q) : SubSeq(p, 1, Len(q))[j] = p[j]
    BY <2>2, CutIs
  <2>4. q = SubSeq(p, 1, Len(q))
    BY <1>3, <2>1, <2>3, SameSeq DEF Agree
  <2> QED BY <2>2, <2>4
<1> QED BY <1>2, <1>3 DEF Ancestors

LEMMA FrontIsAbove ==
  ASSUME NEW p \in Names, p # <<>>
  PROVE  /\ Front(p) \in Names /\ IsStrictPrefix(Front(p), p)
         /\ \A q \in Names : IsStrictPrefix(q, p) => q = Front(p) \/ IsStrictPrefix(q, Front(p))
<1>1. /\ Front(p) \in Names /\ Len(p) >= 1 /\ Len(Front(p)) = Len(p) - 1 /\ Len(p) \in Nat
      /\ \A i \in 1..(Len(p) - 1) : Front(p)[i] = p[i]
  BY FrontIs, LenIs
<1>2. IsStrictPrefix(Front(p), p)
  <2>1. Len(Front(p)) < Len(p) /\ Agree(Front(p), p, Len(Front(p)))
    BY <1>1 DEF Agree
  <2> QED BY <1>1, <2>1, PrefixIs
<1>3. ASSUME NEW q \in Names, IsStrictPrefix(q, p), IsStrictPrefix(Front(p), q) PROVE FALSE
  <2>1. Len(q) < Len(p) /\ Len(Front(p)) < Len(q) /\ Len(q) \in Nat
    BY <1>1, <1>3, PrefixIs, LenIs
  <2> QED BY <1>1, <2>1
<1> QED BY <1>1, <1>2, <1>3, Chain

\* Two paths of one directory do not lie above each other.
LEMMA SiblingsApart ==
  ASSUME NEW p \in Names, NEW q \in Names, p # <<>>, q # <<>>, Front(p) = Front(q)
  PROVE  ~IsStrictPrefix(p, q)
<1>1. Len(Front(p)) = Len(p) - 1 /\ Len(Front(q)) = Len(q) - 1 /\ Len(p) \in Nat /\ Len(q) \in Nat
  BY FrontIs, LenIs
<1>2. Len(p) = Len(q)
  BY <1>1
<1> QED BY <1>1, <1>2, PrefixIs

-----------------------------------------------------------------------------
(* The first entries of a finite set, and its latest.                      *)

LEMMA EarliestExists ==
  ASSUME NEW S \in SUBSET Names, IsFiniteSet(S), S # {}
  PROVE  \E x \in S : \A y \in S \ {x} : Before(x, y)
<1> DEFINE Below(x) == {y \in S : Before(y, x)}
           N == {n \in Nat : \E x \in S : n = Cardinality(Below(x))}
<1>1. \A x \in S : IsFiniteSet(Below(x)) /\ Cardinality(Below(x)) \in Nat
  BY FS_Subset, FS_CardinalityType
<1>2. N # {}
  BY <1>1
<1>3. PICK n \in N : \A i \in N : n <= i
  BY <1>2, LeastNat
<1>4. PICK x \in S : n = Cardinality(Below(x))
  BY <1>3
<1>5. ASSUME NEW y \in S \ {x} PROVE Before(x, y)
  <2>1. ASSUME Before(y, x) PROVE FALSE
    <3>1. \A z \in Below(y) : z \in Below(x)
      BY <2>1, BeforeTransitive
    <3>2. y \in Below(x) /\ y \notin Below(y)
      BY <2>1, BeforeIrreflexive
    <3>3. Below(y) \in SUBSET Below(x) /\ Below(x) # Below(y)
      BY <3>1, <3>2
    <3>4. IsFiniteSet(Below(x)) /\ Cardinality(Below(x)) \in Nat /\ Cardinality(Below(y)) \in Nat
      BY <1>1
    <3> HIDE DEF Below
    <3>5. Cardinality(Below(y)) <= Cardinality(Below(x)) /\ Cardinality(Below(x)) # Cardinality(Below(y))
      BY <3>3, <3>4, FS_Subset
    <3>6. Cardinality(Below(y)) \in N
      BY <3>4
    <3> QED BY <1>3, <1>4, <3>4, <3>5, <3>6
  <2> QED BY <2>1, BeforeTotal
<1> QED BY <1>5

LEMMA LatestExists ==
  ASSUME NEW S \in SUBSET Names, IsFiniteSet(S), S # {}
  PROVE  \E x \in S : \A y \in S \ {x} : Before(y, x)
<1> DEFINE Above(x) == {y \in S : Before(x, y)}
           N == {n \in Nat : \E x \in S : n = Cardinality(Above(x))}
<1>1. \A x \in S : IsFiniteSet(Above(x)) /\ Cardinality(Above(x)) \in Nat
  BY FS_Subset, FS_CardinalityType
<1>2. N # {}
  BY <1>1
<1>3. PICK n \in N : \A i \in N : n <= i
  BY <1>2, LeastNat
<1>4. PICK x \in S : n = Cardinality(Above(x))
  BY <1>3
<1>5. ASSUME NEW y \in S \ {x} PROVE Before(y, x)
  <2>1. ASSUME Before(x, y) PROVE FALSE
    <3>1. \A z \in Above(y) : z \in Above(x)
      BY <2>1, BeforeTransitive
    <3>2. y \in Above(x) /\ y \notin Above(y)
      BY <2>1, BeforeIrreflexive
    <3>3. Above(y) \in SUBSET Above(x) /\ Above(x) # Above(y)
      BY <3>1, <3>2
    <3>4. IsFiniteSet(Above(x)) /\ Cardinality(Above(x)) \in Nat /\ Cardinality(Above(y)) \in Nat
      BY <1>1
    <3> HIDE DEF Above
    <3>5. Cardinality(Above(y)) <= Cardinality(Above(x)) /\ Cardinality(Above(x)) # Cardinality(Above(y))
      BY <3>3, <3>4, FS_Subset
    <3>6. Cardinality(Above(y)) \in N
      BY <3>4
    <3> QED BY <1>3, <1>4, <3>4, <3>5, <3>6
  <2> QED BY <2>1, BeforeTotal
<1> QED BY <1>5

LEMMA LatestIs ==
  ASSUME NEW S \in SUBSET Names, IsFiniteSet(S), S # {}
  PROVE  Latest(S) \in S /\ \A y \in S \ {Latest(S)} : Before(y, Latest(S))
BY LatestExists DEF Latest

\* P is the n first entries of S.
Firsts(S, n, P) == Cardinality(P) = n /\ \A p \in P, q \in S \ P : Before(p, q)

LEMMA FirstIs ==
  ASSUME NEW S \in SUBSET Names, IsFiniteSet(S), NEW n \in Nat, n <= Cardinality(S)
  PROVE  First(S, n) \in SUBSET S /\ Firsts(S, n, First(S, n))
<1> DEFINE Bad == {i \in Nat : i <= Cardinality(S) /\ \A P \in SUBSET S : ~Firsts(S, i, P)}
<1>1. Cardinality(S) \in Nat
  BY FS_CardinalityType
<1>2. ASSUME Bad # {} PROVE FALSE
  <2>1. PICK i \in Bad : \A j \in Bad : i <= j
    BY <1>2, LeastNat
  <2>2. i \in Nat /\ i <= Cardinality(S) /\ \A P \in SUBSET S : ~Firsts(S, i, P)
    BY <2>1
  <2>3. Firsts(S, 0, {}) /\ {} \in SUBSET S
    BY FS_EmptySet DEF Firsts
  <2>4. i # 0
    BY <2>2, <2>3
  <2>5. /\ i - 1 \in Nat /\ i - 1 < i /\ i - 1 < Cardinality(S) /\ i - 1 <= Cardinality(S)
        /\ i - 1 \notin Bad
    BY <1>1, <2>1, <2>2, <2>4
  <2>6. PICK P \in SUBSET S : Firsts(S, i - 1, P)
    <3> DEFINE j == i - 1
    <3>1. j \in Nat /\ j <= Cardinality(S) /\ j \notin Bad
      BY <2>5
    <3> HIDE DEF j
    <3>2. \E P \in SUBSET S : Firsts(S, j, P)
      BY <3>1
    <3> QED BY <3>2 DEF j
  <2>7. IsFiniteSet(P) /\ IsFiniteSet(S \ P) /\ Cardinality(P) = i - 1
    BY <2>6, FS_Subset, FS_Difference DEF Firsts
  <2>8. S \ P # {}
    <3>1. P # S
      BY <1>1, <2>5, <2>7
    <3> QED BY <3>1
  <2>9. PICK x \in S \ P : \A y \in (S \ P) \ {x} : Before(x, y)
    BY <2>7, <2>8, EarliestExists
  <2>10. Cardinality(P \cup {x}) = Cardinality(P) + 1
    BY <2>7, FS_AddElement
  <2>11. \A p \in P \cup {x}, q \in S \ (P \cup {x}) : Before(p, q)
    BY <2>6, <2>9 DEF Firsts
  <2>12. Cardinality(P \cup {x}) = i
    BY <2>2, <2>7, <2>10
  <2>13. Firsts(S, i, P \cup {x}) /\ P \cup {x} \in SUBSET S
    BY <2>11, <2>12 DEF Firsts
  <2> QED BY <2>2, <2>13
<1>3. n \notin Bad
  BY <1>2
<1>4. \E P \in SUBSET S : Cardinality(P) = n /\ \A p \in P, q \in S \ P : Before(p, q)
  BY <1>3 DEF Firsts
<1> QED BY <1>4 DEF First, Firsts

-----------------------------------------------------------------------------
(* Paths, keys and folders.                                                *)

LEMMA PlacesAre ==
  /\ Places \subseteq Names /\ <<>> \notin Places /\ Null \notin Places
  /\ Paths \subseteq Places /\ Keys \subseteq Places
  /\ \A k \in Keys : \A i \in 1..Len(k) : SubSeq(k, 1, i) \in Places
<1>1. Paths \subseteq Names \ {<<>>} /\ Keys \subseteq Names \ {<<>>} /\ Null \notin Places
  BY ListingAssumption DEF Names
<1>2. \A k \in Keys : \A i \in 1..Len(k) : SubSeq(k, 1, i) \in Places
  BY DEF Places
<1>3. ASSUME NEW k \in Keys, NEW i \in 1..Len(k)
      PROVE  SubSeq(k, 1, i) \in Names /\ SubSeq(k, 1, i) # <<>>
  <2>1. Len(k) \in Nat /\ i \in 0..Len(k) /\ i # 0
    BY <1>1, LenIs
  <2> QED BY <1>1, <2>1, CutIs, EmptyIs
<1>4. ASSUME NEW k \in Keys PROVE k \in Places
  <2>1. SubSeq(k, 1, Len(k)) = k
    BY <1>1, SubSeqFull DEF Names
  <2>2. Len(k) \in 1..Len(k)
    BY <1>1, EmptyIs, LenIs
  <2> QED BY <1>2, <2>1, <2>2
<1>5. ASSUME NEW p \in Places PROVE p \in Names /\ p # <<>>
  <2>1. p \in Paths \/ \E k \in Keys : \E i \in 1..Len(k) : p = SubSeq(k, 1, i)
    BY DEF Places
  <2> QED BY <1>1, <1>3, <2>1
<1>6. Paths \subseteq Places
  BY DEF Places
<1> QED BY <1>1, <1>2, <1>4, <1>5, <1>6

LEMMA NamesAre ==
  ASSUME TypeOK
  PROVE  /\ prefix \in Names /\ files \subseteq Places /\ dirs \subseteq Places
         /\ cursor # Null => cursor \in Names
         /\ seen \subseteq Names /\ steady \subseteq Names
<1>1. files \subseteq Places /\ dirs \subseteq Places
  BY PlacesAre DEF TypeOK
<1> QED BY <1>1, PlacesAre, EmptyIs DEF TypeOK

LEMMA StoreIsFinite ==
  ASSUME TypeOK
  PROVE  IsFiniteSet(files) /\ IsFiniteSet(dirs) /\ IsFiniteSet(files \union dirs)
<1>1. IsFiniteSet(files) /\ IsFiniteSet(dirs)
  <2>1. CASE kind = "flat"
    BY <2>1, ListingAssumption, FS_Subset, FS_EmptySet DEF TypeOK
  <2>2. CASE kind = "filesystem"
    BY <2>2, ListingAssumption, FS_Subset DEF TypeOK
  <2> QED BY <2>1, <2>2 DEF TypeOK
<1> QED BY <1>1, FS_Union

-----------------------------------------------------------------------------
(* The flat stores' pages: what List keeps of the service's items.         *)

\* The folder of a delimited listing that k lies in.
LEMMA ItemIs ==
  ASSUME TypeOK, kind = "flat", NEW k \in files, IsPrefix(prefix, k)
  PROVE  /\ Item(k) \in Places
         /\ recursive => Item(k) = k
         /\ ~recursive /\ k = prefix => Item(k) = prefix
         /\ ~recursive /\ k # prefix =>
              /\ Len(k) > Len(prefix)
              /\ Item(k) = SubSeq(k, 1, Len(prefix) + 1) /\ Item(k) # prefix
              /\ Len(k) = Len(prefix) + 1 => Item(k) = k
              /\ Len(k) > Len(prefix) + 1 => Item(k) \notin Stubs
<1>1. k \in Keys /\ k \in Places /\ k \in Names /\ prefix \in Names
  BY NamesAre, PlacesAre DEF TypeOK
<1>2. Len(k) \in Nat /\ Len(prefix) \in Nat
  BY <1>1, LenIs
<1>3. CASE recursive \/ k = prefix
  BY <1>1, <1>3 DEF Item
<1>4. CASE ~recursive /\ k # prefix
  <2> DEFINE n == Len(prefix) + 1
             i == SubSeq(k, 1, n)
  <2>1. Len(k) > Len(prefix)
    BY <1>1, <1>4, PrefixIs DEF IsStrictPrefix
  <2>2. n \in 1..Len(k) /\ n \in 0..Len(k) /\ n \in Nat /\ n # Len(prefix)
    BY <1>2, <2>1
  <2>3. Item(k) = i
    BY <1>4 DEF Item
  <2>4. i \in Places /\ i \in Names /\ Len(i) = n /\ \A j \in 1..n : i[j] = k[j]
    BY <1>1, <2>2, PlacesAre, CutIs
  <2>5. i # prefix
    BY <2>2, <2>4
  <2>6. Len(k) = n => i = k
    BY <1>1, SubSeqFull DEF Names
  <2>7. ASSUME Len(k) > n PROVE i \notin Stubs
    <3>1. n \in 1..(Len(k) - 1) /\ n \in 1..n
      BY <1>2, <2>2, <2>7
    <3>2. k[n] \in FolderNames
      BY <1>1, <3>1, ListingAssumption
    <3>3. Last(i) = k[n]
      BY <2>4, <3>1 DEF Last
    <3> QED BY <3>2, <3>3, ListingAssumption
  <2> QED BY <1>4, <2>1, <2>3, <2>4, <2>5, <2>6, <2>7
<1> QED BY <1>3, <1>4

LEMMA ItemsAre ==
  ASSUME TypeOK, kind = "flat"
  PROVE  /\ Items \subseteq Places /\ IsFiniteSet(Items)
         /\ {i \in Items : ~Skipped(i)} = {e \in FlatEntries : AfterCursor(e)}
<1> DEFINE F == {l \in files : IsPrefix(prefix, l)}
           T == {Item(k) : k \in F}
           f == [k \in F |-> Item(k)]
<1>1. Items = {i \in T : AfterCursor(i)}
  BY DEF Items
<1>2. T \subseteq Places
  BY ItemIs
<1>3. IsFiniteSet(F)
  BY StoreIsFinite, FS_Subset
<1>4. f \in Surjection(F, T)
  BY DEF Surjection
<1>5. IsFiniteSet(T)
  BY <1>3, <1>4, FS_Surjection
<1>6. IsFiniteSet(Items)
  BY <1>1, <1>5, FS_Subset
<1>7. prefix \in Names /\ files \subseteq Names
  BY NamesAre, PlacesAre
<1>8. ASSUME NEW i \in T, ~Skipped(i) PROVE i \in FlatEntries
  <2>1. PICK k \in files : IsPrefix(prefix, k) /\ i = Item(k)
    OBVIOUS
  <2>2. CASE recursive
    BY <1>8, <2>1, <2>2, ItemIs DEF Skipped, FlatEntries
  <2>3. CASE ~recursive
    <3>1. i # prefix /\ i \notin Stubs
      BY <1>8, <2>3 DEF Skipped
    <3>2. k # prefix
      BY <2>1, <2>3, <3>1, ItemIs
    <3>3. /\ Len(k) > Len(prefix) /\ i = SubSeq(k, 1, Len(prefix) + 1)
          /\ Len(k) = Len(prefix) + 1 => i = k
      BY <2>1, <2>3, <3>2, ItemIs
    <3>4. CASE Len(k) = Len(prefix) + 1
      BY <2>1, <2>3, <3>1, <3>3, <3>4 DEF FlatEntries
    <3>5. CASE Len(k) # Len(prefix) + 1
      <4>1. Len(k) > Len(prefix) + 1
        BY <1>7, <3>3, <3>5, LenIs
      <4> QED BY <2>1, <2>3, <3>3, <4>1 DEF FlatEntries
    <3> QED BY <3>4, <3>5
  <2> QED BY <2>2, <2>3
<1>9. ASSUME NEW e \in FlatEntries PROVE e \in T /\ ~Skipped(e)
  <2>1. CASE recursive
    <3>1. e \in files /\ IsPrefix(prefix, e) /\ (Placeholder(e) => markers)
      BY <2>1 DEF FlatEntries
    <3> QED BY <2>1, <3>1, ItemIs DEF Skipped
  <2>2. CASE ~recursive
    <3>1. PICK k \in files : /\ IsPrefix(prefix, k)
                             /\ \/ Len(k) = Len(prefix) + 1 /\ k \notin Stubs /\ e = k
                                \/ Len(k) > Len(prefix) + 1 /\ e = SubSeq(k, 1, Len(prefix) + 1)
      BY <2>2 DEF FlatEntries
    <3>2. k # prefix
      BY <1>7, <3>1, LenIs
    <3>3. e = Item(k) /\ e # prefix /\ e \notin Stubs
      BY <2>2, <3>1, <3>2, ItemIs
    <3> QED BY <2>2, <3>1, <3>3 DEF Skipped
  <2> QED BY <2>1, <2>2
<1> HIDE DEF T
<1> QED BY <1>1, <1>2, <1>6, <1>8, <1>9

-----------------------------------------------------------------------------
(* The first entries of what is left.                                      *)

\* The first n of what is left, up to the latest of them.
LEMMA CutOff ==
  ASSUME NEW S \in SUBSET Places, IsFiniteSet(S), NEW n \in Nat \ {0}, n <= Cardinality(S)
  PROVE  LET P == First(S, n)  c == Latest(P) IN
         /\ P \subseteq S /\ c \in P /\ c # Null
         /\ \A e \in P : e = c \/ Before(e, c)
         /\ \A e \in S \ P : Before(c, e)
<1> DEFINE P == First(S, n)
<1>1. S \in SUBSET Names
  BY PlacesAre
<1>2. P \in SUBSET S /\ Firsts(S, n, P)
  BY <1>1, FirstIs
<1> HIDE DEF P
<1>3. IsFiniteSet(P) /\ Cardinality(P) = n /\ P # {}
  BY <1>2, FS_Subset, FS_EmptySet DEF Firsts
<1>4. Latest(P) \in P /\ \A e \in P \ {Latest(P)} : Before(e, Latest(P))
  BY <1>1, <1>2, <1>3, LatestIs
<1>5. \A e \in S \ P : Before(Latest(P), e)
  BY <1>2, <1>4 DEF Firsts
<1>6. Latest(P) # Null
  BY <1>2, <1>4, PlacesAre
<1> QED BY <1>2, <1>4, <1>5, <1>6 DEF P

-----------------------------------------------------------------------------
(* Entries of a directory tree.                                            *)

LEMMA EntryIs ==
  ASSUME TypeOK, kind = "filesystem", NEW e \in Entries
  PROVE  /\ e \in files \union dirs /\ e \in Paths /\ e \in Names /\ e # <<>> /\ prefix \in Names
         /\ IsStrictPrefix(prefix, e) /\ IsDir(prefix)
         /\ recursive => e \in files
         /\ ~recursive => Front(e) = prefix
         /\ \A q \in Names : q # <<>> /\ IsStrictPrefix(q, e) => q \in dirs /\ q \notin files
         /\ \A i \in 1..Len(e) : (recursive /\ i >= Len(prefix)) \/ i = Len(e) => e[i] \notin TempNames
<1>1. /\ e \in FilesystemEntries /\ e \in files \union dirs /\ e \in Paths
      /\ files \subseteq Paths /\ dirs \subseteq Paths /\ files \cap dirs = {}
  BY DEF Entries, FilesystemEntries, TypeOK
<1>2. e \in Names /\ e # <<>> /\ prefix \in Names
  BY <1>1, PlacesAre, NamesAre
<1>3. IsStrictPrefix(prefix, e)
  BY <1>1, <1>2, FrontIsAbove DEF FilesystemEntries
<1>4. Ancestors(e) \subseteq dirs
  BY <1>1 DEF TypeOK
<1>5. \A q \in Names : q # <<>> /\ IsStrictPrefix(q, e) => q \in dirs /\ q \notin files
  BY <1>1, <1>2, <1>4, AncestorsAre
<1>6. IsDir(prefix)
  BY <1>2, <1>3, <1>5 DEF IsDir
<1>7. /\ recursive => e \in files
      /\ ~recursive => Front(e) = prefix
      /\ ~Hidden(e)
  BY <1>1 DEF FilesystemEntries
<1>8. Len(e) \in Nat /\ Len(prefix) \in Nat /\ DOMAIN e = 1..Len(e) /\ Len(prefix) < Len(e)
  BY <1>2, <1>3, LenIs, PrefixIs
<1>9. ASSUME NEW i \in 1..Len(e), (recursive /\ i >= Len(prefix)) \/ i = Len(e)
      PROVE  e[i] \notin TempNames
  <2>1. i >= IF recursive THEN Len(prefix) ELSE Len(e)
    <3>1. i = Len(e) => i >= Len(e) /\ i >= Len(prefix)
      BY <1>8
    <3>2. CASE recursive
      BY <1>9, <3>1, <3>2
    <3>3. CASE ~recursive
      BY <1>9, <3>1, <3>3
    <3> QED BY <3>2, <3>3
  <2> QED BY <1>7, <1>8, <2>1 DEF Hidden
<1> QED BY <1>1, <1>2, <1>3, <1>5, <1>6, <1>7, <1>9

\* What ReadDir finds belongs to the listing, unless some name hides it.
LEMMA ChildIs ==
  ASSUME TypeOK, kind = "filesystem", NEW d \in Names, NEW p \in Under(d, files \union dirs)
  PROVE  /\ p \in Names /\ p # <<>> /\ p \in Paths /\ Front(p) = d /\ IsStrictPrefix(d, p)
         /\ Len(p) = Len(d) + 1 /\ \A i \in 1..Len(d) : p[i] = d[i]
         /\ \A q \in Names : q # <<>> /\ IsStrictPrefix(q, p) => q \in dirs
<1>1. p \in files \union dirs /\ Front(p) = d
  BY DEF Under
<1>2. p \in Paths /\ p \in Names /\ p # <<>>
  BY <1>1, PlacesAre DEF TypeOK
<1>3. Ancestors(p) \subseteq dirs
  BY <1>1 DEF TypeOK
<1>4. /\ Len(p) >= 1 /\ Len(d) = Len(p) - 1 /\ Len(p) \in Nat /\ Len(d) \in Nat
      /\ \A i \in 1..(Len(p) - 1) : d[i] = p[i]
  BY <1>1, <1>2, FrontIs, LenIs
<1>5. Len(p) = Len(d) + 1 /\ \A i \in 1..Len(d) : p[i] = d[i]
  BY <1>4
<1> QED BY <1>1, <1>2, <1>3, <1>5, FrontIsAbove, AncestorsAre

-----------------------------------------------------------------------------
(* What a List call returns.                                               *)

\* Entries that come after the old cursor and not after the new one; and of
\* what was always there, what came after the old cursor is returned or comes
\* after the new one, unless a file has replaced a directory under the walk.
GoodReturn(P, c) ==
  /\ P \subseteq Places
  /\ c # Null => c \in Places /\ AfterCursor(c)
  /\ \A e \in P : AfterCursor(e) /\ (c # Null => e = c \/ Before(e, c))
  /\ \/ c = Null /\ replaced
     \/ \A e \in steady : e \in seen \/ AfterCursor(e) =>
          e \in seen \union P \/ (c # Null /\ Before(c, e))

\* While pages are still to come, the cursor separates what has been returned
\* from what has not.
Progress ==
  /\ steady \subseteq Entries
  /\ outcome = "more" =>
       /\ \A e \in steady : e \in seen \/ AfterCursor(e)
       /\ \A e \in seen : cursor # Null /\ (e = cursor \/ Before(e, cursor))
  /\ ListsOnce
  /\ ListsEverythingSteady

LEMMA ReturnIs ==
  ASSUME NEW P, NEW c, Return(P, c)
  PROVE  /\ UNCHANGED <<kind, files, dirs, prefix, recursive, markers, changes, steady, replaced>>
         /\ seen' = seen \union P /\ cursor' = c /\ repeated' = repeated \union (seen \cap P)
         /\ outcome' \in {"more", "listed", "refused"}
         /\ outcome' = "more" => c # Null
         /\ outcome' = "listed" => c = Null
         /\ phase' = "idle" /\ pendingFiles' = {} /\ pendingDirs' = {} /\ page' = {}
         /\ during' = {} /\ gone' = {}
BY DEF Return, store, opts

LEMMA SameEntries ==
  ASSUME UNCHANGED <<kind, files, dirs, prefix, recursive, markers>>
  PROVE  Entries' = Entries
BY DEF Entries, FlatEntries, FilesystemEntries, Placeholder, Hidden

LEMMA ReturnType ==
  ASSUME TypeOK, NEW P, NEW c, Return(P, c), GoodReturn(P, c) PROVE TypeOK'
<1>1. /\ UNCHANGED <<kind, files, dirs, prefix, recursive, markers, changes, steady, replaced>>
      /\ seen' = seen \union P /\ cursor' = c /\ repeated' = repeated \union (seen \cap P)
      /\ outcome' \in {"more", "listed", "refused"}
      /\ phase' = "idle" /\ pendingFiles' = {} /\ pendingDirs' = {} /\ page' = {}
      /\ during' = {} /\ gone' = {}
  BY ReturnIs
<1>2. P \subseteq Places /\ c \in Places \union {Null}
  BY DEF GoodReturn
<1>3. Cardinality(page') <= Limit + 1
  BY <1>1, FS_EmptySet, ListingAssumption
<1> QED BY <1>1, <1>2, <1>3 DEF TypeOK

LEMMA ReturnProgress ==
  ASSUME TypeOK, Progress, outcome = "more", NEW P, NEW c, Return(P, c), GoodReturn(P, c)
  PROVE  Progress'
<1>1. /\ UNCHANGED <<kind, files, dirs, prefix, recursive, markers, steady, replaced>>
      /\ seen' = seen \union P /\ cursor' = c /\ repeated' = repeated \union (seen \cap P)
      /\ outcome' = "more" => c # Null
      /\ outcome' = "listed" => c = Null
  BY ReturnIs
<1>2. /\ \A e \in steady : e \in seen \/ AfterCursor(e)
      /\ \A e \in seen : cursor # Null /\ (e = cursor \/ Before(e, cursor))
  BY DEF Progress
<1>3. /\ P \subseteq Places
      /\ c # Null => c \in Places /\ AfterCursor(c)
      /\ \A e \in P : AfterCursor(e) /\ (c # Null => e = c \/ Before(e, c))
      /\ \/ c = Null /\ replaced
         \/ \A e \in steady : e \in seen' \/ (c # Null /\ Before(c, e))
  BY <1>1, <1>2 DEF GoodReturn
<1>4. ASSUME c # Null, NEW e \in seen' PROVE e = c \/ Before(e, c)
  <2>1. CASE e \in P
    BY <1>3, <1>4, <2>1
  <2>2. CASE e \in seen
    <3>1. cursor # Null /\ (e = cursor \/ Before(e, cursor))
      BY <1>2, <2>2
    <3>2. Before(cursor, c)
      BY <1>3, <1>4, <3>1 DEF AfterCursor
    <3>3. e \in Names /\ cursor \in Names /\ c \in Names
      BY <1>3, <1>4, <2>2, <3>1, NamesAre, PlacesAre
    <3> QED BY <3>1, <3>2, <3>3, BeforeTransitive
  <2> QED BY <1>1, <1>4, <2>1, <2>2
<1>5. ASSUME NEW e \in seen, e \in P PROVE FALSE
  <2>1. cursor # Null /\ (e = cursor \/ Before(e, cursor)) /\ Before(cursor, e)
    BY <1>2, <1>3, <1>5 DEF AfterCursor
  <2>2. e \in Names /\ cursor \in Names
    BY <2>1, NamesAre
  <2> QED BY <2>1, <2>2, BeforeIrreflexive, BeforeAsymmetric
<1>6. ListsOnce'
  BY <1>1, <1>5 DEF Progress, ListsOnce
<1>7. outcome' = "more" => \A e \in steady' : e \in seen' \/ AfterCursor(e)'
  BY <1>1, <1>3 DEF AfterCursor
<1>8. outcome' = "more" => \A e \in seen' : cursor' # Null /\ (e = cursor' \/ Before(e, cursor'))
  BY <1>1, <1>4
<1>9. ListsEverythingSteady'
  BY <1>1, <1>3 DEF ListsEverythingSteady
<1>10. steady' \subseteq Entries'
  BY <1>1, SameEntries DEF Progress
<1> QED BY <1>6, <1>7, <1>8, <1>9, <1>10 DEF Progress

\* Nothing that was always there is left out where there is nothing.
LEMMA NothingThere ==
  ASSUME TypeOK, NEW P, P \subseteq Places, \A e \in P : AfterCursor(e), steady = {}
  PROVE  GoodReturn(P, Null)
BY DEF GoodReturn

\* The flat stores' pages.
LEMMA FlatReturn ==
  ASSUME TypeOK, kind = "flat", steady \subseteq Entries, NEW r \in FlatPages
  PROVE  GoodReturn(r.entries, r.cursor) /\ r.entries \subseteq Entries
<1>1. Entries = FlatEntries
  BY DEF Entries
<1>2. /\ \A i \in Items : ~Skipped(i) => i \in Entries
      /\ \A i \in Items : AfterCursor(i)
      /\ \A e \in Entries : AfterCursor(e) => e \in Items /\ ~Skipped(e)
      /\ Items \subseteq Places /\ IsFiniteSet(Items)
  BY <1>1, ItemsAre DEF Items
<1>3. \/ \E n \in 1..Limit :
           n <= Cardinality(Items) /\ r = Page(First(Items, n), Latest(First(Items, n)))
      \/ r = Page(Items, Null)
  BY DEF FlatPages
<1>4. ASSUME NEW n \in 1..Limit, n <= Cardinality(Items),
             r = Page(First(Items, n), Latest(First(Items, n)))
      PROVE  GoodReturn(r.entries, r.cursor) /\ r.entries \subseteq Entries
  <2> DEFINE P == First(Items, n)
             c == Latest(P)
  <2>1. r.entries = {i \in P : ~Skipped(i)} /\ r.cursor = c
    BY <1>4 DEF Page
  <2>2. n \in Nat \ {0}
    BY ListingAssumption
  <2>3. /\ P \subseteq Items /\ c \in P /\ c # Null
        /\ \A e \in P : e = c \/ Before(e, c)
        /\ \A e \in Items \ P : Before(c, e)
    BY <1>2, <1>4, <2>2, CutOff
  <2> HIDE DEF P, c
  <2> QED BY <1>2, <2>1, <2>3 DEF GoodReturn
<1>5. CASE r = Page(Items, Null)
  <2>1. r.entries = {i \in Items : ~Skipped(i)} /\ r.cursor = Null
    BY <1>5 DEF Page
  <2> QED BY <1>2, <2>1 DEF GoodReturn
<1> QED BY <1>3, <1>4, <1>5

-----------------------------------------------------------------------------
(* A call of the filesystem's List under way.                              *)

\* What is found at or under p when its turn comes.
Covers(p, e) == IF ToRead(p) THEN IsStrictPrefix(p, e) ELSE p = e

\* Everything pending belongs below the prefix; walk begins with the prefix.
Inside ==
  \A p \in Pending :
    /\ p \in Names
    /\ IF recursive THEN (p = prefix /\ p \in pendingDirs) \/ IsStrictPrefix(prefix, p)
                    ELSE p # <<>> /\ Front(p) = prefix

\* Where walk goes down, there was a directory when it read of it.
WereDirs ==
  recursive => \A p \in Pending : \A q \in Names :
    IsStrictPrefix(prefix, q) /\ (IsStrictPrefix(q, p) \/ (q = p /\ p \in pendingDirs))
      => q \in dirs \union gone

\* No name above p is a temporary file's.
NoTemps ==
  recursive => \A p \in Pending : p # prefix =>
    \A i \in 1..(Len(p) - 1) : i >= Len(prefix) => p[i] \notin TempNames

\* What will be taken for an entry was one when it was read.
InTime == \A p \in Pending : ~ToRead(p) /\ Last(p) \notin TempNames => p \in during

\* No pending path lies above another.
Apart == \A p \in Pending, q \in Pending : ~IsStrictPrefix(p, q)

\* The page lies before all that is pending.
PageFirst == \A e \in page, p \in Pending : Before(e, p)

PageGood == \A e \in page : e \in during /\ AfterCursor(e)

\* What was always there is returned, on the page or still to come.
Covered ==
  \A e \in steady : e \in seen \/ e \in page \/ \E p \in Pending : Covers(p, e)

VisitInv ==
  /\ Inside /\ WereDirs /\ NoTemps /\ InTime /\ Apart
  /\ PageFirst /\ PageGood /\ Covered

CallInv ==
  /\ \A q \in gone : q \in files /\ recursive /\ IsStrictPrefix(prefix, q) => replaced
  /\ phase # "idle" => Entries \subseteq during
  /\ phase = "visit" => VisitInv

IInv == TypeOK /\ Progress /\ CallInv

LEMMA ReturnCall == ASSUME NEW P, NEW c, Return(P, c) PROVE CallInv'
BY ReturnIs DEF CallInv

\* A visit leaves everything else alone.
LEMMA VisitedIs ==
  ASSUME NEW p, NEW F, NEW D, Visited(p, F, D)
  PROVE  /\ UNCHANGED <<kind, files, dirs, prefix, recursive, markers, changes, steady,
                        during, gone, replaced, cursor, seen, outcome, repeated, phase>>
         /\ pendingFiles' = (pendingFiles \ {p}) \union F
         /\ pendingDirs' = (pendingDirs \ {p}) \union D
BY DEF Visited, store, opts, asked, past

LEMMA VisitedProgress ==
  ASSUME Progress, NEW p, NEW F, NEW D, Visited(p, F, D) PROVE Progress'
<1>1. UNCHANGED <<kind, files, dirs, prefix, recursive, markers, steady, replaced, cursor, seen,
                  outcome, repeated>>
  BY VisitedIs
<1>2. Entries' = Entries
  BY <1>1, SameEntries
<1> QED BY <1>1, <1>2 DEF Progress, AfterCursor, ListsOnce, ListsEverythingSteady

LEMMA VisitedType ==
  ASSUME TypeOK, phase = "visit", NEW p, NEW F \in SUBSET Paths, NEW D \in SUBSET Paths,
         F \cap D = {}, (F \union D) \cap Pending = {}, Visited(p, F, D),
         page' \subseteq Paths, Cardinality(page') <= Limit + 1
  PROVE  TypeOK'
<1>1. /\ UNCHANGED <<kind, files, dirs, prefix, recursive, markers, changes, steady,
                     during, gone, replaced, cursor, seen, outcome, repeated, phase>>
      /\ pendingFiles' = (pendingFiles \ {p}) \union F
      /\ pendingDirs' = (pendingDirs \ {p}) \union D
  BY VisitedIs
<1>2. pendingFiles' \subseteq Paths /\ pendingDirs' \subseteq Paths \union {<<>>}
  BY <1>1 DEF TypeOK
<1>3. pendingFiles' \cap pendingDirs' = {}
  BY <1>1 DEF TypeOK, Pending
<1> QED BY <1>1, <1>2, <1>3 DEF TypeOK

\* What the turn of p means.
LEMMA TurnIs ==
  ASSUME IInv, NEW p, Visiting(p)
  PROVE  /\ phase = "visit" /\ VisitInv /\ kind = "filesystem" /\ outcome = "more"
         /\ p \in Pending /\ p \in Names /\ Pending \subseteq Names /\ ~Full(page)
         /\ prefix \in Names /\ p \in Paths \union {<<>>}
         /\ \A q \in Pending \ {p} : Before(p, q)
         /\ ~ToRead(p) => p \in Paths /\ p # <<>>
<1>1. phase = "visit" /\ p \in Pending /\ ~Full(page) /\ \A q \in Pending \ {p} : Before(p, q)
  BY DEF Visiting
<1>2. VisitInv /\ TypeOK
  BY <1>1 DEF IInv, CallInv
<1>3. Pending \subseteq Names /\ prefix \in Names /\ p \in Paths \union {<<>>}
  BY <1>1, <1>2, NamesAre DEF VisitInv, Inside, TypeOK, Pending
<1>4. kind = "filesystem" /\ outcome = "more"
  BY <1>1, <1>2 DEF TypeOK
<1>5. ASSUME ~ToRead(p) PROVE p \in Paths /\ p # <<>>
  <2>1. CASE recursive
    <3>1. p \in pendingFiles
      BY <1>1, <1>5, <2>1 DEF ToRead, Pending
    <3> QED BY <1>2, <3>1, PlacesAre DEF TypeOK
  <2>2. CASE ~recursive
    BY <1>1, <1>2, <1>3, <2>2 DEF VisitInv, Inside
  <2> QED BY <2>1, <2>2
<1> QED BY <1>1, <1>2, <1>3, <1>4, <1>5

\* The parts of VisitInv that are about what is pending, when p is done with.
LEMMA DoneWith ==
  ASSUME VisitInv, NEW p, Visited(p, {}, {})
  PROVE  /\ Pending' = Pending \ {p}
         /\ \A q \in Pending' : \A e : Covers(q, e)' = Covers(q, e)
         /\ Inside' /\ WereDirs' /\ NoTemps' /\ InTime' /\ Apart'
<1>1. /\ UNCHANGED <<kind, files, dirs, prefix, recursive, markers, changes, steady,
                     during, gone, replaced, cursor, seen, outcome, repeated, phase>>
      /\ pendingFiles' = pendingFiles \ {p} /\ pendingDirs' = pendingDirs \ {p}
  BY VisitedIs
<1>2. Pending' = Pending \ {p}
  BY <1>1 DEF Pending
<1>3. \A q \in Pending' : (q \in pendingDirs') = (q \in pendingDirs)
  BY <1>1, <1>2
<1>4. \A q \in Pending' : ToRead(q)' = ToRead(q)
  BY <1>1, <1>3 DEF ToRead
<1>5. \A q \in Pending' : \A e : Covers(q, e)' = Covers(q, e)
  BY <1>4 DEF Covers
<1>6. Inside'
  BY <1>1, <1>2, <1>3 DEF VisitInv, Inside
<1>7. WereDirs'
  BY <1>1, <1>2, <1>3 DEF VisitInv, WereDirs
<1>8. NoTemps'
  BY <1>1, <1>2 DEF VisitInv, NoTemps
<1>9. InTime'
  BY <1>1, <1>2, <1>4 DEF VisitInv, InTime
<1>10. Apart'
  BY <1>1, <1>2 DEF VisitInv, Apart
<1> QED BY <1>2, <1>5, <1>6, <1>7, <1>8, <1>9, <1>10

\* A turn that adds nothing to the page, and loses nothing that was always there.
LEMMA TurnWithoutEntry ==
  ASSUME IInv, NEW p, Visiting(p), Visited(p, {}, {}), UNCHANGED page,
         \A e \in steady : Covers(p, e) => e \in seen
  PROVE  IInv'
<1>1. /\ UNCHANGED <<kind, files, dirs, prefix, recursive, markers, changes, steady,
                     during, gone, replaced, cursor, seen, outcome, repeated, phase>>
  BY VisitedIs
<1>2. phase = "visit" /\ VisitInv /\ TypeOK /\ Progress /\ CallInv
  BY TurnIs DEF IInv
<1>3. /\ Pending' = Pending \ {p}
      /\ \A q \in Pending' : \A e : Covers(q, e)' = Covers(q, e)
      /\ Inside' /\ WereDirs' /\ NoTemps' /\ InTime' /\ Apart'
  BY <1>2, DoneWith
<1>4. PageFirst' /\ PageGood'
  BY <1>1, <1>2, <1>3 DEF VisitInv, PageFirst, PageGood, AfterCursor
<1>5. Covered'
  <2>1. ASSUME NEW e \in steady PROVE e \in seen \/ e \in page \/ \E q \in Pending' : Covers(q, e)'
    BY <1>2, <1>3, <2>1 DEF VisitInv, Covered
  <2> QED BY <1>1, <2>1 DEF Covered
<1>6. TypeOK'
  <2>1. page \subseteq Paths /\ Cardinality(page) <= Limit + 1
    BY <1>2 DEF TypeOK
  <2> QED BY <1>2, <2>1, VisitedType
<1>7. CallInv'
  BY <1>1, <1>2, <1>3, <1>4, <1>5, SameEntries DEF CallInv, VisitInv
<1>8. Progress'
  BY <1>2, VisitedProgress
<1> QED BY <1>6, <1>7, <1>8 DEF IInv

\* What walk or listDir ignores holds nothing that is still to be returned.
LEMMA IgnoredIs ==
  ASSUME IInv, NEW p, Visiting(p), Ignored(p), NEW e \in steady, Covers(p, e)
  PROVE  e \in seen
<1>1. /\ VisitInv /\ kind = "filesystem" /\ outcome = "more" /\ p \in Pending /\ p \in Names
      /\ prefix \in Names /\ p # <<>> /\ TypeOK /\ e \in Entries
  BY TurnIs DEF IInv, Progress, Ignored
<1>2. /\ e \in Names
      /\ \A i \in 1..Len(e) : (recursive /\ i >= Len(prefix)) \/ i = Len(e) => e[i] \notin TempNames
  BY <1>1, EntryIs
<1>3. Len(p) \in Nat /\ Len(e) \in Nat /\ Len(prefix) \in Nat /\ Len(p) # 0
  BY <1>1, <1>2, LenIs, EmptyIs
<1>4. CASE Last(p) \in TempNames
  <2>1. p[Len(p)] \in TempNames
    BY <1>4 DEF Last
  <2>2. CASE ToRead(p)
    <3>1. IsStrictPrefix(p, e) /\ recursive
      BY <2>2 DEF Covers, ToRead
    <3>2. Len(p) < Len(e) /\ Agree(p, e, Len(p))
      BY <1>1, <1>2, <3>1, PrefixIs
    <3>3. e[Len(p)] \in TempNames
      BY <1>3, <2>1, <3>2 DEF Agree
    <3>4. Len(prefix) <= Len(p)
      <4>1. p = prefix \/ IsStrictPrefix(prefix, p)
        BY <1>1, <3>1 DEF VisitInv, Inside
      <4>2. IsStrictPrefix(prefix, p) => Len(prefix) < Len(p)
        BY <1>1, PrefixIs
      <4> QED BY <1>3, <4>1, <4>2
    <3>5. Len(p) \in 1..Len(e) /\ Len(p) >= Len(prefix)
      BY <1>3, <3>2, <3>4
    <3> QED BY <1>2, <3>1, <3>3, <3>5
  <2>3. CASE ~ToRead(p)
    <3>1. p = e
      BY <2>3 DEF Covers
    <3>2. Len(e) \in 1..Len(e)
      BY <1>3, <3>1
    <3> QED BY <1>2, <2>1, <3>1, <3>2
  <2> QED BY <2>2, <2>3
<1>5. CASE ToRead(p) /\ SkippedDir(p)
  <2>1. cursor # Null /\ Before(p, cursor) /\ ~IsStrictPrefix(p, cursor) /\ IsStrictPrefix(p, e)
    BY <1>5 DEF SkippedDir, Covers
  <2>2. cursor \in Names
    BY <1>1, <2>1, NamesAre
  <2>3. Before(e, cursor)
    BY <1>1, <1>2, <2>1, <2>2, BelowIsBefore
  <2>4. ~AfterCursor(e)
    BY <1>2, <2>1, <2>2, <2>3, BeforeAsymmetric DEF AfterCursor
  <2> QED BY <1>1, <2>4 DEF IInv, Progress
<1>6. CASE ~ToRead(p) /\ ~AfterCursor(p)
  <2>1. p = e
    BY <1>6 DEF Covers
  <2> QED BY <1>1, <1>6, <2>1 DEF IInv, Progress
<1> QED BY <1>4, <1>5, <1>6 DEF Ignored

LEMMA SkipKeeps == ASSUME IInv, NEW p, Skip(p) PROVE IInv'
BY TurnWithoutEntry, IgnoredIs DEF Skip

\* What was always there does not vanish.
LEMMA VanishedKeeps == ASSUME IInv, NEW p, Vanished(p) PROVE IInv'
<1>1. Visiting(p) /\ Missing(p) /\ Visited(p, {}, {}) /\ UNCHANGED page
  BY DEF Vanished
<1>2. ASSUME NEW e \in steady, Covers(p, e) PROVE FALSE
  <2>1. kind = "filesystem" /\ p \in Names /\ e \in Entries /\ TypeOK
    BY <1>1, TurnIs DEF IInv, Progress
  <2>2. p \notin files \union dirs /\ p # <<>>
    BY <1>1 DEF Missing
  <2>3. e \in files \union dirs /\ (IsStrictPrefix(p, e) => p \in dirs)
    BY <2>1, <2>2, EntryIs
  <2> QED BY <1>2, <2>2, <2>3 DEF Covers
<1> QED BY <1>1, <1>2, TurnWithoutEntry

LEMMA CollectKeeps == ASSUME IInv, NEW p, Collect(p) PROVE IInv'
<1>1. Visiting(p) /\ ~Ignored(p) /\ ~ToRead(p) /\ page' = page \union {p} /\ Visited(p, {}, {})
  BY DEF Collect
<1>2. /\ phase = "visit" /\ VisitInv /\ p \in Pending /\ p \in Paths /\ p # <<>> /\ ~Full(page)
      /\ \A q \in Pending \ {p} : Before(p, q)
      /\ TypeOK /\ Progress /\ CallInv
  BY <1>1, TurnIs DEF IInv
<1>3. UNCHANGED <<kind, files, dirs, prefix, recursive, markers, changes, steady,
                  during, gone, replaced, cursor, seen, outcome, repeated, phase>>
  BY <1>1, VisitedIs
<1>4. /\ Pending' = Pending \ {p}
      /\ \A q \in Pending' : \A e : Covers(q, e)' = Covers(q, e)
      /\ Inside' /\ WereDirs' /\ NoTemps' /\ InTime' /\ Apart'
  BY <1>1, <1>2, DoneWith
<1>5. AfterCursor(p) /\ p \in during
  BY <1>1, <1>2 DEF Ignored, VisitInv, InTime
<1>6. PageFirst' /\ PageGood'
  BY <1>1, <1>2, <1>3, <1>4, <1>5 DEF VisitInv, PageFirst, PageGood, AfterCursor
<1>7. Covered'
  <2>1. ASSUME NEW e \in steady PROVE e \in seen \/ e \in page' \/ \E q \in Pending' : Covers(q, e)'
    <3>1. Covers(p, e) => e = p
      BY <1>1 DEF Covers
    <3> QED BY <1>1, <1>2, <1>4, <2>1, <3>1 DEF VisitInv, Covered
  <2> QED BY <1>3, <2>1 DEF Covered
<1>8. page' \subseteq Paths /\ Cardinality(page') <= Limit + 1
  <2>1. page \subseteq Paths /\ IsFiniteSet(page) /\ Cardinality(page) \in Nat /\ Limit \in Nat
    BY <1>2, ListingAssumption, FS_Subset, FS_CardinalityType DEF TypeOK
  <2>2. Cardinality(page) <= Limit
    BY <1>2, <2>1 DEF Full
  <2>3. Cardinality(page \union {p}) <= Cardinality(page) + 1
    BY <2>1, FS_AddElement
  <2>4. Cardinality(page') \in Nat
    BY <1>1, <2>1, FS_AddElement, FS_CardinalityType
  <2> QED BY <1>1, <1>2, <2>1, <2>2, <2>3, <2>4
<1>9. TypeOK'
  BY <1>1, <1>2, <1>8, VisitedType
<1>10. CallInv'
  BY <1>2, <1>3, <1>4, <1>6, <1>7, SameEntries DEF CallInv, VisitInv
<1>11. Progress'
  BY <1>1, <1>2, VisitedProgress
<1> QED BY <1>9, <1>10, <1>11 DEF IInv

\* What walk reads in a directory takes its place.
LEMMA ReadFolderKeeps == ASSUME IInv, NEW p, ReadFolder(p) PROVE IInv'
<1> DEFINE F == Under(p, files)
           D == Under(p, dirs)
<1>1. Visiting(p) /\ ~Ignored(p) /\ ToRead(p) /\ IsDir(p) /\ Visited(p, F, D) /\ UNCHANGED page
  BY DEF ReadFolder
<1>2. /\ phase = "visit" /\ VisitInv /\ kind = "filesystem" /\ p \in Pending /\ p \in Names
      /\ Pending \subseteq Names /\ prefix \in Names /\ TypeOK /\ Progress /\ CallInv
      /\ \A q \in Pending \ {p} : Before(p, q)
  BY <1>1, TurnIs DEF IInv
<1>3. UNCHANGED <<kind, files, dirs, prefix, recursive, markers, changes, steady,
                  during, gone, replaced, cursor, seen, outcome, repeated, phase>>
  BY <1>1, VisitedIs
<1>4. recursive /\ p \in pendingDirs
  BY <1>1 DEF ToRead
<1>5. ASSUME NEW q \in F \union D
      PROVE  /\ q \in Names /\ q # <<>> /\ q \in Paths /\ Front(q) = p /\ IsStrictPrefix(p, q)
             /\ Len(q) = Len(p) + 1 /\ \A i \in 1..Len(p) : q[i] = p[i]
             /\ \A r \in Names : r # <<>> /\ IsStrictPrefix(r, q) => r \in dirs
             /\ q \notin Pending
  <2>1. q \in Under(p, files \union dirs)
    BY DEF Under
  <2>2. IsStrictPrefix(p, q)
    BY <1>2, <2>1, ChildIs
  <2>3. q \notin Pending
    BY <1>2, <2>2 DEF VisitInv, Apart
  <2> QED BY <1>2, <2>1, <2>3, ChildIs
<1>6. F \subseteq files /\ D \subseteq dirs /\ F \cap D = {} /\ (F \union D) \cap Pending = {}
  BY <1>2, <1>5 DEF Under, TypeOK
<1>7. /\ pendingFiles' = (pendingFiles \ {p}) \union F
      /\ pendingDirs' = (pendingDirs \ {p}) \union D
  BY <1>1, VisitedIs
<1> HIDE DEF F, D
<1>8. Pending' = (Pending \ {p}) \union F \union D
  BY <1>7 DEF Pending
<1>9. /\ \A q \in Pending \ {p} : (q \in pendingDirs') = (q \in pendingDirs)
      /\ \A q \in Pending \ {p} : ToRead(q)' = ToRead(q)
      /\ \A q \in Pending \ {p} : \A e : Covers(q, e)' = Covers(q, e)
  <2>1. \A q \in Pending \ {p} : (q \in pendingDirs') = (q \in pendingDirs)
    BY <1>6, <1>7
  <2>2. \A q \in Pending \ {p} : ToRead(q)' = ToRead(q)
    BY <1>3, <2>1 DEF ToRead
  <2> QED BY <2>1, <2>2 DEF Covers
<1>10. p = prefix \/ IsStrictPrefix(prefix, p)
  BY <1>2, <1>4 DEF VisitInv, Inside
<1>11. Inside'
  <2>1. ASSUME NEW q \in F \union D PROVE q \in Names /\ IsStrictPrefix(prefix, q)
    BY <1>2, <1>5, <1>10, StrictTransitive
  <2> QED BY <1>2, <1>3, <1>4, <1>8, <1>9, <2>1 DEF VisitInv, Inside
<1>12. WereDirs'
  <2>1. ASSUME NEW q \in F \union D, NEW r \in Names, IsStrictPrefix(prefix, r),
               IsStrictPrefix(r, q) \/ (r = q /\ q \in pendingDirs')
        PROVE  r \in dirs \union gone
    <3>1. r # <<>>
      BY <1>2, <2>1, PrefixIs, LenIs, EmptyIs
    <3>2. CASE IsStrictPrefix(r, q)
      BY <1>5, <3>1, <3>2
    <3>3. CASE r = q /\ q \in pendingDirs'
      <4>1. q \in D
        BY <1>5, <1>7, <3>3 DEF Pending
      <4> QED BY <1>6, <3>3, <4>1
    <3> QED BY <2>1, <3>2, <3>3
  <2>2. ASSUME NEW q \in Pending \ {p}, NEW r \in Names, IsStrictPrefix(prefix, r),
               IsStrictPrefix(r, q) \/ (r = q /\ q \in pendingDirs')
        PROVE  r \in dirs \union gone
    BY <1>2, <1>4, <1>9, <2>2 DEF VisitInv, WereDirs
  <2> QED BY <1>3, <1>8, <2>1, <2>2 DEF WereDirs
<1>13. ASSUME NEW q \in F \union D, NEW i \in 1..(Len(q) - 1), i >= Len(prefix)
       PROVE  q[i] \notin TempNames
  <2>1. Len(p) \in Nat /\ Len(prefix) \in Nat /\ Len(q) = Len(p) + 1
    BY <1>2, <1>5, LenIs
  <2>2. i \in 1..Len(p) /\ q[i] = p[i] /\ i \in Nat
    BY <1>5, <2>1
  <2>3. p # <<>>
    BY <2>1, <2>2, EmptyIs
  <2>4. p[Len(p)] \notin TempNames
    BY <1>1, <2>3 DEF Ignored, Last
  <2>5. CASE i = Len(p)
    BY <2>2, <2>4, <2>5
  <2>6. CASE i # Len(p)
    <3>1. i \in 1..(Len(p) - 1)
      BY <2>1, <2>2, <2>6
    <3>2. p # prefix
      BY <1>13, <2>1, <3>1
    <3> QED BY <1>2, <1>4, <1>13, <2>2, <3>1, <3>2 DEF VisitInv, NoTemps
  <2> QED BY <2>5, <2>6
<1>14. NoTemps'
  <2>1. \A q \in Pending \ {p} : q # prefix =>
          \A i \in 1..(Len(q) - 1) : i >= Len(prefix) => q[i] \notin TempNames
    BY <1>2, <1>4 DEF VisitInv, NoTemps
  <2> QED BY <1>3, <1>8, <1>13, <2>1 DEF NoTemps
<1>15. InTime'
  <2>1. ASSUME NEW q \in F \union D, ~ToRead(q)', Last(q) \notin TempNames PROVE q \in during
    <3>1. q \in F
      BY <1>3, <1>4, <1>7, <2>1 DEF ToRead
    <3>2. q \in files /\ IsStrictPrefix(prefix, q)
      BY <1>2, <1>5, <1>6, <1>10, <3>1, StrictTransitive
    <3>3. Len(q) \in Nat /\ DOMAIN q = 1..Len(q) /\ q[Len(q)] \notin TempNames
      BY <1>5, <2>1, LenIs DEF Last
    <3>4. ASSUME NEW i \in 1..Len(q), i >= Len(prefix) PROVE q[i] \notin TempNames
      <4>1. i = Len(q) \/ i \in 1..(Len(q) - 1)
        <5> DEFINE l == Len(q)
        <5>1. l \in Nat /\ i \in 1..l
          BY <3>3
        <5> HIDE DEF l
        <5>2. i = l \/ i \in 1..(l - 1)
          BY <5>1
        <5> QED BY <5>2 DEF l
      <4> QED BY <1>13, <3>3, <3>4, <4>1
    <3>5. ~Hidden(q)
      BY <1>4, <3>3, <3>4 DEF Hidden
    <3>6. q \in Entries
      BY <1>2, <1>4, <3>2, <3>5 DEF Entries, FilesystemEntries
    <3> QED BY <1>2, <3>6 DEF CallInv
  <2>2. \A q \in Pending \ {p} : ~ToRead(q)' /\ Last(q) \notin TempNames => q \in during
    BY <1>2, <1>9 DEF VisitInv, InTime
  <2> QED BY <1>3, <1>8, <2>1, <2>2 DEF InTime
<1>16. Apart'
  <2>1. ASSUME NEW q \in F \union D, NEW r \in F \union D PROVE ~IsStrictPrefix(q, r)
    BY <1>5, SiblingsApart
  <2>2. ASSUME NEW q \in F \union D, NEW r \in Pending \ {p} PROVE ~IsStrictPrefix(q, r)
    <3>1. r \in Names /\ ~IsStrictPrefix(p, r)
      BY <1>2 DEF VisitInv, Apart
    <3> QED BY <1>2, <1>5, <3>1, StrictTransitive
  <2>3. ASSUME NEW q \in F \union D, NEW r \in Pending \ {p} PROVE ~IsStrictPrefix(r, q)
    <3>1. r \in Names /\ ~IsStrictPrefix(p, r) /\ ~IsStrictPrefix(r, p) /\ r # p
      BY <1>2 DEF VisitInv, Apart
    <3> QED BY <1>2, <1>5, <3>1, Chain
  <2>4. \A q \in Pending \ {p}, r \in Pending \ {p} : ~IsStrictPrefix(q, r)
    BY <1>2 DEF VisitInv, Apart
  <2> QED BY <1>8, <2>1, <2>2, <2>3, <2>4 DEF Apart
<1>17. PageFirst'
  <2>1. page \subseteq Names
    BY <1>2, PlacesAre DEF TypeOK
  <2>2. ASSUME NEW e \in page, NEW q \in F \union D PROVE Before(e, q)
    <3>1. Before(e, p) /\ Before(p, q)
      BY <1>2, <1>5, AboveIsBefore DEF VisitInv, PageFirst
    <3> QED BY <1>2, <1>5, <2>1, <3>1, BeforeTransitive
  <2> QED BY <1>1, <1>2, <1>8, <2>2 DEF VisitInv, PageFirst
<1>18. PageGood'
  BY <1>1, <1>2, <1>3 DEF VisitInv, PageGood, AfterCursor
<1>19. Covered'
  <2>1. ASSUME NEW e \in steady, Covers(p, e)
        PROVE  \E q \in F \union D : Covers(q, e)'
    <3>1. IsStrictPrefix(p, e) /\ e \in Entries
      BY <1>1, <1>2, <2>1 DEF Covers, Progress
    <3>2. /\ e \in files /\ e \in Names /\ e # <<>>
          /\ \A q \in Names : q # <<>> /\ IsStrictPrefix(q, e) => q \in dirs
      BY <1>2, <1>4, <3>1, EntryIs
    <3>3. CASE Front(e) = p
      <4>1. e \in F
        BY <3>2, <3>3 DEF F, Under
      <4>2. e \notin pendingDirs'
        BY <1>5, <1>6, <1>7, <4>1 DEF Pending
      <4>3. Covers(e, e)'
        BY <4>2 DEF Covers, ToRead
      <4> QED BY <4>1, <4>3
    <3>4. CASE Front(e) # p
      <4> DEFINE q == SubSeq(e, 1, Len(p) + 1)
      <4>1. Len(p) \in Nat /\ Len(e) \in Nat /\ Len(p) < Len(e) /\ Agree(p, e, Len(p))
        BY <1>2, <3>1, <3>2, LenIs, PrefixIs
      <4>2. Len(p) + 1 < Len(e)
        <5>1. ASSUME Len(p) + 1 = Len(e) PROVE FALSE
          <6>1. /\ Front(e) \in Names /\ Len(Front(e)) = Len(e) - 1
                /\ \A i \in 1..(Len(e) - 1) : Front(e)[i] = e[i]
            BY <3>2, FrontIs
          <6>2. Len(Front(e)) = Len(p) /\ \A i \in 1..Len(p) : Front(e)[i] = p[i]
            BY <4>1, <5>1, <6>1 DEF Agree
          <6>3. Front(e) = p
            BY <1>2, <6>1, <6>2, SameSeq
          <6> QED BY <3>4, <6>3
        <5> QED BY <4>1, <5>1
      <4>3. Len(p) + 1 \in 0..Len(e) /\ Len(p) + 1 \in Nat /\ Len(p) + 1 # 0
        BY <4>1, <4>2
      <4>4. q \in Names /\ Len(q) = Len(p) + 1 /\ \A i \in 1..(Len(p) + 1) : q[i] = e[i]
        BY <3>2, <4>3, CutIs
      <4> HIDE DEF q
      <4>5. q # <<>> /\ IsStrictPrefix(q, e)
        BY <3>2, <4>2, <4>3, <4>4, EmptyIs, PrefixIs DEF Agree
      <4>6. q \in dirs
        BY <3>2, <4>4, <4>5
      <4>7. Front(q) = p
        <5>1. /\ Front(q) \in Names /\ Len(Front(q)) = Len(q) - 1
              /\ \A i \in 1..(Len(q) - 1) : Front(q)[i] = q[i]
          BY <4>4, <4>5, FrontIs
        <5>2. Len(Front(q)) = Len(p) /\ \A i \in 1..Len(p) : Front(q)[i] = p[i]
          BY <4>1, <4>4, <5>1 DEF Agree
        <5> QED BY <1>2, <5>1, <5>2, SameSeq
      <4>8. q \in D
        BY <4>6, <4>7 DEF D, Under
      <4>9. Covers(q, e)'
        BY <1>3, <1>4, <1>7, <4>5, <4>8 DEF Covers, ToRead
      <4> QED BY <4>8, <4>9
    <3> QED BY <3>3, <3>4
  <2>2. ASSUME NEW e \in steady PROVE e \in seen \/ e \in page \/ \E q \in Pending' : Covers(q, e)'
    <3>1. e \in seen \/ e \in page \/ \E q \in Pending : Covers(q, e)
      BY <1>2 DEF VisitInv, Covered
    <3> QED BY <1>8, <1>9, <2>1, <3>1
  <2> QED BY <1>1, <1>3, <2>2 DEF Covered
<1>20. TypeOK'
  <2>1. page \subseteq Paths /\ Cardinality(page) <= Limit + 1
    BY <1>2 DEF TypeOK
  <2>2. F \in SUBSET Paths /\ D \in SUBSET Paths
    BY <1>5
  <2> QED BY <1>1, <1>2, <1>6, <2>1, <2>2, VisitedType
<1>21. CallInv'
  BY <1>2, <1>3, <1>11, <1>12, <1>14, <1>15, <1>16, <1>17, <1>18, <1>19, SameEntries
  DEF CallInv, VisitInv
<1>22. Progress'
  BY <1>1, <1>2, VisitedProgress
<1> QED BY <1>20, <1>21, <1>22 DEF IInv

\* A List call that ends keeps the invariant if what it returns is good.
LEMMA ReturnKeeps ==
  ASSUME IInv, outcome = "more", NEW P, NEW c, Return(P, c), GoodReturn(P, c) PROVE IInv'
BY ReturnType, ReturnProgress, ReturnCall DEF IInv

\* No entry where there is no directory to list.
LEMMA NoDirNoEntry ==
  ASSUME IInv, kind = "filesystem", ~IsDir(prefix) PROVE steady = {}
<1>1. Entries = {}
  BY EntryIs DEF IInv
<1> QED BY <1>1 DEF IInv, Progress

\* ENOTDIR under the walk: a file has replaced a directory, or there is nothing
\* left to list; ENOENT for the prefix: the same.
LEMMA WalkErrorKeeps == ASSUME IInv, NEW p, WalkError(p) PROVE IInv'
<1>1. /\ Visiting(p) /\ Return({}, Null) /\ (ToRead(p) \/ p \in pendingFiles)
      /\ NotDir(p) \/ (Missing(p) /\ p = prefix)
  BY DEF WalkError
<1>2. /\ VisitInv /\ kind = "filesystem" /\ p \in Pending /\ p \in Names /\ outcome = "more"
      /\ prefix \in Names /\ TypeOK /\ CallInv /\ steady \subseteq Entries
  BY <1>1, TurnIs DEF IInv, Progress
<1>3. CASE Missing(p) /\ p = prefix
  <2>1. ~IsDir(prefix)
    BY <1>3 DEF Missing, IsDir
  <2> QED BY <1>1, <1>2, <2>1, NoDirNoEntry, NothingThere, ReturnKeeps
<1>4. CASE NotDir(p)
  <2>1. PICK q : q \in Ancestors(p) \union (IF ToRead(p) THEN {p} ELSE {}) /\ q \in files
    BY <1>4 DEF NotDir
  <2>2. /\ q \in Names /\ q # <<>> /\ q \notin dirs
        /\ IsStrictPrefix(q, p) \/ (q = p /\ ToRead(p))
    BY <1>2, <2>1, AncestorsAre, NamesAre, PlacesAre DEF TypeOK
  <2>3. CASE recursive /\ IsStrictPrefix(prefix, q)
    <3>1. q \in dirs \union gone
      BY <1>2, <2>2, <2>3 DEF VisitInv, WereDirs, ToRead
    <3>2. replaced
      BY <1>2, <2>1, <2>2, <2>3, <3>1 DEF CallInv
    <3>3. GoodReturn({}, Null)
      BY <3>2 DEF GoodReturn
    <3> QED BY <1>1, <1>2, <3>3, ReturnKeeps
  <2>4. CASE ~(recursive /\ IsStrictPrefix(prefix, q))
    <3>1. q = prefix \/ IsStrictPrefix(q, prefix)
      <4>1. CASE recursive
        <5>1. p = prefix \/ IsStrictPrefix(prefix, p)
          BY <1>2, <4>1 DEF VisitInv, Inside
        <5> QED BY <1>2, <2>2, <2>4, <4>1, <5>1, Chain
      <4>2. CASE ~recursive
        <5>1. p # <<>> /\ Front(p) = prefix
          BY <1>2, <4>2 DEF VisitInv, Inside
        <5>2. IsStrictPrefix(q, p)
          BY <2>2, <4>2 DEF ToRead
        <5> QED BY <1>2, <2>2, <5>1, <5>2, FrontIsAbove
      <4> QED BY <4>1, <4>2
    <3>2. ASSUME NEW e \in steady PROVE FALSE
      <4>1. /\ e \in Names /\ IsStrictPrefix(prefix, e)
            /\ \A r \in Names : r # <<>> /\ IsStrictPrefix(r, e) => r \in dirs
        BY <1>2, EntryIs
      <4>2. IsStrictPrefix(q, e)
        BY <1>2, <2>2, <3>1, <4>1, StrictTransitive
      <4> QED BY <2>2, <4>1, <4>2
    <3>3. steady = {}
      BY <3>2
    <3> QED BY <1>1, <1>2, <3>3, NothingThere, ReturnKeeps
  <2> QED BY <2>3, <2>4
<1> QED BY <1>1, <1>3, <1>4

LEMMA EndPageKeeps == ASSUME IInv, EndPage PROVE IInv'
<1>1. /\ phase = "visit" /\ VisitInv /\ TypeOK /\ outcome = "more" /\ kind = "filesystem"
      /\ steady \subseteq Entries
  BY DEF EndPage, IInv, CallInv, TypeOK, Progress
<1>2. page \subseteq Places /\ IsFiniteSet(page) /\ Cardinality(page) \in Nat /\ Pending \subseteq Names
  BY <1>1, PlacesAre, ListingAssumption, FS_Subset, FS_CardinalityType DEF TypeOK, VisitInv, Inside
<1>3. \A e \in page : AfterCursor(e)
  BY <1>1 DEF VisitInv, PageGood
<1>4. ASSUME Full(page), Return(First(page, Limit), Latest(First(page, Limit))) PROVE IInv'
  <2> DEFINE P == First(page, Limit)
             c == Latest(P)
  <2>1. Limit \in Nat \ {0} /\ Limit <= Cardinality(page)
    BY <1>2, <1>4, ListingAssumption DEF Full
  <2>2. /\ P \subseteq page /\ c \in P /\ c # Null
        /\ \A e \in P : e = c \/ Before(e, c)
        /\ \A e \in page \ P : Before(c, e)
    BY <1>2, <2>1, CutOff
  <2>3. Return(P, c)
    BY <1>4
  <2> HIDE DEF P, c
  <2>4. ASSUME NEW e \in steady PROVE e \in seen \union P \/ Before(c, e)
    <3>1. CASE e \in seen \/ e \in page
      BY <2>2, <3>1
    <3>2. ASSUME NEW p \in Pending, Covers(p, e) PROVE Before(c, e)
      <4>1. e \in Names /\ p \in Names /\ c \in Names
        BY <1>1, <1>2, <2>2, EntryIs, PlacesAre
      <4>2. Before(c, p)
        BY <1>1, <2>2 DEF VisitInv, PageFirst
      <4>3. p = e \/ Before(p, e)
        BY <3>2, <4>1, AboveIsBefore DEF Covers
      <4> QED BY <4>1, <4>2, <4>3, BeforeTransitive
    <3> QED BY <1>1, <3>1, <3>2 DEF VisitInv, Covered
  <2>5. GoodReturn(P, c)
    BY <1>2, <1>3, <2>2, <2>4 DEF GoodReturn
  <2> QED BY <1>1, <2>3, <2>5, ReturnKeeps
<1>5. ASSUME Pending = {}, Return(page, Null) PROVE IInv'
  <2>1. \A e \in steady : e \in seen \union page
    BY <1>1, <1>5 DEF VisitInv, Covered
  <2>2. GoodReturn(page, Null)
    BY <1>2, <1>3, <2>1 DEF GoodReturn
  <2> QED BY <1>1, <1>5, <2>2, ReturnKeeps
<1> QED BY <1>4, <1>5 DEF EndPage

LEMMA StatPrefixKeeps == ASSUME IInv, StatPrefix PROVE IInv'
<1>1. kind = "filesystem" /\ outcome = "more" /\ phase = "idle" /\ TypeOK
  BY DEF StatPrefix, IInv
<1>2. ASSUME IsDir(prefix), phase' = "start", during' = Entries, replaced' = FALSE,
             UNCHANGED <<store, opts, asked, pendingFiles, pendingDirs, page,
                         changes, steady, gone>>
      PROVE  IInv'
  <2>1. /\ UNCHANGED <<kind, files, dirs, prefix, recursive, markers, cursor, seen, outcome, repeated>>
        /\ UNCHANGED <<pendingFiles, pendingDirs, page, changes, steady, gone>>
    BY <1>2 DEF store, opts, asked
  <2>2. Entries' = Entries
    BY <2>1, SameEntries
  <2>3. Entries \subseteq Places
    BY <1>1, EntryIs, PlacesAre
  <2>4. TypeOK'
    BY <1>1, <1>2, <2>1, <2>3 DEF TypeOK
  <2>5. Progress'
    BY <1>1, <2>1, <2>2 DEF IInv, Progress, AfterCursor, ListsOnce, ListsEverythingSteady
  <2>6. CallInv'
    <3>1. gone = {}
      BY <1>1 DEF TypeOK
    <3> QED BY <1>2, <2>1, <2>2, <3>1 DEF IInv, CallInv
  <2> QED BY <2>4, <2>5, <2>6 DEF IInv
<1>3. ASSUME ~IsDir(prefix), Return({}, Null) PROVE IInv'
  BY <1>1, <1>3, NoDirNoEntry, NothingThere, ReturnKeeps
<1> QED BY <1>2, <1>3 DEF StatPrefix

LEMMA StartKeeps == ASSUME IInv, Start PROVE IInv'
<1>1. /\ phase = "start" /\ kind = "filesystem" /\ outcome = "more" /\ TypeOK /\ Progress /\ CallInv
      /\ prefix \in Names /\ steady \subseteq Entries /\ page = {}
      /\ Entries \subseteq during /\ recursive \in BOOLEAN
  BY NamesAre DEF Start, IInv, TypeOK, CallInv, Progress
<1>2. ASSUME ~IsDir(prefix),
             Return({p \in {prefix} \cap files : recursive /\ ~Hidden(p) /\ AfterCursor(p)}, Null)
      PROVE  IInv'
  <2> DEFINE P == {p \in {prefix} \cap files : recursive /\ ~Hidden(p) /\ AfterCursor(p)}
  <2>1. P \subseteq Places /\ \A e \in P : AfterCursor(e)
    BY <1>1, NamesAre
  <2>2. GoodReturn(P, Null)
    BY <1>1, <1>2, <2>1, NoDirNoEntry, NothingThere
  <2> QED BY <1>1, <1>2, <2>2, ReturnKeeps
<1>3. ASSUME IsDir(prefix), phase' = "visit",
             pendingFiles' = IF recursive THEN {} ELSE Under(prefix, files),
             pendingDirs' = IF recursive THEN {prefix} ELSE Under(prefix, dirs),
             UNCHANGED <<store, opts, asked, page, past>>
      PROVE  IInv'
  <2>1. /\ UNCHANGED <<kind, files, dirs, prefix, recursive, markers, cursor, seen, outcome, repeated>>
        /\ UNCHANGED <<page, changes, steady, during, gone, replaced>>
    BY <1>3 DEF store, opts, asked, past
  <2>2. Entries' = Entries
    BY <2>1, SameEntries
  <2>3. Progress'
    BY <1>1, <2>1, <2>2 DEF Progress, AfterCursor, ListsOnce, ListsEverythingSteady
  <2>4. ASSUME NEW q \in Under(prefix, files \union dirs)
        PROVE  q \in Names /\ q # <<>> /\ q \in Paths /\ Front(q) = prefix
    BY <1>1, <2>4, ChildIs
  <2>5. /\ Under(prefix, files) \subseteq Under(prefix, files \union dirs)
        /\ Under(prefix, dirs) \subseteq Under(prefix, files \union dirs)
        /\ Under(prefix, files) \cap Under(prefix, dirs) = {}
        /\ Under(prefix, files \union dirs) = Under(prefix, files) \union Under(prefix, dirs)
    BY <1>1 DEF Under, TypeOK
  <2>6. TypeOK'
    <3>1. pendingFiles' \subseteq Paths /\ pendingDirs' \subseteq Paths \union {<<>>}
      BY <1>1, <1>3, <2>4, <2>5 DEF TypeOK
    <3>2. pendingFiles' \cap pendingDirs' = {}
      BY <1>3, <2>5
    <3> QED BY <1>1, <1>3, <2>1, <3>1, <3>2 DEF TypeOK
  <2>7. page' = {}
    BY <1>1, <2>1
  <2>8. CASE recursive
    <3>1. pendingFiles' = {} /\ pendingDirs' = {prefix} /\ Pending' = {prefix} /\ recursive'
      BY <1>3, <2>1, <2>8 DEF Pending
    <3>2. ToRead(prefix)'
      BY <2>1, <3>1 DEF ToRead
    <3>3. Inside' /\ NoTemps' /\ InTime' /\ Apart'
      BY <1>1, <2>1, <3>1, <3>2, NotAboveItself DEF Inside, NoTemps, InTime, Apart
    <3>4. WereDirs'
      <4>1. ASSUME NEW q \in Names, IsStrictPrefix(prefix, q),
                   IsStrictPrefix(q, prefix) \/ q = prefix
            PROVE  FALSE
        BY <1>1, <4>1, StrictTransitive, NotAboveItself
      <4> QED BY <2>1, <3>1, <4>1 DEF WereDirs
    <3>5. PageFirst' /\ PageGood'
      BY <2>7 DEF PageFirst, PageGood
    <3>6. Covered'
      <4>1. ASSUME NEW e \in steady PROVE Covers(prefix, e)'
        <5>1. IsStrictPrefix(prefix, e)
          BY <1>1, EntryIs
        <5> QED BY <2>1, <3>2, <5>1 DEF Covers
      <4> QED BY <2>1, <3>1, <4>1 DEF Covered
    <3> QED BY <1>1, <2>1, <2>2, <2>3, <2>6, <3>3, <3>4, <3>5, <3>6 DEF IInv, CallInv, VisitInv
  <2>9. CASE ~recursive
    <3>1. /\ pendingFiles' = Under(prefix, files) /\ pendingDirs' = Under(prefix, dirs)
          /\ Pending' = Under(prefix, files \union dirs) /\ ~recursive'
      BY <1>3, <2>1, <2>5, <2>9 DEF Pending
    <3>2. \A q : ~ToRead(q)'
      BY <3>1 DEF ToRead
    <3>3. Inside' /\ NoTemps' /\ WereDirs'
      BY <2>1, <2>4, <3>1 DEF Inside, NoTemps, WereDirs
    <3>4. Apart'
      BY <2>4, <3>1, SiblingsApart DEF Apart
    <3>5. InTime'
      <4>1. ASSUME NEW q \in Under(prefix, files \union dirs), Last(q) \notin TempNames
            PROVE  q \in during
        <5>1. q \in Names /\ q \in files \union dirs /\ Front(q) = prefix
          BY <2>4 DEF Under
        <5>2. Len(q) \in Nat /\ DOMAIN q = 1..Len(q) /\ q[Len(q)] \notin TempNames
          BY <4>1, <5>1, LenIs DEF Last
        <5>3. ~Hidden(q)
          <6>1. ASSUME NEW i \in 1..Len(q), i >= Len(q) PROVE i = Len(q)
            <7> DEFINE l == Len(q)
            <7>1. l \in Nat /\ i \in 1..l /\ i >= l
              BY <5>2, <6>1
            <7> HIDE DEF l
            <7>2. i = l
              BY <7>1
            <7> QED BY <7>2 DEF l
          <6> QED BY <2>9, <5>2, <6>1 DEF Hidden
        <5>4. q \in Entries
          BY <1>1, <2>9, <5>1, <5>3 DEF Entries, FilesystemEntries
        <5> QED BY <1>1, <5>4
      <4> QED BY <2>1, <3>1, <4>1 DEF InTime
    <3>6. PageFirst' /\ PageGood'
      BY <2>7 DEF PageFirst, PageGood
    <3>7. Covered'
      <4>1. ASSUME NEW e \in steady PROVE e \in Pending' /\ Covers(e, e)'
        <5>1. e \in files \union dirs /\ Front(e) = prefix
          BY <1>1, <2>9, EntryIs
        <5> QED BY <3>1, <3>2, <5>1 DEF Under, Covers
      <4> QED BY <2>1, <4>1 DEF Covered
    <3> QED BY <1>1, <2>1, <2>2, <2>3, <2>6, <3>3, <3>4, <3>5, <3>6, <3>7 DEF IInv, CallInv, VisitInv
  <2> QED BY <1>1, <2>8, <2>9
<1> QED BY <1>2, <1>3 DEF Start

LEMMA FlatPageKeeps == ASSUME IInv, FlatPage PROVE IInv'
<1>1. PICK r \in FlatPages : Return(r.entries, r.cursor)
  BY DEF FlatPage
<1>2. GoodReturn(r.entries, r.cursor) /\ outcome = "more"
  BY FlatReturn DEF IInv, Progress, FlatPage
<1> QED BY <1>1, <1>2, ReturnKeeps

-----------------------------------------------------------------------------
(* Changes, between the pages and during them.                             *)

\* The conjuncts of TypeOK about the store.
StoreOK ==
  /\ kind = "flat" => files \subseteq Keys /\ dirs = {}
  /\ kind = "filesystem" =>
       /\ files \subseteq Paths /\ dirs \subseteq Paths /\ files \cap dirs = {}
       /\ \A p \in files \union dirs : Ancestors(p) \subseteq dirs

\* What a listing is about lies where entries can be.
LEMMA EntriesArePlaces ==
  StoreOK /\ kind \in {"filesystem", "flat"} /\ prefix \in Places \union {<<>>}
    => Entries \subseteq Places
<1> SUFFICES ASSUME StoreOK, kind \in {"filesystem", "flat"}, prefix \in Places \union {<<>>}
             PROVE  Entries \subseteq Places
  OBVIOUS
<1>1. CASE kind = "filesystem"
  BY <1>1, PlacesAre DEF StoreOK, Entries, FilesystemEntries
<1>2. CASE kind = "flat"
  <2>1. files \subseteq Keys /\ files \subseteq Names /\ prefix \in Names
    BY <1>2, PlacesAre, EmptyIs DEF StoreOK
  <2>2. ASSUME NEW k \in files, Len(k) > Len(prefix) + 1
        PROVE  SubSeq(k, 1, Len(prefix) + 1) \in Places
    <3>1. Len(prefix) + 1 \in 1..Len(k)
      BY <2>1, <2>2, LenIs
    <3> QED BY <2>1, <3>1, PlacesAre
  <2> QED BY <1>2, <2>1, <2>2, PlacesAre DEF Entries, FlatEntries
<1> QED BY <1>1, <1>2

LEMMA ChangeIs ==
  ASSUME Change
  PROVE  /\ outcome = "more" /\ changes < MaxChanges /\ changes' = changes + 1
         /\ UNCHANGED <<kind, prefix, recursive, markers, cursor, seen, outcome, repeated>>
         /\ UNCHANGED <<phase, pendingFiles, pendingDirs, page>>
         /\ steady' = steady \cap Entries'
         /\ during' = IF phase = "idle" THEN {} ELSE during \union Entries'
BY DEF Change, opts, asked, call

\* What a change has to keep: the store's type and the histories of what is gone.
LEMMA ChangeKeeps ==
  ASSUME IInv, Change, StoreOK', gone' \subseteq Paths, replaced' \in BOOLEAN,
         phase = "idle" => gone' = {}, replaced => replaced', dirs \union gone \subseteq dirs' \union gone' \/ phase # "visit",
         \A q \in gone' : q \in files' /\ recursive /\ IsStrictPrefix(prefix, q) => replaced'
  PROVE  IInv'
<1>1. /\ outcome = "more" /\ changes < MaxChanges /\ changes' = changes + 1
      /\ UNCHANGED <<kind, prefix, recursive, markers, cursor, seen, outcome, repeated>>
      /\ UNCHANGED <<phase, pendingFiles, pendingDirs, page>>
      /\ steady' = steady \cap Entries'
      /\ during' = IF phase = "idle" THEN {} ELSE during \union Entries'
  BY ChangeIs
<1>2. TypeOK /\ Progress /\ CallInv
  BY DEF IInv
<1>3. kind' \in {"filesystem", "flat"} /\ prefix' \in Places \union {<<>>}
  BY <1>1, <1>2 DEF TypeOK
<1>4. Entries' \subseteq Places
  <2>1. CASE kind' = "filesystem"
    BY <2>1, PlacesAre DEF StoreOK, Entries, FilesystemEntries
  <2>2. CASE kind' = "flat"
    <3>1. files' \subseteq Keys /\ files' \subseteq Names /\ prefix' \in Names
      BY <1>3, <2>2, PlacesAre, EmptyIs DEF StoreOK
    <3>2. ASSUME NEW k \in files', Len(k) > Len(prefix') + 1
          PROVE  SubSeq(k, 1, Len(prefix') + 1) \in Places
      <4>1. Len(prefix') + 1 \in 1..Len(k)
        BY <3>1, <3>2, LenIs
      <4> QED BY <3>1, <4>1, PlacesAre
    <3> QED BY <2>2, <3>1, <3>2, PlacesAre DEF Entries, FlatEntries
  <2> QED BY <1>3, <2>1, <2>2
<1>5. changes' \in 0..MaxChanges
  BY <1>1, <1>2, ListingAssumption DEF TypeOK
<1>6. during' \subseteq Places /\ steady' \subseteq Places
  BY <1>1, <1>2, <1>4 DEF TypeOK
<1>7. TypeOK'
  <2>1. phase' = "idle" => during' \union gone' = {}
    BY <1>1
  <2> QED BY <1>1, <1>2, <1>5, <1>6, <2>1 DEF TypeOK, StoreOK
<1>8. Progress'
  <2>1. \A e \in steady' : e \in seen' \/ AfterCursor(e)'
    BY <1>1, <1>2 DEF Progress, AfterCursor
  <2>2. \A e \in seen' : cursor' # Null /\ (e = cursor' \/ Before(e, cursor'))
    BY <1>1, <1>2 DEF Progress
  <2>3. ListsOnce' /\ ListsEverythingSteady'
    BY <1>1, <1>2 DEF Progress, ListsOnce, ListsEverythingSteady
  <2>4. steady' \subseteq Entries'
    BY <1>1
  <2> QED BY <2>1, <2>2, <2>3, <2>4 DEF Progress
<1>9. ASSUME phase = "visit" PROVE VisitInv'
  <2>1. VisitInv /\ during \subseteq during' /\ dirs \union gone \subseteq dirs' \union gone'
    BY <1>1, <1>2, <1>9 DEF CallInv
  <2>2. Pending' = Pending /\ \A p : ToRead(p)' = ToRead(p)
    BY <1>1 DEF Pending, ToRead
  <2>3. Inside' /\ NoTemps' /\ Apart' /\ PageFirst'
    BY <1>1, <2>1, <2>2 DEF VisitInv, Inside, NoTemps, Apart, PageFirst
  <2>4. WereDirs'
    BY <1>1, <2>1, <2>2 DEF VisitInv, WereDirs
  <2>5. InTime' /\ PageGood'
    BY <1>1, <2>1, <2>2 DEF VisitInv, InTime, PageGood, AfterCursor
  <2>6. Covered'
    BY <1>1, <2>1, <2>2 DEF VisitInv, Covered, Covers
  <2> QED BY <2>3, <2>4, <2>5, <2>6 DEF VisitInv
<1>10. CallInv'
  <2>1. phase' # "idle" => Entries' \subseteq during'
    BY <1>1
  <2> QED BY <1>1, <1>9, <2>1 DEF CallInv
<1> QED BY <1>7, <1>8, <1>10 DEF IInv

LEMMA AddFileKeeps == ASSUME IInv, NEW p \in Paths, AddFile(p) PROVE IInv'
<1>1. /\ Change /\ kind = "filesystem" /\ p \notin files \union dirs
      /\ \A q \in files : ~IsPrefix(q, p)
      /\ files' = files \union {p} /\ dirs' = dirs \union Ancestors(p)
      /\ replaced' = (replaced \/ (p \in gone /\ recursive /\ IsStrictPrefix(prefix, p)))
      /\ UNCHANGED gone
  BY DEF AddFile
<1>2. UNCHANGED kind /\ TypeOK /\ CallInv /\ p \in Names
  BY <1>1, ChangeIs, PlacesAre DEF IInv
<1>3. /\ files \subseteq Paths /\ dirs \subseteq Paths /\ files \cap dirs = {}
      /\ \A q \in files \union dirs : Ancestors(q) \subseteq dirs
  BY <1>1, <1>2 DEF TypeOK
<1>4. ASSUME NEW q \in Ancestors(p) PROVE q \notin files /\ q # p /\ Ancestors(q) \subseteq Ancestors(p)
  <2>1. q \in Names /\ q # <<>> /\ IsStrictPrefix(q, p)
    BY <1>2, AncestorsAre
  <2>2. q \notin files /\ q # p
    BY <1>1, <2>1 DEF IsStrictPrefix
  <2>3. ASSUME NEW r \in Ancestors(q) PROVE r \in Ancestors(p)
    <3>1. r \in Names /\ r # <<>> /\ IsStrictPrefix(r, q)
      BY <2>1, AncestorsAre
    <3> QED BY <1>2, <2>1, <3>1, StrictTransitive, AncestorsAre
  <2> QED BY <2>2, <2>3
<1>5. files' \subseteq Paths /\ dirs' \subseteq Paths /\ files' \cap dirs' = {}
  BY <1>1, <1>3, <1>4, ListingAssumption
<1>6. \A q \in files' \union dirs' : Ancestors(q) \subseteq dirs'
  BY <1>1, <1>3, <1>4
<1>7. StoreOK'
  BY <1>1, <1>2, <1>5, <1>6 DEF StoreOK
<1>8. /\ replaced' \in BOOLEAN /\ (replaced => replaced') /\ gone' \subseteq Paths
      /\ phase = "idle" => gone' = {}
      /\ dirs \union gone \subseteq dirs' \union gone'
  BY <1>1, <1>2 DEF TypeOK
<1>9. \A q \in gone' : q \in files' /\ recursive /\ IsStrictPrefix(prefix, q) => replaced'
  BY <1>1, <1>2 DEF CallInv
<1> QED BY <1>1, <1>7, <1>8, <1>9, ChangeKeeps

LEMMA RemoveTreeKeeps == ASSUME IInv, NEW p \in Paths, RemoveTree(p) PROVE IInv'
<1>1. /\ Change /\ kind = "filesystem" /\ UNCHANGED replaced
      /\ files' = {q \in files : ~IsPrefix(p, q)} /\ dirs' = {q \in dirs : ~IsPrefix(p, q)}
      /\ gone' = IF phase = "idle" THEN {} ELSE gone \union (dirs \ dirs')
  BY DEF RemoveTree
<1>2. UNCHANGED kind /\ TypeOK /\ CallInv /\ p \in Names
  BY <1>1, ChangeIs, PlacesAre DEF IInv
<1>3. /\ files \subseteq Paths /\ dirs \subseteq Paths /\ files \cap dirs = {}
      /\ \A q \in files \union dirs : Ancestors(q) \subseteq dirs
  BY <1>1, <1>2 DEF TypeOK
<1>4. ASSUME NEW q \in files' \union dirs', NEW r \in Ancestors(q) PROVE r \in dirs'
  <2>1. q \in files \union dirs /\ ~IsPrefix(p, q) /\ q \in Names
    BY <1>1, <1>3, PlacesAre
  <2>2. r \in dirs /\ r \in Names /\ IsStrictPrefix(r, q)
    BY <1>3, <2>1, AncestorsAre
  <2>3. ~IsPrefix(p, r)
    BY <1>2, <2>1, <2>2, PrefixOrSame, StrictTransitive
  <2> QED BY <1>1, <2>2, <2>3
<1>5. files' \subseteq Paths /\ dirs' \subseteq Paths /\ files' \cap dirs' = {}
  BY <1>1, <1>3
<1>6. StoreOK'
  BY <1>1, <1>2, <1>4, <1>5 DEF StoreOK
<1>7. /\ gone' \subseteq Paths /\ replaced' \in BOOLEAN
      /\ phase = "idle" => gone' = {}
      /\ dirs \union gone \subseteq dirs' \union gone' \/ phase # "visit"
  BY <1>1, <1>2, <1>3 DEF TypeOK
<1>8. \A q \in gone' : q \in files' /\ recursive /\ IsStrictPrefix(prefix, q) => replaced'
  BY <1>1, <1>2, <1>3 DEF CallInv
<1> QED BY <1>1, <1>6, <1>7, <1>8, ChangeKeeps

LEMMA KeyKeeps == ASSUME IInv, NEW k \in Keys, AddKey(k) \/ RemoveKey(k) PROVE IInv'
<1>1. /\ Change /\ kind = "flat" /\ files' \subseteq files \union {k} /\ UNCHANGED <<dirs, gone, replaced>>
  BY DEF AddKey, RemoveKey
<1>2. UNCHANGED kind /\ TypeOK /\ CallInv
  BY <1>1, ChangeIs DEF IInv
<1>3. StoreOK'
  BY <1>1, <1>2 DEF StoreOK, TypeOK
<1>4. /\ phase # "visit" /\ gone' \subseteq Paths /\ replaced' \in BOOLEAN
      /\ phase = "idle" => gone' = {}
  BY <1>1, <1>2 DEF TypeOK
<1>5. gone' = {}
  BY <1>1, <1>2 DEF TypeOK
<1> QED BY <1>1, <1>3, <1>4, <1>5, ChangeKeeps

-----------------------------------------------------------------------------
(* The theorems.                                                           *)

LEMMA InitHolds == Init => IInv
<1> SUFFICES ASSUME Init PROVE IInv
  OBVIOUS
<1>1. /\ kind \in {"filesystem", "flat"} /\ recursive \in BOOLEAN /\ markers \in BOOLEAN
      /\ prefix \in Places \union {<<>>}
      /\ kind = "filesystem" => prefix \in Paths \union {<<>>}
  BY PlacesAre DEF Init
<1>2. StoreOK
  <2>1. CASE kind = "flat"
    BY <2>1 DEF Init, StoreOK
  <2>2. CASE kind = "filesystem"
    BY <2>2 DEF Init, StoreOK
  <2> QED BY <1>1, <2>1, <2>2
<1>3. /\ cursor = Null /\ seen = {} /\ outcome = "more"
      /\ phase = "idle" /\ pendingFiles = {} /\ pendingDirs = {} /\ page = {}
      /\ changes = 0 /\ steady = Entries /\ repeated = {}
      /\ during = {} /\ gone = {} /\ replaced = FALSE
  BY DEF Init
<1>4. steady \subseteq Places
  BY <1>1, <1>2, <1>3, EntriesArePlaces
<1>5. Cardinality(page) <= Limit + 1 /\ changes \in 0..MaxChanges
  BY <1>3, FS_EmptySet, ListingAssumption
<1>6. TypeOK
  BY <1>1, <1>2, <1>3, <1>4, <1>5 DEF TypeOK, StoreOK
<1>7. Progress
  BY <1>3 DEF Progress, AfterCursor, ListsOnce, ListsEverythingSteady
<1>8. CallInv
  BY <1>3 DEF CallInv
<1> QED BY <1>6, <1>7, <1>8 DEF IInv

LEMMA StutterKeeps == ASSUME IInv, UNCHANGED vars PROVE IInv'
<1>1. /\ UNCHANGED <<kind, files, dirs, prefix, recursive, markers, cursor, seen, outcome, repeated>>
      /\ UNCHANGED <<phase, pendingFiles, pendingDirs, page, changes, steady, during, gone, replaced>>
  BY DEF vars, store, opts, asked, call, past
<1>2. Entries' = Entries
  BY <1>1, SameEntries
<1>3. TypeOK'
  BY <1>1 DEF IInv, TypeOK
<1>4. Progress'
  BY <1>1, <1>2 DEF IInv, Progress, AfterCursor, ListsOnce, ListsEverythingSteady
<1>5. Pending' = Pending /\ (\A p : ToRead(p)' = ToRead(p)) /\ \A p, e : Covers(p, e)' = Covers(p, e)
  BY <1>1 DEF Pending, ToRead, Covers
<1>6. VisitInv => VisitInv'
  BY <1>1, <1>5
  DEF VisitInv, Inside, WereDirs, NoTemps, InTime, Apart, PageFirst, PageGood, Covered, AfterCursor
<1>7. CallInv'
  BY <1>1, <1>2, <1>6 DEF IInv, CallInv
<1> QED BY <1>3, <1>4, <1>7 DEF IInv

LEMMA VisitKeeps == ASSUME IInv, NEW p, Visit(p) PROVE IInv'
BY SkipKeeps, CollectKeeps, ReadFolderKeeps, VanishedKeeps, WalkErrorKeeps DEF Visit

LEMMA NextKeeps == ASSUME IInv, [Next]_vars PROVE IInv'
<1>1. Finished => UNCHANGED vars
  BY DEF Finished
<1> QED BY <1>1, FlatPageKeeps, StatPrefixKeeps, StartKeeps, EndPageKeeps, VisitKeeps, AddFileKeeps,
           RemoveTreeKeeps, KeyKeeps, StutterKeeps DEF Next

\* IInv is inductive: at every step of a call under way, what was always there
\* has been returned, is on the page or lies under something still to be visited
\* (filesystem.go List, listDir, walk; the flat stores' List).
THEOREM ListingInvariant == Spec => []IInv
<1>1. IInv /\ [Next]_vars => IInv'
  BY NextKeeps
<1> QED BY <1>1, InitHolds, PTL DEF Spec

\* Every variable keeps its type: cursors name places in the store, on the
\* filesystem every entry has its directories, and a page under construction
\* never holds more than limit + 1 entries (full, filesystem.go List, walk).
THEOREM ListingTypeOK == Spec => []TypeOK
<1>1. IInv => TypeOK
  BY DEF IInv
<1> QED BY <1>1, ListingInvariant, PTL

\* A listing that has run to its end has returned every entry that was there all
\* the time, whatever walk skips and wherever changes fall, unless a file took
\* the place of a directory that the call under way had read of (ENOTDIR,
\* filesystem.go:301-303).  On the flat stores keysUnder (flatstore.go) misses
\* nothing a folder delete or move has to touch.
THEOREM ListingIsComplete == Spec => []ListsEverythingSteady
<1>1. IInv => ListsEverythingSteady
  BY DEF IInv, Progress
<1> QED BY <1>1, ListingInvariant, PTL

\* No entry comes twice: List resumes strictly after its cursor, in the order of
\* comparePaths (filesystem.go) or of the service's keys.
THEOREM ListingHasNoDuplicates == Spec => []ListsOnce
<1>1. IInv => ListsOnce
  BY DEF IInv, Progress
<1> QED BY <1>1, ListingInvariant, PTL

\* Whatever step returns something, it was an entry at some moment of the call,
\* or is the prefix that became a file between List's Stat and fs.WalkDir's.
Returnable ==
  IF kind = "flat" THEN Entries
  ELSE during \union {p \in {prefix} \cap files : recursive /\ phase = "start"}

LEMMA StepReturns == ASSUME IInv, Next PROVE seen' \ seen \subseteq Returnable
<1>1. ASSUME NEW P, NEW c, Return(P, c), P \subseteq Returnable PROVE seen' \ seen \subseteq Returnable
  BY <1>1, ReturnIs
<1>2. CASE FlatPage
  <2>1. PICK r \in FlatPages : Return(r.entries, r.cursor)
    BY <1>2 DEF FlatPage
  <2>2. r.entries \subseteq Entries /\ kind = "flat"
    BY <1>2, FlatReturn DEF IInv, Progress, FlatPage
  <2> QED BY <1>1, <2>1, <2>2 DEF Returnable
<1>3. CASE StatPrefix
  BY <1>1, <1>3 DEF StatPrefix, asked
<1>4. CASE Start
  <2>1. kind # "flat" /\ phase = "start"
    BY <1>4 DEF Start, IInv, TypeOK
  <2>2. {p \in {prefix} \cap files : recursive /\ ~Hidden(p) /\ AfterCursor(p)} \subseteq Returnable
    BY <2>1 DEF Returnable
  <2> QED BY <1>1, <1>4, <2>2 DEF Start, asked
<1>5. CASE EndPage
  <2>1. phase = "visit" /\ VisitInv /\ TypeOK /\ kind # "flat"
    BY <1>5 DEF EndPage, IInv, CallInv, TypeOK
  <2>2. page \subseteq Returnable
    BY <2>1 DEF VisitInv, PageGood, Returnable
  <2>3. Full(page) => First(page, Limit) \subseteq page
    <3>1. page \subseteq Names /\ IsFiniteSet(page) /\ Cardinality(page) \in Nat
      BY <2>1, PlacesAre, ListingAssumption, FS_Subset, FS_CardinalityType DEF TypeOK
    <3>2. Full(page) => Limit \in Nat /\ Limit <= Cardinality(page)
      BY <3>1, ListingAssumption DEF Full
    <3> QED BY <3>1, <3>2, FirstIs
  <2> QED BY <1>1, <1>5, <2>2, <2>3 DEF EndPage
<1>6. ASSUME NEW p, Visit(p) PROVE seen' \ seen \subseteq Returnable
  <2>1. \A F, D : Visited(p, F, D) => seen' = seen
    BY VisitedIs
  <2> QED BY <1>1, <1>6, <2>1 DEF Visit, Skip, Collect, ReadFolder, Vanished, WalkError
<1>7. ASSUME Change PROVE seen' \ seen \subseteq Returnable
  BY <1>7, ChangeIs
<1>8. Finished => seen' = seen
  BY DEF Finished, vars, asked
<1> QED BY <1>2, <1>3, <1>4, <1>5, <1>6, <1>7, <1>8 DEF Next, AddFile, RemoveTree, AddKey, RemoveKey

\* A page returns only what was there at some moment of its call and belongs to
\* the listing: neither a write's temporary file (walk, listDir) nor a
\* placeholder that was not asked for (isFolderMarker).
THEOREM ListingReturnsEntries == Spec => ListsOnlyEntries
<1> DEFINE A == seen' \ seen \subseteq
                  IF kind = "flat" THEN Entries
                  ELSE during \union {p \in {prefix} \cap files : recursive /\ phase = "start"}
<1>1. IInv /\ [Next]_vars => [A]_vars
  BY StepReturns DEF Returnable
<1>2. Spec => [][A]_vars
  BY <1>1, ListingInvariant, PTL DEF Spec
<1> QED BY <1>2 DEF ListsOnlyEntries

=============================================================================

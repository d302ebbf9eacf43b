-------------------------- MODULE FilesystemProofs --------------------------
(***************************************************************************)
(* Proofs about Filesystem, for any number of requests, any paths and any  *)
(* contents: the tree stays a tree, no write leaves its temporary file     *)
(* behind, and the whole is an implementation of ObjectStore.              *)
(*                                                                         *)
(* The inductive invariant IInv says what every path of the tree may be    *)
(* (TreeOK, Files), what a request was asked, as far as its position tells *)
(* (Requested), what the write still under way may rely on (Writes), and   *)
(* where its temporary file is (Temps).                                    *)
(***************************************************************************)
EXTENDS Filesystem, TLAPS, SequenceTheorems, WellFoundedInduction

\* Names of files and directories, and the paths made of them.
Name     == STRING \union Contents
KeyPaths == Seq(Name) \ {<<>>}

\* The tree is a function on paths, and every path's directory is there.
TreeOK ==
  /\ tree = [p \in DOMAIN tree |-> tree[p]]
  /\ \A p \in DOMAIN tree :
       /\ p \in KeyPaths
       /\ tree[p] \in Contents \union {"dir"}
       /\ Parent(p) = <<>> \/ (Parent(p) \in DOMAIN tree /\ tree[Parent(p)] = "dir")

\* A temporary name is its file's own; any other file is completely written.
Files ==
  \A p \in DOMAIN tree :
    /\ Last(p) \in Contents => tree[p] = Last(p)
    /\ Last(p) \notin Contents /\ tree[p] # "dir" => tree[p] \in whole

\* Directories that mkdirAll may make.
PlainPaths == {p \in KeyPaths : Last(p) \notin Contents}

TempPCs == {"fill", "publish", "unlink", "cleanup"}

\* What a request at position at was asked, as far as the position tells.
AskedAs(at, q, ms) ==
  /\ q \in Requests
  /\ q.op = "write" <=> q.c # Null
  /\ q.op \in Moves => q.q \in Paths
  /\ at \in TempPCs \union {"temp"} => q.op = "write"
  /\ at \in {"check", "rename"} => q.op \in Moves
  /\ at = "mkdirs" => /\ q.op \in Moves \union {"write", "mkdir"}
                      /\ ms \in Seq(PlainPaths) /\ ms # <<>>

Requested ==
  \A r \in Slots : IF pc[r] = "idle" THEN req[r] = Null
                                     ELSE AskedAs(pc[r], req[r], mkdirs[r])

\* A write that has not taken its name is pending, and is the only one of its
\* content.
Writes ==
  \A r \in Slots : req[r] # Null /\ req[r].op = "write" =>
    /\ pc[r] \notin {"unlink", "stat"} => status[req[r].c] = "pending"
    /\ pc[r] = "publish" => req[r].c \in whole
    /\ \A s \in Slots : req[s] # Null /\ req[s].c = req[r].c => s = r

\* Every temporary file that is not astray is where its write looks for it.
Temps ==
  \A p \in DOMAIN tree : Last(p) \in Contents \ stray =>
    \E r \in Slots : pc[r] \in TempPCs /\ p = Tmp(r) /\ Last(p) = req[r].c

\* The remaining conjuncts of TypeOK.
Shapes ==
  /\ whole \subseteq Contents /\ stray \subseteq Contents
  /\ pc \in [Slots -> FsPCs] /\ req = [r \in Slots |-> req[r]]
  /\ mkdirs = [r \in Slots |-> mkdirs[r]]
  /\ status \in [Contents -> {"pending", "stored", "refused"}]
  /\ started \in 0..MaxRequests

IInv == Shapes /\ TreeOK /\ Files /\ Requested /\ Writes /\ Temps

-----------------------------------------------------------------------------
(* Paths, position by position.                                            *)

LEMMA LenIs == \A s \in Seq(Name) : Len(s) \in Nat /\ \A i \in 1..Len(s) : s[i] \in Name
BY LenProperties, ElementOfSeq

LEMMA EmptyIs == \A s \in Seq(Name) : s = <<>> <=> Len(s) = 0
BY EmptySeq, LenIs

LEMMA SameSeq ==
  ASSUME NEW s \in Seq(Name), NEW t \in Seq(Name), Len(s) = Len(t), \A i \in 1..Len(s) : s[i] = t[i]
  PROVE  s = t
BY SeqEqual

LEMMA CutIs ==
  ASSUME NEW s \in Seq(Name), NEW m \in 1..(Len(s) + 1), NEW n \in (m - 1)..Len(s)
  PROVE  /\ SubSeq(s, m, n) \in Seq(Name) /\ Len(SubSeq(s, m, n)) = n - m + 1
         /\ \A i \in 1..(n - m + 1) : SubSeq(s, m, n)[i] = s[m + i - 1]
<1>1. Len(s) \in Nat /\ m \in Int /\ n \in Int /\ n >= m - 1
  BY LenIs
<1>2. \A i \in m..n : s[i] \in Name
  BY <1>1, LenIs
<1>3. /\ SubSeq(s, m, n) \in Seq(Name) /\ Len(SubSeq(s, m, n)) = IF m <= n THEN n - m + 1 ELSE 0
      /\ \A i \in 1..(n - m + 1) : SubSeq(s, m, n)[i] = s[m + i - 1]
  BY <1>1, <1>2, SubSeqProperties
<1> QED BY <1>1, <1>3

LEMMA HeadIs ==
  ASSUME NEW s \in Seq(Name), NEW n \in 0..Len(s)
  PROVE  /\ SubSeq(s, 1, n) \in Seq(Name) /\ Len(SubSeq(s, 1, n)) = n
         /\ \A i \in 1..n : SubSeq(s, 1, n)[i] = s[i]
<1>1. Len(s) \in Nat /\ 1 \in 1..(Len(s) + 1) /\ n \in (1 - 1)..Len(s) /\ n - 1 + 1 = n
  BY LenIs
<1>2. /\ SubSeq(s, 1, n) \in Seq(Name) /\ Len(SubSeq(s, 1, n)) = n - 1 + 1
      /\ \A i \in 1..(n - 1 + 1) : SubSeq(s, 1, n)[i] = s[1 + i - 1]
  BY <1>1, CutIs
<1> QED BY <1>1, <1>2

LEMMA ParentIs ==
  ASSUME NEW s \in KeyPaths
  PROVE  /\ Parent(s) \in Seq(Name) /\ Len(s) \in Nat \ {0} /\ Len(Parent(s)) = Len(s) - 1
         /\ \A i \in 1..(Len(s) - 1) : Parent(s)[i] = s[i]
         /\ Last(s) = s[Len(s)] /\ Last(s) \in Name
<1>1. s \in Seq(Name) /\ s # <<>>
  BY DEF KeyPaths
<1>2. Len(s) \in Nat \ {0}
  BY <1>1, LenIs, EmptyIs
<1>3. Len(s) - 1 \in 0..Len(s) /\ Len(s) \in 1..Len(s)
  BY <1>2
<1>4. /\ SubSeq(s, 1, Len(s) - 1) \in Seq(Name) /\ Len(SubSeq(s, 1, Len(s) - 1)) = Len(s) - 1
      /\ \A i \in 1..(Len(s) - 1) : SubSeq(s, 1, Len(s) - 1)[i] = s[i]
  BY <1>1, <1>3, HeadIs
<1>5. Last(s) = s[Len(s)] /\ Last(s) \in Name
  BY <1>1, <1>3, LenIs DEF Last
<1> QED BY <1>2, <1>4, <1>5 DEF Parent, Front

\* A name in a directory.
LEMMA ChildIs ==
  ASSUME NEW s \in Seq(Name), NEW c \in Name
  PROVE  /\ s \o <<c>> \in KeyPaths /\ Parent(s \o <<c>>) = s /\ Last(s \o <<c>>) = c
         /\ Len(s \o <<c>>) = Len(s) + 1
<1> DEFINE t == s \o <<c>>
<1>1. <<c>> \in Seq(Name) /\ Len(<<c>>) = 1 /\ <<c>>[1] = c /\ Len(s) \in Nat
  BY LenIs
<1>2. /\ t \in Seq(Name) /\ Len(t) = Len(s) + 1
      /\ \A i \in 1..(Len(s) + 1) : t[i] = IF i <= Len(s) THEN s[i] ELSE <<c>>[i - Len(s)]
  BY <1>1, ConcatProperties
<1> HIDE DEF t
<1>3. t \in KeyPaths
  BY <1>1, <1>2, EmptyIs DEF KeyPaths
<1>4. t[Len(s) + 1] = c /\ \A i \in 1..Len(s) : t[i] = s[i]
  BY <1>1, <1>2
<1>5. Last(t) = c
  BY <1>2, <1>4 DEF Last
<1>6. Len(t) - 1 = Len(s)
  BY <1>1, <1>2
<1>7. Parent(t) \in Seq(Name) /\ Len(Parent(t)) = Len(s) /\ \A i \in 1..Len(s) : Parent(t)[i] = t[i]
  BY <1>3, <1>6, ParentIs
<1>8. Parent(t) = s
  BY <1>4, <1>7, SameSeq
<1> QED BY <1>2, <1>3, <1>5, <1>8 DEF t

Agree(a, b, n) == \A i \in 1..n : a[i] = b[i]

LEMMA PrefixIs ==
  ASSUME NEW a \in Seq(Name), NEW b \in Seq(Name)
  PROVE  IsPrefix(a, b) <=> Len(a) <= Len(b) /\ Agree(a, b, Len(a))
<1>1. Len(a) \in Nat /\ Len(b) \in Nat
  BY LenIs
<1>2. SubSeq(a, 1, Len(a)) = a
  BY SubSeqFull
<1>3. ASSUME Len(a) <= Len(b) PROVE a = SubSeq(b, 1, Len(a)) <=> Agree(a, b, Len(a))
  <2>1. Len(a) \in 0..Len(b)
    BY <1>1, <1>3
  <2>2. /\ SubSeq(b, 1, Len(a)) \in Seq(Name) /\ Len(SubSeq(b, 1, Len(a))) = Len(a)
        /\ \A i \in 1..Len(a) : SubSeq(b, 1, Len(a))[i] = b[i]
    BY <2>1, HeadIs
  <2>3. ASSUME Agree(a, b, Len(a)) PROVE a = SubSeq(b, 1, Len(a))
    BY <2>2, <2>3, SameSeq DEF Agree
  <2>4. ASSUME a = SubSeq(b, 1, Len(a)) PROVE Agree(a, b, Len(a))
    BY <2>2, <2>4 DEF Agree
  <2> QED BY <2>3, <2>4
<1> QED BY <1>2, <1>3 DEF IsPrefix

LEMMA PrefixOfParent ==
  ASSUME NEW a \in KeyPaths, NEW b \in KeyPaths
  PROVE  /\ IsPrefix(a, a) /\ ~IsPrefix(a, Parent(a))
         /\ IsPrefix(a, Parent(b)) <=> IsPrefix(a, b) /\ a # b
<1>1. a \in Seq(Name) /\ b \in Seq(Name)
  BY DEF KeyPaths
<1>2. /\ Parent(b) \in Seq(Name) /\ Len(b) \in Nat \ {0} /\ Len(Parent(b)) = Len(b) - 1
      /\ \A i \in 1..(Len(b) - 1) : Parent(b)[i] = b[i]
      /\ Parent(a) \in Seq(Name) /\ Len(a) \in Nat \ {0} /\ Len(Parent(a)) = Len(a) - 1
  BY ParentIs
<1>3. IsPrefix(a, a)
  BY <1>1, <1>2, PrefixIs DEF Agree
<1>4. ~IsPrefix(a, Parent(a))
  BY <1>1, <1>2, PrefixIs
<1>5. ASSUME IsPrefix(a, Parent(b)) PROVE IsPrefix(a, b) /\ a # b
  <2>1. Len(a) <= Len(b) - 1 /\ Agree(a, Parent(b), Len(a))
    BY <1>1, <1>2, <1>5, PrefixIs
  <2>2. Len(a) <= Len(b) /\ a # b /\ Agree(a, b, Len(a))
    BY <1>2, <2>1 DEF Agree
  <2> QED BY <1>1, <2>2, PrefixIs
<1>6. ASSUME IsPrefix(a, b), a # b PROVE IsPrefix(a, Parent(b))
  <2>1. Len(a) <= Len(b) /\ Agree(a, b, Len(a))
    BY <1>1, <1>6, PrefixIs
  <2>2. Len(a) # Len(b)
    BY <1>1, <1>6, <2>1, SameSeq DEF Agree
  <2>3. Len(a) <= Len(b) - 1 /\ Agree(a, Parent(b), Len(a))
    BY <1>2, <2>1, <2>2 DEF Agree
  <2> QED BY <1>1, <1>2, <2>3, PrefixIs
<1> QED BY <1>3, <1>4, <1>5, <1>6

LEMMA LeastNat ==
  ASSUME NEW T \in SUBSET Nat, T # {} PROVE \E n \in T : \A i \in T : n <= i
<1> DEFINE R == OpToRel(<, Nat)
<1>1. IsWellFoundedOn(R, Nat)
  BY NatLessThanWellFounded
<1>2. \A i, n \in Nat : i < n => <<i, n>> \in R
  BY DEF OpToRel
<1> HIDE DEF R
<1>3. PICK n \in T : \A i \in T : ~(<<i, n>> \in R)
  BY <1>1, WFMin
<1>4. ASSUME NEW i \in T PROVE n <= i
  <2>1. ~(i < n)
    BY <1>2, <1>3
  <2> QED BY <2>1
<1> QED BY <1>4

\* What lies above an existing path is a directory, and not an empty one.
LEMMA Ancestors ==
  ASSUME TreeOK, NEW k \in DOMAIN tree, NEW d \in KeyPaths, IsPrefix(d, k), d # k
  PROVE  d \in DOMAIN tree /\ tree[d] = "dir" /\ ~IsEmpty(d)
<1> DEFINE Below(x) == IsPrefix(d, x) /\ x # d
           N == {n \in Nat : \E x \in DOMAIN tree : Below(x) /\ Len(x) = n}
<1>1. \A x \in DOMAIN tree : x \in KeyPaths /\ Len(x) \in Nat
  BY ParentIs DEF TreeOK
<1>2. Len(k) \in N
  BY <1>1
<1>3. PICK n \in N : \A i \in N : n <= i
  BY <1>2, LeastNat
<1>4. PICK x \in DOMAIN tree : Below(x) /\ Len(x) = n
  BY <1>3
<1>5. IsPrefix(d, Parent(x))
  BY <1>1, <1>4, PrefixOfParent
<1>6. /\ Parent(x) \in Seq(Name) /\ Len(x) \in Nat \ {0} /\ Len(Parent(x)) = Len(x) - 1
      /\ d \in Seq(Name) /\ Len(d) \in Nat \ {0}
  BY <1>1, ParentIs DEF KeyPaths
<1>7. Len(d) <= Len(Parent(x))
  BY <1>5, <1>6, PrefixIs
<1>8. Parent(x) # <<>>
  BY <1>6, <1>7, EmptyIs
<1>9. Parent(x) \in DOMAIN tree /\ tree[Parent(x)] = "dir"
  BY <1>8 DEF TreeOK
<1>10. Len(Parent(x)) \in Nat /\ ~(n <= Len(Parent(x)))
  BY <1>4, <1>6
<1>11. Parent(x) = d
  <2> SUFFICES ASSUME Parent(x) # d PROVE FALSE
    OBVIOUS
  <2>1. Below(Parent(x))
    BY <1>5
  <2>2. Len(Parent(x)) \in N
    BY <1>9, <1>10, <2>1
  <2> QED BY <1>3, <1>10, <2>2
<1> QED BY <1>9, <1>11 DEF IsEmpty

-----------------------------------------------------------------------------
(* Replacing a prefix.                                                     *)

LEMMA RebaseIs ==
  ASSUME NEW f \in KeyPaths, NEW t \in KeyPaths, NEW k \in KeyPaths, IsPrefix(f, k)
  PROVE  LET x == Rebase(f, t, k) IN
         /\ x \in KeyPaths /\ Len(x) = Len(t) + (Len(k) - Len(f))
         /\ Agree(x, t, Len(t))
         /\ \A i \in 1..(Len(k) - Len(f)) : x[Len(t) + i] = k[Len(f) + i]
<1> DEFINE u == SubSeq(k, Len(f) + 1, Len(k))
           x == t \o u
<1>1. /\ f \in Seq(Name) /\ t \in Seq(Name) /\ k \in Seq(Name)
      /\ Len(f) \in Nat \ {0} /\ Len(t) \in Nat \ {0} /\ Len(k) \in Nat \ {0}
  BY ParentIs DEF KeyPaths
<1>2. Len(f) <= Len(k)
  BY <1>1, PrefixIs
<1>3. /\ Len(f) + 1 \in 1..(Len(k) + 1) /\ Len(k) \in (Len(f) + 1 - 1)..Len(k)
      /\ Len(k) - (Len(f) + 1) + 1 = Len(k) - Len(f)
  BY <1>1, <1>2
<1>4. /\ u \in Seq(Name) /\ Len(u) = Len(k) - (Len(f) + 1) + 1
      /\ \A i \in 1..(Len(k) - (Len(f) + 1) + 1) : u[i] = k[Len(f) + 1 + i - 1]
  BY <1>1, <1>3, CutIs
<1> HIDE DEF u
<1>5. /\ u \in Seq(Name) /\ Len(u) = Len(k) - Len(f)
      /\ \A i \in 1..(Len(k) - Len(f)) : u[i] = k[Len(f) + i]
  BY <1>1, <1>3, <1>4
<1>6. /\ x \in Seq(Name) /\ Len(x) = Len(t) + Len(u)
      /\ \A i \in 1..(Len(t) + Len(u)) : x[i] = IF i <= Len(t) THEN t[i] ELSE u[i - Len(t)]
  BY <1>1, <1>5, ConcatProperties
<1> HIDE DEF x
<1>7. x # <<>>
  BY <1>1, <1>2, <1>5, <1>6, EmptyIs
<1>8. ASSUME NEW i \in 1..Len(t) PROVE x[i] = t[i]
  <2>1. i \in 1..(Len(t) + Len(u)) /\ i <= Len(t)
    BY <1>1, <1>2, <1>5
  <2> QED BY <1>6, <2>1
<1>9. ASSUME NEW i \in 1..(Len(k) - Len(f)) PROVE x[Len(t) + i] = k[Len(f) + i]
  <2>1. Len(t) + i \in 1..(Len(t) + Len(u)) /\ ~(Len(t) + i <= Len(t)) /\ Len(t) + i - Len(t) = i
    BY <1>1, <1>2, <1>5
  <2> QED BY <1>5, <1>6, <2>1
<1>10. Rebase(f, t, k) = x
  BY DEF x, u, Rebase
<1> QED BY <1>5, <1>6, <1>7, <1>8, <1>9, <1>10 DEF Agree, KeyPaths

LEMMA RebaseInjective ==
  ASSUME NEW f \in KeyPaths, NEW t \in KeyPaths, NEW k \in KeyPaths, NEW l \in KeyPaths,
         IsPrefix(f, k), IsPrefix(f, l), Rebase(f, t, k) = Rebase(f, t, l)
  PROVE  k = l
<1>1. /\ f \in Seq(Name) /\ k \in Seq(Name) /\ l \in Seq(Name)
      /\ Len(f) \in Nat \ {0} /\ Len(t) \in Nat \ {0} /\ Len(k) \in Nat \ {0} /\ Len(l) \in Nat \ {0}
  BY ParentIs DEF KeyPaths
<1>2. /\ Len(f) <= Len(k) /\ Agree(f, k, Len(f))
      /\ Len(f) <= Len(l) /\ Agree(f, l, Len(f))
  BY <1>1, PrefixIs
<1> DEFINE x == Rebase(f, t, k)
           y == Rebase(f, t, l)
<1>a. /\ Len(x) = Len(t) + (Len(k) - Len(f))
      /\ \A i \in 1..(Len(k) - Len(f)) : x[Len(t) + i] = k[Len(f) + i]
  BY RebaseIs
<1>b. /\ Len(y) = Len(t) + (Len(l) - Len(f))
      /\ \A i \in 1..(Len(l) - Len(f)) : y[Len(t) + i] = l[Len(f) + i]
  BY RebaseIs
<1>c. x = y
  OBVIOUS
<1> HIDE DEF x, y
<1>3. /\ Len(x) = Len(t) + (Len(k) - Len(f)) /\ Len(x) = Len(t) + (Len(l) - Len(f))
      /\ \A i \in 1..(Len(k) - Len(f)) : x[Len(t) + i] = k[Len(f) + i]
      /\ \A i \in 1..(Len(l) - Len(f)) : x[Len(t) + i] = l[Len(f) + i]
  BY <1>a, <1>b, <1>c
<1>4. Len(k) = Len(l)
  BY <1>1, <1>3
<1>5. ASSUME NEW i \in 1..Len(k) PROVE k[i] = l[i]
  <2>1. CASE i <= Len(f)
    <3>1. i \in 1..Len(f)
      BY <1>1, <2>1
    <3> QED BY <1>2, <3>1 DEF Agree
  <2>2. CASE ~(i <= Len(f))
    <3>1. i - Len(f) \in 1..(Len(k) - Len(f)) /\ Len(f) + (i - Len(f)) = i
      BY <1>1, <1>2, <2>2
    <3>2. k[Len(f) + (i - Len(f))] = l[Len(f) + (i - Len(f))]
      BY <1>3, <1>4, <3>1
    <3> QED BY <3>1, <3>2
  <2> QED BY <2>1, <2>2
<1> QED BY <1>1, <1>4, <1>5, SameSeq

\* A path below f keeps its name and stays in its own directory's company.
LEMMA RebaseBelow ==
  ASSUME NEW f \in KeyPaths, NEW t \in KeyPaths, NEW k \in KeyPaths, IsPrefix(f, k)
  PROVE  /\ IsPrefix(t, Rebase(f, t, k)) /\ Rebase(f, t, f) = t
         /\ k # f => /\ Parent(k) \in KeyPaths /\ IsPrefix(f, Parent(k))
                     /\ Parent(Rebase(f, t, k)) = Rebase(f, t, Parent(k))
                     /\ Last(Rebase(f, t, k)) = Last(k)
<1>1. /\ f \in Seq(Name) /\ t \in Seq(Name) /\ k \in Seq(Name)
      /\ Len(f) \in Nat \ {0} /\ Len(t) \in Nat \ {0} /\ Len(k) \in Nat \ {0}
  BY ParentIs DEF KeyPaths
<1>2. Len(f) <= Len(k)
  BY <1>1, PrefixIs
<1> DEFINE x == Rebase(f, t, k)
           y == Rebase(f, t, f)
<1>3. /\ x \in KeyPaths /\ Len(x) = Len(t) + (Len(k) - Len(f)) /\ Agree(x, t, Len(t))
      /\ \A i \in 1..(Len(k) - Len(f)) : x[Len(t) + i] = k[Len(f) + i]
  BY RebaseIs
<1>4. y \in KeyPaths /\ Len(y) = Len(t) + (Len(f) - Len(f)) /\ Agree(y, t, Len(t))
  BY PrefixOfParent, RebaseIs
<1>5. Len(t) <= Len(x) /\ Agree(t, x, Len(t))
  BY <1>1, <1>2, <1>3 DEF Agree
<1>6. x \in Seq(Name) /\ y \in Seq(Name)
  BY <1>3, <1>4 DEF KeyPaths
<1>7. IsPrefix(t, x)
  BY <1>1, <1>5, <1>6, PrefixIs
<1>8. y = t
  <2>1. Len(y) = Len(t)
    BY <1>1, <1>4
  <2> QED BY <1>1, <1>4, <1>6, <2>1, SameSeq DEF Agree
<1>9. ASSUME k # f
      PROVE  /\ Parent(k) \in KeyPaths /\ IsPrefix(f, Parent(k))
             /\ Parent(x) = Rebase(f, t, Parent(k)) /\ Last(x) = Last(k)
  <2> DEFINE p == Parent(k)
             z == Rebase(f, t, p)
  <2>1. IsPrefix(f, p)
    BY <1>9, PrefixOfParent
  <2>2. /\ p \in Seq(Name) /\ Len(p) = Len(k) - 1 /\ \A i \in 1..(Len(k) - 1) : p[i] = k[i]
        /\ Last(k) = k[Len(k)]
    BY ParentIs
  <2>3. Len(f) <= Len(k) - 1
    BY <1>1, <2>1, <2>2, PrefixIs
  <2>4. p \in KeyPaths
    BY <1>1, <2>2, <2>3, EmptyIs DEF KeyPaths
  <2>5. /\ z \in KeyPaths /\ Len(z) = Len(t) + (Len(p) - Len(f)) /\ Agree(z, t, Len(t))
        /\ \A i \in 1..(Len(p) - Len(f)) : z[Len(t) + i] = p[Len(f) + i]
    BY <2>1, <2>4, RebaseIs
  <2>6. /\ Parent(x) \in Seq(Name) /\ Len(Parent(x)) = Len(x) - 1
        /\ \A i \in 1..(Len(x) - 1) : Parent(x)[i] = x[i]
        /\ Last(x) = x[Len(x)]
    BY <1>3, ParentIs
  <2> HIDE DEF p, x, z
  <2>7. Len(Parent(x)) = Len(z) /\ Len(z) \in Nat
    BY <1>1, <1>3, <2>2, <2>3, <2>5, <2>6
  <2>8. ASSUME NEW i \in 1..Len(z) PROVE Parent(x)[i] = z[i]
    <3>1. Parent(x)[i] = x[i]
      BY <2>6, <2>7, <2>8
    <3>2. CASE i <= Len(t)
      <4>1. i \in 1..Len(t)
        BY <1>1, <3>2, <2>7
      <4> QED BY <1>3, <2>5, <3>1, <4>1 DEF Agree
    <3>3. CASE ~(i <= Len(t))
      <4> DEFINE j == i - Len(t)
      <4>1. /\ j \in 1..(Len(p) - Len(f)) /\ j \in 1..(Len(k) - Len(f))
            /\ Len(f) + j \in 1..(Len(k) - 1) /\ Len(t) + j = i
        BY <1>1, <2>2, <2>3, <2>5, <2>7, <3>3
      <4>2. x[Len(t) + j] = k[Len(f) + j] /\ z[Len(t) + j] = p[Len(f) + j]
        BY <1>3, <2>5, <4>1
      <4>3. p[Len(f) + j] = k[Len(f) + j]
        BY <2>2, <4>1
      <4> QED BY <3>1, <4>1, <4>2, <4>3
    <3> QED BY <3>2, <3>3
  <2>9. z \in Seq(Name)
    BY <2>5 DEF KeyPaths
  <2>10. Parent(x) = z
    BY <2>6, <2>7, <2>8, <2>9, SameSeq
  <2>11. Last(x) = Last(k)
    <3> DEFINE j == Len(k) - Len(f)
    <3>1. j \in 1..(Len(k) - Len(f)) /\ Len(t) + j = Len(x) /\ Len(f) + j = Len(k)
      BY <1>1, <1>3, <2>3
    <3>2. x[Len(t) + j] = k[Len(f) + j]
      BY <1>3, <3>1
    <3> QED BY <2>2, <2>6, <3>1, <3>2
  <2> QED BY <2>1, <2>4, <2>10, <2>11 DEF p, x, z
<1> QED BY <1>7, <1>8, <1>9

-----------------------------------------------------------------------------
(* The system calls keep a tree a tree.                                    *)

Staying(g, f, t) == {k \in DOMAIN g : ~IsPrefix(f, k) /\ k # t}
Moving(g, f)     == {k \in DOMAIN g : IsPrefix(f, k)}

\* What a move of f to t makes of g, if what stays is not under t.
LEMMA MoveTreeIs ==
  ASSUME NEW g, \A k \in DOMAIN g : k \in KeyPaths, NEW f \in KeyPaths, NEW t \in KeyPaths,
         \A k \in Staying(g, f, t) : ~IsPrefix(t, k)
  PROVE  LET h == Store!MoveTree(g, f, t) IN
         /\ h = [k \in DOMAIN h |-> h[k]]
         /\ DOMAIN h = Staying(g, f, t) \union {Rebase(f, t, l) : l \in Moving(g, f)}
         /\ \A k \in Staying(g, f, t) : h[k] = g[k]
         /\ \A l \in Moving(g, f) : h[Rebase(f, t, l)] = g[l]
<1> DEFINE M == {k \in DOMAIN g : IsPrefix(f, k)}
           S == {k \in DOMAIN g : k \notin M /\ k # t}
           from(k) == CHOOSE l \in M : Rebase(f, t, l) = k
           D == S \union {Rebase(f, t, l) : l \in M}
           h == [k \in D |-> IF k \in S THEN g[k] ELSE g[from(k)]]
<1>1. Store!MoveTree(g, f, t) = h
  BY DEF Store!MoveTree, Store!Rebase, Rebase, Store!IsPrefix, IsPrefix
<1>a. M = Moving(g, f) /\ S = Staying(g, f, t)
  BY DEF Moving, Staying
<1> HIDE DEF M, S
<1>2. h = [k \in DOMAIN h |-> h[k]] /\ DOMAIN h = D
  OBVIOUS
<1>3. \A k \in S : h[k] = g[k]
  OBVIOUS
<1>4. ASSUME NEW l \in M PROVE h[Rebase(f, t, l)] = g[l]
  <2>1. l \in KeyPaths /\ IsPrefix(f, l)
    BY <1>a DEF Moving
  <2>2. IsPrefix(t, Rebase(f, t, l))
    BY <2>1, RebaseBelow
  <2>3. Rebase(f, t, l) \notin S
    BY <1>a, <2>2
  <2>4. \A j \in M : Rebase(f, t, j) = Rebase(f, t, l) => j = l
    <3> SUFFICES ASSUME NEW j \in M, Rebase(f, t, j) = Rebase(f, t, l) PROVE j = l
      OBVIOUS
    <3>1. j \in KeyPaths /\ IsPrefix(f, j)
      BY <1>a DEF Moving
    <3> QED BY <2>1, <3>1, RebaseInjective
  <2>5. from(Rebase(f, t, l)) = l
    BY <2>4
  <2>6. Rebase(f, t, l) \in D
    OBVIOUS
  <2> QED BY <2>3, <2>5, <2>6
<1> HIDE DEF h
<1>5. DOMAIN h = Staying(g, f, t) \union {Rebase(f, t, l) : l \in Moving(g, f)}
  BY <1>2, <1>a
<1> QED BY <1>1, <1>2, <1>3, <1>4, <1>5, <1>a

LEMMA EnterIs ==
  ASSUME TreeOK, NEW p, NEW v, p \notin DOMAIN tree, Enter(p, v)
  PROVE  /\ DOMAIN tree' = DOMAIN tree \union {p} /\ tree' = [k \in DOMAIN tree' |-> tree'[k]]
         /\ tree'[p] = v /\ \A k \in DOMAIN tree : tree'[k] = tree[k]
BY DEF Enter

LEMMA EnterTree ==
  ASSUME TreeOK, NEW p \in KeyPaths, NEW v \in Contents \union {"dir"}, CanEnter(p), Enter(p, v)
  PROVE  TreeOK'
<1>1. /\ DOMAIN tree' = DOMAIN tree \union {p} /\ tree' = [k \in DOMAIN tree' |-> tree'[k]]
      /\ tree'[p] = v /\ \A k \in DOMAIN tree : tree'[k] = tree[k]
  BY EnterIs DEF CanEnter, Absent
<1>2. Parent(p) = <<>> \/ (Parent(p) \in DOMAIN tree /\ tree[Parent(p)] = "dir")
  BY DEF CanEnter, IsDir
<1> QED BY <1>1, <1>2 DEF TreeOK

\* A file or an empty directory is taken away.
Removed(p) == tree' = Restrict(tree, DOMAIN tree \ {p})

LEMMA RemovedIs ==
  ASSUME NEW p, Removed(p)
  PROVE  /\ DOMAIN tree' = DOMAIN tree \ {p} /\ tree' = [k \in DOMAIN tree' |-> tree'[k]]
         /\ \A k \in DOMAIN tree' : tree'[k] = tree[k]
BY DEF Removed, Restrict

LEMMA RemovedTree ==
  ASSUME TreeOK, NEW p, Removed(p), p \in DOMAIN tree => tree[p] # "dir" \/ IsEmpty(p)
  PROVE  TreeOK'
<1>1. /\ DOMAIN tree' = DOMAIN tree \ {p} /\ tree' = [k \in DOMAIN tree' |-> tree'[k]]
      /\ \A k \in DOMAIN tree' : tree'[k] = tree[k]
  BY RemovedIs
<1>2. ASSUME NEW k \in DOMAIN tree'
      PROVE  Parent(k) = <<>> \/ (Parent(k) \in DOMAIN tree' /\ tree'[Parent(k)] = "dir")
  <2>1. Parent(k) = <<>> \/ (Parent(k) \in DOMAIN tree /\ tree[Parent(k)] = "dir")
    BY <1>1 DEF TreeOK
  <2>2. Parent(k) = p /\ p \in DOMAIN tree => tree[p] # "dir"
    BY <1>1 DEF IsEmpty
  <2> QED BY <1>1, <2>1, <2>2
<1> QED BY <1>1, <1>2 DEF TreeOK

LEMMA CanUnlinkMeans ==
  ASSUME NEW p, CanUnlink(p) PROVE p \in DOMAIN tree /\ (tree[p] # "dir" \/ IsEmpty(p))
BY DEF CanUnlink, IsDir

LEMMA UnlinkIsRemoved == ASSUME NEW p, Unlink(p) PROVE Removed(p)
BY DEF Unlink, Removed

\* rename(2): what was under src is under dst, at which there was nothing else.
LEMMA RenameIs ==
  ASSUME TreeOK, NEW src \in KeyPaths, NEW dst \in KeyPaths, CanRename(src, dst), Rename(src, dst)
  PROVE  /\ tree' = [k \in DOMAIN tree' |-> tree'[k]]
         /\ DOMAIN tree' = Staying(tree, src, dst) \union {Rebase(src, dst, l) : l \in Moving(tree, src)}
         /\ \A k \in Staying(tree, src, dst) : tree'[k] = tree[k] /\ ~IsPrefix(dst, k)
         /\ \A l \in Moving(tree, src) : tree'[Rebase(src, dst, l)] = tree[l]
         /\ \A k \in DOMAIN tree : ~(IsPrefix(dst, k) /\ k # dst)
<1>1. ASSUME NEW k \in DOMAIN tree, IsPrefix(dst, k), k # dst PROVE FALSE
  <2>1. dst \in DOMAIN tree /\ tree[dst] = "dir" /\ ~IsEmpty(dst)
    BY <1>1, Ancestors
  <2> QED BY <2>1 DEF CanRename, IsDir, Absent
<1>2. \A k \in Staying(tree, src, dst) : ~IsPrefix(dst, k)
  BY <1>1 DEF Staying
<1>3. \A k \in DOMAIN tree : k \in KeyPaths
  BY DEF TreeOK
<1> DEFINE h == Store!MoveTree(tree, src, dst)
<1>4. tree' = h
  BY DEF Rename, Store!MoveTree, Store!Rebase, Rebase, Store!IsPrefix, IsPrefix
<1>5. /\ h = [k \in DOMAIN h |-> h[k]]
      /\ DOMAIN h = Staying(tree, src, dst) \union {Rebase(src, dst, l) : l \in Moving(tree, src)}
      /\ \A k \in Staying(tree, src, dst) : h[k] = tree[k]
      /\ \A l \in Moving(tree, src) : h[Rebase(src, dst, l)] = tree[l]
  BY <1>2, <1>3, MoveTreeIs
<1> HIDE DEF h
<1> QED BY <1>1, <1>2, <1>4, <1>5

LEMMA RenameTree ==
  ASSUME TreeOK, NEW src \in KeyPaths, NEW dst \in KeyPaths, CanRename(src, dst), Rename(src, dst)
  PROVE  TreeOK'
<1>1. /\ tree' = [k \in DOMAIN tree' |-> tree'[k]]
      /\ DOMAIN tree' = Staying(tree, src, dst) \union {Rebase(src, dst, l) : l \in Moving(tree, src)}
      /\ \A k \in Staying(tree, src, dst) : tree'[k] = tree[k]
      /\ \A l \in Moving(tree, src) : tree'[Rebase(src, dst, l)] = tree[l]
      /\ \A k \in DOMAIN tree : ~(IsPrefix(dst, k) /\ k # dst)
  BY RenameIs
<1>2. \A k \in DOMAIN tree : /\ k \in KeyPaths /\ tree[k] \in Contents \union {"dir"}
                             /\ Parent(k) # <<>> => Parent(k) \in DOMAIN tree /\ tree[Parent(k)] = "dir"
  BY DEF TreeOK
<1> DEFINE Kept(k) == Parent(k) = <<>> \/ (Parent(k) \in DOMAIN tree' /\ tree'[Parent(k)] = "dir")
\* The parent of a path that does not move, and is not dst, stays.
<1>3. ASSUME NEW k \in KeyPaths, ~IsPrefix(src, k), Parent(k) # dst,
             Parent(k) # <<>> => Parent(k) \in DOMAIN tree /\ tree[Parent(k)] = "dir"
      PROVE  Kept(k)
  <2> SUFFICES ASSUME Parent(k) # <<>> PROVE Parent(k) \in DOMAIN tree' /\ tree'[Parent(k)] = "dir"
    OBVIOUS
  <2>1. ~IsPrefix(src, Parent(k))
    BY <1>3, PrefixOfParent
  <2>2. Parent(k) \in Staying(tree, src, dst)
    BY <1>3, <2>1 DEF Staying
  <2> QED BY <1>1, <1>3, <2>2
<1>4. ASSUME NEW k \in Staying(tree, src, dst)
      PROVE  k \in KeyPaths /\ tree'[k] \in Contents \union {"dir"} /\ Kept(k)
  <2>1. k \in DOMAIN tree /\ ~IsPrefix(src, k) /\ k # dst /\ k \in KeyPaths
    BY <1>2 DEF Staying
  <2>2. Parent(k) # dst
    <3>1. Parent(k) = dst => IsPrefix(dst, Parent(k))
      BY PrefixOfParent
    <3> QED BY <1>1, <2>1, <3>1, PrefixOfParent
  <2>3. Kept(k)
    BY <1>2, <1>3, <2>1, <2>2
  <2> QED BY <1>1, <1>2, <2>1, <2>3
<1>5. ASSUME NEW l \in Moving(tree, src)
      PROVE  LET k == Rebase(src, dst, l) IN
             k \in KeyPaths /\ tree'[k] \in Contents \union {"dir"} /\ Kept(k)
  <2>1. l \in DOMAIN tree /\ l \in KeyPaths /\ IsPrefix(src, l)
    BY <1>2 DEF Moving
  <2>2. Rebase(src, dst, l) \in KeyPaths
    BY <2>1, RebaseIs
  <2>3. tree'[Rebase(src, dst, l)] \in Contents \union {"dir"}
    BY <1>1, <1>2, <2>1
  <2>4. CASE l = src
    <3>1. Rebase(src, dst, l) = dst
      BY <2>1, <2>4, RebaseBelow
    <3>2. ~IsPrefix(src, dst) /\ (Parent(dst) # <<>> => Parent(dst) \in DOMAIN tree /\ tree[Parent(dst)] = "dir")
      BY DEF CanRename, IsDir
    <3>3. Parent(dst) # dst
      BY PrefixOfParent
    <3>4. Kept(dst)
      BY <1>3, <3>2, <3>3
    <3> QED BY <2>2, <2>3, <3>1, <3>4
  <2>5. CASE l # src
    <3>1. /\ Parent(l) \in KeyPaths /\ IsPrefix(src, Parent(l))
          /\ Parent(Rebase(src, dst, l)) = Rebase(src, dst, Parent(l))
      BY <2>1, <2>5, RebaseBelow
    <3>2. Parent(l) \in DOMAIN tree /\ tree[Parent(l)] = "dir"
      BY <1>2, <2>1, <3>1 DEF KeyPaths
    <3>3. Parent(l) \in Moving(tree, src)
      BY <3>1, <3>2 DEF Moving
    <3>4. Kept(Rebase(src, dst, l))
      BY <1>1, <3>1, <3>2, <3>3
    <3> QED BY <2>2, <2>3, <3>4
  <2> QED BY <2>4, <2>5
<1>6. \A k \in DOMAIN tree' : k \in KeyPaths /\ tree'[k] \in Contents \union {"dir"} /\ Kept(k)
  <2>1. \A k \in DOMAIN tree' : \/ k \in Staying(tree, src, dst)
                                \/ \E l \in Moving(tree, src) : k = Rebase(src, dst, l)
    BY <1>1
  <2> HIDE DEF Kept
  <2> QED BY <1>4, <1>5, <2>1
<1> QED BY <1>1, <1>6 DEF TreeOK

-----------------------------------------------------------------------------
(* Where each request is: Shapes and Requested.                            *)

\* Request r goes to at, with q as what it was asked and ms to make.
Step(r, at, q, ms) ==
  /\ pc' = [pc EXCEPT ![r] = at]
  /\ req' = [req EXCEPT ![r] = q]
  /\ mkdirs' = [mkdirs EXCEPT ![r] = ms]

Legal(at, q, ms) == at \in FsPCs /\ IF at = "idle" THEN q = Null ELSE AskedAs(at, q, ms)

LEMMA StepIs ==
  ASSUME Shapes, NEW r \in Slots, NEW at, NEW q, NEW ms, Step(r, at, q, ms)
  PROVE  /\ pc'[r] = at /\ req'[r] = q /\ mkdirs'[r] = ms
         /\ \A s \in Slots \ {r} : pc'[s] = pc[s] /\ req'[s] = req[s] /\ mkdirs'[s] = mkdirs[s]
BY DEF Shapes, Step

LEMMA StepRequested ==
  ASSUME Shapes, Requested, NEW r \in Slots, NEW at, NEW q, NEW ms,
         Step(r, at, q, ms), Legal(at, q, ms)
  PROVE  Requested'
<1>1. /\ pc'[r] = at /\ req'[r] = q /\ mkdirs'[r] = ms
      /\ \A s \in Slots \ {r} : pc'[s] = pc[s] /\ req'[s] = req[s] /\ mkdirs'[s] = mkdirs[s]
  BY StepIs
<1>2. ASSUME NEW s \in Slots
      PROVE  IF pc'[s] = "idle" THEN req'[s] = Null ELSE AskedAs(pc'[s], req'[s], mkdirs'[s])
  BY <1>1 DEF Requested, Legal
<1> QED BY <1>2 DEF Requested, AskedAs

LEMMA StepShapes ==
  ASSUME Shapes, NEW r \in Slots, NEW at, NEW q, NEW ms, Step(r, at, q, ms), at \in FsPCs,
         whole' \subseteq Contents, stray' \subseteq Contents,
         status' \in [Contents -> {"pending", "stored", "refused"}], started' \in 0..MaxRequests
  PROVE  Shapes'
BY DEF Shapes, Step

LEMMA GotoIs ==
  ASSUME Shapes, NEW r \in Slots, NEW at, Goto(r, at), UNCHANGED <<req, mkdirs>>
  PROVE  Step(r, at, req[r], mkdirs[r])
BY DEF Shapes, Goto, Step

LEMMA StayIs ==
  ASSUME Shapes, NEW r \in Slots, UNCHANGED <<pc, req, mkdirs>>
  PROVE  Step(r, pc[r], req[r], mkdirs[r])
BY DEF Shapes, Step

LEMMA ReturnIs ==
  ASSUME NEW r \in Slots, Return(r) PROVE Step(r, "idle", Null, <<>>) /\ Legal("idle", Null, <<>>)
BY DEF Return, Goto, Step, Legal, FsPCs

\* A request under way.
LEMMA AskedIs ==
  ASSUME Requested, NEW r \in Slots, pc[r] # "idle"
  PROVE  /\ AskedAs(pc[r], req[r], mkdirs[r]) /\ req[r] # Null /\ req[r].p \in Paths
         /\ req[r].op \in FsOps /\ req[r].c \in Contents \union {Null}
         /\ req[r].op = "write" <=> req[r].c # Null
<1>1. AskedAs(pc[r], req[r], mkdirs[r])
  BY DEF Requested
<1> QED BY <1>1, FilesystemAssumption DEF AskedAs, Requests

LEMMA NullIsIdle ==
  ASSUME Requested, NEW r \in Slots PROVE req[r] = Null <=> pc[r] = "idle"
BY AskedIs DEF Requested

\* Going on to another position with the same request.
LEMMA HereAsked ==
  ASSUME Requested, NEW r \in Slots, pc[r] # "idle", NEW at \in FsPCs \ {"idle", "mkdirs"},
         at \in TempPCs \union {"temp"} => pc[r] \in TempPCs \union {"temp"} \/ req[r].op = "write",
         at \in {"check", "rename"} => pc[r] \in {"check", "rename"} \/ req[r].op \in Moves
  PROVE  \A ms : Legal(at, req[r], ms)
<1>1. AskedAs(pc[r], req[r], mkdirs[r])
  BY AskedIs
<1> QED BY <1>1 DEF AskedAs, Legal

-----------------------------------------------------------------------------
(* Paths that requests name.                                               *)

Plain(p) == p \in Seq(Name) /\ \A i \in 1..Len(p) : p[i] \notin Contents

LEMMA PathIs ==
  ASSUME NEW p \in Paths
  PROVE  Plain(p) /\ p \in KeyPaths /\ p \in PlainPaths /\ Plain(Parent(p))
<1>1. p \in Seq(STRING) /\ p # <<>> /\ \A i \in DOMAIN p : p[i] \notin Contents
  BY FilesystemAssumption
<1>2. p \in Seq(Name)
  BY <1>1, SeqMonotonic DEF Name
<1>3. DOMAIN p = 1..Len(p)
  BY <1>2, LenProperties
<1>4. Plain(p) /\ p \in KeyPaths
  BY <1>1, <1>2, <1>3 DEF Plain, KeyPaths
<1>5. /\ Parent(p) \in Seq(Name) /\ Len(p) \in Nat \ {0} /\ Len(Parent(p)) = Len(p) - 1
      /\ \A i \in 1..(Len(p) - 1) : Parent(p)[i] = p[i]
      /\ Last(p) = p[Len(p)]
  BY <1>4, ParentIs
<1>6. Len(p) \in 1..Len(p) /\ \A i \in 1..(Len(p) - 1) : i \in 1..Len(p)
  BY <1>5
<1>7. Last(p) \notin Contents
  BY <1>4, <1>5, <1>6 DEF Plain
<1>8. Plain(Parent(p))
  BY <1>4, <1>5, <1>6 DEF Plain
<1> QED BY <1>4, <1>7, <1>8 DEF PlainPaths

\* Request r goes to at with ms to make.
Makes(r, at, ms) ==
  /\ Goto(r, at) /\ mkdirs' = [mkdirs EXCEPT ![r] = ms]
  /\ at = "mkdirs" => ms \in Seq(PlainPaths) /\ ms # <<>>

LEMMA MkdirAllIs ==
  ASSUME Shapes, NEW r \in Slots, NEW p, Plain(p), NEW then, then # "mkdirs", MkdirAll(r, p, then)
  PROVE  \E at \in {then, "mkdirs"} : \E ms : Makes(r, at, ms)
<1>1. CASE p = <<>>
  <2>1. mkdirs' = [mkdirs EXCEPT ![r] = mkdirs[r]] /\ Goto(r, then)
    BY <1>1 DEF MkdirAll, Shapes
  <2> QED BY <2>1 DEF Makes
<1>2. CASE p # <<>>
  <2> DEFINE ms == [i \in 1..Len(p) |-> SubSeq(p, 1, i)]
  <2>1. p \in Seq(Name) /\ Len(p) \in Nat \ {0}
    BY <1>2, LenIs, EmptyIs DEF Plain
  <2>2. ASSUME NEW i \in 1..Len(p) PROVE SubSeq(p, 1, i) \in PlainPaths
    <3> DEFINE s == SubSeq(p, 1, i)
    <3>1. i \in 0..Len(p) /\ i \in 1..i /\ i # 0 /\ i \in Nat
      BY <2>1
    <3>2. s \in Seq(Name) /\ Len(s) = i /\ \A j \in 1..i : s[j] = p[j]
      BY <2>1, <3>1, HeadIs
    <3> HIDE DEF s
    <3>3. s # <<>>
      BY <3>1, <3>2, EmptyIs
    <3>4. Last(s) = p[i]
      BY <3>1, <3>2 DEF Last
    <3>5. Last(s) \notin Contents
      BY <3>4 DEF Plain
    <3>6. s \in PlainPaths
      BY <3>2, <3>3, <3>5 DEF PlainPaths, KeyPaths
    <3> QED BY <3>6 DEF s
  <2>3. ms \in [1..Len(p) -> PlainPaths]
    BY <2>2
  <2>4. ms \in Seq(PlainPaths) /\ ms # <<>>
    <3>1. ms \in Seq(PlainPaths)
      BY <2>1, <2>3, SeqDef
    <3>2. DOMAIN ms = 1..Len(p) /\ 1 \in 1..Len(p)
      BY <2>1
    <3>3. DOMAIN <<>> = {}
      OBVIOUS
    <3> QED BY <3>1, <3>2, <3>3
  <2>5. Goto(r, "mkdirs") /\ mkdirs' = [mkdirs EXCEPT ![r] = ms]
    BY <1>2 DEF MkdirAll
  <2> HIDE DEF ms
  <2> QED BY <2>4, <2>5 DEF Makes
<1> QED BY <1>1, <1>2

-----------------------------------------------------------------------------
(* One step of a request, part by part of the invariant.                   *)

\* What any call does to the tree: a path is left alone, is an object or a
\* directory from now on, or has become the place of a stray temporary file.
TreeStep ==
  /\ TreeOK'
  /\ \A p \in DOMAIN tree' :
       \/ p \in DOMAIN tree /\ tree'[p] = tree[p]
       \/ Last(p) \notin Contents /\ tree'[p] \in whole' \union {"dir"}
       \/ Last(p) \in stray' /\ tree'[p] = Last(p)

LEMMA FilesStay ==
  ASSUME Files, TreeStep, whole \subseteq whole', stray' \subseteq Contents PROVE Files'
BY DEF Files, TreeStep

LEMMA TempsStay ==
  ASSUME Shapes, Temps, TreeStep, NEW r \in Slots, NEW at, NEW q, NEW ms, Step(r, at, q, ms),
         stray \subseteq stray',
         pc[r] \in TempPCs => \/ at \in TempPCs /\ q = req[r]
                              \/ Tmp(r) \notin DOMAIN tree'
                              \/ req[r].c \in stray'
  PROVE  Temps'
<1>1. /\ pc'[r] = at /\ req'[r] = q
      /\ \A s \in Slots \ {r} : pc'[s] = pc[s] /\ req'[s] = req[s]
  BY StepIs
<1>2. ASSUME NEW p \in DOMAIN tree', Last(p) \in Contents \ stray'
      PROVE  \E s \in Slots : pc'[s] \in TempPCs /\ p = Parent(req'[s].p) \o <<req'[s].c>>
                              /\ Last(p) = req'[s].c
  <2>1. p \in DOMAIN tree /\ Last(p) \in Contents \ stray
    BY <1>2 DEF TreeStep
  <2>2. PICK s \in Slots : pc[s] \in TempPCs /\ p = Tmp(s) /\ Last(p) = req[s].c
    BY <2>1 DEF Temps
  <2>3. pc'[s] \in TempPCs /\ req'[s] = req[s]
    BY <1>1, <1>2, <2>2
  <2> QED BY <2>2, <2>3 DEF Tmp
<1> QED BY <1>2 DEF Temps, Tmp

LEMMA WritesStay ==
  ASSUME Shapes, Requested, Writes, NEW r \in Slots, NEW at, NEW q, NEW ms, Step(r, at, q, ms),
         Legal(at, q, ms), whole \subseteq whole',
         \A s \in Slots \ {r} : req[s] # Null /\ req[s].op = "write" =>
           status'[req[s].c] = status[req[s].c],
         q # Null /\ q.op = "write" =>
           /\ at \notin {"unlink", "stat"} => status'[q.c] = "pending"
           /\ at = "publish" => q.c \in whole'
           /\ \A s \in Slots \ {r} : req[s] # Null => req[s].c # q.c
  PROVE  Writes'
<1>1. /\ pc'[r] = at /\ req'[r] = q
      /\ \A s \in Slots \ {r} : pc'[s] = pc[s] /\ req'[s] = req[s]
  BY StepIs
<1>2. \A s \in Slots : req[s] # Null => (req[s].op = "write" <=> req[s].c # Null)
  BY AskedIs, NullIsIdle
<1>3. q # Null => (q.op = "write" <=> q.c # Null)
  BY DEF Legal, AskedAs
<1>4. ASSUME NEW s \in Slots, req'[s] # Null, req'[s].op = "write"
      PROVE  /\ pc'[s] \notin {"unlink", "stat"} => status'[req'[s].c] = "pending"
             /\ pc'[s] = "publish" => req'[s].c \in whole'
             /\ \A t \in Slots : req'[t] # Null /\ req'[t].c = req'[s].c => t = s
  <2>1. CASE s = r
    BY <1>1, <1>4, <2>1
  <2>2. CASE s # r
    <3>1. pc'[s] = pc[s] /\ req'[s] = req[s]
      BY <1>1, <2>2
    <3>2. /\ pc[s] \notin {"unlink", "stat"} => status[req[s].c] = "pending"
          /\ pc[s] = "publish" => req[s].c \in whole
          /\ \A t \in Slots : req[t] # Null /\ req[t].c = req[s].c => t = s
      BY <1>4, <3>1 DEF Writes
    <3>3. status'[req[s].c] = status[req[s].c]
      BY <1>4, <2>2, <3>1
    <3>4. ASSUME NEW t \in Slots, req'[t] # Null, req'[t].c = req'[s].c PROVE t = s
      <4>1. CASE t # r
        BY <1>1, <3>1, <3>2, <3>4, <4>1
      <4>2. CASE t = r
        <5>1. q # Null /\ q.c = req[s].c
          BY <1>1, <3>1, <3>4, <4>2
        <5>2. q.op = "write"
          BY <1>2, <1>3, <1>4, <3>1, <5>1
        <5> QED BY <1>4, <2>2, <3>1, <5>1, <5>2
      <4> QED BY <4>1, <4>2
    <3> QED BY <3>1, <3>2, <3>3, <3>4
  <2> QED BY <2>1, <2>2
<1> QED BY <1>4 DEF Writes

\* The write in r is the only one of its content, so settling it touches no other.
LEMMA SettledAlone ==
  ASSUME Shapes, Requested, Writes, NEW r \in Slots, pc[r] # "idle",
         \/ UNCHANGED status
         \/ req[r].op = "write" /\ \E as \in {"stored", "refused"} : Settle(r, as)
  PROVE  /\ \A s \in Slots \ {r} : req[s] # Null /\ req[s].op = "write" =>
              status'[req[s].c] = status[req[s].c]
         /\ status' \in [Contents -> {"pending", "stored", "refused"}]
<1>1. CASE UNCHANGED status
  BY <1>1 DEF Shapes
<1>2. CASE req[r].op = "write" /\ \E as \in {"stored", "refused"} : Settle(r, as)
  <2>1. PICK as \in {"stored", "refused"} : status' = [status EXCEPT ![req[r].c] = as]
    BY <1>2 DEF Settle
  <2>2. req[r] # Null
    BY AskedIs
  <2>3. ASSUME NEW s \in Slots \ {r}, req[s] # Null, req[s].op = "write"
        PROVE  req[s].c # req[r].c /\ req[s].c \in Contents
    <3>1. req[s].c # req[r].c
      BY <2>2, <2>3 DEF Writes
    <3>2. req[s].c \in Contents
      BY <2>3, NullIsIdle, AskedIs
    <3> QED BY <3>1, <3>2
  <2>4. status \in [Contents -> {"pending", "stored", "refused"}]
    BY DEF Shapes
  <2>5. \A s \in Slots \ {r} : req[s] # Null /\ req[s].op = "write" =>
              status'[req[s].c] = status[req[s].c]
    BY <2>1, <2>3, <2>4
  <2>6. status' \in [Contents -> {"pending", "stored", "refused"}]
    BY <2>1, <2>4
  <2> QED BY <2>5, <2>6
<1> QED BY <1>1, <1>2

-----------------------------------------------------------------------------
(* Steps within a request, and its end.                                    *)

LEMMA GoesOn ==
  ASSUME IInv, NEW r \in Slots, pc[r] # "idle", NEW at, NEW ms, Step(r, at, req[r], ms),
         Legal(at, req[r], ms), TreeStep, UNCHANGED <<whole, started, status, stray>>,
         pc[r] \in TempPCs => at \in TempPCs,
         pc[r] \in {"unlink", "stat"} => at \in {"unlink", "stat"},
         at = "publish" => pc[r] = "publish"
  PROVE  IInv'
<1> USE DEF IInv
<1>1. Requested'
  BY StepRequested
<1>2. Shapes'
  <2>1. at \in FsPCs
    BY DEF Legal
  <2> QED BY <2>1, StepShapes DEF Shapes
<1>3. Temps'
  BY TempsStay
<1>4. Files'
  BY FilesStay DEF Shapes
<1>5. req[r] # Null
  BY AskedIs
<1>6. Writes'
  <2>1. req[r].op = "write" =>
           /\ at \notin {"unlink", "stat"} => status'[req[r].c] = "pending"
           /\ at = "publish" => req[r].c \in whole'
           /\ \A s \in Slots \ {r} : req[s] # Null => req[s].c # req[r].c
    BY <1>5 DEF Writes
  <2> QED BY <2>1, WritesStay
<1> QED BY <1>1, <1>2, <1>3, <1>4, <1>6 DEF TreeStep

LEMMA Ends ==
  ASSUME IInv, NEW r \in Slots, pc[r] # "idle", Return(r), TreeStep, UNCHANGED <<whole, started>>,
         stray \subseteq stray', stray' \subseteq Contents,
         \/ UNCHANGED status
         \/ req[r].op = "write" /\ \E as \in {"stored", "refused"} : Settle(r, as),
         pc[r] \in TempPCs => Tmp(r) \notin DOMAIN tree' \/ req[r].c \in stray'
  PROVE  IInv'
<1> USE DEF IInv
<1>1. Step(r, "idle", Null, <<>>) /\ Legal("idle", Null, <<>>)
  BY ReturnIs
<1>2. Requested'
  BY <1>1, StepRequested
<1>3. /\ \A s \in Slots \ {r} : req[s] # Null /\ req[s].op = "write" =>
              status'[req[s].c] = status[req[s].c]
      /\ status' \in [Contents -> {"pending", "stored", "refused"}]
  BY SettledAlone
<1>4. Shapes'
  <2>1. "idle" \in FsPCs
    BY DEF FsPCs
  <2> QED BY <1>1, <1>3, <2>1, StepShapes DEF Shapes
<1>5. Temps'
  BY <1>1, TempsStay
<1>6. Files'
  BY FilesStay
<1>7. Writes'
  BY <1>1, <1>3, WritesStay
<1> QED BY <1>2, <1>4, <1>5, <1>6, <1>7 DEF TreeStep

-----------------------------------------------------------------------------
(* What each call does to the tree.                                        *)

LEMMA SameTree == ASSUME TreeOK, UNCHANGED tree PROVE TreeStep
BY DEF TreeOK, TreeStep, Parent, Front

LEMMA EnterStep ==
  ASSUME TreeOK, NEW p \in PlainPaths, NEW v \in Contents \union {"dir"}, v \in whole' \union {"dir"},
         CanEnter(p), Enter(p, v)
  PROVE  TreeStep
<1>1. p \in KeyPaths /\ Last(p) \notin Contents
  BY DEF PlainPaths
<1>2. TreeOK'
  BY <1>1, EnterTree
<1>3. /\ DOMAIN tree' = DOMAIN tree \union {p}
      /\ tree'[p] = v /\ \A k \in DOMAIN tree : tree'[k] = tree[k]
  BY EnterIs DEF CanEnter, Absent
<1> QED BY <1>1, <1>2, <1>3 DEF TreeStep

LEMMA RemovedStep ==
  ASSUME TreeOK, NEW p, Removed(p), p \in DOMAIN tree => tree[p] # "dir" \/ IsEmpty(p)
  PROVE  TreeStep
<1>1. TreeOK'
  BY RemovedTree
<1>2. DOMAIN tree' = DOMAIN tree \ {p} /\ \A k \in DOMAIN tree' : tree'[k] = tree[k]
  BY RemovedIs
<1> QED BY <1>1, <1>2 DEF TreeStep

LEMMA UnlinkStep ==
  ASSUME TreeOK, NEW p, CanUnlink(p), Unlink(p)
  PROVE  TreeStep /\ DOMAIN tree' = DOMAIN tree \ {p}
<1>1. Removed(p) /\ p \in DOMAIN tree /\ (tree[p] # "dir" \/ IsEmpty(p))
  BY UnlinkIsRemoved, CanUnlinkMeans
<1> QED BY <1>1, RemovedStep, RemovedIs

\* Temporary names.
LEMMA TmpIs ==
  ASSUME Requested, NEW r \in Slots, pc[r] \in TempPCs \union {"temp"}
  PROVE  /\ req[r] # Null /\ req[r].op = "write" /\ req[r].c \in Contents
         /\ req[r].p \in Paths /\ req[r].p \in PlainPaths /\ req[r].p \in KeyPaths
         /\ Tmp(r) \in KeyPaths /\ Last(Tmp(r)) = req[r].c /\ Parent(Tmp(r)) = Parent(req[r].p)
<1>1. pc[r] # "idle"
  BY DEF TempPCs
<1>2. /\ AskedAs(pc[r], req[r], mkdirs[r]) /\ req[r] # Null /\ req[r].p \in Paths
      /\ req[r].c \in Contents \union {Null}
      /\ req[r].op = "write" <=> req[r].c # Null
  BY <1>1, AskedIs
<1>3. req[r].op = "write" /\ req[r].c \in Contents
  BY <1>2 DEF AskedAs
<1>4. req[r].p \in PlainPaths /\ req[r].p \in KeyPaths /\ Parent(req[r].p) \in Seq(Name)
  BY <1>2, PathIs DEF Plain
<1>5. req[r].c \in Name
  BY <1>3 DEF Name
<1>6. Tmp(r) \in KeyPaths /\ Last(Tmp(r)) = req[r].c /\ Parent(Tmp(r)) = Parent(req[r].p)
  BY <1>4, <1>5, ChildIs DEF Tmp
<1> QED BY <1>2, <1>3, <1>4, <1>6

\* A file has nothing below it: a rename moves just the file.
LEMMA RenameFileIs ==
  ASSUME TreeOK, NEW src \in KeyPaths, NEW dst \in KeyPaths, tree[src] # "dir",
         CanRename(src, dst), Rename(src, dst)
  PROVE  /\ src \in DOMAIN tree
         /\ DOMAIN tree' = (DOMAIN tree \ {src}) \union {dst}
         /\ tree'[dst] = tree[src]
         /\ \A k \in DOMAIN tree \ {src, dst} : tree'[k] = tree[k]
<1>1. /\ DOMAIN tree' = Staying(tree, src, dst) \union {Rebase(src, dst, l) : l \in Moving(tree, src)}
      /\ \A k \in Staying(tree, src, dst) : tree'[k] = tree[k]
      /\ \A l \in Moving(tree, src) : tree'[Rebase(src, dst, l)] = tree[l]
  BY RenameIs
<1>2. src \in DOMAIN tree
  BY DEF CanRename
<1>3. \A k \in DOMAIN tree : IsPrefix(src, k) => k = src
  BY Ancestors
<1>4. IsPrefix(src, src) /\ Rebase(src, dst, src) = dst
  BY PrefixOfParent, RebaseBelow
<1>5. Moving(tree, src) = {src} /\ Staying(tree, src, dst) = DOMAIN tree \ {src, dst}
  BY <1>2, <1>3, <1>4 DEF Moving, Staying
<1>6. {Rebase(src, dst, l) : l \in Moving(tree, src)} = {dst}
  BY <1>4, <1>5
<1>7. src # dst
  BY <1>4 DEF CanRename
<1>8. DOMAIN tree' = (DOMAIN tree \ {src}) \union {dst}
  BY <1>1, <1>5, <1>6, <1>7
<1> QED BY <1>1, <1>2, <1>4, <1>5, <1>8

\* A move takes the temporary files below its folder along, and only those.
LEMMA MoveStepTree ==
  ASSUME TreeOK, Files, NEW src \in PlainPaths, NEW dst \in PlainPaths, whole' = whole,
         stray' = stray \union TempsUnder(src), CanRename(src, dst), Rename(src, dst)
  PROVE  TreeStep
<1>0. src \in KeyPaths /\ dst \in KeyPaths /\ Last(src) \notin Contents /\ Last(dst) \notin Contents
  BY DEF PlainPaths
<1>1. /\ DOMAIN tree' = Staying(tree, src, dst) \union {Rebase(src, dst, l) : l \in Moving(tree, src)}
      /\ \A k \in Staying(tree, src, dst) : tree'[k] = tree[k]
      /\ \A l \in Moving(tree, src) : tree'[Rebase(src, dst, l)] = tree[l]
  BY <1>0, RenameIs
<1>2. TreeOK'
  BY <1>0, RenameTree
<1>3. ASSUME NEW l \in Moving(tree, src)
      PROVE  LET p == Rebase(src, dst, l) IN
             \/ Last(p) \notin Contents /\ tree'[p] \in whole' \union {"dir"}
             \/ Last(p) \in stray' /\ tree'[p] = Last(p)
  <2>1. l \in DOMAIN tree /\ l \in KeyPaths /\ IsPrefix(src, l)
    BY DEF Moving, TreeOK
  <2>2. /\ Last(l) \in Contents => tree[l] = Last(l)
        /\ Last(l) \notin Contents => tree[l] \in whole \union {"dir"}
    BY <2>1 DEF Files
  <2>3. tree'[Rebase(src, dst, l)] = tree[l]
    BY <1>1
  <2>4. CASE l = src
    <3>1. Rebase(src, dst, l) = dst
      BY <1>0, <2>1, <2>4, RebaseBelow
    <3> QED BY <1>0, <2>2, <2>3, <2>4, <3>1
  <2>5. CASE l # src
    <3>1. Last(Rebase(src, dst, l)) = Last(l)
      BY <1>0, <2>1, <2>5, RebaseBelow
    <3>2. Last(l) \in Contents => Last(l) \in TempsUnder(src)
      BY <2>1, <2>5 DEF TempsUnder
    <3> QED BY <2>2, <2>3, <3>1, <3>2
  <2> QED BY <2>4, <2>5
<1>4. ASSUME NEW k \in Staying(tree, src, dst) PROVE k \in DOMAIN tree /\ tree'[k] = tree[k]
  BY <1>1 DEF Staying
<1>5. \A p \in DOMAIN tree' : \/ p \in Staying(tree, src, dst)
                              \/ \E l \in Moving(tree, src) : p = Rebase(src, dst, l)
  BY <1>1
<1> QED BY <1>2, <1>3, <1>4, <1>5 DEF TreeStep

-----------------------------------------------------------------------------
(* Begin.                                                                  *)

LEMMA Begins ==
  ASSUME IInv, NEW r \in Slots, NEW at, NEW q, NEW ms, q \in Requests, Start(r, q),
         pc' = [pc EXCEPT ![r] = at], mkdirs' = [mkdirs EXCEPT ![r] = ms],
         Legal(at, q, ms), at \notin TempPCs, UNCHANGED <<tree, whole, status, stray>>,
         q.op = "write" => status[q.c] = "pending" /\ \A s \in Slots : req[s] # Null => req[s].c # q.c
  PROVE  IInv'
<1> USE DEF IInv
<1>1. Step(r, at, q, ms) /\ pc[r] = "idle"
  BY DEF Step, Start
<1>2. started' \in 0..MaxRequests
  BY FilesystemAssumption DEF Start, Shapes
<1>3. Requested'
  BY <1>1, StepRequested
<1>4. Shapes'
  <2>1. at \in FsPCs
    BY DEF Legal
  <2> QED BY <1>1, <1>2, <2>1, StepShapes DEF Shapes
<1>5. TreeStep
  BY SameTree
<1>6. Temps'
  <2>1. pc[r] \notin TempPCs
    BY <1>1 DEF TempPCs
  <2> QED BY <1>1, <1>5, <2>1, TempsStay
<1>7. Files'
  BY <1>5, FilesStay DEF Shapes
<1>8. Writes'
  <2>1. at # "publish"
    BY DEF TempPCs
  <2> QED BY <1>1, <2>1, WritesStay
<1> QED BY <1>3, <1>4, <1>5, <1>6, <1>7, <1>8 DEF TreeStep

LEMMA WriteBegins ==
  ASSUME IInv, NEW r \in Slots, NEW p \in Paths, NEW c \in Contents, WriteBegin(r, p, c)
  PROVE  IInv'
<1> DEFINE q == Request("write", p, Null, c)
<1>1. Start(r, q) /\ MkdirAll(r, Parent(p), "temp") /\ UNCHANGED <<tree, whole, handles, status, stray>>
  BY DEF WriteBegin
<1>2. q \in Requests /\ q.op = "write" /\ q.c = c
  BY DEF Request, Requests, FsOps
<1>3. Plain(Parent(p)) /\ Shapes
  BY PathIs DEF IInv
<1>4. PICK at \in {"temp", "mkdirs"} : \E ms : Makes(r, at, ms)
  BY <1>1, <1>3, MkdirAllIs
<1>4a. PICK ms : Makes(r, at, ms)
  BY <1>4
<1>5. c # Null
  BY FilesystemAssumption
<1>6. status[c] = "pending" /\ \A s \in Slots : req[s] # Null => req[s].c # c
  BY DEF WriteBegin
<1> HIDE DEF q
<1>7. Legal(at, q, ms) /\ at \notin TempPCs
  BY <1>2, <1>4a, <1>5 DEF Makes, Legal, AskedAs, FsPCs, TempPCs, Moves
<1> QED BY <1>1, <1>2, <1>4a, <1>6, <1>7, Begins DEF Makes, Goto

LEMMA MkdirBegins ==
  ASSUME IInv, NEW r \in Slots, NEW p \in Paths, MkdirBegin(r, p)
  PROVE  IInv'
<1> DEFINE q == Request("mkdir", p, Null, Null)
<1>1. Start(r, q) /\ MkdirAll(r, p, "stat") /\ UNCHANGED <<tree, whole, handles, status, stray>>
  BY DEF MkdirBegin
<1>2. q \in Requests /\ q.op = "mkdir" /\ q.c = Null
  BY DEF Request, Requests, FsOps
<1>3. Plain(p) /\ Shapes
  BY PathIs DEF IInv
<1>4. PICK at \in {"stat", "mkdirs"} : \E ms : Makes(r, at, ms)
  BY <1>1, <1>3, MkdirAllIs
<1>4a. PICK ms : Makes(r, at, ms)
  BY <1>4
<1> HIDE DEF q
<1>5. Legal(at, q, ms) /\ at \notin TempPCs
  BY <1>2, <1>4a DEF Makes, Legal, AskedAs, FsPCs, TempPCs, Moves
<1> QED BY <1>1, <1>2, <1>4a, <1>5, Begins DEF Makes, Goto

LEMMA OtherBegins ==
  ASSUME IInv, NEW r \in Slots, NEW op \in FsOps, NEW p \in Paths, NEW x \in Paths \union {Null},
         op \notin {"write", "mkdir"}, op \in Moves => x \in Paths,
         NEW at \in {"lstat", "statRoot"}, Start(r, Request(op, p, x, Null)), Goto(r, at),
         UNCHANGED <<tree, whole, mkdirs, status, stray>>
  PROVE  IInv'
<1> DEFINE q == Request(op, p, x, Null)
<1>1. q \in Requests /\ q.op = op /\ q.c = Null /\ q.q = x
  BY DEF Request, Requests
<1>2. Start(r, q) /\ mkdirs' = [mkdirs EXCEPT ![r] = mkdirs[r]]
  BY DEF IInv, Shapes
<1> HIDE DEF q
<1>3. Legal(at, q, mkdirs[r]) /\ at \notin TempPCs
  BY <1>1 DEF Legal, AskedAs, FsPCs, TempPCs
<1> QED BY <1>1, <1>2, <1>3, Begins DEF Goto

LEMMA BeginKeeps == ASSUME IInv, NEW r \in Slots, Begin(r) PROVE IInv'
<1>1. CASE \E p \in Paths, c \in Contents : WriteBegin(r, p, c)
  BY <1>1, WriteBegins
<1>2. CASE \E p \in Paths : MkdirBegin(r, p)
  BY <1>2, MkdirBegins
<1>3. CASE \E p \in Paths : RegisterBegin(r, p)
  <2>1. PICK p \in Paths : RegisterBegin(r, p)
    BY <1>3
  <2>2. "register" \in FsOps /\ "register" \notin {"write", "mkdir"} /\ "register" \notin Moves
    BY DEF FsOps, Moves
  <2>3. /\ Start(r, Request("register", p, Null, Null)) /\ Goto(r, "statRoot")
        /\ UNCHANGED <<tree, whole, mkdirs, status, stray>>
    BY <2>1 DEF RegisterBegin
  <2> QED BY <2>2, <2>3, OtherBegins
<1>4. ASSUME NEW p \in Paths, NEW q \in Paths \union {Null}, NEW op \in FsOps, OtherBegin(r, op, p, q),
             op \notin {"write", "mkdir"}, op \in Moves => q \in Paths
      PROVE  IInv'
  <2>1. /\ Start(r, Request(op, p, q, Null)) /\ Goto(r, "lstat")
        /\ UNCHANGED <<tree, whole, mkdirs, status, stray>>
    BY <1>4 DEF OtherBegin
  <2> QED BY <1>4, <2>1, OtherBegins
<1>5. CASE \E p \in Paths : \E op \in {"deleteObject", "deleteFolder"} : OtherBegin(r, op, p, Null)
  BY <1>4, <1>5 DEF FsOps, Moves
<1>6. CASE \E p, q \in Paths : \E op \in Moves : OtherBegin(r, op, p, q)
  BY <1>4, <1>6 DEF FsOps, Moves
<1> QED BY <1>1, <1>2, <1>3, <1>5, <1>6 DEF Begin

-----------------------------------------------------------------------------
(* mkdirAll.                                                               *)

LEMMA MkdirNextKeeps == ASSUME IInv, NEW r \in Slots, MkdirNext(r) PROVE IInv'
<1> DEFINE d == Head(mkdirs[r])
           at == IF Len(mkdirs[r]) = 1 THEN AfterMkdirs(r) ELSE "mkdirs"
           ms == Tail(mkdirs[r])
<1>1. /\ pc[r] = "mkdirs" /\ Goto(r, at) /\ mkdirs' = [mkdirs EXCEPT ![r] = ms]
      /\ (CanEnter(d) /\ Enter(d, "dir")) \/ UNCHANGED tree
      /\ UNCHANGED <<whole, req, handles, started, status, stray>>
  BY DEF MkdirNext, IInv, Shapes
<1>2. AskedAs("mkdirs", req[r], mkdirs[r])
  BY <1>1, AskedIs DEF IInv
<1>3. mkdirs[r] \in Seq(PlainPaths) /\ mkdirs[r] # <<>> /\ req[r].op \in Moves \union {"write", "mkdir"}
  BY <1>2 DEF AskedAs
<1>4. d \in PlainPaths /\ ms \in Seq(PlainPaths) /\ Len(mkdirs[r]) \in Nat \ {0}
      /\ Len(ms) = Len(mkdirs[r]) - 1
  BY <1>3, HeadTailProperties, EmptySeq, LenProperties
<1>5. Len(mkdirs[r]) # 1 => ms # <<>>
  <2>1. Len(mkdirs[r]) # 1 => Len(ms) # 0
    BY <1>4
  <2>2. Len(<<>>) = 0
    OBVIOUS
  <2> HIDE DEF ms
  <2> QED BY <2>1, <2>2
<1>6. at \in {"temp", "stat", "rename", "mkdirs"} /\ Legal(at, req[r], ms)
  <2>1. CASE Len(mkdirs[r]) = 1
    BY <1>2, <1>3, <2>1 DEF AfterMkdirs, Legal, AskedAs, FsPCs, TempPCs, Moves
  <2>2. CASE Len(mkdirs[r]) # 1
    BY <1>2, <1>4, <1>5, <2>2 DEF Legal, AskedAs, FsPCs, TempPCs
  <2> QED BY <2>1, <2>2
<1> HIDE DEF d, at, ms
<1>7. TreeStep
  <2>1. CASE CanEnter(d) /\ Enter(d, "dir")
    BY <1>4, <2>1, EnterStep DEF IInv
  <2>2. CASE UNCHANGED tree
    BY <2>2, SameTree DEF IInv
  <2> QED BY <1>1, <2>1, <2>2
<1>8. Step(r, at, req[r], ms)
  BY <1>1 DEF Step, Goto, IInv, Shapes
<1> QED BY <1>1, <1>6, <1>7, <1>8, GoesOn DEF TempPCs

-----------------------------------------------------------------------------
(* Write.                                                                  *)

LEMMA OpenTempKeeps == ASSUME IInv, NEW r \in Slots, OpenTemp(r) PROVE IInv'
<1> USE DEF IInv
<1>1. /\ pc[r] = "temp" /\ CanEnter(Tmp(r)) /\ Enter(Tmp(r), req[r].c) /\ Goto(r, "fill")
      /\ UNCHANGED <<whole, req, mkdirs, started, status, stray>>
  BY DEF OpenTemp
<1>2. /\ req[r] # Null /\ req[r].op = "write" /\ req[r].c \in Contents
      /\ Tmp(r) \in KeyPaths /\ Last(Tmp(r)) = req[r].c
  BY <1>1, TmpIs
<1>3. Step(r, "fill", req[r], mkdirs[r])
  BY <1>1, GotoIs
<1>4. Legal("fill", req[r], mkdirs[r])
  BY <1>1, HereAsked DEF FsPCs
<1>5. Requested'
  BY <1>3, <1>4, StepRequested
<1>6. Shapes'
  <2>1. "fill" \in FsPCs
    BY DEF FsPCs
  <2> QED BY <1>1, <1>3, <2>1, StepShapes DEF Shapes
<1>7. TreeOK'
  BY <1>1, <1>2, EnterTree
<1>8. /\ DOMAIN tree' = DOMAIN tree \union {Tmp(r)}
      /\ tree'[Tmp(r)] = req[r].c /\ \A k \in DOMAIN tree : tree'[k] = tree[k]
  BY <1>1, EnterIs DEF CanEnter, Absent
<1>9. Files'
  BY <1>1, <1>2, <1>8 DEF Files
<1>10. Writes'
  <2>1. /\ status[req[r].c] = "pending"
        /\ \A s \in Slots \ {r} : req[s] # Null => req[s].c # req[r].c
    BY <1>1, <1>2 DEF Writes
  <2> QED BY <1>1, <1>3, <1>4, <2>1, WritesStay
<1>11. Temps'
  <2>1. pc'[r] = "fill" /\ \A s \in Slots \ {r} : pc'[s] = pc[s]
    BY <1>3, StepIs
  <2>2. ASSUME NEW p \in DOMAIN tree', Last(p) \in Contents \ stray
        PROVE  \E s \in Slots : pc'[s] \in TempPCs /\ p = Tmp(s) /\ Last(p) = req[s].c
    <3>1. CASE p = Tmp(r)
      BY <1>2, <2>1, <3>1 DEF TempPCs
    <3>2. CASE p # Tmp(r)
      <4>1. p \in DOMAIN tree
        BY <1>8, <3>2
      <4>2. PICK s \in Slots : pc[s] \in TempPCs /\ p = Tmp(s) /\ Last(p) = req[s].c
        BY <2>2, <4>1 DEF Temps
      <4> QED BY <2>1, <3>2, <4>2
    <3> QED BY <3>1, <3>2
  <2>3. req' = req /\ stray' = stray
    BY <1>1
  <2> QED BY <2>2, <2>3 DEF Temps, Tmp
<1> QED BY <1>5, <1>6, <1>7, <1>9, <1>10, <1>11

\* A write that leaves its content whole, or has settled it.
LEMMA WriteGoesOn ==
  ASSUME IInv, NEW r \in Slots, pc[r] \in TempPCs, NEW at \in {"publish", "unlink", "stat"}, Goto(r, at),
         UNCHANGED <<req, mkdirs, started>>, TreeStep,
         whole \subseteq whole', whole' \subseteq Contents,
         stray \subseteq stray', stray' \subseteq Contents,
         at = "publish" => pc[r] = "fill" /\ UNCHANGED status /\ req[r].c \in whole',
         UNCHANGED status \/ Settle(r, "stored"),
         at = "stat" => Tmp(r) \notin DOMAIN tree' \/ req[r].c \in stray'
  PROVE  IInv'
<1> USE DEF IInv
<1>1. /\ pc[r] # "idle" /\ req[r] # Null /\ req[r].op = "write" /\ req[r].c \in Contents
      /\ \A s \in Slots \ {r} : req[s] # Null => req[s].c # req[r].c
  <2>1. pc[r] # "idle" /\ pc[r] \in TempPCs \union {"temp"}
    BY DEF TempPCs
  <2>2. req[r] # Null /\ req[r].op = "write" /\ req[r].c \in Contents
    BY <2>1, TmpIs
  <2> QED BY <2>1, <2>2 DEF Writes
<1>2. Step(r, at, req[r], mkdirs[r])
  BY GotoIs
<1>3. Legal(at, req[r], mkdirs[r])
  BY <1>1, HereAsked DEF FsPCs
<1>4. Requested'
  BY <1>2, <1>3, StepRequested
<1>5. /\ \A s \in Slots \ {r} : req[s] # Null /\ req[s].op = "write" =>
              status'[req[s].c] = status[req[s].c]
      /\ status' \in [Contents -> {"pending", "stored", "refused"}]
  BY <1>1, SettledAlone
<1>6. Shapes'
  <2>1. at \in FsPCs
    BY DEF FsPCs
  <2> QED BY <1>2, <1>5, <2>1, StepShapes DEF Shapes
<1>7. Temps'
  BY <1>2, TempsStay DEF TempPCs
<1>8. Files'
  BY FilesStay
<1>9. Writes'
  <2>1. at \notin {"unlink", "stat"} => status'[req[r].c] = "pending"
    BY <1>1 DEF Writes
  <2> QED BY <1>1, <1>2, <1>3, <1>5, <2>1, WritesStay
<1> QED BY <1>4, <1>6, <1>7, <1>8, <1>9 DEF TreeStep

LEMMA LinkKeeps == ASSUME IInv, NEW r \in Slots, Link(r) PROVE IInv'
<1>1. /\ pc[r] = "publish" /\ CanEnter(req[r].p) /\ Enter(req[r].p, req[r].c)
      /\ Settle(r, "stored") /\ Goto(r, "unlink")
      /\ UNCHANGED <<whole, req, mkdirs, started, stray>>
  BY DEF Link
<1>2. req[r] # Null /\ req[r].op = "write" /\ req[r].c \in Contents /\ req[r].p \in PlainPaths
  BY <1>1, TmpIs DEF IInv, TempPCs
<1>3. req[r].c \in whole
  BY <1>1, <1>2 DEF IInv, Writes
<1>4. TreeStep
  BY <1>1, <1>2, <1>3, EnterStep DEF IInv
<1> QED BY <1>1, <1>4, WriteGoesOn DEF IInv, Shapes, TempPCs

LEMMA RenameTempTree ==
  ASSUME IInv, NEW r \in Slots, RenameTemp(r)
  PROVE  /\ TreeStep /\ Tmp(r) \notin DOMAIN tree'
         /\ DOMAIN tree' = (DOMAIN tree \ {Tmp(r)}) \union {req[r].p}
         /\ tree'[req[r].p] = req[r].c /\ req[r].c \in whole
         /\ \A k \in DOMAIN tree \ {Tmp(r), req[r].p} : tree'[k] = tree[k]
<1>1. /\ pc[r] = "publish" /\ CanRename(Tmp(r), req[r].p) /\ Rename(Tmp(r), req[r].p)
      /\ UNCHANGED <<whole, req, stray>>
  BY DEF RenameTemp
<1>2. /\ req[r] # Null /\ req[r].op = "write" /\ req[r].c \in Contents /\ req[r].p \in PlainPaths
      /\ req[r].p \in KeyPaths /\ Tmp(r) \in KeyPaths /\ Last(Tmp(r)) = req[r].c
  BY <1>1, TmpIs DEF IInv, TempPCs
<1>3. req[r].c \in whole
  BY <1>1, <1>2 DEF IInv, Writes
<1>4. Tmp(r) \in DOMAIN tree /\ tree[Tmp(r)] = req[r].c
  BY <1>1, <1>2 DEF IInv, Files, CanRename
<1>5. tree[Tmp(r)] # "dir"
  BY <1>2, <1>4, FilesystemAssumption
<1>6. /\ DOMAIN tree' = (DOMAIN tree \ {Tmp(r)}) \union {req[r].p}
      /\ tree'[req[r].p] = tree[Tmp(r)]
      /\ \A k \in DOMAIN tree \ {Tmp(r), req[r].p} : tree'[k] = tree[k]
  BY <1>1, <1>2, <1>5, RenameFileIs DEF IInv
<1>7. TreeOK'
  BY <1>1, <1>2, RenameTree DEF IInv
<1>8. Last(req[r].p) \notin Contents
  BY <1>2 DEF PlainPaths
<1>9. TreeStep
  BY <1>1, <1>3, <1>4, <1>6, <1>7, <1>8 DEF TreeStep
<1>10. Tmp(r) # req[r].p
  BY <1>2, <1>8
<1> QED BY <1>3, <1>4, <1>6, <1>9, <1>10

LEMMA RenameTempKeeps == ASSUME IInv, NEW r \in Slots, RenameTemp(r) PROVE IInv'
<1>1. /\ pc[r] = "publish" /\ Settle(r, "stored") /\ Goto(r, "stat")
      /\ UNCHANGED <<whole, req, mkdirs, started, stray>>
  BY DEF RenameTemp
<1>2. TreeStep /\ Tmp(r) \notin DOMAIN tree'
  BY RenameTempTree
<1> QED BY <1>1, <1>2, WriteGoesOn DEF IInv, Shapes, TempPCs

\* The temporary file is gone, or counts as stray.
LEMMA RemoveTempIs ==
  ASSUME IInv, NEW r \in Slots, pc[r] \in TempPCs, RemoveTemp(r)
  PROVE  /\ TreeStep /\ stray \subseteq stray' /\ stray' \subseteq Contents
         /\ Tmp(r) \notin DOMAIN tree' \/ req[r].c \in stray'
<1>1. CASE CanUnlink(Tmp(r)) /\ Unlink(Tmp(r)) /\ UNCHANGED stray
  BY <1>1, UnlinkStep DEF IInv, Shapes
<1>2. CASE stray' = stray \union {req[r].c} /\ UNCHANGED <<tree, handles>>
  <2>1. req[r].c \in Contents
    BY TmpIs DEF IInv
  <2>2. TreeStep
    BY <1>2, SameTree DEF IInv
  <2> QED BY <1>2, <2>1, <2>2 DEF IInv, Shapes
<1> QED BY <1>1, <1>2 DEF RemoveTemp

LEMMA WriteStepKeeps == ASSUME IInv, NEW r \in Slots, WriteStep(r) PROVE IInv'
<1>1. CASE OpenTemp(r)
  BY <1>1, OpenTempKeeps
<1>2. CASE Fill(r)
  <2>1. /\ pc[r] = "fill" /\ whole' = whole \union {req[r].c} /\ Goto(r, "publish")
        /\ UNCHANGED <<tree, req, mkdirs, started, status, stray>>
    BY <1>2 DEF Fill
  <2>2. TreeStep
    BY <2>1, SameTree DEF IInv
  <2>3. req[r].c \in Contents
    BY <2>1, TmpIs DEF IInv, TempPCs
  <2> QED BY <2>1, <2>2, <2>3, WriteGoesOn DEF IInv, Shapes, TempPCs
<1>3. CASE FillError(r) \/ PublishError(r)
  <2>1. /\ pc[r] \in {"fill", "publish"} /\ Goto(r, "cleanup")
        /\ UNCHANGED <<tree, whole, req, mkdirs, started, status, stray>>
    BY <1>3 DEF FillError, PublishError
  <2>2. TreeStep
    BY <2>1, SameTree DEF IInv
  <2>3. Step(r, "cleanup", req[r], mkdirs[r])
    BY <2>1, GotoIs DEF IInv
  <2>4. Legal("cleanup", req[r], mkdirs[r])
    BY <2>1, HereAsked DEF IInv, FsPCs, TempPCs
  <2> QED BY <2>1, <2>2, <2>3, <2>4, GoesOn DEF TempPCs
<1>4. CASE Link(r)
  BY <1>4, LinkKeeps
<1>5. CASE RenameTemp(r)
  BY <1>5, RenameTempKeeps
<1>6. CASE Cleanup(r)
  <2>1. pc[r] = "cleanup" /\ RemoveTemp(r) /\ Settle(r, "refused") /\ Return(r) /\ UNCHANGED <<whole, started>>
    BY <1>6 DEF Cleanup
  <2>2. /\ TreeStep /\ stray \subseteq stray' /\ stray' \subseteq Contents
        /\ Tmp(r) \notin DOMAIN tree' \/ req[r].c \in stray'
    BY <2>1, RemoveTempIs DEF TempPCs
  <2>3. req[r].op = "write"
    BY <2>1, TmpIs DEF IInv, TempPCs
  <2> QED BY <2>1, <2>2, <2>3, Ends
<1>7. CASE UnlinkTemp(r)
  <2>1. /\ pc[r] = "unlink" /\ RemoveTemp(r) /\ Goto(r, "stat")
        /\ UNCHANGED <<whole, req, mkdirs, started, status>>
    BY <1>7 DEF UnlinkTemp
  <2>2. /\ TreeStep /\ stray \subseteq stray' /\ stray' \subseteq Contents
        /\ Tmp(r) \notin DOMAIN tree' \/ req[r].c \in stray'
    BY <2>1, RemoveTempIs DEF TempPCs
  <2> QED BY <2>1, <2>2, WriteGoesOn DEF IInv, Shapes, TempPCs
<1>8. CASE FinalStat(r)
  <2>1. pc[r] = "stat" /\ Return(r) /\ UNCHANGED <<tree, whole, started, status, stray>>
    BY <1>8 DEF FinalStat
  <2>2. TreeStep
    BY <2>1, SameTree DEF IInv
  <2> QED BY <2>1, <2>2, Ends DEF IInv, Shapes, TempPCs
<1> QED BY <1>1, <1>2, <1>3, <1>4, <1>5, <1>6, <1>7, <1>8 DEF WriteStep

-----------------------------------------------------------------------------
(* DeleteObject, DeleteFolder, MoveObject, MoveFolder, checkFilesystemRoot. *)

\* A request that is not a write yet goes on, or ends, after a call on the tree.
LEMMA OtherGoesOn ==
  ASSUME IInv, NEW r \in Slots, pc[r] \notin TempPCs \union {"idle", "stat"},
         NEW at \in {"remove", "open", "removing", "check", "statParent", "mkdirRoot"},
         at = "check" => req[r].op \in Moves, Goto(r, at),
         TreeStep, UNCHANGED <<whole, req, mkdirs, started, status, stray>>
  PROVE  IInv'
<1>1. Step(r, at, req[r], mkdirs[r])
  BY GotoIs DEF IInv
<1>2. Legal(at, req[r], mkdirs[r])
  BY HereAsked DEF IInv, FsPCs, TempPCs
<1> QED BY <1>1, <1>2, GoesOn DEF TempPCs

LEMMA RemoveStepKeeps == ASSUME IInv, NEW r \in Slots, RemoveStep(r) PROVE IInv'
<1>1. CASE LstatDelete(r)
  <2>1. /\ pc[r] = "lstat" /\ UNCHANGED <<tree, whole, req, mkdirs, started, status, stray>>
        /\ \E at \in {"remove", "open"} : Goto(r, at)
    BY <1>1 DEF LstatDelete
  <2>2. TreeStep
    BY <2>1, SameTree DEF IInv
  <2> QED BY <2>1, <2>2, OtherGoesOn DEF TempPCs
<1>2. CASE RemoveObject(r)
  <2>1. /\ pc[r] = "remove" /\ CanUnlink(req[r].p) /\ Unlink(req[r].p) /\ Return(r)
        /\ UNCHANGED <<whole, started, status, stray>>
    BY <1>2 DEF RemoveObject
  <2>2. TreeStep
    BY <2>1, UnlinkStep DEF IInv
  <2> QED BY <2>1, <2>2, Ends DEF IInv, Shapes, TempPCs
<1>3. CASE RemoveAllOpen(r)
  <2>1. pc[r] = "open" /\ UNCHANGED <<whole, started, status, stray>>
    BY <1>3 DEF RemoveAllOpen
  <2>2. CASE IsFile(req[r].p) /\ Unlink(req[r].p) /\ Return(r)
    <3>1. Removed(req[r].p) /\ tree[req[r].p] # "dir"
      BY <2>2, UnlinkIsRemoved DEF IsFile
    <3>2. TreeStep
      BY <3>1, RemovedStep DEF IInv
    <3> QED BY <2>1, <2>2, <3>2, Ends DEF IInv, Shapes, TempPCs
  <2>3. CASE Goto(r, "removing") /\ UNCHANGED <<tree, req, mkdirs>>
    <3>1. TreeStep
      BY <2>3, SameTree DEF IInv
    <3> QED BY <2>1, <2>3, <3>1, OtherGoesOn DEF TempPCs
  <2> QED BY <1>3, <2>2, <2>3 DEF RemoveAllOpen
<1>4. CASE RemoveAllLast(r)
  <2>1. pc[r] = "removing" /\ Return(r) /\ UNCHANGED <<whole, started, status, stray>>
    BY <1>4 DEF RemoveAllLast
  <2>2. (IsEmpty(Top(r)) /\ Removed(Top(r))) \/ UNCHANGED tree
    BY <1>4 DEF RemoveAllLast, Removed
  <2>3. TreeStep
    BY <2>2, RemovedStep, SameTree DEF IInv
  <2> QED BY <2>1, <2>3, Ends DEF IInv, Shapes, TempPCs
<1>5. CASE \E k \in DOMAIN tree : RemoveAllDescend(r, k) \/ RemoveAllEntry(r, k)
  <2>1. PICK k \in DOMAIN tree : RemoveAllDescend(r, k) \/ RemoveAllEntry(r, k)
    BY <1>5
  <2>2. pc[r] = "removing" /\ UNCHANGED <<whole, pc, req, mkdirs, started, status, stray>>
    BY <2>1 DEF RemoveAllDescend, RemoveAllEntry
  <2>3. UNCHANGED tree \/ (CanUnlink(k) /\ Unlink(k))
    BY <2>1 DEF RemoveAllDescend, RemoveAllEntry
  <2>4. TreeStep
    BY <2>3, UnlinkStep, SameTree DEF IInv
  <2>5. Goto(r, "removing")
    BY <2>2 DEF Goto, IInv, Shapes
  <2> QED BY <2>2, <2>4, <2>5, OtherGoesOn DEF TempPCs
<1> QED BY <1>1, <1>2, <1>3, <1>4, <1>5 DEF RemoveStep

LEMMA MoveIs ==
  ASSUME IInv, NEW r \in Slots, pc[r] \in {"check", "rename"}
  PROVE  /\ req[r].op \in Moves /\ req[r].p \in PlainPaths /\ req[r].q \in PlainPaths
         /\ req[r].q \in Paths
<1>1. AskedAs(pc[r], req[r], mkdirs[r]) /\ req[r].p \in Paths
  BY AskedIs DEF IInv
<1>2. req[r].op \in Moves /\ req[r].q \in Paths
  BY <1>1 DEF AskedAs
<1> QED BY <1>1, <1>2, PathIs

LEMMA MoveStepKeeps == ASSUME IInv, NEW r \in Slots, MoveStep(r) PROVE IInv'
<1>1. CASE LstatSource(r)
  <2>1. /\ pc[r] = "lstat" /\ Goto(r, "check") /\ req[r].op \in Moves
        /\ UNCHANGED <<tree, whole, req, mkdirs, started, status, stray>>
    BY <1>1 DEF LstatSource, Moves
  <2>2. TreeStep
    BY <2>1, SameTree DEF IInv
  <2> QED BY <2>1, <2>2, OtherGoesOn DEF TempPCs
<1>2. CASE LstatTarget(r)
  <2>1. /\ pc[r] = "check" /\ MkdirAll(r, Parent(req[r].q), "rename")
        /\ UNCHANGED <<tree, whole, req, started, status, stray>>
    BY <1>2 DEF LstatTarget
  <2>2. req[r].op \in Moves /\ Plain(Parent(req[r].q))
    BY <2>1, MoveIs, PathIs
  <2>3. PICK at \in {"rename", "mkdirs"} : \E ms : Makes(r, at, ms)
    BY <2>1, <2>2, MkdirAllIs DEF IInv
  <2>3a. PICK ms : Makes(r, at, ms)
    BY <2>3
  <2>4. AskedAs("check", req[r], mkdirs[r])
    BY <2>1, AskedIs DEF IInv
  <2>5. Legal(at, req[r], ms)
    BY <2>2, <2>3a, <2>4 DEF Makes, Legal, AskedAs, FsPCs, TempPCs
  <2>6. Step(r, at, req[r], ms)
    BY <2>1, <2>3a DEF Makes, Step, Goto, IInv, Shapes
  <2>7. TreeStep
    BY <2>1, SameTree DEF IInv
  <2> QED BY <2>1, <2>5, <2>6, <2>7, GoesOn DEF TempPCs
<1>3. CASE MoveRename(r)
  <2>1. /\ pc[r] = "rename" /\ CanRename(req[r].p, req[r].q) /\ Rename(req[r].p, req[r].q)
        /\ stray' = stray \union TempsUnder(req[r].p) /\ Return(r)
        /\ UNCHANGED <<whole, started, status>>
    BY <1>3 DEF MoveRename
  <2>2. req[r].p \in PlainPaths /\ req[r].q \in PlainPaths
    BY <2>1, MoveIs
  <2>3. TreeStep
    BY <2>1, <2>2, MoveStepTree DEF IInv
  <2>4. stray' \subseteq Contents
    BY <2>1 DEF TempsUnder, IInv, Shapes
  <2> QED BY <2>1, <2>3, <2>4, Ends DEF TempPCs
<1> QED BY <1>1, <1>2, <1>3 DEF MoveStep

LEMMA RegisterStepKeeps == ASSUME IInv, NEW r \in Slots, RegisterStep(r) PROVE IInv'
<1>1. CASE StatRoot(r)
  <2>1. pc[r] = "statRoot" /\ UNCHANGED <<tree, whole, started, status, stray>>
    BY <1>1 DEF StatRoot
  <2>2. TreeStep
    BY <2>1, SameTree DEF IInv
  <2>3. CASE Return(r)
    BY <2>1, <2>2, <2>3, Ends DEF IInv, Shapes, TempPCs
  <2>4. CASE Goto(r, "statParent") /\ UNCHANGED <<req, mkdirs>>
    BY <2>1, <2>2, <2>4, OtherGoesOn DEF TempPCs
  <2> QED BY <1>1, <2>3, <2>4 DEF StatRoot
<1>2. CASE StatParent(r)
  <2>1. /\ pc[r] = "statParent" /\ Goto(r, "mkdirRoot")
        /\ UNCHANGED <<tree, whole, req, mkdirs, started, status, stray>>
    BY <1>2 DEF StatParent
  <2>2. TreeStep
    BY <2>1, SameTree DEF IInv
  <2> QED BY <2>1, <2>2, OtherGoesOn DEF TempPCs
<1>3. CASE MkdirRoot(r)
  <2>1. /\ pc[r] = "mkdirRoot" /\ Return(r) /\ UNCHANGED <<whole, started, status, stray>>
        /\ (CanEnter(req[r].p) /\ Enter(req[r].p, "dir")) \/ UNCHANGED tree
    BY <1>3 DEF MkdirRoot
  <2>2. req[r].p \in PlainPaths
    BY <2>1, AskedIs, PathIs DEF IInv
  <2>3. TreeStep
    BY <2>1, <2>2, EnterStep, SameTree DEF IInv
  <2> QED BY <2>1, <2>3, Ends DEF IInv, Shapes, TempPCs
<1> QED BY <1>1, <1>2, <1>3 DEF RegisterStep

LEMMA FailKeeps == ASSUME IInv, NEW r \in Slots, Fail(r) PROVE IInv'
<1>1. /\ pc[r] \notin TempPCs \union {"idle"} /\ Return(r)
      /\ UNCHANGED <<tree, whole, started, stray>>
      /\ UNCHANGED status \/ (req[r].op = "write" /\ Settle(r, "refused"))
  BY DEF Fail, FsPCs, TempPCs
<1>2. TreeStep
  BY <1>1, SameTree DEF IInv
<1> QED BY <1>1, <1>2, Ends DEF IInv, Shapes

\* After a crash nothing runs, and every write's temporary file is stray.
LEMMA CrashKeeps == ASSUME IInv, Crash PROVE IInv'
<1> USE DEF IInv
<1>1. /\ stray' = stray \union {req[r].c : r \in {s \in Slots : req[s] # Null /\ req[s].op = "write"}}
      /\ pc' = [r \in Slots |-> "idle"] /\ req' = [r \in Slots |-> Null]
      /\ mkdirs' = [r \in Slots |-> <<>>] /\ UNCHANGED <<tree, whole, started, status>>
  BY DEF Crash
<1>2. ASSUME NEW r \in Slots, req[r] # Null, req[r].op = "write" PROVE req[r].c \in Contents
  BY <1>2, AskedIs, NullIsIdle
<1>3. Shapes'
  <2>1. stray' \subseteq Contents
    BY <1>1, <1>2 DEF Shapes
  <2>2. "idle" \in FsPCs
    BY DEF FsPCs
  <2> QED BY <1>1, <2>1, <2>2 DEF Shapes
<1>4. TreeOK' /\ Files'
  BY <1>1, SameTree, FilesStay, <1>3 DEF TreeStep, Shapes
<1>5. Requested' /\ Writes'
  BY <1>1 DEF Requested, Writes
<1>6. Temps'
  <2>1. ASSUME NEW p \in DOMAIN tree, Last(p) \in Contents \ stray' PROVE FALSE
    <3>1. PICK s \in Slots : pc[s] \in TempPCs /\ p = Tmp(s) /\ Last(p) = req[s].c
      BY <1>1, <2>1 DEF Temps
    <3>2. req[s] # Null /\ req[s].op = "write"
      BY <3>1, TmpIs
    <3> QED BY <1>1, <2>1, <3>1, <3>2
  <2> QED BY <1>1, <2>1 DEF Temps
<1> QED BY <1>3, <1>4, <1>5, <1>6

-----------------------------------------------------------------------------
(* The invariant.                                                          *)

LEMMA InitIInv == Init => IInv
<1> SUFFICES ASSUME Init PROVE IInv
  OBVIOUS
<1>1. Shapes
  BY FilesystemAssumption DEF Init, Shapes, FsPCs
<1>2. TreeOK /\ Files /\ Temps
  BY DEF Init, TreeOK, Files, Temps
<1>3. Requested /\ Writes
  BY DEF Init, Requested, Writes
<1> QED BY <1>1, <1>2, <1>3 DEF IInv

LEMMA NextIInv == IInv /\ [Next]_vars => IInv'
<1> SUFFICES ASSUME IInv, [Next]_vars PROVE IInv'
  OBVIOUS
<1>1. ASSUME NEW r \in Slots,
             \/ Begin(r) \/ MkdirNext(r) \/ WriteStep(r) \/ RemoveStep(r)
             \/ MoveStep(r) \/ RegisterStep(r) \/ Fail(r)
      PROVE  IInv'
  BY <1>1, BeginKeeps, MkdirNextKeeps, WriteStepKeeps, RemoveStepKeeps, MoveStepKeeps,
     RegisterStepKeeps, FailKeeps
<1>2. CASE Crash
  BY <1>2, CrashKeeps
<1>3. CASE UNCHANGED vars
  <2>1. UNCHANGED <<tree, whole, pc, req, mkdirs, started, status, stray>>
    BY <1>3 DEF vars
  <2>2. Shapes' /\ TreeOK' /\ Files'
    BY <2>1 DEF IInv, Shapes, TreeOK, Files
  <2>3. Requested' /\ Writes'
    BY <2>1 DEF IInv, Requested, Writes
  <2>4. Temps'
    BY <2>1 DEF IInv, Temps, Tmp
  <2> QED BY <2>2, <2>3, <2>4 DEF IInv
<1> QED BY <1>1, <1>2, <1>3 DEF Next

\* Whatever calls of concurrent requests interleave, fail, or are cut off by a
\* crash (filesystem.go:187-257, 321-456, 582-613): the tree stays a tree, a
\* file under an object's name is completely written, and a temporary file is
\* where its write looks for it or has gone astray.
THEOREM FilesystemInvariant == Spec => []IInv
BY InitIInv, NextIInv, PTL DEF Spec

\* Every path's directory exists and is a directory, every request is at a step of
\* its own handler, and a write about to take its name has a complete temporary
\* file and is still pending (filesystem.go:205-250): the whole TypeOK.
THEOREM FilesystemTypeOK == Spec => []TypeOK
<1>1. IInv => TypeOK
  <2> SUFFICES ASSUME IInv PROVE TypeOK
    OBVIOUS
  <2>1. /\ \A p \in DOMAIN tree : p # <<>> /\ tree[p] \in Contents \union {"dir"}
        /\ \A p \in DOMAIN tree :
             Parent(p) = <<>> \/ (Parent(p) \in DOMAIN tree /\ tree[Parent(p)] = "dir")
    BY DEF IInv, TreeOK, KeyPaths
  <2>2. ASSUME NEW r \in Slots, pc[r] # "idle"
        PROVE  /\ req[r].op \in FsOps /\ req[r].p \in Paths
               /\ pc[r] \in {"temp", "fill", "publish", "unlink", "cleanup"} => req[r].op = "write"
               /\ pc[r] \in {"check", "rename"} => req[r].op \in Moves
               /\ req[r].op = "write" /\ pc[r] \notin {"unlink", "stat"} =>
                    status[req[r].c] = "pending"
               /\ pc[r] = "publish" => req[r].c \in whole
    <3>1. AskedAs(pc[r], req[r], mkdirs[r]) /\ req[r] # Null
      BY <2>2, AskedIs DEF IInv
    <3>2. req[r].op \in FsOps /\ req[r].p \in Paths
      BY <2>2, AskedIs DEF IInv
    <3>3. /\ pc[r] \in {"temp", "fill", "publish", "unlink", "cleanup"} => req[r].op = "write"
          /\ pc[r] \in {"check", "rename"} => req[r].op \in Moves
      BY <3>1 DEF AskedAs, TempPCs
    <3> QED BY <3>1, <3>2, <3>3 DEF IInv, Writes
  <2> QED BY <2>1, <2>2 DEF IInv, Shapes, TypeOK
<1> QED BY <1>1, FilesystemInvariant, PTL

\* "a failed/interrupted write leaves nothing" (filesystem.go:205-206): the
\* temporary file of a write that has ended is gone, unless a crash, a failed
\* removal or a folder move has put it out of the write's reach.
THEOREM NoStrayTemps == Spec => []NoStrayTemp
<1>1. IInv => NoStrayTemp
  <2> SUFFICES ASSUME IInv, NEW p \in DOMAIN tree, Last(p) \in Contents \ stray
               PROVE  \E r \in Slots : req[r] # Null /\ req[r].c = Last(p)
    BY DEF NoStrayTemp
  <2>1. PICK r \in Slots : pc[r] \in TempPCs /\ p = Tmp(r) /\ Last(p) = req[r].c
    BY DEF IInv, Temps
  <2>2. req[r] # Null
    BY <2>1, TmpIs DEF IInv
  <2> QED BY <2>1, <2>2
<1> QED BY <1>1, FilesystemInvariant, PTL

-----------------------------------------------------------------------------
(* The tree implements the object store.                                   *)

\* The paths at which a reader finds an object.
Visible(g) == {k \in DOMAIN g : g[k] # "dir" /\ Last(k) \notin Contents}

LEMMA ObjectsAre == IInv => Objects = [p \in Visible(tree) |-> tree[p]]
<1> SUFFICES ASSUME IInv PROVE Objects = [p \in Visible(tree) |-> tree[p]]
  OBVIOUS
<1>1. {k \in DOMAIN tree : IsFile(k) /\ Last(k) \notin Contents} = Visible(tree)
  BY DEF IsFile, Visible
<1>2. \A p \in Visible(tree) : tree[p] \in whole
  BY DEF IInv, Files, Visible
<1> QED BY <1>1, <1>2 DEF Objects

LEMMA ObjectsNext == IInv' => Objects' = [p \in Visible(tree') |-> tree'[p]]
<1>1. (IInv => Objects = [p \in Visible(tree) |-> tree[p]])'
  BY ObjectsAre, PTL
<1> QED BY <1>1 DEF Visible

LEMMA SameObjects ==
  ASSUME IInv, IInv', Visible(tree') = Visible(tree), \A k \in Visible(tree) : tree'[k] = tree[k]
  PROVE  Objects' = Objects
BY ObjectsAre, ObjectsNext

LEMMA QuietTree == ASSUME IInv, IInv', UNCHANGED tree PROVE Objects' = Objects
BY SameObjects DEF Visible

\* A new directory or temporary file shows no reader anything.
LEMMA QuietEnter ==
  ASSUME IInv, IInv', NEW p, NEW v, p \notin DOMAIN tree, Enter(p, v), v = "dir" \/ Last(p) \in Contents
  PROVE  Objects' = Objects
<1>1. /\ DOMAIN tree' = DOMAIN tree \union {p} /\ tree'[p] = v
      /\ \A k \in DOMAIN tree : tree'[k] = tree[k]
  BY EnterIs DEF IInv
<1>2. Visible(tree') = Visible(tree) /\ \A k \in Visible(tree) : tree'[k] = tree[k]
  BY <1>1 DEF Visible
<1> QED BY <1>2, SameObjects

\* What is removed is an object, or nothing a reader could find.
LEMMA RemovedObjects ==
  ASSUME IInv, IInv', NEW p, Removed(p), UNCHANGED status
  PROVE  \/ Objects' = Objects
         \/ p \in DOMAIN Objects /\ Store!Delete(p)
<1>1. DOMAIN tree' = DOMAIN tree \ {p} /\ \A k \in DOMAIN tree' : tree'[k] = tree[k]
  BY RemovedIs
<1>2. CASE p \notin Visible(tree)
  <2>1. Visible(tree') = Visible(tree) /\ \A k \in Visible(tree) : tree'[k] = tree[k]
    BY <1>1, <1>2 DEF Visible
  <2> QED BY <2>1, SameObjects
<1>3. CASE p \in Visible(tree)
  <2>1. Visible(tree') = Visible(tree) \ {p} /\ \A k \in Visible(tree) \ {p} : tree'[k] = tree[k]
    BY <1>1 DEF Visible
  <2>2. Objects = [k \in Visible(tree) |-> tree[k]] /\ Objects' = [k \in Visible(tree') |-> tree'[k]]
    BY ObjectsAre, ObjectsNext
  <2>3. DOMAIN Objects = Visible(tree)
    BY <2>2
  <2>4. Objects' = [k \in DOMAIN Objects \ {p} |-> Objects[k]]
    BY <2>1, <2>2, <2>3
  <2>5. Objects' = Store!Restrict(Objects, DOMAIN Objects \ {p})
    BY <2>4 DEF Store!Restrict
  <2> QED BY <1>3, <2>3, <2>5 DEF Store!Delete
<1> QED BY <1>2, <1>3

\* A write takes its name: one object is new, or new in its place.
LEMMA PublishedObjects ==
  ASSUME IInv, IInv', NEW p \in PlainPaths, NEW c \in Contents, tree'[p] = c,
         NEW gone, gone \in DOMAIN tree => Last(gone) \in Contents,
         DOMAIN tree' = (DOMAIN tree \ {gone}) \union {p},
         \A k \in DOMAIN tree \ {gone, p} : tree'[k] = tree[k]
  PROVE  Objects' = [k \in DOMAIN Objects \union {p} |-> IF k = p THEN c ELSE Objects[k]]
<1>1. Last(p) \notin Contents /\ c # "dir"
  BY FilesystemAssumption DEF PlainPaths
<1>2. gone \notin Visible(tree)
  BY DEF Visible
<1>3. Visible(tree') = Visible(tree) \union {p} /\ \A k \in Visible(tree) \ {p} : tree'[k] = tree[k]
  BY <1>1, <1>2 DEF Visible
<1>4. Objects = [k \in Visible(tree) |-> tree[k]] /\ Objects' = [k \in Visible(tree') |-> tree'[k]]
  BY ObjectsAre, ObjectsNext
<1>5. DOMAIN Objects = Visible(tree)
  BY <1>4
<1> QED BY <1>3, <1>4, <1>5

\* A rename carries along the objects below it, and nothing else.
LEMMA MovedObjects ==
  ASSUME IInv, IInv', NEW src \in PlainPaths, NEW dst \in PlainPaths,
         CanRename(src, dst), Rename(src, dst)
  PROVE  Objects' = Store!MoveTree(Objects, src, dst)
<1>0. src \in KeyPaths /\ dst \in KeyPaths /\ Last(src) \notin Contents /\ Last(dst) \notin Contents
  BY DEF PlainPaths
<1>1. /\ DOMAIN tree' = Staying(tree, src, dst) \union {Rebase(src, dst, l) : l \in Moving(tree, src)}
      /\ \A k \in Staying(tree, src, dst) : tree'[k] = tree[k] /\ ~IsPrefix(dst, k)
      /\ \A l \in Moving(tree, src) : tree'[Rebase(src, dst, l)] = tree[l]
  BY <1>0, RenameIs DEF IInv
<1>2. Objects = [k \in Visible(tree) |-> tree[k]] /\ Objects' = [k \in Visible(tree') |-> tree'[k]]
  BY ObjectsAre, ObjectsNext
<1> DEFINE o == Objects
           h == Store!MoveTree(o, src, dst)
<1>3. DOMAIN o = Visible(tree) /\ \A k \in Visible(tree) : o[k] = tree[k]
  BY <1>2
<1>4. Visible(tree) \subseteq DOMAIN tree /\ \A k \in DOMAIN tree : k \in KeyPaths
  BY DEF Visible, IInv, TreeOK
<1> HIDE DEF o
<1>5. /\ Staying(o, src, dst) = Staying(tree, src, dst) \intersect Visible(tree)
      /\ Moving(o, src) = Moving(tree, src) \intersect Visible(tree)
  BY <1>3, <1>4 DEF Staying, Moving
<1>6. /\ h = [k \in DOMAIN h |-> h[k]]
      /\ DOMAIN h = Staying(o, src, dst) \union {Rebase(src, dst, l) : l \in Moving(o, src)}
      /\ \A k \in Staying(o, src, dst) : h[k] = o[k]
      /\ \A l \in Moving(o, src) : h[Rebase(src, dst, l)] = o[l]
  <2>1. \A k \in DOMAIN o : k \in KeyPaths
    BY <1>3, <1>4
  <2>2. \A k \in Staying(o, src, dst) : ~IsPrefix(dst, k)
    BY <1>1, <1>5
  <2> QED BY <1>0, <2>1, <2>2, MoveTreeIs
<1> HIDE DEF h
\* A moved path shows a reader what it showed before.
<1>7. ASSUME NEW l \in Moving(tree, src)
      PROVE  Last(Rebase(src, dst, l)) \in Contents <=> Last(l) \in Contents
  <2>1. l \in KeyPaths /\ IsPrefix(src, l)
    BY <1>4 DEF Moving
  <2>2. CASE l = src
    <3>1. Rebase(src, dst, l) = dst
      BY <1>0, <2>1, <2>2, RebaseBelow
    <3> QED BY <1>0, <2>2, <3>1
  <2>3. CASE l # src
    BY <1>0, <2>1, <2>3, RebaseBelow
  <2> QED BY <2>2, <2>3
<1>8. ASSUME NEW l \in Moving(tree, src)
      PROVE  Rebase(src, dst, l) \in Visible(tree') <=> l \in Visible(tree)
  <2>1. Rebase(src, dst, l) \in DOMAIN tree' /\ l \in DOMAIN tree
    BY <1>1 DEF Moving
  <2>2. tree'[Rebase(src, dst, l)] = tree[l]
    BY <1>1
  <2> QED BY <1>7, <2>1, <2>2 DEF Visible
<1>9. ASSUME NEW k \in Staying(tree, src, dst)
      PROVE  k \in Visible(tree') <=> k \in Visible(tree)
  <2>1. k \in DOMAIN tree' /\ k \in DOMAIN tree /\ tree'[k] = tree[k]
    BY <1>1 DEF Staying
  <2> QED BY <2>1 DEF Visible
<1>10. Visible(tree') = DOMAIN h
  <2>1. \A k \in Visible(tree') : \/ k \in Staying(tree, src, dst)
                                  \/ \E l \in Moving(tree, src) : k = Rebase(src, dst, l)
    BY <1>1 DEF Visible
  <2>2. ASSUME NEW k \in Visible(tree') PROVE k \in DOMAIN h
    <3>1. CASE k \in Staying(tree, src, dst)
      BY <1>5, <1>6, <1>9, <2>2, <3>1
    <3>2. CASE \E l \in Moving(tree, src) : k = Rebase(src, dst, l)
      <4>1. PICK l \in Moving(tree, src) : k = Rebase(src, dst, l)
        BY <3>2
      <4>2. l \in Moving(o, src)
        BY <1>5, <1>8, <2>2, <4>1
      <4> QED BY <1>6, <4>1, <4>2
    <3> QED BY <2>1, <2>2, <3>1, <3>2
  <2>3. ASSUME NEW k \in DOMAIN h PROVE k \in Visible(tree')
    <3>1. CASE k \in Staying(o, src, dst)
      BY <1>5, <1>9, <3>1
    <3>2. CASE k \notin Staying(o, src, dst)
      <4>1. PICK l \in Moving(o, src) : k = Rebase(src, dst, l)
        BY <1>6, <2>3, <3>2
      <4> QED BY <1>5, <1>8, <4>1
    <3> QED BY <3>1, <3>2
  <2> QED BY <2>2, <2>3
<1>11. ASSUME NEW k \in DOMAIN h PROVE tree'[k] = h[k]
  <2>1. CASE k \in Staying(o, src, dst)
    BY <1>1, <1>3, <1>5, <1>6, <2>1
  <2>2. CASE k \notin Staying(o, src, dst)
    <3>1. PICK l \in Moving(o, src) : k = Rebase(src, dst, l)
      BY <1>6, <1>11, <2>2
    <3>2. l \in Moving(tree, src) /\ l \in Visible(tree)
      BY <1>5, <3>1
    <3>3. h[k] = o[l] /\ o[l] = tree[l] /\ tree'[k] = tree[l]
      BY <1>1, <1>3, <1>6, <3>1, <3>2
    <3> QED BY <3>3
  <2> QED BY <2>1, <2>2
<1>12. Objects' = h
  <2>1. Objects' = [k \in DOMAIN h |-> tree'[k]]
    BY <1>2, <1>10
  <2>2. Objects' = [k \in DOMAIN h |-> h[k]]
    BY <1>11, <2>1
  <2> QED BY <1>6, <2>2
<1> QED BY <1>12 DEF h, o

Simulates == [Store!Next]_(Store!vars)

LEMMA StoreStutters == ASSUME Objects' = Objects, UNCHANGED status PROVE Simulates
BY DEF Simulates, Store!vars

LEMMA StoreDeletes ==
  ASSUME IInv, IInv', NEW p, Removed(p), UNCHANGED status PROVE Simulates
<1>1. CASE Objects' = Objects
  BY <1>1, StoreStutters
<1>2. CASE p \in DOMAIN Objects /\ Store!Delete(p)
  BY <1>2 DEF Simulates, Store!Next
<1> QED BY <1>1, <1>2, RemovedObjects

LEMMA StoreRefuses ==
  ASSUME IInv, NEW r \in Slots, req[r] # Null, req[r].op = "write", pc[r] \notin {"unlink", "stat"},
         Settle(r, "refused"), Objects' = Objects
  PROVE  Simulates
<1>1. req[r].c \in Contents
  BY AskedIs, NullIsIdle DEF IInv
<1>2. status[req[r].c] = "pending"
  BY DEF IInv, Writes
<1>3. Store!Refuse(req[r].c)
  BY <1>2 DEF Store!Refuse, Store!Settle, Settle
<1> QED BY <1>1, <1>3 DEF Simulates, Store!Next

LEMMA StoreWrites ==
  ASSUME IInv, NEW r \in Slots, pc[r] = "publish", Settle(r, "stored"),
         req[r].c \in CreateOnly => req[r].p \notin DOMAIN Objects,
         Objects' = [k \in DOMAIN Objects \union {req[r].p} |->
                       IF k = req[r].p THEN req[r].c ELSE Objects[k]]
  PROVE  Simulates
<1>1. req[r] # Null /\ req[r].op = "write" /\ req[r].c \in Contents /\ req[r].p \in Paths
  BY TmpIs DEF IInv, TempPCs
<1>2. status[req[r].c] = "pending"
  BY <1>1 DEF IInv, Writes
<1>3. Store!Write(req[r].p, req[r].c)
  BY <1>2 DEF Store!Write, Store!Settle, Settle
<1> QED BY <1>1, <1>3 DEF Simulates, Store!Next

LEMMA BeginSimulates == ASSUME IInv, IInv', NEW r \in Slots, Begin(r) PROVE Simulates
<1>1. UNCHANGED <<tree, status>>
  BY DEF Begin, WriteBegin, MkdirBegin, RegisterBegin, OtherBegin
<1> QED BY <1>1, QuietTree, StoreStutters

LEMMA MkdirNextSimulates == ASSUME IInv, IInv', NEW r \in Slots, MkdirNext(r) PROVE Simulates
<1> DEFINE d == Head(mkdirs[r])
<1>1. UNCHANGED status /\ (UNCHANGED tree \/ (CanEnter(d) /\ Enter(d, "dir")))
  BY DEF MkdirNext
<1> HIDE DEF d
<1>2. Objects' = Objects
  BY <1>1, QuietTree, QuietEnter DEF CanEnter, Absent
<1> QED BY <1>1, <1>2, StoreStutters

\* Removing a temporary file shows no reader anything.
LEMMA RemoveTempQuiet ==
  ASSUME IInv, IInv', NEW r \in Slots, pc[r] \in TempPCs, RemoveTemp(r) PROVE Objects' = Objects
<1>1. CASE UNCHANGED tree
  BY <1>1, QuietTree
<1>2. CASE Removed(Tmp(r))
  <2>1. Last(Tmp(r)) \in Contents
    BY TmpIs DEF IInv
  <2>2. DOMAIN tree' = DOMAIN tree \ {Tmp(r)} /\ \A k \in DOMAIN tree' : tree'[k] = tree[k]
    BY <1>2, RemovedIs
  <2>3. Visible(tree') = Visible(tree) /\ \A k \in Visible(tree) : tree'[k] = tree[k]
    BY <2>1, <2>2 DEF Visible
  <2> QED BY <2>3, SameObjects
<1> QED BY <1>1, <1>2, UnlinkIsRemoved DEF RemoveTemp

LEMMA WriteStepSimulates == ASSUME IInv, IInv', NEW r \in Slots, WriteStep(r) PROVE Simulates
<1>1. CASE OpenTemp(r)
  <2>1. pc[r] = "temp" /\ CanEnter(Tmp(r)) /\ Enter(Tmp(r), req[r].c) /\ UNCHANGED status
    BY <1>1 DEF OpenTemp
  <2>2. Last(Tmp(r)) \in Contents
    BY <2>1, TmpIs DEF IInv
  <2>3. Objects' = Objects
    BY <2>1, <2>2, QuietEnter DEF CanEnter, Absent
  <2> QED BY <2>1, <2>3, StoreStutters
<1>2. CASE Fill(r) \/ FillError(r) \/ PublishError(r) \/ FinalStat(r)
  <2>1. UNCHANGED <<tree, status>>
    BY <1>2 DEF Fill, FillError, PublishError, FinalStat
  <2> QED BY <2>1, QuietTree, StoreStutters
<1>3. CASE Link(r)
  <2>1. /\ pc[r] = "publish" /\ CanEnter(req[r].p) /\ Enter(req[r].p, req[r].c) /\ Settle(r, "stored")
    BY <1>3 DEF Link
  <2>2. req[r].c \in Contents /\ req[r].p \in PlainPaths /\ Last(Tmp(r)) \in Contents
    BY <2>1, TmpIs DEF IInv, TempPCs
  <2>3. /\ DOMAIN tree' = DOMAIN tree \union {req[r].p} /\ req[r].p \notin DOMAIN tree
        /\ tree'[req[r].p] = req[r].c /\ \A k \in DOMAIN tree : tree'[k] = tree[k]
    BY <2>1, EnterIs DEF CanEnter, Absent, IInv
  <2>4. DOMAIN tree' = (DOMAIN tree \ {req[r].p}) \union {req[r].p}
    BY <2>3
  <2>5. Objects' = [k \in DOMAIN Objects \union {req[r].p} |->
                      IF k = req[r].p THEN req[r].c ELSE Objects[k]]
    BY <2>2, <2>3, <2>4, PublishedObjects
  <2>6. req[r].p \notin DOMAIN Objects
    BY <2>3 DEF Objects
  <2> QED BY <2>1, <2>5, <2>6, StoreWrites
<1>4. CASE RenameTemp(r)
  <2>1. pc[r] = "publish" /\ req[r].c \notin CreateOnly /\ Settle(r, "stored")
    BY <1>4 DEF RenameTemp
  <2>2. req[r].c \in Contents /\ req[r].p \in PlainPaths /\ Last(Tmp(r)) \in Contents
    BY <2>1, TmpIs DEF IInv, TempPCs
  <2>3. /\ DOMAIN tree' = (DOMAIN tree \ {Tmp(r)}) \union {req[r].p}
        /\ tree'[req[r].p] = req[r].c
        /\ \A k \in DOMAIN tree \ {Tmp(r), req[r].p} : tree'[k] = tree[k]
    BY <1>4, RenameTempTree
  <2>4. Objects' = [k \in DOMAIN Objects \union {req[r].p} |->
                      IF k = req[r].p THEN req[r].c ELSE Objects[k]]
    BY <2>2, <2>3, PublishedObjects
  <2> QED BY <2>1, <2>4, StoreWrites
<1>5. CASE Cleanup(r)
  <2>1. pc[r] = "cleanup" /\ RemoveTemp(r) /\ Settle(r, "refused")
    BY <1>5 DEF Cleanup
  <2>2. req[r] # Null /\ req[r].op = "write"
    BY <2>1, TmpIs DEF IInv, TempPCs
  <2>3. Objects' = Objects
    BY <2>1, RemoveTempQuiet DEF TempPCs
  <2> QED BY <2>1, <2>2, <2>3, StoreRefuses
<1>6. CASE UnlinkTemp(r)
  <2>1. pc[r] = "unlink" /\ RemoveTemp(r) /\ UNCHANGED status
    BY <1>6 DEF UnlinkTemp
  <2>2. Objects' = Objects
    BY <2>1, RemoveTempQuiet DEF TempPCs
  <2> QED BY <2>1, <2>2, StoreStutters
<1> QED BY <1>1, <1>2, <1>3, <1>4, <1>5, <1>6 DEF WriteStep

LEMMA RemoveStepSimulates == ASSUME IInv, IInv', NEW r \in Slots, RemoveStep(r) PROVE Simulates
<1>1. CASE LstatDelete(r)
  <2>1. UNCHANGED <<tree, status>>
    BY <1>1 DEF LstatDelete
  <2> QED BY <2>1, QuietTree, StoreStutters
<1>2. CASE RemoveObject(r)
  <2>1. Unlink(req[r].p) /\ UNCHANGED status
    BY <1>2 DEF RemoveObject
  <2> QED BY <2>1, UnlinkIsRemoved, StoreDeletes
<1>3. CASE RemoveAllOpen(r)
  <2>1. UNCHANGED status /\ (Unlink(req[r].p) \/ UNCHANGED tree)
    BY <1>3 DEF RemoveAllOpen
  <2> QED BY <2>1, UnlinkIsRemoved, StoreDeletes, QuietTree, StoreStutters
<1>4. CASE RemoveAllLast(r)
  <2>1. UNCHANGED status /\ (Removed(Top(r)) \/ UNCHANGED tree)
    BY <1>4 DEF RemoveAllLast, Removed
  <2> QED BY <2>1, StoreDeletes, QuietTree, StoreStutters
<1>5. ASSUME NEW k \in DOMAIN tree, RemoveAllDescend(r, k) \/ RemoveAllEntry(r, k) PROVE Simulates
  <2>1. UNCHANGED status /\ (Unlink(k) \/ UNCHANGED tree)
    BY <1>5 DEF RemoveAllDescend, RemoveAllEntry
  <2> QED BY <2>1, UnlinkIsRemoved, StoreDeletes, QuietTree, StoreStutters
<1> QED BY <1>1, <1>2, <1>3, <1>4, <1>5 DEF RemoveStep

LEMMA MoveStepSimulates == ASSUME IInv, IInv', NEW r \in Slots, MoveStep(r) PROVE Simulates
<1>1. CASE LstatSource(r) \/ LstatTarget(r)
  <2>1. UNCHANGED <<tree, status>>
    BY <1>1 DEF LstatSource, LstatTarget
  <2> QED BY <2>1, QuietTree, StoreStutters
<1>2. CASE MoveRename(r)
  <2> DEFINE src == req[r].p
             dst == req[r].q
  <2>1. pc[r] = "rename" /\ CanRename(src, dst) /\ Rename(src, dst) /\ UNCHANGED status
    BY <1>2 DEF MoveRename
  <2>2. src \in PlainPaths /\ dst \in PlainPaths /\ dst \in Paths /\ src \in Paths
    BY <2>1, MoveIs, AskedIs DEF IInv
  <2> HIDE DEF src, dst
  <2>3. Objects' = Store!MoveTree(Objects, src, dst)
    BY <2>1, <2>2, MovedObjects
  <2>4. DOMAIN Objects = Visible(tree)
    BY ObjectsAre
  <2>5. CASE tree[src] # "dir"
    <3>1. src \in DOMAIN Objects
      BY <2>1, <2>2, <2>4, <2>5 DEF CanRename, Visible, PlainPaths
    <3>2. Store!MoveObject(src, dst)
      BY <2>1, <2>3, <3>1 DEF Store!MoveObject
    <3> QED BY <2>2, <3>2 DEF Simulates, Store!Next
  <2>6. CASE tree[src] = "dir"
    <3>1. Absent(dst) \/ IsDir(dst)
      BY <2>1, <2>6 DEF CanRename, IsDir
    <3>2. dst \in KeyPaths /\ src \in KeyPaths
      BY <2>2 DEF PlainPaths
    <3>3. dst \notin Visible(tree)
      BY <3>1, <3>2 DEF Absent, IsDir, Visible, KeyPaths
    <3>4. \A k \in DOMAIN tree : ~(IsPrefix(dst, k) /\ k # dst)
      BY <2>1, <3>2, RenameIs DEF IInv
    <3>5. ~ \E k \in DOMAIN Objects : IsPrefix(dst, k)
      BY <2>4, <3>3, <3>4 DEF Visible
    <3>6. Store!MoveFolder(src, dst)
      BY <2>1, <2>3, <3>5 DEF Store!MoveFolder, Store!IsPrefix, IsPrefix
    <3> QED BY <2>2, <3>6 DEF Simulates, Store!Next
  <2> QED BY <2>5, <2>6
<1> QED BY <1>1, <1>2 DEF MoveStep

LEMMA RegisterStepSimulates == ASSUME IInv, IInv', NEW r \in Slots, RegisterStep(r) PROVE Simulates
<1>1. UNCHANGED status /\ (UNCHANGED tree \/ (CanEnter(req[r].p) /\ Enter(req[r].p, "dir")))
  BY DEF RegisterStep, StatRoot, StatParent, MkdirRoot
<1>2. Objects' = Objects
  BY <1>1, QuietTree, QuietEnter DEF CanEnter, Absent
<1> QED BY <1>1, <1>2, StoreStutters

LEMMA FailSimulates == ASSUME IInv, IInv', NEW r \in Slots, Fail(r) PROVE Simulates
<1>1. /\ pc[r] \notin {"idle", "unlink", "stat"} /\ UNCHANGED tree
      /\ UNCHANGED status \/ (req[r].op = "write" /\ Settle(r, "refused"))
  BY DEF Fail
<1>2. Objects' = Objects
  BY <1>1, QuietTree
<1>3. req[r] # Null
  BY <1>1, AskedIs DEF IInv
<1> QED BY <1>1, <1>2, <1>3, StoreStutters, StoreRefuses

LEMMA NextSimulates == IInv /\ IInv' /\ [Next]_vars => Simulates
<1> SUFFICES ASSUME IInv, IInv', [Next]_vars PROVE Simulates
  OBVIOUS
<1>1. ASSUME NEW r \in Slots,
             \/ Begin(r) \/ MkdirNext(r) \/ WriteStep(r) \/ RemoveStep(r)
             \/ MoveStep(r) \/ RegisterStep(r) \/ Fail(r)
      PROVE  Simulates
  BY <1>1, BeginSimulates, MkdirNextSimulates, WriteStepSimulates, RemoveStepSimulates,
     MoveStepSimulates, RegisterStepSimulates, FailSimulates
<1>2. CASE Crash \/ UNCHANGED vars
  <2>1. UNCHANGED <<tree, status>>
    BY <1>2 DEF Crash, vars
  <2> QED BY <2>1, QuietTree, StoreStutters
<1> QED BY <1>1, <1>2 DEF Next

\* backend.Backend's promise, kept by the calls of filesystem.go whatever
\* requests interleave, fail or are cut off: each request's effect on the
\* objects is one step of ObjectStore.  A write shows up whole or not at all,
\* create-only never replaces, a refused write never appears, and a folder move
\* carries every object and covers none.
THEOREM FilesystemIsObjectStore == Spec => ImplementsObjectStore
<1>1. Init => Store!Init
  <2> SUFFICES ASSUME Init PROVE Store!Init
    OBVIOUS
  <2>1. Objects = [p \in {} |-> p]
    BY DEF Init, Objects
  <2> QED BY <2>1 DEF Init, Store!Init
<1>2. IInv /\ IInv' /\ [Next]_vars => [Store!Next]_(Store!vars)
  BY NextSimulates DEF Simulates
<1> QED BY <1>1, <1>2, FilesystemInvariant, PTL DEF Spec, ImplementsObjectStore, Store!Spec

=============================================================================

----------------------- MODULE Groth16CommitmentsProofs -----------------------
(* Proofs about the commitments of an R1CS, for any number of variables, of    *)
(* calls of Commit and of wires committed to.                                  *)
EXTENDS Groth16Commitments, SequenceTheorems, FiniteSetTheorems, WellFoundedInduction, TLAPS

-----------------------------------------------------------------------------
(* The invariant.                                                             *)

Lists == Seq(Nat)

Sorted(list) == \A i, j \in 1 .. Len(list) : i < j => list[i] < list[j]

Commitment ==
  [public : Lists, nbPublic : Nat, private : Lists, index : Nat, asked : SUBSET Nat]

Indexes == {commitments[k].index : k \in 1 .. Len(commitments)}

\* The kinds of values, finer than TypeOK.
Typed ==
  /\ nbWires \in Nat /\ NbPublic + NbSecret <= nbWires /\ nbWires <= MaxWires
  /\ commitments \in Seq(Commitment)
  /\ phase \in {"idle", "merging", "panicked"}
  /\ heap \subseteq 0 .. nbWires - 1
  /\ existing \in Lists /\ seeker \in Seq(Lists) /\ new \in Commitment

\* A commitment's wire is above the earlier ones.
IndexesSorted ==
  /\ \A k \in 1 .. Len(commitments) :
       commitments[k].index \in NbPublic + NbSecret .. nbWires - 1
  /\ \A i, k \in 1 .. Len(commitments) : i < k => commitments[i].index < commitments[k].index

\* What commitment i publishes: public variables, then earlier commitments.
PublicPart(c, earlier) ==
  /\ Sorted(c.public) /\ c.nbPublic <= Len(c.public)
  /\ \A j \in 1 .. c.nbPublic : c.public[j] \in 1 .. NbPublic - 1
  /\ \A j \in c.nbPublic + 1 .. Len(c.public) : c.public[j] \in earlier

EarlierIndexes(i) == {commitments[k].index : k \in 1 .. i - 1}

PublicParts ==
  \A i \in 1 .. Len(commitments) : PublicPart(commitments[i], EarlierIndexes(i))

\* What it keeps to itself: other wires, none of which anybody else has.
PrivateParts ==
  \A i \in 1 .. Len(commitments) :
    /\ Sorted(commitments[i].private)
    /\ \A w \in ToSet(commitments[i].private) :
         /\ NbPublic <= w /\ w < commitments[i].index /\ w \notin Indexes
         /\ \A k \in 1 .. Len(commitments) :
              k # i => w \notin ToSet(commitments[k].private)

\* The merge has passed a wire that is below all of the heap.
Passed(w) == \A v \in heap : w < v

\* The lists it drops wires from keep what it has not passed.
ListsKeep ==
  /\ Sorted(existing) /\ ToSet(existing) \subseteq Indexes
  /\ \A w \in Indexes : w \in ToSet(existing) \/ Passed(w)
  /\ Len(seeker) = Len(commitments)
  /\ \A i \in 1 .. Len(commitments) :
       /\ Sorted(seeker[i])
       /\ \A w \in ToSet(commitments[i].private) : w \in ToSet(seeker[i]) \/ Passed(w)

\* The commitment under construction is one like the others, of wires that are passed.
NewPart ==
  /\ PublicPart(new, Indexes) /\ Sorted(new.private)
  /\ \A w \in ToSet(new.public) : Passed(w)
  /\ \A w \in ToSet(new.private) :
       /\ Passed(w) /\ NbPublic <= w /\ w < nbWires /\ w \notin Indexes
       /\ \A k \in 1 .. Len(commitments) : w \notin ToSet(commitments[k].private)

Merging == phase = "merging" => ListsKeep /\ NewPart /\ nbWires < MaxWires

NotMerging ==
  /\ phase = "idle" => existing = <<>> /\ seeker = <<>>
  /\ phase # "merging" => heap = {}
  /\ ToSet(existing) \subseteq Indexes /\ Len(seeker) \in {0, Len(commitments)}

IInv == /\ Typed /\ IndexesSorted /\ PublicParts /\ PrivateParts
        /\ Merging /\ NotMerging

-----------------------------------------------------------------------------
(* Induction and recursive functions.                                         *)

\* A set of natural numbers has a least element.
LEMMA Smallest ==
  ASSUME NEW T, T \subseteq Nat, T # {}
  PROVE  \E n \in T : \A m \in T : n <= m
<1>1. IsWellFoundedOn(OpToRel(<, Nat), Nat)
  BY NatLessThanWellFounded
<1>2. PICK n \in T : \A m \in T : <<m, n>> \notin OpToRel(<, Nat)
  BY ONLY <1>1, WFMin, T \subseteq Nat, T # {}
<1>3. \A m \in T : ~(m < n)
  <2>. SUFFICES ASSUME NEW m \in T  PROVE ~(m < n)
    OBVIOUS
  <2>. QED  BY <1>2 DEF OpToRel
<1>4. n \in Nat /\ \A m \in T : m \in Nat /\ ~(m < n)
  BY <1>2, <1>3
<1>. QED  BY <1>4

\* Induction, for a set instead of a predicate.
LEMMA NaturalsAll ==
  ASSUME NEW T, 0 \in T, \A n \in Nat : n \in T => n + 1 \in T
  PROVE  Nat \subseteq T
<1>. SUFFICES ASSUME Nat \ T # {}  PROVE FALSE
  OBVIOUS
<1>1. PICK n \in Nat \ T : \A m \in Nat \ T : n <= m
  BY Smallest
<1>2. n # 0 /\ n - 1 \in Nat
  BY <1>1
<1>3. n - 1 \in T
  BY <1>1, <1>2
<1>. QED  BY <1>1, <1>2, <1>3

\* f is the function on the naturals that starts with a and goes from n to n + 1 by F[n].
Recursion(S, a, F) == a \in S /\ F \in [Nat -> [S -> S]]

Recursive(f, S, a, F) ==
  f \in [Nat -> S] /\ f[0] = a /\ \A n \in Nat : f[n + 1] = F[n][f[n]]

\* There is such a function.
LEMMA RecursiveFunction ==
  ASSUME NEW S, NEW a, NEW F, Recursion(S, a, F)
  PROVE  \E f : Recursive(f, S, a, F)
<1>0. a \in S /\ F \in [Nat -> [S -> S]]
  BY DEF Recursion
<1>. USE <1>0
<1>. DEFINE Starts(g, n) ==
              g \in [0 .. n -> S] /\ g[0] = a /\ \A i \in 0 .. n - 1 : g[i + 1] = F[i][g[i]]
<1>1. \A n \in Nat : \E g : Starts(g, n)
  <2>. DEFINE T == {n \in Nat : \E g : Starts(g, n)}
  <2>1. 0 \in T
    <3>1. Starts([i \in 0 .. 0 |-> a], 0)
      OBVIOUS
    <3>. QED  BY <3>1
  <2>2. ASSUME NEW n \in Nat, n \in T  PROVE n + 1 \in T
    <3>1. PICK g : Starts(g, n)
      BY <2>2
    <3>. DEFINE h == [i \in 0 .. n + 1 |-> IF i = n + 1 THEN F[n][g[n]] ELSE g[i]]
    <3>2. h \in [0 .. n + 1 -> S]
      BY <3>1
    <3>3. h[0] = a
      BY <3>1
    <3>4. ASSUME NEW i \in 0 .. n  PROVE h[i + 1] = F[i][h[i]]
      <4>1. h[i] = g[i]
        OBVIOUS
      <4>2. CASE i = n
        <5>1. h[i + 1] = F[n][g[n]]
          BY <4>2
        <5>. QED  BY <4>1, <4>2, <5>1
      <4>3. CASE i # n
        <5>1. i \in 0 .. n - 1 /\ h[i + 1] = g[i + 1]
          BY <4>3
        <5>. QED  BY <3>1, <4>1, <5>1
      <4>. QED  BY <4>2, <4>3
    <3>. HIDE DEF h
    <3>5. Starts(h, n + 1)
      <4>1. 0 .. (n + 1) - 1 = 0 .. n
        OBVIOUS
      <4>. QED  BY <3>2, <3>3, <3>4, <4>1
    <3>. QED  BY <3>5
  <2>. HIDE DEF T
  <2>3. Nat \subseteq T
    BY <2>1, <2>2, NaturalsAll
  <2>. QED  BY <2>3 DEF T
<1>2. ASSUME NEW m \in Nat, NEW n \in Nat, NEW g, NEW h, Starts(g, m), Starts(h, n)
      PROVE  \A i \in Nat : i <= m /\ i <= n => g[i] = h[i]
  <2>. DEFINE T == {i \in Nat : i <= m /\ i <= n => g[i] = h[i]}
  <2>1. 0 \in T
    BY <1>2
  <2>2. ASSUME NEW i \in Nat, i \in T  PROVE i + 1 \in T
    <3>. SUFFICES ASSUME i + 1 <= m, i + 1 <= n  PROVE g[i + 1] = h[i + 1]
      OBVIOUS
    <3>1. i \in 0 .. m - 1 /\ i \in 0 .. n - 1 /\ g[i] = h[i]
      BY <2>2
    <3>. QED  BY <1>2, <3>1
  <2>. HIDE DEF T
  <2>3. Nat \subseteq T
    BY <2>1, <2>2, NaturalsAll
  <2>. QED  BY <2>3 DEF T
<1>. DEFINE G(n) == CHOOSE g : Starts(g, n)
            f == [n \in Nat |-> G(n)[n]]
<1>3. \A n \in Nat : Starts(G(n), n)
  BY <1>1
<1>. HIDE DEF G
<1>4. f \in [Nat -> S] /\ f[0] = a
  BY <1>3
<1>5. ASSUME NEW n \in Nat  PROVE f[n + 1] = F[n][f[n]]
  <2>1. Starts(G(n), n) /\ Starts(G(n + 1), n + 1)
    BY <1>3
  <2>2. G(n)[n] = G(n + 1)[n]
    <3>. HIDE DEF Starts
    <3>. QED  BY <1>2, <2>1
  <2>3. G(n + 1)[n + 1] = F[n][G(n + 1)[n]]
    BY <2>1
  <2>. QED  BY <2>2, <2>3
<1>6. Recursive(f, S, a, F)
  BY <1>4, <1>5 DEF Recursive
<1>. QED  BY <1>6

-----------------------------------------------------------------------------
(* Sorted lists.                                                              *)

LEMMA ListElements ==
  ASSUME NEW list \in Lists
  PROVE  /\ Len(list) \in Nat /\ DOMAIN list = 1 .. Len(list)
         /\ \A i \in 1 .. Len(list) : list[i] \in Nat /\ list[i] \in ToSet(list)
         /\ \A w \in ToSet(list) : w \in Nat /\ \E i \in 1 .. Len(list) : w = list[i]
BY DEF Lists, ToSet

LEMMA EmptyList ==
  /\ <<>> \in Lists /\ Len(<<>>) = 0 /\ Sorted(<<>>) /\ ToSet(<<>>) = {}
BY DEF Lists, ToSet, Sorted

\* What is left of a sorted list without the wires below t.
LEMMA NotBelowProperties ==
  ASSUME NEW list \in Lists, Sorted(list), NEW t \in Nat
  PROVE  /\ NotBelow(t, list) \in Lists /\ Sorted(NotBelow(t, list))
         /\ \A w : w \in ToSet(NotBelow(t, list)) <=> w \in ToSet(list) /\ w >= t
<1>. DEFINE Prefix(k) == /\ \A i \in 1 .. k : list[i] < t
                         /\ k < Len(list) => list[k + 1] >= t
            n == Below(t, list)
            r == SubSeq(list, n + 1, Len(list))
<1>0. Len(list) \in Nat /\ \A i \in 1 .. Len(list) : list[i] \in Nat
  BY DEF Lists
<1>1. \E k \in 0 .. Len(list) : Prefix(k)
  <2>. DEFINE Ends == {k \in 0 .. Len(list) : k = Len(list) \/ list[k + 1] >= t}
  <2>1. Len(list) \in Ends /\ Ends \subseteq Nat
    BY <1>0
  <2>2. PICK k \in Ends : \A m \in Ends : k <= m
    BY <2>1, Smallest
  <2>3. ASSUME NEW i \in 1 .. k  PROVE list[i] < t
    <3>1. i - 1 \in 0 .. Len(list) /\ i \in 1 .. Len(list) /\ k \in Nat /\ ~(k <= i - 1)
      BY <1>0, <2>2
    <3>. HIDE DEF Ends
    <3>3. i - 1 \notin Ends
      BY <2>2, <3>1
    <3>. USE DEF Ends
    <3>2. ~(list[(i - 1) + 1] >= t)
      BY <3>1, <3>3
    <3>. QED  BY <1>0, <3>1, <3>2
  <2>. QED  BY <2>2, <2>3
<1>2. n \in 0 .. Len(list) /\ Prefix(n)
  BY <1>1 DEF Below
<1>3. NotBelow(t, list) = r
  BY DEF NotBelow
<1>. HIDE DEF n
<1>4. r \in Lists /\ Len(r) = Len(list) - n /\ \A i \in 1 .. Len(r) : r[i] = list[n + i]
  BY <1>0, <1>2 DEF Lists
<1>. HIDE DEF r
<1>5. Sorted(r)
  <2>. SUFFICES ASSUME NEW i \in 1 .. Len(r), NEW j \in 1 .. Len(r), i < j
                PROVE  r[i] < r[j]
    BY DEF Sorted
  <2>1. n + i \in 1 .. Len(list) /\ n + j \in 1 .. Len(list) /\ n + i < n + j
    BY <1>0, <1>2, <1>4
  <2>. QED  BY <1>4, <2>1 DEF Sorted
<1>6. ASSUME NEW w \in ToSet(r)  PROVE w \in ToSet(list) /\ w >= t
  <2>1. PICK i \in 1 .. Len(r) : w = r[i]
    BY <1>4, <1>6, ListElements
  <2>2. w = list[n + i] /\ n + i \in 1 .. Len(list) /\ n + 1 \in 1 .. Len(list)
    BY <1>0, <1>2, <1>4, <2>1
  <2>3. list[n + 1] >= t
    BY <1>0, <1>2, <2>2
  <2>4. w >= list[n + 1]
    <3>1. CASE i = 1
      BY <1>0, <2>2, <3>1
    <3>2. CASE i # 1
      <4>1. n + 1 < n + i
        BY <1>2, <3>2
      <4>2. list[n + 1] < list[n + i]
        BY <2>2, <4>1 DEF Sorted
      <4>. QED  BY <1>0, <2>2, <4>2
    <3>. QED  BY <3>1, <3>2
  <2>. QED  BY <1>0, <2>2, <2>3, <2>4, ListElements
<1>7. ASSUME NEW w \in ToSet(list), w >= t  PROVE w \in ToSet(r)
  <2>1. PICK i \in 1 .. Len(list) : w = list[i]
    BY ListElements
  <2>2. ~(i <= n)
    <3>. SUFFICES ASSUME i <= n  PROVE FALSE
      OBVIOUS
    <3>1. i \in 1 .. n
      BY <1>2
    <3>2. list[i] < t
      BY <1>2, <3>1
    <3>. QED  BY <1>0, <1>7, <2>1, <3>2
  <2>3. i - n \in 1 .. Len(r) /\ r[i - n] = list[i]
    BY <1>0, <1>2, <1>4, <2>1, <2>2
  <2>. QED  BY <1>4, <2>1, <2>3, ListElements
<1>. QED  BY <1>3, <1>4, <1>5, <1>6, <1>7

\* A wire above all of a list goes to its end.
LEMMA AppendLast ==
  ASSUME NEW list \in Lists, Sorted(list), NEW w \in Nat, \A v \in ToSet(list) : v < w
  PROVE  /\ Append(list, w) \in Lists /\ Sorted(Append(list, w))
         /\ Len(Append(list, w)) = Len(list) + 1
         /\ \A i \in 1 .. Len(list) : Append(list, w)[i] = list[i]
         /\ Append(list, w)[Len(list) + 1] = w
         /\ ToSet(Append(list, w)) = ToSet(list) \union {w}
<1>. DEFINE a == Append(list, w)
<1>1. /\ a \in Lists /\ Len(a) = Len(list) + 1 /\ a[Len(list) + 1] = w /\ Len(list) \in Nat
      /\ \A i \in 1 .. Len(list) : a[i] = list[i]
  BY DEF Lists
<1>. HIDE DEF a
<1>2. Sorted(a)
  <2>. SUFFICES ASSUME NEW i \in 1 .. Len(a), NEW j \in 1 .. Len(a), i < j
                PROVE  a[i] < a[j]
    BY DEF Sorted
  <2>1. i \in 1 .. Len(list) /\ a[i] = list[i]
    BY <1>1
  <2>2. CASE j \in 1 .. Len(list)
    BY <1>1, <2>1, <2>2 DEF Sorted
  <2>3. CASE j = Len(list) + 1
    BY <1>1, <2>1, <2>3, ListElements
  <2>. QED  BY <1>1, <2>2, <2>3
<1>3. ToSet(a) = ToSet(list) \union {w}
  <2>1. ASSUME NEW v \in ToSet(a)  PROVE v \in ToSet(list) \union {w}
    <3>1. PICK i \in 1 .. Len(a) : v = a[i]
      BY <1>1, ListElements
    <3>2. CASE i \in 1 .. Len(list)
      BY <1>1, <3>1, <3>2, ListElements
    <3>3. CASE i = Len(list) + 1
      BY <1>1, <3>1, <3>3
    <3>. QED  BY <1>1, <3>1, <3>2, <3>3
  <2>2. ASSUME NEW v \in ToSet(list) \union {w}  PROVE v \in ToSet(a)
    <3>1. CASE v = w
      BY <1>1, <3>1, ListElements
    <3>2. CASE v \in ToSet(list)
      <4>1. PICK i \in 1 .. Len(list) : v = list[i]
        BY <3>2, ListElements
      <4>2. i \in 1 .. Len(a) /\ v = a[i]
        BY <1>1, <4>1
      <4>. QED  BY <1>1, <4>2, ListElements
    <3>. QED  BY <3>1, <3>2
  <2>. QED  BY <2>1, <2>2
<1>. QED  BY <1>1, <1>2, <1>3 DEF a

\* The first wire of a sorted list is the least, and the others are the tail.
LEMMA FirstIsLeast ==
  ASSUME NEW list \in Lists, Sorted(list), list # <<>>
  PROVE  /\ Head(list) \in ToSet(list) /\ \A w \in ToSet(list) : Head(list) <= w
         /\ Tail(list) \in Lists /\ Sorted(Tail(list))
         /\ ToSet(Tail(list)) = ToSet(list) \ {Head(list)}
<1>. DEFINE a == Tail(list)
<1>1. /\ a \in Lists /\ Len(a) = Len(list) - 1 /\ Len(list) \in Nat \ {0}
      /\ Head(list) = list[1] /\ \A i \in 1 .. Len(a) : a[i] = list[i + 1]
  BY DEF Lists
<1>. HIDE DEF a
<1>2. Head(list) \in ToSet(list)
  BY <1>1, ListElements
<1>3. ASSUME NEW w \in ToSet(list)  PROVE Head(list) <= w
  <2>1. PICK i \in 1 .. Len(list) : w = list[i]
    BY ListElements
  <2>2. CASE i = 1
    BY <1>1, <2>1, <2>2, ListElements
  <2>3. CASE i # 1
    <3>1. 1 \in 1 .. Len(list) /\ 1 < i
      BY <1>1, <2>3
    <3>2. list[1] < list[i]
      BY <3>1 DEF Sorted
    <3>. QED  BY <1>1, <2>1, <3>1, <3>2, ListElements
  <2>. QED  BY <2>2, <2>3
<1>4. Sorted(a)
  <2>. SUFFICES ASSUME NEW i \in 1 .. Len(a), NEW j \in 1 .. Len(a), i < j
                PROVE  a[i] < a[j]
    BY DEF Sorted
  <2>1. i + 1 \in 1 .. Len(list) /\ j + 1 \in 1 .. Len(list) /\ i + 1 < j + 1
    BY <1>1
  <2>. QED  BY <1>1, <2>1 DEF Sorted
<1>5. ToSet(a) = ToSet(list) \ {Head(list)}
  <2>1. ASSUME NEW v \in ToSet(a)  PROVE v \in ToSet(list) \ {Head(list)}
    <3>1. PICK i \in 1 .. Len(a) : v = a[i]
      BY <1>1, ListElements
    <3>2. v = list[i + 1] /\ i + 1 \in 1 .. Len(list) /\ 1 \in 1 .. Len(list) /\ 1 < i + 1
      BY <1>1, <3>1
    <3>3. list[1] < list[i + 1]
      BY <3>2 DEF Sorted
    <3>. QED  BY <1>1, <3>2, <3>3, ListElements
  <2>2. ASSUME NEW v \in ToSet(list), v # Head(list)  PROVE v \in ToSet(a)
    <3>1. PICK i \in 1 .. Len(list) : v = list[i]
      BY ListElements
    <3>2. i - 1 \in 1 .. Len(a) /\ a[i - 1] = list[i]
      BY <1>1, <2>2, <3>1
    <3>. QED  BY <1>1, <3>1, <3>2, ListElements
  <2>. QED  BY <2>1, <2>2
<1>. QED  BY <1>1, <1>2, <1>3, <1>4, <1>5 DEF a

-----------------------------------------------------------------------------
(* The circuit's steps keep the invariant.                                    *)

LEMMA CommitmentFields ==
  ASSUME Typed, NEW k \in 1 .. Len(commitments)
  PROVE  /\ commitments[k] \in Commitment
         /\ commitments[k].public \in Lists /\ commitments[k].private \in Lists
         /\ commitments[k].index \in Nat /\ commitments[k].nbPublic \in Nat
<1>1. commitments \in Seq(Commitment)
  BY DEF Typed
<1>2. commitments[k] \in Commitment
  BY <1>1, ElementOfSeq
<1>. QED  BY <1>2 DEF Commitment

LEMMA CommitmentsLen ==
  ASSUME Typed
  PROVE  Len(commitments) \in Nat /\ DOMAIN commitments = 1 .. Len(commitments)
BY DEF Typed

LEMMA IndexType == ASSUME Typed  PROVE Indexes \subseteq Nat
BY CommitmentFields DEF Indexes

LEMMA IndexList ==
  ASSUME Typed, IndexesSorted
  PROVE  /\ CommitmentIndexes \in Lists /\ Len(CommitmentIndexes) = Len(commitments)
         /\ \A k \in 1 .. Len(commitments) : CommitmentIndexes[k] = commitments[k].index
         /\ ToSet(CommitmentIndexes) = Indexes /\ Sorted(CommitmentIndexes)
<1>1. CommitmentIndexes = [k \in 1 .. Len(commitments) |-> commitments[k].index]
  BY CommitmentsLen DEF CommitmentIndexes
<1>2. CommitmentIndexes \in Lists /\ Len(CommitmentIndexes) = Len(commitments)
  BY <1>1, CommitmentFields, CommitmentsLen, IsASeq DEF Lists
<1>3. ToSet(CommitmentIndexes) = Indexes
  BY <1>1, <1>2, CommitmentsLen DEF ToSet, Indexes
<1>4. Sorted(CommitmentIndexes)
  BY <1>1, <1>2 DEF Sorted, IndexesSorted
<1>. QED  BY <1>1, <1>2, <1>3, <1>4

LEMMA InvInit == Init => IInv
<1>. SUFFICES ASSUME Init  PROVE IInv
  OBVIOUS
<1>1. NoCommitment \in Commitment
  BY EmptyList DEF NoCommitment, Commitment
<1>2. Typed
  BY <1>1, EmptyList, WiresAssumption DEF Init, Typed, Lists
<1>3. Len(commitments) = 0
  BY DEF Init
<1>. QED  BY <1>2, <1>3, EmptyList DEF Init, IInv, IndexesSorted, PublicParts, PrivateParts,
          Merging, NotMerging, Indexes

LEMMA NewInternalStep ==
  ASSUME IInv, NewInternal  PROVE IInv'
<1>1. Typed'
  BY WiresAssumption DEF IInv, NewInternal, mergeVars, Typed
<1>2. IndexesSorted'
  BY CommitmentFields, CommitmentsLen, WiresAssumption
     DEF IInv, NewInternal, IndexesSorted, Typed
<1>. QED  BY <1>1, <1>2 DEF IInv, NewInternal, mergeVars, PublicParts, PublicPart,
          EarlierIndexes, PrivateParts, Merging, NotMerging, Indexes

LEMMA CommitStep ==
  ASSUME IInv, NEW V, Commit(V)  PROVE IInv'
<1>1. /\ heap' \subseteq 0 .. nbWires' - 1 /\ nbWires' < MaxWires
      /\ nbWires' \in Nat /\ NbPublic + NbSecret <= nbWires' /\ nbWires' = nbWires + 1
      /\ new' \in Commitment /\ new'.public = <<>> /\ new'.private = <<>> /\ new'.nbPublic = 0
  <2>1. nbWires \in Nat /\ NbPublic + NbSecret <= nbWires /\ V \subseteq 0 .. nbWires - 1
    BY DEF IInv, Typed, Commit
  <2>2. nbWires' = nbWires + 1 /\ nbWires + 2 <= MaxWires /\ heap' = V \union {nbWires}
    BY DEF Commit
  <2>3. new' = [public |-> <<>>, nbPublic |-> 0, private |-> <<>>, index |-> 0, asked |-> V]
    BY DEF Commit, NoCommitment
  <2>4. new' \in Commitment
    BY <2>1, <2>3, EmptyList DEF Commitment
  <2>5. heap' \subseteq 0 .. nbWires' - 1 /\ nbWires' < MaxWires
    BY <2>1, <2>2, WiresAssumption
  <2>. QED  BY <2>1, <2>2, <2>3, <2>4, <2>5, WiresAssumption
<1>2. existing' \in Lists /\ ToSet(existing') = Indexes /\ Sorted(existing')
  BY IndexList DEF IInv, Commit
<1>3. /\ seeker' \in Seq(Lists) /\ Len(seeker') = Len(commitments)
      /\ \A i \in 1 .. Len(commitments) : seeker'[i] = commitments[i].private
  <2>1. seeker' = [k \in 1 .. Len(commitments) |-> commitments[k].private]
    BY CommitmentsLen DEF IInv, Commit, GetPrivateCommitted
  <2>2. seeker' \in Seq(Lists) /\ Len(seeker') = Len(commitments)
    BY <2>1, CommitmentFields, CommitmentsLen, IsASeq DEF IInv
  <2>. QED  BY <2>1, <2>2
<1>4. Typed'
  <2>1. commitments' \in Seq(Commitment) /\ phase' = "merging" /\ nbWires' <= MaxWires
    BY <1>1, WiresAssumption DEF IInv, Typed, Commit
  <2>. QED  BY <1>1, <1>2, <1>3, <2>1 DEF Typed
<1>5. IndexesSorted'
  BY CommitmentFields, CommitmentsLen, WiresAssumption DEF IInv, Commit, IndexesSorted, Typed
<1>6. PublicParts' /\ PrivateParts'
  BY DEF IInv, Commit, PublicParts, PublicPart, EarlierIndexes, PrivateParts, Indexes
<1>7. Indexes' = Indexes /\ Len(commitments)' = Len(commitments)
  BY DEF Commit, Indexes
<1>8. ListsKeep'
  BY <1>2, <1>3, <1>7 DEF ListsKeep, IInv, PrivateParts, Commit
<1>9. NewPart'
  BY <1>1, EmptyList DEF NewPart, PublicPart
<1>. QED  BY <1>1, <1>2, <1>3, <1>4, <1>5, <1>6, <1>7, <1>8, <1>9
          DEF IInv, Merging, NotMerging, Commit

\* A round of the merge leaves the same commitments, and passes the least wire.
LEMMA Passing ==
  ASSUME IInv, phase = "merging", NEW t \in heap, \A w \in heap : t <= w,
         heap' \subseteq Nat, \A w \in heap' : t < w
  PROVE  /\ t \in 0 .. nbWires - 1 /\ Passed(t)'
         /\ \A w \in Nat : w <= t => Passed(w)'
         /\ \A w \in Nat : Passed(w) => Passed(w)' /\ w < t
<1>1. heap \subseteq 0 .. nbWires - 1 /\ nbWires \in Nat
  BY DEF IInv, Typed
<1>2. ASSUME NEW w \in Nat, Passed(w)  PROVE w < t
  BY <1>2 DEF Passed
<1>3. ASSUME NEW w \in Nat, w <= t  PROVE Passed(w)'
  <2>. SUFFICES ASSUME NEW v \in heap'  PROVE w < v
    BY DEF Passed
  <2>1. t < v /\ v \in Nat /\ t \in Nat
    BY <1>1
  <2>. QED  BY <1>3, <2>1
<1>. QED  BY <1>1, <1>2, <1>3

\* What a round does not change.
LEMMA Unprocessed ==
  ASSUME IInv, Process
  PROVE  /\ IndexesSorted' /\ PublicParts' /\ PrivateParts'
         /\ commitments' = commitments /\ nbWires' = nbWires /\ Indexes' = Indexes
<1>1. commitments' = commitments /\ nbWires' = nbWires
  BY DEF Process
<1>2. Indexes' = Indexes
  BY <1>1 DEF Indexes
<1>3. IndexesSorted'
  BY <1>1 DEF IInv, IndexesSorted
<1>4. PublicParts'
  <2>1. ASSUME NEW i \in 1 .. Len(commitments)
        PROVE  PublicPart(commitments'[i], EarlierIndexes(i)')
    <3>1. EarlierIndexes(i)' = EarlierIndexes(i)
      BY <1>1 DEF EarlierIndexes
    <3>. QED  BY <1>1, <3>1 DEF IInv, PublicParts
  <2>. QED  BY <1>1, <2>1 DEF PublicParts, PublicPart
<1>5. PrivateParts'
  BY <1>1, <1>2 DEF IInv, PrivateParts
<1>. QED  BY <1>1, <1>2, <1>3, <1>4, <1>5

\* The new commitment, with a wire t added to what it publishes.
LEMMA Publish ==
  ASSUME IInv, phase = "merging", NEW t \in heap, \A w \in heap : t <= w,
         NEW n \in 0 .. 1, t < NbPublic => n = 1 /\ t > 0 /\ new.nbPublic = Len(new.public),
         t >= NbPublic => n = 0 /\ t \in Indexes,
         heap' \subseteq Nat, \A w \in heap' : t < w,
         new' = [new EXCEPT !.public = Append(new.public, t), !.nbPublic = new.nbPublic + n],
         commitments' = commitments, nbWires' = nbWires
  PROVE  new' \in Commitment /\ NewPart'
<1>1. /\ new \in Commitment /\ new.public \in Lists /\ new.nbPublic \in Nat /\ new.private \in Lists
      /\ nbWires \in Nat /\ t \in Nat
  BY DEF IInv, Typed, Commitment
<1>2. NewPart /\ Sorted(new.public) /\ \A w \in ToSet(new.public) : Passed(w)
  BY DEF IInv, Merging, NewPart, PublicPart
<1>3. /\ \A w \in Nat : w <= t => Passed(w)'
      /\ \A w \in Nat : Passed(w) => Passed(w)' /\ w < t
  BY Passing
<1>. DEFINE a == Append(new.public, t)
<1>4. /\ a \in Lists /\ Sorted(a) /\ Len(a) = Len(new.public) + 1
      /\ \A i \in 1 .. Len(new.public) : a[i] = new.public[i]
      /\ a[Len(new.public) + 1] = t
      /\ ToSet(a) = ToSet(new.public) \union {t}
  <2>1. \A v \in ToSet(new.public) : v < t
    BY <1>1, <1>2, <1>3, ListElements
  <2>. QED  BY <1>1, <1>2, <2>1, AppendLast
<1>. HIDE DEF a
<1>5. new'.public = a /\ new'.nbPublic = new.nbPublic + n /\ new'.private = new.private
  BY <1>1 DEF a, Commitment
<1>6. new' \in Commitment
  <2>1. new' = [new EXCEPT !.public = a, !.nbPublic = new.nbPublic + n]
    BY DEF a
  <2>2. new.nbPublic + n \in Nat
    BY <1>1
  <2>. QED  BY <1>1, <1>4, <2>1, <2>2 DEF Commitment
<1>7. Indexes' = Indexes
  BY DEF Indexes
<1>8. PublicPart(new, Indexes)'
  <2>1. Len(new.public) \in Nat
    BY <1>1, ListElements
  <2>2. /\ new.nbPublic <= Len(new.public)
        /\ \A j \in 1 .. new.nbPublic : new.public[j] \in 1 .. NbPublic - 1
        /\ \A j \in new.nbPublic + 1 .. Len(new.public) : new.public[j] \in Indexes
    BY <1>2 DEF NewPart, PublicPart
  <2>3. new.nbPublic + n <= Len(a)
    BY <1>1, <1>4, <2>1, <2>2
  <2>4. ASSUME NEW j \in 1 .. new.nbPublic + n  PROVE a[j] \in 1 .. NbPublic - 1
    <3>1. CASE j \in 1 .. new.nbPublic
      <4>1. j \in 1 .. Len(new.public)
        BY <1>1, <2>1, <2>2, <3>1
      <4>. QED  BY <1>4, <2>2, <3>1, <4>1
    <3>2. CASE j \notin 1 .. new.nbPublic
      <4>1. n = 1 /\ j = new.nbPublic + 1
        BY <1>1, <3>2
      <4>2. t < NbPublic
        BY <1>1, <4>1, WiresAssumption
      <4>3. j = Len(new.public) + 1 /\ a[j] = t
        BY <1>4, <4>1, <4>2
      <4>. QED  BY <1>1, <4>2, <4>3, WiresAssumption
    <3>. QED  BY <3>1, <3>2
  <2>5. ASSUME NEW j \in new.nbPublic + n + 1 .. Len(a)  PROVE a[j] \in Indexes
    <3>1. CASE j \in 1 .. Len(new.public)
      <4>1. j \in new.nbPublic + 1 .. Len(new.public)
        BY <1>1, <2>1, <3>1
      <4>. QED  BY <1>4, <2>2, <3>1, <4>1
    <3>2. CASE j \notin 1 .. Len(new.public)
      <4>1. j = Len(new.public) + 1
        BY <1>1, <1>4, <2>1, <3>2
      <4>2. ~(t < NbPublic)
        BY <1>1, <2>1, <4>1
      <4>. QED  BY <1>1, <1>4, <4>1, <4>2, WiresAssumption
    <3>. QED  BY <3>1, <3>2
  <2>6. PublicPart(new', Indexes)
    BY <1>4, <1>5, <2>3, <2>4, <2>5 DEF PublicPart
  <2>. QED  BY <1>7, <2>6 DEF PublicPart
<1>9. \A w \in ToSet(a) : Passed(w)'
  <2>. SUFFICES ASSUME NEW w \in ToSet(a)  PROVE Passed(w)'
    OBVIOUS
  <2>1. w \in Nat
    BY <1>4, ListElements
  <2>. QED  BY <1>1, <1>2, <1>3, <1>4, <2>1
<1>10. \A w \in ToSet(new.private) :
         /\ Passed(w)' /\ NbPublic <= w /\ w < nbWires /\ w \notin Indexes
         /\ \A k \in 1 .. Len(commitments) : w \notin ToSet(commitments[k].private)
  BY <1>1, <1>2, <1>3, ListElements DEF NewPart
<1>11. Sorted(new.private)
  BY <1>2 DEF NewPart
<1>. QED  BY <1>5, <1>6, <1>7, <1>8, <1>9, <1>10, <1>11 DEF NewPart

\* The new commitment stays as it was.
LEMMA NothingNew ==
  ASSUME IInv, phase = "merging", NEW t \in heap, \A w \in heap : t <= w,
         heap' \subseteq Nat, \A w \in heap' : t < w,
         new' = new, commitments' = commitments, nbWires' = nbWires
  PROVE  NewPart'
<1>1. new.public \in Lists /\ new.private \in Lists /\ NewPart
  BY DEF IInv, Typed, Commitment, Merging
<1>2. \A w \in Nat : Passed(w) => Passed(w)'
  BY Passing
<1>3. /\ \A w \in ToSet(new.public) : Passed(w)'
      /\ \A w \in ToSet(new.private) : Passed(w)'
  BY <1>1, <1>2, ListElements DEF NewPart
<1>4. Indexes' = Indexes
  BY DEF Indexes
<1>. QED  BY <1>1, <1>3, <1>4 DEF NewPart, PublicPart

\* The new commitment, with a wire t added that nobody has committed to.
LEMMA KeepPrivate ==
  ASSUME IInv, phase = "merging", NEW t \in heap, \A w \in heap : t <= w, t >= NbPublic,
         ~ IsCommitment(t), Committers(t) = {},
         heap' \subseteq Nat, \A w \in heap' : t < w,
         new' = [new EXCEPT !.private = Append(new.private, t)],
         commitments' = commitments, nbWires' = nbWires
  PROVE  new' \in Commitment /\ NewPart'
<1>1. /\ new \in Commitment /\ new.public \in Lists /\ new.private \in Lists
      /\ nbWires \in Nat /\ t \in 0 .. nbWires - 1
  BY DEF IInv, Typed, Commitment
<1>2. /\ NewPart /\ Sorted(new.private) /\ \A w \in ToSet(new.private) : Passed(w)
      /\ ListsKeep
  BY DEF IInv, Merging, NewPart
<1>3. /\ \A w \in Nat : w <= t => Passed(w)'
      /\ \A w \in Nat : Passed(w) => Passed(w)' /\ w < t
  BY Passing
<1>. DEFINE a == Append(new.private, t)
<1>4. a \in Lists /\ Sorted(a) /\ ToSet(a) = ToSet(new.private) \union {t}
  <2>1. \A v \in ToSet(new.private) : v < t
    BY <1>1, <1>2, <1>3, ListElements
  <2>. QED  BY <1>1, <1>2, <2>1, AppendLast
<1>. HIDE DEF a
<1>5. new'.private = a /\ new'.public = new.public /\ new'.nbPublic = new.nbPublic
  BY <1>1 DEF a, Commitment
<1>6. new' \in Commitment
  <2>1. new' = [new EXCEPT !.private = a]
    BY DEF a
  <2>. QED  BY <1>1, <1>4, <2>1 DEF Commitment
<1>7. Indexes' = Indexes
  BY DEF Indexes
<1>8. ~ Passed(t)
  BY <1>1 DEF Passed
<1>9. t \notin Indexes
  BY <1>2, <1>8 DEF ListsKeep, IsCommitment
<1>10. \A k \in 1 .. Len(commitments) : t \notin ToSet(commitments[k].private)
  <2>1. Found(t) = {}
    <3>. SUFFICES ASSUME Found(t) # {}  PROVE FALSE
      OBVIOUS
    <3>1. Found(t) \subseteq Nat
      BY DEF Found, IInv, Typed
    <3>2. PICK i \in Found(t) : \A j \in Found(t) : i <= j
      BY <3>1, Smallest
    <3>. QED  BY <3>2 DEF Committers
  <2>2. DOMAIN seeker = 1 .. Len(commitments)
    BY <1>2 DEF ListsKeep, IInv, Typed
  <2>. QED  BY <1>2, <1>8, <2>1, <2>2 DEF Found, ListsKeep
<1>11. \A w \in ToSet(a) :
         /\ Passed(w)' /\ NbPublic <= w /\ w < nbWires /\ w \notin Indexes
         /\ \A k \in 1 .. Len(commitments) : w \notin ToSet(commitments[k].private)
  <2>. SUFFICES ASSUME NEW w \in ToSet(a)
                PROVE  /\ Passed(w)' /\ NbPublic <= w /\ w < nbWires /\ w \notin Indexes
                       /\ \A k \in 1 .. Len(commitments) : w \notin ToSet(commitments[k].private)
    OBVIOUS
  <2>1. CASE w = t
    BY <1>1, <1>3, <1>9, <1>10, <2>1
  <2>2. CASE w \in ToSet(new.private)
    BY <1>1, <1>2, <1>3, <2>2, ListElements DEF NewPart
  <2>. QED  BY <1>4, <2>1, <2>2
<1>12. \A w \in ToSet(new.public) : Passed(w)'
  BY <1>1, <1>2, <1>3, ListElements DEF NewPart
<1>13. PublicPart(new', Indexes)
  BY <1>2, <1>5 DEF NewPart, PublicPart
<1>14. PublicPart(new, Indexes)'
  BY <1>7, <1>13 DEF PublicPart
<1>. QED  BY <1>4, <1>5, <1>6, <1>7, <1>11, <1>12, <1>14 DEF NewPart

\* Lists that lose no wire above t keep what is not passed.
LEMMA Dropping ==
  ASSUME IInv, phase = "merging", NEW t \in heap, \A w \in heap : t <= w,
         heap' \subseteq Nat, \A w \in heap' : t < w,
         commitments' = commitments, nbWires' = nbWires,
         Sorted(existing'), ToSet(existing') \subseteq ToSet(existing),
         \A w \in ToSet(existing) : w > t => w \in ToSet(existing'),
         Len(seeker') = Len(seeker),
         \A i \in 1 .. Len(commitments) :
           /\ Sorted(seeker'[i])
           /\ \A w \in ToSet(seeker[i]) : w > t => w \in ToSet(seeker'[i])
  PROVE  ListsKeep'
<1>1. ListsKeep /\ Indexes \subseteq Nat /\ Indexes' = Indexes
  BY IndexType DEF IInv, Merging, Indexes
<1>2. /\ \A w \in Nat : w <= t => Passed(w)'
      /\ \A w \in Nat : Passed(w) => Passed(w)' /\ w < t
      /\ t \in Nat
  BY Passing
<1>3. ASSUME NEW w \in Indexes  PROVE w \in ToSet(existing') \/ Passed(w)'
  <2>1. w \in Nat /\ (w \in ToSet(existing) \/ Passed(w))
    BY <1>1 DEF ListsKeep
  <2>. QED  BY <1>2, <2>1
<1>4. ASSUME NEW i \in 1 .. Len(commitments), NEW w \in ToSet(commitments[i].private)
      PROVE  w \in ToSet(seeker'[i]) \/ Passed(w)'
  <2>1. w \in ToSet(seeker[i]) \/ Passed(w)
    BY <1>1 DEF ListsKeep
  <2>2. w \in Nat
    BY CommitmentFields, ListElements DEF IInv
  <2>. QED  BY <1>2, <2>1, <2>2
<1>5. \A w \in Indexes' : w \in ToSet(existing') \/ Passed(w)'
  BY <1>1, <1>3
<1>6. \A i \in 1 .. Len(commitments') : \A w \in ToSet(commitments'[i].private) :
        w \in ToSet(seeker'[i]) \/ Passed(w)'
  BY <1>4
<1>. QED  BY <1>1, <1>5, <1>6 DEF ListsKeep

LEMMA StillMerging ==
  ASSUME IInv, Process, phase' = "merging", heap' \subseteq 0 .. nbWires - 1,
         existing' \in Lists, seeker' \in Seq(Lists), new' \in Commitment, ListsKeep', NewPart'
  PROVE  IInv'
<1>1. IndexesSorted' /\ PublicParts' /\ PrivateParts'
  BY Unprocessed
<1>2. commitments' = commitments /\ nbWires' = nbWires
  BY Unprocessed
<1>3. phase = "merging" /\ nbWires < MaxWires
  BY DEF Process, IInv, Merging
<1>4. Typed'
  BY <1>2 DEF IInv, Typed
<1>5. Merging'
  BY <1>2, <1>3 DEF Merging
<1>6. NotMerging'
  BY DEF NotMerging, ListsKeep
<1>. QED  BY <1>1, <1>4, <1>5, <1>6 DEF IInv

LEMMA ProcessStep ==
  ASSUME IInv, Process  PROVE IInv'
<1>1. PICK t \in heap :
        LET rest == NotBelow(t, existing) IN
        /\ \A w \in heap : t <= w
        /\ IF t < NbPublic
           THEN /\ heap' = heap \ {t}
                /\ new' = IF t = 0 THEN new ELSE
                     [new EXCEPT !.public = Append(@, t), !.nbPublic = @ + 1]
                /\ UNCHANGED <<phase, existing, seeker>>
           ELSE IF IsCommitment(t)
           THEN /\ heap' = heap \ {t}
                /\ new' = [new EXCEPT !.public = Append(@, t)]
                /\ existing' = Tail(rest)
                /\ UNCHANGED <<phase, seeker>>
           ELSE /\ existing' = rest
                /\ seeker' = [i \in DOMAIN seeker |->
                                IF \E j \in Committers(t) : i > j THEN seeker[i]
                                ELSE NotBelow(t, seeker[i])]
                /\ IF Committers(t) = {}
                   THEN /\ heap' = heap \ {t}
                        /\ new' = [new EXCEPT !.private = Append(@, t)]
                        /\ UNCHANGED phase
                   ELSE /\ \E c \in Committers(t) :
                             IF c <= Len(rest)
                             THEN heap' = (heap \ {t}) \union {rest[c]} /\ UNCHANGED phase
                             ELSE heap' = {} /\ phase' = "panicked"
                        /\ UNCHANGED new
  BY DEF Process
<1>. DEFINE rest == NotBelow(t, existing)
<1>2. /\ phase = "merging" /\ commitments' = commitments /\ nbWires' = nbWires
      /\ \A w \in heap : t <= w
  BY <1>1, Unprocessed DEF Process
<1>3. /\ ListsKeep /\ NewPart /\ new \in Commitment /\ existing \in Lists /\ seeker \in Seq(Lists)
      /\ heap \subseteq 0 .. nbWires - 1 /\ nbWires \in Nat /\ t \in 0 .. nbWires - 1
      /\ new.public \in Lists /\ new.nbPublic \in Nat
      /\ NbPublic \in Nat /\ Indexes \subseteq NbPublic .. nbWires - 1
  <2>1. ListsKeep /\ NewPart
    BY <1>2 DEF IInv, Merging
  <2>2. /\ new \in Commitment /\ existing \in Lists /\ seeker \in Seq(Lists)
        /\ heap \subseteq 0 .. nbWires - 1 /\ nbWires \in Nat
    BY DEF IInv, Typed
  <2>3. Indexes \subseteq NbPublic .. nbWires - 1
    BY <2>2, WiresAssumption DEF IInv, IndexesSorted, Indexes
  <2>. QED  BY <2>1, <2>2, <2>3, WiresAssumption DEF Commitment
<1>4. /\ rest \in Lists /\ Sorted(rest)
      /\ \A w : w \in ToSet(rest) <=> w \in ToSet(existing) /\ w >= t
  BY <1>3, NotBelowProperties DEF ListsKeep
<1>5. /\ Sorted(existing) /\ ToSet(existing) \subseteq Indexes /\ Len(seeker) = Len(commitments)
      /\ DOMAIN seeker = 1 .. Len(commitments) /\ Len(commitments) \in Nat
      /\ \A i \in 1 .. Len(commitments) : seeker[i] \in Lists /\ Sorted(seeker[i])
  <2>1. /\ Sorted(existing) /\ ToSet(existing) \subseteq Indexes /\ Len(seeker) = Len(commitments)
        /\ \A i \in 1 .. Len(commitments) : Sorted(seeker[i])
    BY <1>3 DEF ListsKeep
  <2>2. Len(commitments) \in Nat /\ DOMAIN seeker = 1 .. Len(seeker)
    BY <1>3, CommitmentsLen DEF IInv
  <2>3. \A i \in 1 .. Len(seeker) : seeker[i] \in Lists
    BY <1>3, ElementOfSeq
  <2>. QED  BY <2>1, <2>2, <2>3
<1>6. ASSUME heap' = heap \ {t}
      PROVE  heap' \subseteq Nat /\ heap' \subseteq 0 .. nbWires - 1 /\ \A w \in heap' : t < w
  BY <1>2, <1>3, <1>6
<1>7. CASE t < NbPublic
  <2>1. heap' = heap \ {t} /\ phase' = "merging" /\ existing' = existing /\ seeker' = seeker
    BY <1>1, <1>2, <1>7
  <2>2. ListsKeep'
    BY <1>2, <1>5, <1>6, <2>1, Dropping
  <2>3. CASE t = 0
    <3>1. new' = new
      BY <1>1, <1>7, <2>3
    <3>2. NewPart'
      BY <1>2, <1>6, <2>1, <3>1, NothingNew
    <3>. QED  BY <1>3, <1>6, <2>1, <2>2, <3>1, <3>2, StillMerging
  <2>4. CASE t # 0
    <3>1. new' = [new EXCEPT !.public = Append(new.public, t), !.nbPublic = new.nbPublic + 1]
      BY <1>1, <1>7, <2>4
    <3>2. new.nbPublic = Len(new.public)
      <4>. SUFFICES ASSUME new.nbPublic # Len(new.public)  PROVE FALSE
        OBVIOUS
      <4>1. new.nbPublic <= Len(new.public) /\ Len(new.public) \in Nat
        BY <1>3, ListElements DEF NewPart, PublicPart
      <4>2. Len(new.public) \in new.nbPublic + 1 .. Len(new.public)
        BY <1>3, <4>1
      <4>. DEFINE v == new.public[Len(new.public)]
      <4>3. v \in Indexes
        BY <1>3, <4>2 DEF NewPart, PublicPart
      <4>4. v \in ToSet(new.public)
        BY <1>3, <4>1, <4>2, ListElements
      <4>5. v < t
        BY <1>3, <4>4 DEF NewPart, Passed
      <4>. HIDE DEF v
      <4>6. v \in Nat /\ NbPublic <= v /\ t \in Nat
        BY <1>3, <4>3
      <4>. QED  BY <1>3, <1>7, <4>5, <4>6
    <3>3. 1 \in 0 .. 1 /\ t > 0
      BY <1>3, <2>4
    <3>4. ~(t >= NbPublic)
      BY <1>3, <1>7
    <3>5. new' \in Commitment /\ NewPart'
      BY <1>2, <1>6, <1>7, <2>1, <3>1, <3>2, <3>3, <3>4, Publish
    <3>. QED  BY <1>3, <1>6, <2>1, <2>2, <3>5, StillMerging
  <2>. QED  BY <2>3, <2>4
<1>8. CASE t >= NbPublic /\ IsCommitment(t)
  <2>0. ~(t < NbPublic)
    BY <1>3, <1>8
  <2>1. heap' = heap \ {t} /\ phase' = "merging" /\ existing' = Tail(rest) /\ seeker' = seeker
    BY <1>1, <1>2, <1>8, <2>0
  <2>2. t \in ToSet(existing) /\ t \in ToSet(rest) /\ t \in Nat
    BY <1>3, <1>4, <1>8 DEF IsCommitment
  <2>3. rest # <<>>
    BY <2>2, EmptyList
  <2>. HIDE DEF rest
  <2>4. /\ Head(rest) \in ToSet(rest) /\ \A w \in ToSet(rest) : Head(rest) <= w
        /\ Tail(rest) \in Lists /\ Sorted(Tail(rest))
        /\ ToSet(Tail(rest)) = ToSet(rest) \ {Head(rest)}
    BY <1>4, <2>3, FirstIsLeast
  <2>5. \A w \in ToSet(existing) : w \in Nat
    BY <1>3, ListElements
  <2>6. Head(rest) = t
    <3>1. Head(rest) \in ToSet(existing) /\ Head(rest) >= t
      BY <1>4, <2>4
    <3>2. Head(rest) \in Nat /\ Head(rest) <= t
      BY <2>2, <2>4, <2>5, <3>1
    <3>. QED  BY <2>2, <3>1, <3>2
  <2>7. /\ ToSet(Tail(rest)) \subseteq ToSet(existing)
        /\ \A w \in ToSet(existing) : w > t => w \in ToSet(Tail(rest))
    BY <1>4, <2>2, <2>4, <2>5, <2>6
  <2>8. ListsKeep'
    BY <1>2, <1>5, <1>6, <2>1, <2>4, <2>7, Dropping
  <2>9. new' = [new EXCEPT !.public = Append(new.public, t), !.nbPublic = new.nbPublic + 0]
    <3>1. new' = [new EXCEPT !.public = Append(new.public, t)]
      BY <1>1, <1>8, <2>0
    <3>2. new.nbPublic + 0 = new.nbPublic
      BY <1>3
    <3>. QED  BY <1>3, <3>1, <3>2 DEF Commitment
  <2>10. 0 \in 0 .. 1 /\ t \in Indexes
    BY <1>5, <2>2
  <2>11. new' \in Commitment /\ NewPart'
    BY <1>2, <1>6, <2>0, <2>1, <2>9, <2>10, Publish
  <2>. QED  BY <1>3, <1>6, <2>1, <2>4, <2>8, <2>11, StillMerging
<1>9. CASE t >= NbPublic /\ ~ IsCommitment(t)
  <2>0. ~(t < NbPublic)
    BY <1>3, <1>9
  <2>1. /\ existing' = rest
        /\ seeker' = [i \in DOMAIN seeker |->
                        IF \E j \in Committers(t) : i > j THEN seeker[i]
                        ELSE NotBelow(t, seeker[i])]
    BY <1>1, <1>9, <2>0
  <2>. HIDE DEF rest
  <2>2. ASSUME NEW i \in 1 .. Len(commitments)
        PROVE  /\ seeker'[i] \in Lists /\ Sorted(seeker'[i])
               /\ \A w \in ToSet(seeker[i]) : w > t => w \in ToSet(seeker'[i])
    <3>1. seeker[i] \in Lists /\ Sorted(seeker[i]) /\ t \in Nat
      BY <1>3, <1>5
    <3>2. /\ NotBelow(t, seeker[i]) \in Lists /\ Sorted(NotBelow(t, seeker[i]))
          /\ \A w : w \in ToSet(NotBelow(t, seeker[i])) <=> w \in ToSet(seeker[i]) /\ w >= t
      BY <3>1, NotBelowProperties
    <3>3. \A w \in ToSet(seeker[i]) : w > t => w >= t
      BY <3>1, ListElements
    <3>4. seeker'[i] = seeker[i] \/ seeker'[i] = NotBelow(t, seeker[i])
      BY <1>5, <2>1
    <3>. QED  BY <3>1, <3>2, <3>3, <3>4
  <2>3. seeker' \in Seq(Lists) /\ Len(seeker') = Len(seeker)
    <3>1. DOMAIN seeker' = 1 .. Len(commitments)
      BY <1>5, <2>1
    <3>2. seeker' = [i \in 1 .. Len(commitments) |-> seeker'[i]]
      BY <1>5, <2>1
    <3>3. seeker' \in Seq(Lists)
      BY <1>5, <2>2, <3>2, IsASeq
    <3>. QED  BY <1>5, <3>1, <3>3, LenProperties
  <2>4. /\ ToSet(rest) \subseteq ToSet(existing)
        /\ \A w \in ToSet(existing) : w > t => w \in ToSet(rest)
    BY <1>3, <1>4, ListElements
  <2>5. ASSUME heap' \subseteq Nat, \A w \in heap' : t < w  PROVE ListsKeep'
    BY <1>2, <1>4, <1>5, <2>1, <2>2, <2>3, <2>4, <2>5, Dropping
  <2>6. CASE Committers(t) = {}
    <3>1. heap' = heap \ {t} /\ phase' = "merging"
      BY <1>1, <1>2, <1>9, <2>0, <2>6
    <3>2. new' = [new EXCEPT !.private = Append(new.private, t)]
      BY <1>1, <1>9, <2>0, <2>6
    <3>3. new' \in Commitment /\ NewPart'
      BY <1>2, <1>6, <1>9, <2>6, <3>1, <3>2, KeepPrivate
    <3>. QED  BY <1>4, <1>6, <2>1, <2>3, <2>5, <3>1, <3>3, StillMerging
  <2>7. CASE Committers(t) # {}
    <3>1. /\ new' = new
          /\ \E c \in Committers(t) :
               IF c <= Len(rest)
               THEN heap' = (heap \ {t}) \union {rest[c]} /\ phase' = phase
               ELSE heap' = {} /\ phase' = "panicked"
      BY <1>1, <1>9, <2>0, <2>7 DEF rest
    <3>2. PICK c \in Committers(t) :
            IF c <= Len(rest)
            THEN heap' = (heap \ {t}) \union {rest[c]} /\ phase' = phase
            ELSE heap' = {} /\ phase' = "panicked"
      BY <3>1
    <3>3. CASE c <= Len(rest)
      <4>1. c \in 1 .. Len(rest)
        BY <1>4, <1>5, <3>3, ListElements DEF Committers, Found
      <4>2. rest[c] \in ToSet(rest)
        BY <1>4, <4>1, ListElements
      <4>3. rest[c] \in ToSet(existing) /\ rest[c] >= t /\ rest[c] # t
        BY <1>4, <1>9, <4>2 DEF IsCommitment
      <4>4. rest[c] \in 0 .. nbWires - 1 /\ rest[c] > t
        <5>. DEFINE r == rest[c]
        <5>1. r \in Indexes /\ r >= t /\ r # t
          BY <1>5, <4>3
        <5>. HIDE DEF r
        <5>2. r \in 0 .. nbWires - 1 /\ r > t
          BY <1>3, <5>1
        <5>. QED  BY <5>2 DEF r
      <4>5. heap' = (heap \ {t}) \union {rest[c]} /\ phase' = "merging"
        BY <1>2, <3>2, <3>3
      <4>6. heap' \subseteq Nat /\ heap' \subseteq 0 .. nbWires - 1 /\ \A w \in heap' : t < w
        <5>. DEFINE r == rest[c]
        <5>1. r \in 0 .. nbWires - 1 /\ r > t /\ heap' = (heap \ {t}) \union {r}
          BY <4>4, <4>5
        <5>. HIDE DEF r
        <5>. QED  BY <1>2, <1>3, <5>1
      <4>7. NewPart'
        BY <1>2, <3>1, <4>6, NothingNew
      <4>. QED  BY <1>3, <1>4, <2>1, <2>3, <2>5, <3>1, <4>5, <4>6, <4>7, StillMerging
    <3>4. CASE ~(c <= Len(rest))
      <4>1. heap' = {} /\ phase' = "panicked"
        BY <3>2, <3>4
      <4>2. IndexesSorted' /\ PublicParts' /\ PrivateParts' /\ Indexes' = Indexes
        BY Unprocessed
      <4>3. Typed'
        BY <1>2, <1>3, <1>4, <2>1, <2>3, <3>1, <4>1 DEF IInv, Typed
      <4>4. Merging' /\ NotMerging'
        BY <1>2, <1>5, <2>1, <2>3, <2>4, <4>1, <4>2 DEF Merging, NotMerging
      <4>. QED  BY <4>2, <4>3, <4>4 DEF IInv
    <3>. QED  BY <3>3, <3>4
  <2>. QED  BY <2>6, <2>7
<1>. QED  BY <1>3, <1>7, <1>8, <1>9

LEMMA AddCommitmentStep ==
  ASSUME IInv, AddCommitment  PROVE IInv'
<1>. DEFINE c == [new EXCEPT !.index = nbWires]
            n == Len(commitments)
<1>1. /\ phase = "merging" /\ heap = {} /\ heap' = {} /\ nbWires' = nbWires + 1 /\ phase' = "idle"
      /\ commitments' = Append(commitments, c)
      /\ existing' = <<>> /\ seeker' = <<>> /\ new' = NoCommitment
  BY DEF AddCommitment
<1>2. /\ new \in Commitment /\ nbWires \in Nat /\ NbPublic + NbSecret <= nbWires /\ nbWires < MaxWires
      /\ NewPart /\ commitments \in Seq(Commitment) /\ n \in Nat
  BY <1>1 DEF IInv, Merging, Typed
<1>3. /\ c \in Commitment /\ c.index = nbWires /\ c.public = new.public
      /\ c.nbPublic = new.nbPublic /\ c.private = new.private
  BY <1>2 DEF Commitment
<1>. HIDE DEF c
<1>4. /\ commitments' \in Seq(Commitment) /\ Len(commitments') = n + 1 /\ commitments'[n + 1] = c
      /\ \A k \in 1 .. n : commitments'[k] = commitments[k]
  BY <1>1, <1>2, <1>3
<1>. HIDE DEF n
<1>5. \A k \in 1 .. n + 1 : k \in 1 .. n \/ k = n + 1
  BY <1>2
<1>6. /\ \A k \in 1 .. n : commitments[k].index \in NbPublic + NbSecret .. nbWires - 1
      /\ \A i, k \in 1 .. n : i < k => commitments[i].index < commitments[k].index
  BY DEF IInv, IndexesSorted, n
<1>7. Typed'
  <2>1. NoCommitment \in Commitment
    BY EmptyList DEF NoCommitment, Commitment
  <2>2. nbWires' \in Nat /\ NbPublic + NbSecret <= nbWires' /\ nbWires' <= MaxWires
    BY <1>1, <1>2, WiresAssumption
  <2>3. heap' \subseteq 0 .. nbWires' - 1 /\ existing' \in Lists /\ seeker' \in Seq(Lists)
    BY <1>1, EmptyList
  <2>. QED  BY <1>1, <1>4, <2>1, <2>2, <2>3 DEF Typed
<1>8. IndexesSorted'
  <2>1. ASSUME NEW k \in 1 .. n + 1
        PROVE  commitments'[k].index \in NbPublic + NbSecret .. nbWires' - 1
    <3>1. nbWires \in NbPublic + NbSecret .. nbWires' - 1
      BY <1>1, <1>2, WiresAssumption
    <3>2. \A w \in NbPublic + NbSecret .. nbWires - 1 : w \in NbPublic + NbSecret .. nbWires' - 1
      BY <1>1, <1>2, WiresAssumption
    <3>. QED  BY <1>3, <1>4, <1>5, <1>6, <3>1, <3>2
  <2>2. ASSUME NEW i \in 1 .. n + 1, NEW k \in 1 .. n + 1, i < k
        PROVE  commitments'[i].index < commitments'[k].index
    <3>1. i \in 1 .. n
      BY <1>2, <2>2
    <3>2. commitments'[i].index < nbWires
      BY <1>2, <1>4, <1>6, <3>1, WiresAssumption
    <3>. QED  BY <1>3, <1>4, <1>5, <1>6, <2>2, <3>1, <3>2
  <2>. QED  BY <1>4, <2>1, <2>2 DEF IndexesSorted
<1>9. Indexes' = Indexes \union {nbWires}
  <2>1. Indexes' = {commitments'[k].index : k \in 1 .. n + 1}
    BY <1>4 DEF Indexes
  <2>2. Indexes = {commitments[k].index : k \in 1 .. n}
    BY DEF Indexes, n
  <2>3. n + 1 \in 1 .. n + 1 /\ \A k \in 1 .. n : k \in 1 .. n + 1
    BY <1>2
  <2>. QED  BY <1>3, <1>4, <1>5, <2>1, <2>2, <2>3
<1>10. PublicParts'
  <2>1. ASSUME NEW i \in 1 .. n + 1
        PROVE  EarlierIndexes(i)' = {commitments[k].index : k \in 1 .. i - 1}
    <3>1. \A k \in 1 .. i - 1 : k \in 1 .. n
      BY <1>2
    <3>. QED  BY <1>4, <3>1 DEF EarlierIndexes
  <2>2. ASSUME NEW i \in 1 .. n + 1
        PROVE  PublicPart(commitments'[i], EarlierIndexes(i)')
    <3>1. CASE i \in 1 .. n
      <4>1. PublicPart(commitments[i], EarlierIndexes(i))
        BY <3>1 DEF IInv, PublicParts, n
      <4>2. EarlierIndexes(i)' = EarlierIndexes(i)
        BY <2>1 DEF EarlierIndexes
      <4>. QED  BY <1>4, <3>1, <4>1, <4>2
    <3>2. CASE i = n + 1
      <4>1. EarlierIndexes(i)' = Indexes
        <5>1. i - 1 = n
          BY <1>2, <3>2
        <5>. QED  BY <2>1, <5>1 DEF Indexes, n
      <4>2. PublicPart(new, Indexes)
        BY <1>2 DEF NewPart
      <4>3. PublicPart(c, Indexes)
        BY <1>3, <4>2 DEF PublicPart
      <4>. QED  BY <1>4, <3>2, <4>1, <4>3
    <3>. QED  BY <1>5, <3>1, <3>2
  <2>. QED  BY <1>4, <2>2 DEF PublicParts, PublicPart
<1>11. PrivateParts'
  <2>1. ASSUME NEW i \in 1 .. n + 1
        PROVE  /\ Sorted(commitments'[i].private)
               /\ \A w \in ToSet(commitments'[i].private) :
                    /\ NbPublic <= w /\ w < commitments'[i].index /\ w \notin Indexes'
                    /\ \A k \in 1 .. n + 1 : k # i => w \notin ToSet(commitments'[k].private)
    <3>1. /\ \A k \in 1 .. n : \A w \in ToSet(commitments[k].private) : w \notin ToSet(c.private)
          /\ \A w \in ToSet(c.private) : NbPublic <= w /\ w < nbWires /\ w \notin Indexes
      BY <1>2, <1>3 DEF NewPart, n
    <3>2. CASE i \in 1 .. n
      <4>1. /\ Sorted(commitments[i].private)
            /\ \A w \in ToSet(commitments[i].private) :
                 /\ NbPublic <= w /\ w < commitments[i].index /\ w \notin Indexes
                 /\ \A k \in 1 .. n : k # i => w \notin ToSet(commitments[k].private)
        BY <3>2 DEF IInv, PrivateParts, n
      <4>2. commitments[i].private \in Lists /\ commitments[i].index < nbWires
            /\ commitments[i].index \in Nat
        BY <1>2, <1>6, <3>2, CommitmentFields, WiresAssumption DEF IInv, n
      <4>3. \A w \in ToSet(commitments[i].private) : w # nbWires
        BY <1>2, <4>1, <4>2, ListElements
      <4>. QED  BY <1>4, <1>5, <1>9, <3>1, <3>2, <4>1, <4>3
    <3>3. CASE i = n + 1
      <4>1. Sorted(c.private)
        BY <1>2, <1>3 DEF NewPart
      <4>2. \A w \in ToSet(c.private) : w # nbWires
        BY <1>2, <3>1
      <4>3. \A k \in 1 .. n : \A w \in ToSet(c.private) : w \notin ToSet(commitments'[k].private)
        BY <1>4, <3>1
      <4>4. \A k \in 1 .. n + 1 : k # i => k \in 1 .. n
        BY <1>5, <3>3
      <4>. QED  BY <1>3, <1>4, <1>9, <3>1, <3>3, <4>1, <4>2, <4>3, <4>4
    <3>. QED  BY <1>5, <3>2, <3>3
  <2>. QED  BY <1>4, <2>1 DEF PrivateParts
<1>12. Merging' /\ NotMerging'
  BY <1>1, EmptyList DEF Merging, NotMerging
<1>. QED  BY <1>7, <1>8, <1>10, <1>11, <1>12 DEF IInv

LEMMA InvNext == IInv /\ [Next]_vars => IInv'
<1>. SUFFICES ASSUME IInv, [Next]_vars  PROVE IInv'
  OBVIOUS
<1>1. CASE NewInternal
  BY <1>1, NewInternalStep
<1>2. CASE \E k \in 1 .. MaxCommitted : \E V \in kSubset(k, 0 .. nbWires - 1) : Commit(V)
  BY <1>2, CommitStep
<1>3. CASE Process
  BY <1>3, ProcessStep
<1>4. CASE AddCommitment
  BY <1>4, AddCommitmentStep
<1>5. CASE UNCHANGED vars
  <2>1. /\ nbWires' = nbWires /\ commitments' = commitments /\ phase' = phase /\ heap' = heap
        /\ existing' = existing /\ seeker' = seeker /\ new' = new
    BY <1>5 DEF vars, mergeVars
  <2>2. Typed' /\ IndexesSorted'
    BY <2>1 DEF IInv, Typed, IndexesSorted
  <2>3. Indexes' = Indexes
    BY <2>1 DEF Indexes
  <2>4. PublicParts' /\ PrivateParts'
    BY <2>1, <2>3 DEF IInv, PublicParts, PublicPart, EarlierIndexes, PrivateParts
  <2>5. ListsKeep => ListsKeep'
    BY <2>1, <2>3 DEF ListsKeep, Passed
  <2>6. NewPart => NewPart'
    BY <2>1, <2>3 DEF NewPart, PublicPart, Passed
  <2>7. Merging' /\ NotMerging'
    BY <2>1, <2>3, <2>5, <2>6 DEF IInv, Merging, NotMerging
  <2>. QED  BY <2>2, <2>4, <2>7 DEF IInv
<1>. QED  BY <1>1, <1>2, <1>3, <1>4, <1>5 DEF Next, Stop

LEMMA Invariance == Spec => []IInv
BY InvInit, InvNext, PTL DEF Spec

\* The commitments that Commit, Setup, Prove and Verify work on are of their types, and a
\* commitment commits to lower wires than its own.
THEOREM Types == Spec => []TypeOK
<1>1. IInv => TypeOK
  <2>. SUFFICES ASSUME IInv  PROVE TypeOK
    OBVIOUS
  <2>1. Typed /\ NotMerging
    BY DEF IInv
  <2>2. nbWires \in NbPublic + NbSecret .. MaxWires /\ phase \in {"idle", "merging", "panicked"}
    BY <2>1, WiresAssumption DEF Typed
  <2>3. DOMAIN commitments = 1 .. Len(commitments)
    BY <2>1, CommitmentsLen
  <2>4. ASSUME NEW i \in 1 .. Len(commitments)
        PROVE  /\ commitments[i].index \in NbPublic + NbSecret .. nbWires - 1
               /\ ToSet(commitments[i].public) \union ToSet(commitments[i].private)
                    \subseteq 0 .. commitments[i].index - 1
               /\ commitments[i].nbPublic \in 0 .. Len(commitments[i].public)
    <3>1. /\ commitments[i].public \in Lists /\ commitments[i].private \in Lists
          /\ commitments[i].index \in Nat /\ commitments[i].nbPublic \in Nat
      BY <2>1, CommitmentFields
    <3>2. PublicPart(commitments[i], EarlierIndexes(i))
      BY DEF IInv, PublicParts
    <3>3. commitments[i].index \in NbPublic + NbSecret .. nbWires - 1
      BY DEF IInv, IndexesSorted
    <3>4. ASSUME NEW w \in ToSet(commitments[i].private)  PROVE w \in 0 .. commitments[i].index - 1
      <4>1. NbPublic <= w /\ w < commitments[i].index
        BY DEF IInv, PrivateParts
      <4>2. w \in Nat
        BY <3>1, ListElements
      <4>. QED  BY <3>1, <4>1, <4>2
    <3>5. ASSUME NEW w \in ToSet(commitments[i].public)  PROVE w \in 0 .. commitments[i].index - 1
      <4>1. PICK j \in 1 .. Len(commitments[i].public) : w = commitments[i].public[j]
        BY <3>1, ListElements
      <4>2. CASE j \in 1 .. commitments[i].nbPublic
        <5>1. w \in 1 .. NbPublic - 1
          BY <3>2, <4>1, <4>2 DEF PublicPart
        <5>. QED  BY <3>1, <3>3, <5>1, WiresAssumption
      <4>3. CASE j \notin 1 .. commitments[i].nbPublic
        <5>1. j \in commitments[i].nbPublic + 1 .. Len(commitments[i].public)
          BY <3>1, <4>3, ListElements
        <5>2. w \in EarlierIndexes(i)
          BY <3>2, <4>1, <5>1 DEF PublicPart
        <5>3. PICK k \in 1 .. i - 1 : w = commitments[k].index
          BY <5>2 DEF EarlierIndexes
        <5>4. k \in 1 .. Len(commitments) /\ k < i
          BY <2>1, CommitmentsLen
        <5>5. w < commitments[i].index /\ w \in Nat
          BY <2>1, <5>3, <5>4, CommitmentFields DEF IInv, IndexesSorted
        <5>. QED  BY <3>1, <5>5
      <4>. QED  BY <4>2, <4>3
    <3>6. commitments[i].nbPublic \in 0 .. Len(commitments[i].public)
      BY <3>1, <3>2, ListElements DEF PublicPart
    <3>. QED  BY <3>3, <3>4, <3>5, <3>6
  <2>5. ToSet(CommitmentIndexes) = Indexes
    BY IndexList DEF IInv
  <2>6. heap \subseteq 0 .. nbWires - 1
    BY <2>1 DEF Typed
  <2>7. ToSet(existing) \subseteq ToSet(CommitmentIndexes) /\ Len(seeker) \in {0, Len(commitments)}
    BY <2>1, <2>5 DEF NotMerging
  <2>. QED  BY <2>2, <2>3, <2>4, <2>6, <2>7 DEF TypeOK
<1>. QED  BY <1>1, Invariance, PTL

\* The verifier derives the challenge of every commitment from the very values the prover
\* hashed, in the same order, and has each of them by then.
THEOREM Challenges == Spec => []ChallengesMatch
<1>1. IInv => ChallengesMatch
  <2>. SUFFICES ASSUME IInv, NEW i \in DOMAIN commitments, NEW j \in DOMAIN commitments[i].public
                PROVE  \E p \in Translated(i, j) :
                         /\ p \in DOMAIN PublicWitness(i)
                         /\ PublicWitness(i)[p] = commitments[i].public[j]
    BY DEF ChallengesMatch
  <2>. DEFINE c == commitments[i]
  <2>1. /\ Typed /\ DOMAIN commitments = 1 .. Len(commitments) /\ i \in 1 .. Len(commitments)
        /\ Len(commitments) \in Nat /\ i \in Nat
    BY CommitmentsLen DEF IInv
  <2>2. /\ c.public \in Lists /\ c.nbPublic \in Nat /\ j \in 1 .. Len(c.public)
        /\ Len(c.public) \in Nat
    BY <2>1, CommitmentFields, ListElements
  <2>3. PublicPart(c, EarlierIndexes(i))
    BY <2>1 DEF IInv, PublicParts
  <2>4. /\ \A k \in 1 .. Len(commitments) : commitments[k].index \in Nat
        /\ \A m, k \in 1 .. Len(commitments) :
             m < k => commitments[m].index < commitments[k].index
    BY <2>1, CommitmentFields DEF IInv, IndexesSorted
  <2>. DEFINE public  == WireSeq(1, NbPublic - 1)
              earlier == SubSeq(CommitmentIndexes, 1, i - 1)
  <2>5. /\ public \in Seq(Nat) /\ Len(public) = NbPublic - 1
        /\ \A k \in 1 .. NbPublic - 1 : public[k] = k
    <3>1. NbPublic - 1 - 1 + 1 = NbPublic - 1 /\ NbPublic - 1 \in Nat
      BY WiresAssumption
    <3>2. public = [k \in 1 .. NbPublic - 1 |-> 1 + k - 1]
      BY <3>1 DEF WireSeq
    <3>3. \A k \in 1 .. NbPublic - 1 : 1 + k - 1 \in Nat /\ 1 + k - 1 = k
      BY <3>1
    <3>. QED  BY <3>1, <3>2, <3>3
  <2>6. /\ earlier \in Seq(Nat) /\ Len(earlier) = i - 1
        /\ \A k \in 1 .. i - 1 : earlier[k] = commitments[k].index
    <3>2. /\ CommitmentIndexes \in Seq(Nat) /\ Len(CommitmentIndexes) = Len(commitments)
          /\ \A k \in 1 .. Len(commitments) : CommitmentIndexes[k] = commitments[k].index
      BY IndexList DEF IInv, Lists
    <3>3. i - 1 \in 0 .. Len(CommitmentIndexes)
      BY <2>1, <3>2
    <3>4. /\ earlier \in Seq(Nat) /\ Len(earlier) = i - 1
          /\ \A k \in 1 .. i - 1 : earlier[k] = CommitmentIndexes[k]
      BY <2>1, <3>2, <3>3
    <3>5. \A k \in 1 .. i - 1 : k \in 1 .. Len(commitments)
      BY <2>1
    <3>. QED  BY <3>2, <3>4, <3>5
  <2>. HIDE DEF public, earlier
  <2>7. PublicWitness(i) = public \o earlier
    BY DEF PublicWitness, public, earlier
  <2>8. CASE j <= c.nbPublic
    <3>1. j \in 1 .. c.nbPublic
      BY <2>2, <2>8
    <3>2. c.public[j] \in 1 .. NbPublic - 1 /\ c.public[j] \in Translated(i, j)
      BY <2>3, <2>8, <3>1 DEF PublicPart, Translated
    <3>. DEFINE p == c.public[j]
    <3>. HIDE DEF p
    <3>3. p \in 1 .. NbPublic - 1
      BY <3>2 DEF p
    <3>4. p \in DOMAIN (public \o earlier) /\ (public \o earlier)[p] = p
      BY <2>1, <2>5, <2>6, <3>3, WiresAssumption
    <3>. QED  BY <2>7, <3>2, <3>4 DEF p
  <2>9. CASE ~(j <= c.nbPublic)
    <3>1. ASSUME NEW m \in c.nbPublic + 1 .. Len(c.public)
          PROVE  \E k \in 1 .. i - 1 : c.public[m] = commitments[k].index
      BY <2>3, <3>1 DEF PublicPart, EarlierIndexes
    <3>2. j \in c.nbPublic + 1 .. Len(c.public)
      BY <2>2, <2>9
    <3>3. PICK k \in 1 .. i - 1 : c.public[j] = commitments[k].index
      BY <3>1, <3>2
    <3>4. k \in 1 .. Len(commitments) /\ k \in Nat
      BY <2>1
    <3>5. ASSUME NEW m \in c.nbPublic + 1 .. j - 1
          PROVE  \E n \in 1 .. k : commitments[n].index = c.public[m]
      <4>1. m \in c.nbPublic + 1 .. Len(c.public) /\ m \in 1 .. Len(c.public) /\ m < j
        BY <2>2
      <4>2. PICK n \in 1 .. i - 1 : c.public[m] = commitments[n].index
        BY <3>1, <4>1
      <4>3. c.public[m] < c.public[j]
        BY <2>2, <2>3, <4>1 DEF PublicPart, Sorted
      <4>4. n \in 1 .. Len(commitments) /\ n \in Nat
        BY <2>1
      <4>5. ~(k < n) /\ k # n
        BY <2>4, <3>3, <3>4, <4>2, <4>3, <4>4
      <4>6. n \in 1 .. k
        BY <3>4, <4>4, <4>5
      <4>. QED  BY <4>2, <4>6
    <3>6. k \in Scan(i, j)
      BY <2>1, <3>3, <3>4, <3>5 DEF Scan
    <3>7. NbPublic + k - 1 \in Translated(i, j)
      BY <2>9, <3>6 DEF Translated
    <3>8. /\ NbPublic + k - 1 \in DOMAIN (public \o earlier)
          /\ (public \o earlier)[NbPublic + k - 1] = earlier[k]
      <4>1. /\ Len(public \o earlier) = NbPublic - 1 + (i - 1)
            /\ (public \o earlier)[NbPublic - 1 + k] = earlier[k]
        <5>1. /\ Len(public \o earlier) = Len(public) + Len(earlier)
              /\ \A m \in 1 .. Len(public) + Len(earlier) :
                   (public \o earlier)[m] = IF m <= Len(public) THEN public[m]
                                            ELSE earlier[m - Len(public)]
          BY <2>5, <2>6, ConcatProperties
        <5>2. /\ NbPublic - 1 + k \in 1 .. Len(public) + Len(earlier)
              /\ ~(NbPublic - 1 + k <= Len(public)) /\ NbPublic - 1 + k - Len(public) = k
          BY <2>1, <2>5, <2>6, <3>4, WiresAssumption
        <5>. QED  BY <2>5, <2>6, <5>1, <5>2
      <4>2. NbPublic + k - 1 = NbPublic - 1 + k /\ NbPublic + k - 1 \in 1 .. NbPublic - 1 + (i - 1)
        BY <2>1, <3>4, WiresAssumption
      <4>3. public \o earlier \in Seq(Nat)
        BY <2>5, <2>6
      <4>. QED  BY <4>1, <4>2, <4>3
    <3>. QED  BY <2>6, <2>7, <3>3, <3>7, <3>8
  <2>. QED  BY <2>8, <2>9
<1>. QED  BY <1>1, Invariance, PTL

-----------------------------------------------------------------------------
(* The recursive functions of the setup and the prover.                       *)

Private(j) == commitments[j].private

KeySets == [slices : [1 .. Len(commitments) -> Lists], seen : Nat, vkK : Lists, pkK : Lists,
            ckK : [1 .. Len(commitments) -> Lists]]

LEMMA DealType ==
  ASSUME NEW keys \in KeySets, NEW i \in Nat
  PROVE  Deal(keys, i) \in KeySets
<1>. DEFINE owner == IndexIfNext(keys.slices, i)
            slices == [j \in DOMAIN keys.slices |->
                         IF j \in owner THEN Tail(keys.slices[j]) ELSE keys.slices[j]]
            ckK == [j \in DOMAIN keys.ckK |->
                      IF j \in owner THEN Append(keys.ckK[j], i) ELSE keys.ckK[j]]
            L == 1 .. Len(commitments)
<1>1. /\ keys.slices \in [L -> Lists] /\ keys.ckK \in [L -> Lists] /\ keys.seen \in Nat
      /\ keys.vkK \in Lists /\ keys.pkK \in Lists
  BY DEF KeySets
<1>2. slices \in [L -> Lists]
  <2>1. ASSUME NEW j \in L, j \in owner  PROVE Tail(keys.slices[j]) \in Lists
    <3>1. keys.slices[j] # <<>> /\ keys.slices[j] \in Seq(Nat)
      BY <1>1, <2>1 DEF IndexIfNext, Lists
    <3>. QED  BY <3>1 DEF Lists
  <2>. HIDE DEF owner
  <2>. QED  BY <1>1, <2>1
<1>3. ckK \in [L -> Lists] /\ Append(keys.vkK, i) \in Lists /\ Append(keys.pkK, i) \in Lists
  <2>1. \A l \in Lists : Append(l, i) \in Lists
    BY DEF Lists
  <2>. HIDE DEF owner
  <2>. QED  BY <1>1, <2>1
<1>. DEFINE isCommitment == /\ i >= NbPublic /\ keys.seen < Len(commitments)
                            /\ commitments[keys.seen + 1].index = i
            seen == IF isCommitment THEN keys.seen + 1 ELSE keys.seen
<1>4. seen \in Nat
  BY <1>1
<1>5. Deal(keys, i) = IF i < NbPublic \/ isCommitment
                      THEN [keys EXCEPT !.slices = slices, !.vkK = Append(keys.vkK, i), !.seen = seen]
                      ELSE IF owner # {}
                      THEN [keys EXCEPT !.slices = slices, !.ckK = ckK]
                      ELSE [keys EXCEPT !.pkK = Append(keys.pkK, i)]
  BY DEF Deal
<1>. HIDE DEF owner, slices, ckK, isCommitment, seen, L
<1>. QED  BY <1>1, <1>2, <1>3, <1>4, <1>5 DEF KeySets, L

LEMMA DealtEquations ==
  ASSUME Typed
  PROVE  /\ Dealt[0] = NoKeys
         /\ \A n \in Nat : Dealt[n] \in KeySets /\ Dealt[n + 1] = Deal(Dealt[n], n)
<1>1. NoKeys \in KeySets
  BY CommitmentFields, CommitmentsLen, EmptyList DEF NoKeys, KeySets, GetPrivateCommitted
<1>. DEFINE F == [n \in Nat |-> [keys \in KeySets |-> Deal(keys, n)]]
            Equation(f) == f = [n \in Nat |-> IF n = 0 THEN NoKeys ELSE Deal(f[n - 1], n - 1)]
<1>2. F \in [Nat -> [KeySets -> KeySets]]
  BY DealType
<1>3. PICK f : f \in [Nat -> KeySets] /\ f[0] = NoKeys /\ \A n \in Nat : f[n + 1] = F[n][f[n]]
  <2>. HIDE DEF F
  <2>1. Recursion(KeySets, NoKeys, F)
    BY <1>1, <1>2 DEF Recursion
  <2>2. PICK f : Recursive(f, KeySets, NoKeys, F)
    BY <2>1, RecursiveFunction
  <2>. QED  BY <2>2 DEF Recursive
<1>4. \A n \in Nat : f[n + 1] = Deal(f[n], n)
  BY <1>3
<1>5. Equation(f)
  <2>1. ASSUME NEW n \in Nat  PROVE f[n] = IF n = 0 THEN NoKeys ELSE Deal(f[n - 1], n - 1)
    <3>1. CASE n = 0
      BY <1>3, <3>1
    <3>2. CASE n # 0
      <4>1. n - 1 \in Nat /\ (n - 1) + 1 = n
        BY <3>2
      <4>2. f[(n - 1) + 1] = Deal(f[n - 1], n - 1)
        BY <1>4, <4>1
      <4>. QED  BY <3>2, <4>1, <4>2
    <3>. QED  BY <3>1, <3>2
  <2>. QED  BY <1>3, <2>1
<1>6. Equation(Dealt)
  <2>1. Dealt = CHOOSE g : Equation(g)
    BY DEF Dealt
  <2>. QED  BY <1>5, <2>1
<1>7. /\ Dealt[0] = NoKeys
      /\ \A n \in Nat : Dealt[n + 1] = Deal(Dealt[n], n)
  <2>1. \A n \in Nat : Dealt[n] = IF n = 0 THEN NoKeys ELSE Deal(Dealt[n - 1], n - 1)
    BY <1>6
  <2>. HIDE DEF Equation
  <2>2. ASSUME NEW n \in Nat  PROVE Dealt[n + 1] = Deal(Dealt[n], n)
    <3>1. n + 1 \in Nat /\ n + 1 # 0 /\ (n + 1) - 1 = n
      OBVIOUS
    <3>. QED  BY <2>1, <3>1
  <2>. QED  BY <2>1, <2>2
<1>8. Nat \subseteq {n \in Nat : Dealt[n] \in KeySets}
  <2>. DEFINE T == {n \in Nat : Dealt[n] \in KeySets}
  <2>0. \A n \in Nat : n \in T => Dealt[n + 1] \in KeySets
    BY <1>7, DealType
  <2>1. 0 \in T /\ \A n \in Nat : n \in T => n + 1 \in T
    BY <1>1, <1>7, <2>0
  <2>. HIDE DEF T
  <2>2. Nat \subseteq T
    BY <2>1, NaturalsAll
  <2>. QED  BY <2>2 DEF T
<1>. QED  BY <1>7, <1>8

\* What filterHeap is to keep of the first n wires that are not public: those that no
\* list names.
Removed == {e[3] : e \in ToRemove}

Kept[n \in Nat] ==
  IF n = 0 THEN <<>>
  ELSE IF NbPublic + n - 1 \in Removed THEN Kept[n - 1]
  ELSE Append(Kept[n - 1], NbPublic + n - 1)

LEMMA KeptEquations ==
  /\ Kept[0] = <<>>
  /\ \A n \in Nat :
       /\ Kept[n] \in Lists
       /\ Kept[n + 1] = IF NbPublic + n \in Removed THEN Kept[n]
                            ELSE Append(Kept[n], NbPublic + n)
<1>. DEFINE Step(l, n) == IF NbPublic + n \in Removed THEN l ELSE Append(l, NbPublic + n)
            F == [n \in Nat |-> [l \in Lists |-> Step(l, n)]]
            Equation(f) == f = [n \in Nat |->
                                 IF n = 0 THEN <<>>
                                 ELSE IF NbPublic + n - 1 \in Removed THEN f[n - 1]
                                 ELSE Append(f[n - 1], NbPublic + n - 1)]
<1>1. \A l \in Lists, n \in Nat : Step(l, n) \in Lists
  BY WiresAssumption DEF Lists
<1>2. F \in [Nat -> [Lists -> Lists]]
  <2>. HIDE DEF Step
  <2>. QED  BY <1>1
<1>3. PICK f : f \in [Nat -> Lists] /\ f[0] = <<>> /\ \A n \in Nat : f[n + 1] = F[n][f[n]]
  <2>. HIDE DEF F
  <2>1. Recursion(Lists, <<>>, F)
    BY <1>2, EmptyList DEF Recursion
  <2>2. PICK f : Recursive(f, Lists, <<>>, F)
    BY <2>1, RecursiveFunction
  <2>. QED  BY <2>2 DEF Recursive
<1>4. \A n \in Nat : f[n + 1] = Step(f[n], n)
  <2>. HIDE DEF Step
  <2>. QED  BY <1>3
<1>5. ASSUME NEW n \in Nat, n # 0
      PROVE  n - 1 \in Nat /\ (n - 1) + 1 = n /\ NbPublic + (n - 1) = NbPublic + n - 1
  BY <1>5, WiresAssumption
<1>6. Equation(f)
  <2>1. ASSUME NEW n \in Nat
        PROVE  f[n] = IF n = 0 THEN <<>>
                      ELSE IF NbPublic + n - 1 \in Removed THEN f[n - 1]
                      ELSE Append(f[n - 1], NbPublic + n - 1)
    <3>1. CASE n = 0
      BY <1>3, <3>1
    <3>2. CASE n # 0
      <4>1. f[(n - 1) + 1] = Step(f[n - 1], n - 1)
        BY <1>4, <1>5, <3>2
      <4>. QED  BY <1>5, <3>2, <4>1
    <3>. QED  BY <3>1, <3>2
  <2>. QED  BY <1>3, <2>1
<1>7. Equation(Kept)
  <2>1. Kept = CHOOSE g : Equation(g)
    BY DEF Kept
  <2>. QED  BY <1>6, <2>1
<1>8. /\ Kept[0] = <<>>
      /\ \A n \in Nat : Kept[n + 1] = Step(Kept[n], n)
  <2>1. \A n \in Nat : Kept[n] = IF n = 0 THEN <<>>
                      ELSE IF NbPublic + n - 1 \in Removed THEN Kept[n - 1]
                      ELSE Append(Kept[n - 1], NbPublic + n - 1)
    BY <1>7
  <2>. HIDE DEF Equation
  <2>2. ASSUME NEW n \in Nat  PROVE Kept[n + 1] = Step(Kept[n], n)
    <3>1. n + 1 \in Nat /\ n + 1 # 0 /\ (n + 1) - 1 = n /\ NbPublic + (n + 1) - 1 = NbPublic + n
      BY WiresAssumption
    <3>. QED  BY <2>1, <3>1
  <2>. QED  BY <2>1, <2>2
<1>9. Nat \subseteq {n \in Nat : Kept[n] \in Lists}
  <2>. DEFINE T == {n \in Nat : Kept[n] \in Lists}
  <2>. HIDE DEF Step
  <2>0. \A n \in Nat : n \in T => Kept[n + 1] \in Lists
    BY <1>1, <1>8
  <2>1. 0 \in T /\ \A n \in Nat : n \in T => n + 1 \in T
    BY <1>8, <2>0, EmptyList
  <2>. HIDE DEF T
  <2>2. Nat \subseteq T
    BY <2>1, NaturalsAll
  <2>. QED  BY <2>2 DEF T
<1>. QED  BY <1>8, <1>9

LEMMA NbElementsEquations ==
  ASSUME Typed
  PROVE  /\ NbElements[0] = 0
         /\ \A n \in 0 .. Len(commitments) : NbElements[n] \in Nat
         /\ \A n \in 0 .. Len(commitments) - 1 :
              NbElements[n + 1] = NbElements[n] + Len(Private(n + 1))
<1>. DEFINE L == Len(commitments)
            Step(k, n) == IF n + 1 <= L THEN k + Len(Private(n + 1)) ELSE 0
            F == [n \in Nat |-> [k \in Nat |-> Step(k, n)]]
            Equation(f) == f = [n \in 0 .. L |->
                                 IF n = 0 THEN 0 ELSE f[n - 1] + Len(commitments[n].private)]
<1>0. L \in Nat /\ \A n \in 1 .. L : Len(Private(n)) \in Nat
  BY CommitmentFields, CommitmentsLen, ListElements DEF Private
<1>. HIDE DEF L
<1>1. \A k \in Nat, n \in Nat : Step(k, n) \in Nat
  BY <1>0
<1>2. F \in [Nat -> [Nat -> Nat]]
  <2>. HIDE DEF Step
  <2>. QED  BY <1>1
<1>3. PICK f : f \in [Nat -> Nat] /\ f[0] = 0 /\ \A n \in Nat : f[n + 1] = F[n][f[n]]
  <2>. HIDE DEF F
  <2>1. Recursion(Nat, 0, F)
    BY <1>2 DEF Recursion
  <2>2. PICK f : Recursive(f, Nat, 0, F)
    BY <2>1, RecursiveFunction
  <2>. QED  BY <2>2 DEF Recursive
<1>4. \A n \in Nat : f[n + 1] = Step(f[n], n)
  <2>. HIDE DEF Step
  <2>. QED  BY <1>3
<1>. DEFINE h == [n \in 0 .. L |-> f[n]]
<1>5. Equation(h)
  <2>1. ASSUME NEW n \in 0 .. L
        PROVE  h[n] = IF n = 0 THEN 0 ELSE h[n - 1] + Len(commitments[n].private)
    <3>1. CASE n = 0
      BY <1>0, <1>3, <3>1
    <3>2. CASE n # 0
      <4>1. n - 1 \in Nat /\ n - 1 \in 0 .. L /\ (n - 1) + 1 = n /\ n <= L
        BY <1>0, <3>2
      <4>2. f[(n - 1) + 1] = Step(f[n - 1], n - 1)
        BY <1>4, <4>1
      <4>3. f[n] = f[n - 1] + Len(Private(n))
        BY <4>1, <4>2
      <4>. QED  BY <3>2, <4>1, <4>3 DEF Private
    <3>. QED  BY <3>1, <3>2
  <2>. QED  BY <2>1
<1>6. Equation(NbElements)
  <2>1. NbElements = CHOOSE g : Equation(g)
    BY DEF NbElements, L
  <2>. HIDE DEF h
  <2>. QED  BY <1>5, <2>1
<1>7. \A n \in 0 .. L : NbElements[n] = IF n = 0 THEN 0
                                       ELSE NbElements[n - 1] + Len(Private(n))
  BY <1>6 DEF Private
<1>. HIDE DEF Equation
<1>8. ASSUME NEW n \in 0 .. L - 1  PROVE NbElements[n + 1] = NbElements[n] + Len(Private(n + 1))
  <2>1. n + 1 \in 0 .. L /\ n + 1 # 0 /\ (n + 1) - 1 = n
    BY <1>0
  <2>. QED  BY <1>7, <2>1
<1>9. NbElements[0] = 0
  BY <1>0, <1>7
<1>10. Nat \subseteq {n \in Nat : n <= L => NbElements[n] \in Nat}
  <2>. DEFINE T == {n \in Nat : n <= L => NbElements[n] \in Nat}
  <2>1. 0 \in T
    BY <1>9
  <2>2. ASSUME NEW n \in Nat, n \in T  PROVE n + 1 \in T
    <3>. SUFFICES ASSUME n + 1 <= L  PROVE NbElements[n + 1] \in Nat
      OBVIOUS
    <3>1. n \in 0 .. L - 1 /\ n + 1 \in 1 .. L /\ n <= L
      BY <1>0
    <3>2. NbElements[n] \in Nat /\ Len(Private(n + 1)) \in Nat
      BY <1>0, <2>2, <3>1
    <3>3. NbElements[n + 1] = NbElements[n] + Len(Private(n + 1))
      BY <1>8, <3>1
    <3>4. NbElements[n] + Len(Private(n + 1)) \in Nat
      BY <3>2
    <3>. QED  BY <3>3, <3>4
  <2>. HIDE DEF T
  <2>3. Nat \subseteq T
    BY <2>1, <2>2, NaturalsAll
  <2>. QED  BY <2>3 DEF T
<1>. QED  BY <1>0, <1>8, <1>9, <1>10 DEF L

-----------------------------------------------------------------------------
(* How many wires are left to the prover.                                     *)

LEMMA ListCardinality ==
  ASSUME NEW list \in Lists, Sorted(list)
  PROVE  IsFiniteSet(ToSet(list)) /\ Cardinality(ToSet(list)) = Len(list)
<1>1. Len(list) \in Nat /\ list \in [1 .. Len(list) -> ToSet(list)]
  BY ListElements DEF Lists
<1>2. \A i, j \in 1 .. Len(list) : list[i] = list[j] => i = j
  <2>. SUFFICES ASSUME NEW i \in 1 .. Len(list), NEW j \in 1 .. Len(list), list[i] = list[j], i # j
                PROVE  FALSE
    OBVIOUS
  <2>1. i < j \/ j < i
    BY <1>1
  <2>2. list[i] \in Nat /\ list[j] \in Nat
    BY ListElements
  <2>. QED  BY <2>1, <2>2 DEF Sorted
<1>3. list \in Bijection(1 .. Len(list), ToSet(list))
  BY <1>1, <1>2, ListElements DEF Bijection, Injection, Surjection, IsInjective
<1>4. ExistsBijection(1 .. Len(list), ToSet(list))
  BY <1>3 DEF ExistsBijection
<1>5. IsFiniteSet(1 .. Len(list)) /\ Cardinality(1 .. Len(list)) = Len(list)
  BY <1>1, FS_Interval
<1>. QED  BY <1>4, <1>5, FS_Bijection

\* The prover keeps, in order, the wires it need not remove.
LEMMA KeptContents ==
  ASSUME NEW n \in Nat
  PROVE  /\ Kept[n] \in Lists /\ Sorted(Kept[n])
         /\ ToSet(Kept[n]) = (NbPublic .. NbPublic + n - 1) \ Removed
<1>. DEFINE Wires(m) == (NbPublic .. NbPublic + m - 1) \ Removed
            T == {m \in Nat : Sorted(Kept[m]) /\ ToSet(Kept[m]) = Wires(m)}
<1>0. NbPublic \in Nat
  BY WiresAssumption
<1>1. 0 \in T
  <2>1. Wires(0) = {}
    BY <1>0
  <2>. QED  BY <2>1, EmptyList, KeptEquations
<1>2. ASSUME NEW m \in Nat, m \in T  PROVE m + 1 \in T
  <2>. DEFINE w == NbPublic + m
  <2>1. Wires(m + 1) = IF w \in Removed THEN Wires(m) ELSE Wires(m) \union {w}
    <3>1. NbPublic .. NbPublic + (m + 1) - 1 = (NbPublic .. NbPublic + m - 1) \union {w}
      BY <1>0
    <3>. QED  BY <3>1
  <2>2. \A v \in Wires(m) : v < w
    BY <1>0
  <2>3. w \in Nat
    BY <1>0
  <2>. HIDE DEF w
  <2>4. /\ Kept[m] \in Lists
        /\ Kept[m + 1] = IF w \in Removed THEN Kept[m] ELSE Append(Kept[m], w)
    BY KeptEquations DEF w
  <2>5. Sorted(Kept[m]) /\ ToSet(Kept[m]) = Wires(m)
    BY <1>2
  <2>. HIDE DEF Wires
  <2>6. /\ Sorted(Append(Kept[m], w))
        /\ ToSet(Append(Kept[m], w)) = Wires(m) \union {w}
    BY <2>2, <2>3, <2>4, <2>5, AppendLast
  <2>. QED  BY <2>1, <2>4, <2>5, <2>6
<1>. HIDE DEF T
<1>3. Nat \subseteq T
  BY <1>1, <1>2, NaturalsAll
<1>4. n \in T
  BY <1>3
<1>. QED  BY <1>4, KeptEquations DEF T

Privates(n) == UNION {ToSet(Private(k)) : k \in 1 .. n}

LEMMA PrivatesCardinality ==
  ASSUME IInv, NEW n \in 0 .. Len(commitments)
  PROVE  IsFiniteSet(Privates(n)) /\ Cardinality(Privates(n)) = NbElements[n]
<1>. DEFINE L == Len(commitments)
            T == {m \in Nat : m <= L => /\ IsFiniteSet(Privates(m))
                                        /\ Cardinality(Privates(m)) = NbElements[m]}
<1>1. /\ L \in Nat /\ NbElements[0] = 0 /\ \A m \in 0 .. L : NbElements[m] \in Nat
      /\ \A m \in 0 .. L - 1 : NbElements[m + 1] = NbElements[m] + Len(Private(m + 1))
  BY CommitmentsLen, NbElementsEquations DEF IInv
<1>2. 0 \in T
  <2>1. Privates(0) = {}
    BY DEF Privates
  <2>. QED  BY <1>1, <2>1, FS_EmptySet
<1>3. ASSUME NEW m \in Nat, m \in T  PROVE m + 1 \in T
  <2>. SUFFICES ASSUME m + 1 <= L
                PROVE  /\ IsFiniteSet(Privates(m + 1))
                       /\ Cardinality(Privates(m + 1)) = NbElements[m + 1]
    OBVIOUS
  <2>1. m \in 0 .. L - 1 /\ m <= L /\ m \in 0 .. L /\ m + 1 \in 1 .. L
    BY <1>1
  <2>2. IsFiniteSet(Privates(m)) /\ Cardinality(Privates(m)) = NbElements[m]
    BY <1>3, <2>1
  <2>3. Private(m + 1) \in Lists /\ Sorted(Private(m + 1))
    BY <2>1, CommitmentFields DEF Private, IInv, PrivateParts
  <2>4. /\ IsFiniteSet(ToSet(Private(m + 1)))
        /\ Cardinality(ToSet(Private(m + 1))) = Len(Private(m + 1))
    BY <2>3, ListCardinality
  <2>5. Privates(m + 1) = Privates(m) \union ToSet(Private(m + 1))
    <3>1. 1 .. m + 1 = (1 .. m) \union {m + 1}
      OBVIOUS
    <3>. QED  BY <3>1 DEF Privates
  <2>6. Privates(m) \intersect ToSet(Private(m + 1)) = {}
    <3>. SUFFICES ASSUME NEW k \in 1 .. m, NEW w \in ToSet(Private(k)),
                         w \in ToSet(Private(m + 1))
                  PROVE  FALSE
      BY DEF Privates
    <3>1. k \in 1 .. L /\ k # m + 1
      BY <1>1, <2>1
    <3>. QED  BY <2>1, <3>1 DEF IInv, PrivateParts, Private
  <2>. HIDE DEF T
  <2>7. /\ IsFiniteSet(Privates(m + 1))
        /\ Cardinality(Privates(m + 1)) = NbElements[m] + Len(Private(m + 1)) - Cardinality({})
    BY <2>2, <2>4, <2>5, <2>6, FS_Union
  <2>8. Cardinality({}) = 0 /\ NbElements[m] \in Nat /\ Len(Private(m + 1)) \in Nat
    BY <1>1, <2>1, <2>3, FS_EmptySet, ListElements
  <2>9. NbElements[m] + Len(Private(m + 1)) - 0 = NbElements[m + 1]
    BY <1>1, <2>1, <2>8
  <2>. QED  BY <2>7, <2>8, <2>9
<1>. HIDE DEF T, L
<1>4. Nat \subseteq T
  BY <1>2, <1>3, NaturalsAll
<1>5. n \in T /\ n <= L
  BY <1>1, <1>4 DEF L
<1>. QED  BY <1>5 DEF T

LEMMA RemovedWires ==
  ASSUME IInv
  PROVE  /\ Removed = Privates(Len(commitments)) \union Indexes
         /\ Removed \subseteq NbPublic .. nbWires - 1
<1>. DEFINE L == Len(commitments)
            all == NbPublic .. nbWires - 1
<1>1. /\ L \in Nat /\ nbWires \in Nat /\ NbPublic \in Nat /\ NbSecret \in Nat
      /\ DOMAIN commitments = 1 .. L
  BY CommitmentsLen, WiresAssumption DEF IInv, Typed
<1>2. \A w : w \in Removed <=> \/ \E i \in 1 .. L : w = commitments[i].index
                              \/ \E i \in 1 .. L : \E k \in DOMAIN Private(i) : w = Private(i)[k]
  <2>. HIDE DEF L
  <2>1. ASSUME NEW e \in ToRemove
        PROVE  \/ \E i \in 1 .. L : e[3] = commitments[i].index
               \/ \E i \in 1 .. L : \E k \in DOMAIN Private(i) : e[3] = Private(i)[k]
    <3>1. CASE \E i \in 1 .. L : e = <<i, 0, commitments[i].index>>
      BY <3>1
    <3>2. CASE \E i \in 1 .. L : \E k \in DOMAIN Private(i) : e = <<i, k, Private(i)[k]>>
      BY <3>2
    <3>. QED  BY <1>1, <3>1, <3>2 DEF ToRemove, Private
  <2>2. ASSUME NEW i \in 1 .. L  PROVE commitments[i].index \in Removed
    <3>1. <<i, 0, commitments[i].index>> \in ToRemove
      BY <1>1 DEF ToRemove
    <3>. QED  BY <3>1 DEF Removed
  <2>3. ASSUME NEW i \in 1 .. L, NEW k \in DOMAIN Private(i)  PROVE Private(i)[k] \in Removed
    <3>1. <<i, k, Private(i)[k]>> \in ToRemove
      BY <1>1 DEF ToRemove, Private
    <3>. QED  BY <3>1 DEF Removed
  <2>4. \A w \in Removed : \E e \in ToRemove : w = e[3]
    BY DEF Removed
  <2>. QED  BY <2>1, <2>2, <2>3, <2>4
<1>3. \A i \in 1 .. L : \A w : w \in ToSet(Private(i)) <=> \E k \in DOMAIN Private(i) : w = Private(i)[k]
  BY DEF ToSet
<1>4. Removed = Privates(L) \union Indexes
  BY <1>1, <1>2, <1>3 DEF Privates, Indexes
<1>5. ASSUME NEW k \in 1 .. L  PROVE commitments[k].index \in all
  BY <1>1 DEF IInv, IndexesSorted
<1>6. ASSUME NEW k \in 1 .. L, NEW w \in ToSet(Private(k))  PROVE w \in all
  <2>1. NbPublic <= w /\ w < commitments[k].index
    BY DEF IInv, PrivateParts, Private
  <2>2. w \in Nat
    BY CommitmentFields, ListElements DEF IInv, Private
  <2>. QED  BY <1>1, <1>5, <2>1, <2>2
<1>7. Removed \subseteq all
  <2>. HIDE DEF L, all
  <2>. QED  BY <1>4, <1>5, <1>6 DEF Privates, Indexes, L
<1>. QED  BY <1>4, <1>7

\* The walk over the heap removes what it has to: after n wires the heap holds the
\* wires to remove that are still to come.
LEMMA FilteredIsKept ==
  ASSUME IInv
  PROVE  \A n \in Nat : Filtered[n].r = Kept[n]
<1>. DEFINE Left(n) == {e \in ToRemove : NbPublic + n <= e[3]}
            State(n) == [heap |-> Left(n), r |-> Kept[n]]
            walk == [n \in Nat |-> State(n)]
            Equation(f) == f = [n \in Nat |->
                                 IF n = 0 THEN [heap |-> ToRemove, r |-> <<>>]
                                 ELSE FilterRound(f[n - 1], NbPublic + n - 1)]
<1>1. NbPublic \in Nat /\ \A e \in ToRemove : e[3] \in Nat /\ NbPublic <= e[3]
  <2>1. \A w \in Removed : w \in NbPublic .. nbWires - 1
    BY RemovedWires
  <2>. QED  BY <2>1, WiresAssumption DEF Removed
<1>2. State(0) = [heap |-> ToRemove, r |-> <<>>]
  <2>1. Left(0) = ToRemove
    BY <1>1
  <2>. QED  BY <2>1, KeptEquations
<1>3. ASSUME NEW n \in Nat
      PROVE  FilterRound(State(n), NbPublic + n) = State(n + 1)
  <2>. DEFINE wire == NbPublic + n
              equal == {e \in Left(n) : e[3] = wire}
  <2>1. \A e \in Left(n) : wire <= e[3]
    OBVIOUS
  <2>2. Left(n + 1) = Left(n) \ equal
    BY <1>1
  <2>3. equal # {} <=> wire \in Removed
    BY <1>1 DEF Removed
  <2>4. Kept[n + 1] = IF wire \in Removed THEN Kept[n] ELSE Append(Kept[n], wire)
    BY KeptEquations
  <2>5. State(n).heap = Left(n) /\ State(n).r = Kept[n]
    OBVIOUS
  <2>6. FilterRound(State(n), wire) =
          IF equal # {} /\ \A e \in Left(n) : wire <= e[3]
          THEN [heap |-> Left(n) \ equal, r |-> Kept[n]]
          ELSE [heap |-> Left(n), r |-> Append(Kept[n], wire)]
    BY <2>5 DEF FilterRound
  <2>7. State(n + 1) = [heap |-> Left(n) \ equal, r |-> Kept[n + 1]]
    BY <2>2
  <2>8. equal = {} => Left(n) \ equal = Left(n)
    OBVIOUS
  <2>. HIDE DEF equal, Left, State
  <2>. QED  BY <2>1, <2>3, <2>4, <2>6, <2>7, <2>8
<1>4. Equation(walk)
  <2>1. ASSUME NEW n \in Nat
        PROVE  walk[n] = IF n = 0 THEN [heap |-> ToRemove, r |-> <<>>]
                         ELSE FilterRound(walk[n - 1], NbPublic + n - 1)
    <3>1. CASE n = 0
      BY <1>2, <3>1
    <3>2. CASE n # 0
      <4>1. n - 1 \in Nat /\ (n - 1) + 1 = n /\ NbPublic + (n - 1) = NbPublic + n - 1
        BY <1>1, <3>2
      <4>2. FilterRound(State(n - 1), NbPublic + (n - 1)) = State((n - 1) + 1)
        BY <1>3, <4>1
      <4>3. walk[n - 1] = State(n - 1) /\ walk[n] = State(n)
        BY <4>1
      <4>. HIDE DEF State, walk
      <4>. QED  BY <3>2, <4>1, <4>2, <4>3
    <3>. QED  BY <3>1, <3>2
  <2>. HIDE DEF State
  <2>. QED  BY <2>1
<1>5. Equation(Filtered)
  <2>1. Filtered = CHOOSE g : Equation(g)
    BY DEF Filtered
  <2>. QED  BY <1>4, <2>1
<1>6. \A n \in Nat : Filtered[n] = IF n = 0 THEN [heap |-> ToRemove, r |-> <<>>]
                                  ELSE FilterRound(Filtered[n - 1], NbPublic + n - 1)
  BY <1>5
<1>7. Nat \subseteq {n \in Nat : Filtered[n] = State(n)}
  <2>. DEFINE T == {n \in Nat : Filtered[n] = State(n)}
  <2>. HIDE DEF State, Equation
  <2>1. 0 \in T
    BY <1>2, <1>6
  <2>2. ASSUME NEW n \in Nat, n \in T  PROVE n + 1 \in T
    <3>1. n + 1 \in Nat /\ n + 1 # 0 /\ (n + 1) - 1 = n /\ NbPublic + (n + 1) - 1 = NbPublic + n
      BY <1>1
    <3>2. Filtered[n + 1] = FilterRound(Filtered[n], NbPublic + n)
      BY <1>6, <3>1
    <3>. QED  BY <1>3, <2>2, <3>1, <3>2
  <2>. HIDE DEF T
  <2>3. Nat \subseteq T
    BY <2>1, <2>2, NaturalsAll
  <2>. QED  BY <2>3 DEF T
<1>8. ASSUME NEW n \in Nat  PROVE Filtered[n].r = Kept[n]
  <2>1. Filtered[n] = State(n)
    BY <1>7
  <2>2. State(n).r = Kept[n]
    OBVIOUS
  <2>. QED  BY <2>1, <2>2
<1>. QED  BY <1>8

\* The prover is left with as many wires as the setup makes room for.
LEMMA WireValuesLength ==
  ASSUME IInv
  PROVE  /\ WireValues \in Lists /\ Len(WireValues) = NbPrivateWires
<1>. DEFINE L == Len(commitments)
            all == NbPublic .. nbWires - 1
            n == nbWires - NbPublic
<1>1. /\ L \in Nat /\ nbWires \in Nat /\ NbPublic \in Nat /\ NbSecret \in Nat /\ n \in Nat
      /\ NbPublic + n - 1 = nbWires - 1 /\ DOMAIN commitments = 1 .. L
  <2>1. nbWires \in Nat /\ NbPublic + NbSecret <= nbWires
    BY DEF IInv, Typed
  <2>. QED  BY <2>1, CommitmentsLen, WiresAssumption DEF IInv
<1>2. /\ WireValues \in Lists /\ Sorted(WireValues) /\ ToSet(WireValues) = all \ Removed
  <2>1. WireValues = Kept[n]
    BY <1>1, FilteredIsKept DEF WireValues
  <2>. HIDE DEF n
  <2>. QED  BY <1>1, <2>1, KeptContents
<1>3. Removed = Privates(L) \union Indexes
  BY RemovedWires
<1>4. Removed \subseteq all
  BY RemovedWires
<1>5. Privates(L) \intersect Indexes = {}
  BY DEF Privates, Private, IInv, PrivateParts
<1>6. /\ IsFiniteSet(Privates(L)) /\ Cardinality(Privates(L)) = NbElements[L]
      /\ NbElements[L] \in Nat
  BY <1>1, PrivatesCardinality, NbElementsEquations DEF IInv
<1>7. IsFiniteSet(Indexes) /\ Cardinality(Indexes) = L
  BY IndexList, ListCardinality DEF IInv
<1>8. IsFiniteSet(all) /\ Cardinality(all) = nbWires - NbPublic
  <2>1. IsFiniteSet(all) /\ Cardinality(all) = IF NbPublic > nbWires - 1 THEN 0
                                               ELSE nbWires - 1 - NbPublic + 1
    BY <1>1, FS_Interval
  <2>. QED  BY <1>1, <2>1
<1>. HIDE DEF L, all, n
<1>9. IsFiniteSet(Removed) /\ Cardinality(Removed) = NbElements[L] + L
  <2>1. /\ IsFiniteSet(Removed)
        /\ Cardinality(Removed) = NbElements[L] + L - Cardinality({})
    BY <1>3, <1>5, <1>6, <1>7, FS_Union
  <2>2. Cardinality({}) = 0
    BY FS_EmptySet
  <2>. QED  BY <1>1, <1>6, <2>1, <2>2
<1>10. Cardinality(all \ Removed) = nbWires - NbPublic - (NbElements[L] + L)
  <2>1. all \intersect Removed = Removed
    BY <1>4
  <2>2. Cardinality(all \ Removed) = Cardinality(all) - Cardinality(all \intersect Removed)
    BY <1>8, FS_Difference
  <2>. QED  BY <1>8, <1>9, <2>1, <2>2
<1>11. Cardinality(ToSet(WireValues)) = Len(WireValues)
  BY <1>2, ListCardinality
<1>. QED  BY <1>1, <1>2, <1>6, <1>10, <1>11 DEF NbPrivateWires, L

-----------------------------------------------------------------------------
(* The setup deals out wires.                                                 *)

\* The two parts of a sorted list.
LEMMA Parts ==
  ASSUME NEW a \in Lists, NEW b \in Lists, Sorted(a \o b)
  PROVE  /\ Sorted(a) /\ Sorted(b) /\ ToSet(a \o b) = ToSet(a) \union ToSet(b)
         /\ b # <<>> => Append(a, Head(b)) \o Tail(b) = a \o b
<1>1. /\ a \o b \in Lists /\ Len(a \o b) = Len(a) + Len(b) /\ Len(a) \in Nat /\ Len(b) \in Nat
      /\ \A i \in 1 .. Len(a) : (a \o b)[i] = a[i] /\ i \in 1 .. Len(a) + Len(b)
      /\ \A i \in 1 .. Len(b) : (a \o b)[Len(a) + i] = b[i] /\ Len(a) + i \in 1 .. Len(a) + Len(b)
  <2>1. a \in Seq(Nat) /\ b \in Seq(Nat)
    BY DEF Lists
  <2>2. /\ a \o b \in Seq(Nat) /\ Len(a \o b) = Len(a) + Len(b)
        /\ \A i \in 1 .. Len(a) + Len(b) : (a \o b)[i] = IF i <= Len(a) THEN a[i] ELSE b[i - Len(a)]
    BY <2>1, ConcatProperties
  <2>3. Len(a) \in Nat /\ Len(b) \in Nat
    BY <2>1
  <2>4. ASSUME NEW i \in 1 .. Len(a)  PROVE (a \o b)[i] = a[i] /\ i \in 1 .. Len(a) + Len(b)
    BY <2>2, <2>3
  <2>5. ASSUME NEW i \in 1 .. Len(b)
        PROVE  (a \o b)[Len(a) + i] = b[i] /\ Len(a) + i \in 1 .. Len(a) + Len(b)
    <3>1. /\ Len(a) + i \in 1 .. Len(a) + Len(b) /\ ~(Len(a) + i <= Len(a))
          /\ Len(a) + i - Len(a) = i
      BY <2>3
    <3>. QED  BY <2>2, <3>1
  <2>. QED  BY <2>2, <2>3, <2>4, <2>5 DEF Lists
<1>2. Sorted(b)
  <2>. SUFFICES ASSUME NEW i \in 1 .. Len(b), NEW j \in 1 .. Len(b), i < j  PROVE b[i] < b[j]
    BY DEF Sorted
  <2>1. Len(a) + i < Len(a) + j
    BY <1>1
  <2>. QED  BY <1>1, <2>1 DEF Sorted
<1>5. Sorted(a)
  <2>. SUFFICES ASSUME NEW i \in 1 .. Len(a), NEW j \in 1 .. Len(a), i < j  PROVE a[i] < a[j]
    BY DEF Sorted
  <2>. QED  BY <1>1 DEF Sorted
<1>3. ToSet(a \o b) = ToSet(a) \union ToSet(b)
  <2>1. ASSUME NEW v \in ToSet(a \o b)  PROVE v \in ToSet(a) \union ToSet(b)
    <3>1. PICK i \in 1 .. Len(a) + Len(b) : v = (a \o b)[i]
      <4>1. PICK i \in 1 .. Len(a \o b) : v = (a \o b)[i]
        <5>1. a \o b \in Lists
          BY <1>1
        <5>. QED  BY <5>1, ListElements
      <4>. QED  BY <1>1, <4>1
    <3>2. CASE i \in 1 .. Len(a)
      BY <1>1, <3>1, <3>2, ListElements
    <3>3. CASE i \notin 1 .. Len(a)
      <4>1. i - Len(a) \in 1 .. Len(b) /\ Len(a) + (i - Len(a)) = i
        BY <1>1, <3>3
      <4>2. v = b[i - Len(a)]
        BY <1>1, <3>1, <4>1
      <4>. QED  BY <4>1, <4>2, ListElements
    <3>. QED  BY <3>2, <3>3
  <2>2. ASSUME NEW v \in ToSet(a)  PROVE v \in ToSet(a \o b)
    <3>1. PICK i \in 1 .. Len(a) : v = a[i]
      BY ListElements
    <3>2. v = (a \o b)[i] /\ i \in 1 .. Len(a \o b)
      BY <1>1, <3>1
    <3>. QED  BY <1>1, <3>2, ListElements
  <2>3. ASSUME NEW v \in ToSet(b)  PROVE v \in ToSet(a \o b)
    <3>1. PICK i \in 1 .. Len(b) : v = b[i]
      BY ListElements
    <3>2. v = (a \o b)[Len(a) + i] /\ Len(a) + i \in 1 .. Len(a \o b)
      BY <1>1, <3>1
    <3>. QED  BY <1>1, <3>2, ListElements
  <2>. QED  BY <2>1, <2>2, <2>3
<1>4. ASSUME b # <<>>  PROVE Append(a, Head(b)) \o Tail(b) = a \o b
  <2>. DEFINE h == Head(b)
  <2>1. a \in Seq(Nat) /\ b \in Seq(Nat)
    BY DEF Lists
  <2>2. h \in Nat /\ Tail(b) \in Seq(Nat) /\ <<h>> \in Seq(Nat)
    BY <1>4, <2>1
  <2>3. <<h>> \o Tail(b) = b
    <3>1. /\ Len(<<h>> \o Tail(b)) = Len(b) /\ <<h>> \o Tail(b) \in Seq(Nat)
          /\ \A i \in 1 .. Len(b) : (<<h>> \o Tail(b))[i] = b[i]
      BY <1>4, <2>1, <2>2
    <3>. QED  BY <2>1, <3>1, SeqEqual
  <2>4. Append(a, h) = a \o <<h>>
    BY <2>1, <2>2, AppendIsConcat
  <2>. HIDE DEF h
  <2>5. (a \o <<h>>) \o Tail(b) = a \o (<<h>> \o Tail(b))
    BY <2>1, <2>2, ConcatAssociative
  <2>. QED  BY <2>3, <2>4, <2>5 DEF h
<1>. QED  BY <1>2, <1>3, <1>4, <1>5

\* What the keys hold when n wires have been dealt: the commitments met,
DealtIndexes(keys, n) ==
  /\ keys.seen \in 0 .. Len(commitments)
  /\ \A k \in 1 .. keys.seen : commitments[k].index < n
  /\ \A k \in keys.seen + 1 .. Len(commitments) : n <= commitments[k].index

\* the private wires of each, next to the ones still to come,
DealtLists(keys, n) ==
  \A j \in 1 .. Len(commitments) :
    /\ keys.ckK[j] \o keys.slices[j] = Private(j)
    /\ \A w \in ToSet(keys.ckK[j]) : w < n
    /\ \A w \in ToSet(keys.slices[j]) : n <= w

\* the public variables and the wires of commitments, and the prover's first wires.
DealtPublic(keys, n) ==
  /\ Len(keys.vkK) = IF n <= NbPublic THEN n ELSE NbPublic + keys.seen
  /\ \A k \in 1 .. Len(keys.vkK) :
       keys.vkK[k] = IF k <= NbPublic THEN k - 1 ELSE commitments[k - NbPublic].index

DealtPrivate(keys, n) ==
  keys.pkK = IF n <= NbPublic THEN <<>> ELSE Kept[n - NbPublic]

Dealing(keys, n) ==
  DealtIndexes(keys, n) /\ DealtLists(keys, n) /\ DealtPublic(keys, n) /\ DealtPrivate(keys, n)

LEMMA NothingDealt == ASSUME IInv  PROVE Dealing(NoKeys, 0)
<1>1. Typed /\ Len(commitments) \in Nat /\ DOMAIN commitments = 1 .. Len(commitments)
  BY CommitmentsLen DEF IInv
<1>2. /\ NoKeys.seen = 0 /\ NoKeys.vkK = <<>> /\ NoKeys.pkK = <<>>
      /\ \A j \in 1 .. Len(commitments) : NoKeys.slices[j] = Private(j) /\ NoKeys.ckK[j] = <<>>
  BY <1>1 DEF NoKeys, GetPrivateCommitted, Private
<1>3. \A j \in 1 .. Len(commitments) : <<>> \o Private(j) = Private(j)
  BY <1>1, CommitmentFields, ConcatEmptySeq DEF Private, Lists
<1>4. \A j \in 1 .. Len(commitments) : \A w \in ToSet(Private(j)) : 0 <= w
  BY <1>1, CommitmentFields, ListElements DEF Private
<1>5. \A k \in 1 .. Len(commitments) : 0 <= commitments[k].index
  BY <1>1, CommitmentFields
<1>6. NbPublic \in Nat \ {0}
  BY WiresAssumption
<1>7. 0 <= NbPublic /\ 0 + 1 .. Len(commitments) = 1 .. Len(commitments) /\ 1 .. 0 = {}
      /\ 0 \in 0 .. Len(commitments)
  BY <1>1, <1>6
<1>. DEFINE keys == NoKeys
<1>. HIDE DEF keys
<1>8. /\ keys.seen = 0 /\ keys.vkK = <<>> /\ keys.pkK = <<>>
      /\ \A j \in 1 .. Len(commitments) : keys.slices[j] = Private(j) /\ keys.ckK[j] = <<>>
  BY <1>2 DEF keys
<1>9. Dealing(keys, 0)
  BY <1>3, <1>4, <1>5, <1>7, <1>8, EmptyList DEF DealtIndexes, DealtLists,
     DealtPublic, DealtPrivate, Dealing
<1>. QED  BY <1>9 DEF keys

\* The list a wire is the next of is the one that has it.
LEMMA Owner ==
  ASSUME IInv, NEW n \in Nat, NEW keys \in KeySets, Dealing(keys, n)
  PROVE  /\ \A j \in 1 .. Len(commitments) :
              /\ keys.slices[j] \in Lists /\ keys.ckK[j] \in Lists /\ Sorted(keys.slices[j])
              /\ ToSet(Private(j)) = ToSet(keys.ckK[j]) \union ToSet(keys.slices[j])
              /\ n \in ToSet(Private(j)) => keys.slices[j] # <<>> /\ Head(keys.slices[j]) = n
         /\ IndexIfNext(keys.slices, n) = {j \in 1 .. Len(commitments) : n \in ToSet(Private(j))}
<1>. DEFINE L == 1 .. Len(commitments)
            slices == keys.slices
<1>1. ASSUME NEW j \in L
      PROVE  /\ slices[j] \in Lists /\ keys.ckK[j] \in Lists /\ Sorted(slices[j])
             /\ ToSet(Private(j)) = ToSet(keys.ckK[j]) \union ToSet(slices[j])
  <2>1. slices[j] \in Lists /\ keys.ckK[j] \in Lists
    BY DEF KeySets
  <2>2. keys.ckK[j] \o slices[j] = Private(j) /\ Sorted(Private(j))
    BY DEF Dealing, DealtLists, IInv, PrivateParts, Private
  <2>. QED  BY <2>1, <2>2, Parts
<1>2. DOMAIN slices = L
  BY DEF KeySets
<1>3. ASSUME NEW j \in L, n \in ToSet(Private(j))  PROVE slices[j] # <<>> /\ Head(slices[j]) = n
  <2>1. n \notin ToSet(keys.ckK[j])
    <3>1. \A w \in ToSet(keys.ckK[j]) : w < n
      BY DEF Dealing, DealtLists
    <3>2. ~(n < n)
      OBVIOUS
    <3>. QED  BY <3>1, <3>2
  <2>2. n \in ToSet(slices[j]) /\ slices[j] # <<>>
    BY <1>1, <1>3, <2>1, EmptyList
  <2>3. Head(slices[j]) \in ToSet(slices[j]) /\ Head(slices[j]) <= n
    BY <1>1, <2>2, FirstIsLeast
  <2>4. n <= Head(slices[j])
    BY <2>3 DEF Dealing, DealtLists
  <2>5. Head(slices[j]) \in Nat
    BY <1>1, <2>3, ListElements
  <2>. HIDE DEF slices
  <2>. QED  BY <2>2, <2>3, <2>4, <2>5
<1>4. ASSUME NEW k \in L, slices[k] # <<>>, n \notin ToSet(Private(k))
      PROVE  Head(slices[k]) > n
  <2>1. Head(slices[k]) \in ToSet(slices[k])
    BY <1>1, <1>4, FirstIsLeast
  <2>2. n <= Head(slices[k])
    BY <2>1 DEF Dealing, DealtLists
  <2>3. Head(slices[k]) \in Nat /\ Head(slices[k]) # n
    BY <1>1, <1>4, <2>1, ListElements
  <2>. HIDE DEF slices
  <2>. QED  BY <2>2, <2>3
<1>5. ASSUME NEW j \in L, n \in ToSet(Private(j)), NEW k \in L, k # j
      PROVE  n \notin ToSet(Private(k))
  BY <1>5 DEF IInv, PrivateParts, Private
<1>6. ASSUME NEW j \in IndexIfNext(slices, n)  PROVE j \in L /\ n \in ToSet(Private(j))
  <2>1. j \in L /\ slices[j] # <<>> /\ Head(slices[j]) = n
    BY <1>2, <1>6 DEF IndexIfNext
  <2>. HIDE DEF slices
  <2>. QED  BY <1>4, <2>1
<1>7. ASSUME NEW j \in L, n \in ToSet(Private(j))  PROVE j \in IndexIfNext(slices, n)
  <2>1. ASSUME NEW k \in L, slices[k] # <<>>
        PROVE  Head(slices[k]) > n \/ (Head(slices[k]) = n /\ j <= k)
    <3>1. CASE k = j
      BY <1>3, <1>7, <3>1
    <3>2. CASE k # j
      BY <1>4, <1>5, <1>7, <2>1, <3>2
    <3>. QED  BY <3>1, <3>2
  <2>2. slices[j] # <<>> /\ Head(slices[j]) = n
    BY <1>3, <1>7
  <2>. HIDE DEF slices
  <2>. QED  BY <1>2, <2>1, <2>2 DEF IndexIfNext
<1>8. IndexIfNext(slices, n) = {j \in L : n \in ToSet(Private(j))}
  BY <1>6, <1>7
<1>. QED  BY <1>1, <1>3, <1>8

\* The next commitment is the one whose wire this is, if any is.
LEMMA NextCommitment ==
  ASSUME IInv, NEW n \in Nat, NEW keys \in KeySets, Dealing(keys, n)
  PROVE  /\ /\ n >= NbPublic /\ keys.seen < Len(commitments)
            /\ commitments[keys.seen + 1].index = n
         <=> n \in Indexes
<1>1. /\ Len(commitments) \in Nat /\ keys.seen \in 0 .. Len(commitments) /\ keys.seen \in Nat
      /\ \A k \in 1 .. keys.seen : commitments[k].index < n
      /\ \A k \in keys.seen + 1 .. Len(commitments) : n <= commitments[k].index
  BY CommitmentsLen DEF IInv, Dealing, DealtIndexes
<1>2. ASSUME n \in Indexes
      PROVE  /\ n >= NbPublic /\ keys.seen < Len(commitments)
             /\ commitments[keys.seen + 1].index = n
  <2>1. PICK k \in 1 .. Len(commitments) : commitments[k].index = n
    BY <1>2 DEF Indexes
  <2>2. n >= NbPublic
    BY <2>1, WiresAssumption DEF IInv, IndexesSorted, Typed
  <2>3. k \notin 1 .. keys.seen
    BY <1>1, <2>1
  <2>4. k \in keys.seen + 1 .. Len(commitments)
    BY <1>1, <2>3
  <2>5. keys.seen + 1 \in 1 .. Len(commitments) /\ keys.seen < Len(commitments)
        /\ keys.seen + 1 \in keys.seen + 1 .. Len(commitments)
    BY <1>1, <2>4
  <2>6. n <= commitments[keys.seen + 1].index /\ commitments[keys.seen + 1].index \in Nat
    BY <1>1, <2>5, CommitmentFields DEF IInv
  <2>7. k = keys.seen + 1
    <3>. SUFFICES ASSUME keys.seen + 1 < k  PROVE FALSE
      BY <1>1, <2>4
    <3>1. commitments[keys.seen + 1].index < commitments[k].index
      BY <2>5 DEF IInv, IndexesSorted
    <3>. QED  BY <2>1, <2>6, <3>1
  <2>. QED  BY <2>1, <2>2, <2>5, <2>7
<1>3. ASSUME keys.seen < Len(commitments), commitments[keys.seen + 1].index = n
      PROVE  n \in Indexes
  <2>1. keys.seen + 1 \in 1 .. Len(commitments)
    BY <1>1, <1>3
  <2>. QED  BY <1>3, <2>1 DEF Indexes
<1>. QED  BY <1>2, <1>3

\* Where a wire goes.
LEMMA DealFields ==
  ASSUME IInv, NEW n \in Nat, NEW keys \in KeySets, Dealing(keys, n), NEW d, d = Deal(keys, n)
  PROVE  /\ n < NbPublic \/ n \in Indexes =>
              /\ d.slices = keys.slices /\ d.ckK = keys.ckK /\ d.pkK = keys.pkK
              /\ d.vkK = Append(keys.vkK, n)
              /\ d.seen = IF n \in Indexes THEN keys.seen + 1 ELSE keys.seen
              /\ \A j \in 1 .. Len(commitments) : n \notin ToSet(Private(j))
         /\ ~(n < NbPublic \/ n \in Indexes) => d.vkK = keys.vkK /\ d.seen = keys.seen
         /\ \A j \in 1 .. Len(commitments) : n \in ToSet(Private(j)) =>
              /\ d.pkK = keys.pkK
              /\ d.slices[j] = Tail(keys.slices[j]) /\ d.ckK[j] = Append(keys.ckK[j], n)
              /\ \A k \in 1 .. Len(commitments) :
                   k # j => d.slices[k] = keys.slices[k] /\ d.ckK[k] = keys.ckK[k]
         /\ ~(n < NbPublic \/ n \in Indexes)
              /\ (\A j \in 1 .. Len(commitments) : n \notin ToSet(Private(j))) =>
                   /\ d.slices = keys.slices /\ d.ckK = keys.ckK
                   /\ d.pkK = Append(keys.pkK, n)
<1>. DEFINE L == 1 .. Len(commitments)
            owner == IndexIfNext(keys.slices, n)
            slices == [j \in DOMAIN keys.slices |->
                         IF j \in owner THEN Tail(keys.slices[j]) ELSE keys.slices[j]]
            ckK == [j \in DOMAIN keys.ckK |->
                      IF j \in owner THEN Append(keys.ckK[j], n) ELSE keys.ckK[j]]
            isCommitment == /\ n >= NbPublic /\ keys.seen < Len(commitments)
                            /\ commitments[keys.seen + 1].index = n
            seen == IF isCommitment THEN keys.seen + 1 ELSE keys.seen
<1>1. d = IF n < NbPublic \/ isCommitment
          THEN [keys EXCEPT !.slices = slices, !.vkK = Append(keys.vkK, n), !.seen = seen]
          ELSE IF owner # {}
          THEN [keys EXCEPT !.slices = slices, !.ckK = ckK]
          ELSE [keys EXCEPT !.pkK = Append(keys.pkK, n)]
  BY DEF Deal
<1>2. isCommitment <=> n \in Indexes
  BY NextCommitment
<1>3. owner = {j \in L : n \in ToSet(Private(j))}
  BY Owner
<1>4. keys \in KeySets /\ keys.slices \in [L -> Lists] /\ keys.ckK \in [L -> Lists]
  BY DEF KeySets
<1>5. ASSUME NEW j \in L, n \in ToSet(Private(j))
      PROVE  ~(n < NbPublic \/ n \in Indexes) /\ owner = {j}
  <2>1. NbPublic <= n /\ n \notin Indexes
    BY <1>5 DEF IInv, PrivateParts, Private
  <2>2. ~(n < NbPublic)
    BY <2>1, WiresAssumption
  <2>3. \A k \in L : k # j => n \notin ToSet(Private(k))
    BY <1>5 DEF IInv, PrivateParts, Private
  <2>. HIDE DEF owner
  <2>. QED  BY <1>3, <1>5, <2>1, <2>2, <2>3
<1>. HIDE DEF isCommitment, owner
<1>6. owner = {} => slices = keys.slices
  BY <1>4
<1>7. /\ \A j \in L : slices[j] = IF j \in owner THEN Tail(keys.slices[j]) ELSE keys.slices[j]
      /\ \A j \in L : ckK[j] = IF j \in owner THEN Append(keys.ckK[j], n) ELSE keys.ckK[j]
  BY <1>4
<1>8. seen = IF n \in Indexes THEN keys.seen + 1 ELSE keys.seen
  BY <1>2
<1>. HIDE DEF slices, ckK, seen
<1>9. ASSUME n < NbPublic \/ n \in Indexes
      PROVE  /\ d.slices = keys.slices /\ d.ckK = keys.ckK /\ d.pkK = keys.pkK
             /\ d.vkK = Append(keys.vkK, n)
             /\ d.seen = IF n \in Indexes THEN keys.seen + 1 ELSE keys.seen
             /\ \A j \in L : n \notin ToSet(Private(j))
  <2>1. \A j \in L : n \notin ToSet(Private(j))
    BY <1>5, <1>9
  <2>2. owner = {}
    BY <1>3, <2>1
  <2>3. d = [keys EXCEPT !.slices = keys.slices, !.vkK = Append(keys.vkK, n), !.seen = seen]
    BY <1>1, <1>2, <1>6, <1>9, <2>2
  <2>. QED  BY <1>4, <1>8, <2>1, <2>3 DEF KeySets
<1>10. ASSUME ~(n < NbPublic \/ n \in Indexes), owner # {}
       PROVE  d = [keys EXCEPT !.slices = slices, !.ckK = ckK]
  BY <1>1, <1>2, <1>10
<1>11. ASSUME ~(n < NbPublic \/ n \in Indexes), owner = {}
       PROVE  d = [keys EXCEPT !.pkK = Append(keys.pkK, n)]
  BY <1>1, <1>2, <1>11
<1>12. ASSUME NEW j \in L, n \in ToSet(Private(j))
       PROVE  /\ d.pkK = keys.pkK
              /\ d.slices[j] = Tail(keys.slices[j]) /\ d.ckK[j] = Append(keys.ckK[j], n)
              /\ \A k \in L : k # j => d.slices[k] = keys.slices[k] /\ d.ckK[k] = keys.ckK[k]
  <2>1. owner = {j} /\ ~(n < NbPublic \/ n \in Indexes)
    BY <1>5, <1>12
  <2>2. d.pkK = keys.pkK /\ d.slices = slices /\ d.ckK = ckK
    BY <1>4, <1>10, <2>1 DEF KeySets
  <2>. QED  BY <1>7, <2>1, <2>2
<1>13. ASSUME ~(n < NbPublic \/ n \in Indexes), \A j \in L : n \notin ToSet(Private(j))
       PROVE  /\ d.slices = keys.slices /\ d.ckK = keys.ckK
              /\ d.pkK = Append(keys.pkK, n)
  <2>1. owner = {}
    BY <1>3, <1>13
  <2>. QED  BY <1>4, <1>11, <1>13, <2>1 DEF KeySets
<1>14. ASSUME ~(n < NbPublic \/ n \in Indexes)  PROVE d.vkK = keys.vkK /\ d.seen = keys.seen
  BY <1>4, <1>10, <1>11, <1>14 DEF KeySets
<1>. QED  BY <1>9, <1>12, <1>13, <1>14

LEMMA DealStep ==
  ASSUME IInv, NEW n \in Nat, NEW keys \in KeySets, Dealing(keys, n), NEW d, d = Deal(keys, n)
  PROVE  Dealing(d, n + 1)
<1>. DEFINE L == Len(commitments)
            seen == keys.seen
<1>1. /\ L \in Nat /\ seen \in 0 .. L /\ seen \in Nat /\ NbPublic \in Nat /\ NbSecret \in Nat
      /\ \A k \in 1 .. seen : commitments[k].index < n
      /\ \A k \in seen + 1 .. L : n <= commitments[k].index
      /\ \A k \in 1 .. L : commitments[k].index \in Nat /\ NbPublic <= commitments[k].index
      /\ Len(keys.vkK) = IF n <= NbPublic THEN n ELSE NbPublic + seen
      /\ \A k \in 1 .. Len(keys.vkK) :
           keys.vkK[k] = IF k <= NbPublic THEN k - 1 ELSE commitments[k - NbPublic].index
  <2>1. \A k \in 1 .. L : commitments[k].index \in NbPublic + NbSecret .. nbWires - 1
    BY DEF IInv, IndexesSorted
  <2>2. \A k \in 1 .. L : commitments[k].index \in Nat
    BY CommitmentFields DEF IInv
  <2>3. nbWires \in Nat
    BY DEF IInv, Typed
  <2>4. NbPublic \in Nat /\ NbSecret \in Nat
    BY WiresAssumption
  <2>5. \A k \in 1 .. L : NbPublic <= commitments[k].index
    BY <2>1, <2>2, <2>3, <2>4
  <2>6. L \in Nat /\ seen \in 0 .. L
    BY CommitmentsLen DEF IInv, Dealing, DealtIndexes
  <2>7. /\ \A k \in 1 .. seen : commitments[k].index < n
        /\ \A k \in seen + 1 .. L : n <= commitments[k].index
    BY DEF Dealing, DealtIndexes
  <2>8. /\ Len(keys.vkK) = IF n <= NbPublic THEN n ELSE NbPublic + seen
        /\ \A k \in 1 .. Len(keys.vkK) :
             keys.vkK[k] = IF k <= NbPublic THEN k - 1 ELSE commitments[k - NbPublic].index
    BY DEF Dealing, DealtPublic
  <2>9. seen \in Nat
    BY <2>6
  <2>. HIDE DEF seen, L
  <2>. QED  BY <2>2, <2>4, <2>5, <2>6, <2>7, <2>8, <2>9
<1>. HIDE DEF seen
<1>2. n \in Indexes <=> n >= NbPublic /\ seen < L /\ commitments[seen + 1].index = n
  BY NextCommitment DEF seen
<1>3. n <= NbPublic => seen = 0
  <2>. SUFFICES ASSUME n <= NbPublic, seen # 0  PROVE FALSE
    OBVIOUS
  <2>1. 1 \in 1 .. seen /\ 1 \in 1 .. L
    BY <1>1
  <2>. QED  BY <1>1, <2>1
<1>. DEFINE next == IF n \in Indexes THEN seen + 1 ELSE seen
<1>4. d.seen = next
  BY DealFields DEF seen
<1>5. /\ next \in 0 .. L
      /\ \A k \in 1 .. next : commitments[k].index < n + 1
      /\ \A k \in next + 1 .. L : n + 1 <= commitments[k].index
  <2>1. CASE n \in Indexes
    <3>1. next = seen + 1 /\ seen < L /\ commitments[seen + 1].index = n
      BY <1>2, <2>1
    <3>2. \A k \in 1 .. seen + 1 : k \in 1 .. seen \/ k = seen + 1
      BY <1>1
    <3>3. ASSUME NEW k \in 1 .. seen + 1  PROVE commitments[k].index < n + 1
      <4>1. k \in 1 .. L
        BY <1>1, <3>1
      <4>. QED  BY <1>1, <3>1, <3>2, <4>1
    <3>4. ASSUME NEW k \in (seen + 1) + 1 .. L  PROVE n + 1 <= commitments[k].index
      <4>1. seen + 1 \in 1 .. L /\ k \in 1 .. L /\ seen + 1 < k
        BY <1>1, <3>1
      <4>2. commitments[seen + 1].index < commitments[k].index
        BY <4>1 DEF IInv, IndexesSorted
      <4>. QED  BY <1>1, <3>1, <4>1, <4>2
    <3>. QED  BY <1>1, <3>1, <3>3, <3>4
  <2>2. CASE n \notin Indexes
    <3>1. ASSUME NEW k \in 1 .. L  PROVE commitments[k].index # n
      BY <2>2 DEF Indexes
    <3>2. ASSUME NEW k \in 1 .. seen  PROVE commitments[k].index < n + 1
      <4>1. k \in 1 .. L
        BY <1>1
      <4>. QED  BY <1>1, <4>1
    <3>3. ASSUME NEW k \in seen + 1 .. L  PROVE n + 1 <= commitments[k].index
      <4>1. k \in 1 .. L
        BY <1>1
      <4>2. n <= commitments[k].index
        BY <1>1
      <4>. QED  BY <1>1, <3>1, <4>1, <4>2
    <3>. QED  BY <1>1, <2>2, <3>2, <3>3
  <2>. QED  BY <2>1, <2>2
<1>6. ASSUME NEW k \in 1 .. L
      PROVE  /\ d.ckK[k] \o d.slices[k] = Private(k)
             /\ \A w \in ToSet(d.ckK[k]) : w < n + 1
             /\ \A w \in ToSet(d.slices[k]) : n + 1 <= w
  <2>1. /\ keys.slices[k] \in Lists /\ keys.ckK[k] \in Lists /\ Sorted(keys.slices[k])
        /\ ToSet(Private(k)) = ToSet(keys.ckK[k]) \union ToSet(keys.slices[k])
        /\ n \in ToSet(Private(k)) => keys.slices[k] # <<>> /\ Head(keys.slices[k]) = n
    BY Owner
  <2>2. /\ keys.ckK[k] \o keys.slices[k] = Private(k)
        /\ \A w \in ToSet(keys.ckK[k]) : w < n
        /\ \A w \in ToSet(keys.slices[k]) : n <= w
    BY DEF Dealing, DealtLists
  <2>3. /\ \A w \in ToSet(keys.ckK[k]) : w \in Nat
        /\ \A w \in ToSet(keys.slices[k]) : w \in Nat
    BY <2>1, ListElements
  <2>4. CASE n \notin ToSet(Private(k))
    <3>1. d.slices[k] = keys.slices[k] /\ d.ckK[k] = keys.ckK[k]
      <4>1. CASE n < NbPublic \/ n \in Indexes
        BY <4>1, DealFields
      <4>2. CASE /\ ~(n < NbPublic \/ n \in Indexes)
                 /\ \A j \in 1 .. Len(commitments) : n \notin ToSet(Private(j))
        BY <4>2, DealFields
      <4>3. CASE \E j \in 1 .. Len(commitments) : n \in ToSet(Private(j))
        BY <2>4, <4>3, DealFields
      <4>. QED  BY <4>1, <4>2, <4>3
    <3>2. \A w \in ToSet(keys.slices[k]) : w # n
      BY <2>1, <2>4
    <3>3. \A w \in ToSet(keys.slices[k]) : n + 1 <= w
      BY <2>2, <2>3, <3>2
    <3>4. \A w \in ToSet(keys.ckK[k]) : w < n + 1
      BY <2>2, <2>3
    <3>. QED  BY <2>2, <3>1, <3>3, <3>4
  <2>5. CASE n \in ToSet(Private(k))
    <3>1. d.slices[k] = Tail(keys.slices[k]) /\ d.ckK[k] = Append(keys.ckK[k], n)
      BY <2>5, DealFields
    <3>2. keys.slices[k] # <<>> /\ Head(keys.slices[k]) = n
      BY <2>1, <2>5
    <3>3. Sorted(keys.ckK[k] \o keys.slices[k])
      BY <2>2 DEF IInv, PrivateParts, Private
    <3>4. Append(keys.ckK[k], n) \o Tail(keys.slices[k]) = Private(k)
      BY <2>1, <2>2, <3>2, <3>3, Parts
    <3>5. \A w \in ToSet(Tail(keys.slices[k])) : n + 1 <= w
      <4>1. ToSet(Tail(keys.slices[k])) = ToSet(keys.slices[k]) \ {n}
        BY <2>1, <3>2, FirstIsLeast
      <4>. QED  BY <2>2, <2>3, <4>1
    <3>6. \A w \in ToSet(Append(keys.ckK[k], n)) : w < n + 1
      <4>1. ToSet(Append(keys.ckK[k], n)) = ToSet(keys.ckK[k]) \union {n}
        <5>1. Sorted(keys.ckK[k])
          <6>1. Private(k) \in Lists /\ Sorted(Private(k))
            BY CommitmentFields DEF IInv, PrivateParts, Private
          <6>2. Sorted(keys.ckK[k] \o keys.slices[k])
            BY <2>2, <6>1
          <6>. QED  BY <2>1, <6>2, Parts
        <5>. QED  BY <2>1, <2>2, <5>1, AppendLast
      <4>. QED  BY <2>2, <2>3, <4>1
    <3>. QED  BY <3>1, <3>4, <3>5, <3>6
  <2>. QED  BY <2>4, <2>5
<1>7. /\ Len(d.vkK) = IF n + 1 <= NbPublic THEN n + 1 ELSE NbPublic + next
      /\ \A k \in 1 .. Len(d.vkK) :
           d.vkK[k] = IF k <= NbPublic THEN k - 1 ELSE commitments[k - NbPublic].index
  <2>1. CASE n < NbPublic \/ n \in Indexes
    <3>1. d.vkK = Append(keys.vkK, n) /\ keys.vkK \in Seq(Nat)
      <4>1. keys.vkK \in Seq(Nat)
        BY DEF KeySets, Lists
      <4>2. d.vkK = Append(keys.vkK, n)
        BY <2>1, DealFields
      <4>. QED  BY <4>1, <4>2
    <3>2. /\ Len(d.vkK) = Len(keys.vkK) + 1 /\ d.vkK[Len(keys.vkK) + 1] = n
          /\ \A k \in 1 .. Len(keys.vkK) : d.vkK[k] = keys.vkK[k]
          /\ Len(keys.vkK) \in Nat
      BY <3>1
    <3>3. \A k \in 1 .. Len(d.vkK) : k \in 1 .. Len(keys.vkK) \/ k = Len(keys.vkK) + 1
      BY <3>2
    <3>4. CASE n < NbPublic
      <4>1. n \notin Indexes /\ Len(keys.vkK) = n /\ n + 1 <= NbPublic
        BY <1>1, <1>2, <3>4
      <4>. QED  BY <1>1, <3>2, <3>3, <4>1
    <3>5. CASE ~(n < NbPublic)
      <4>1. n \in Indexes
        BY <2>1, <3>5
      <4>2. next = seen + 1 /\ commitments[seen + 1].index = n
        BY <1>2, <4>1
      <4>3. ~(n + 1 <= NbPublic) /\ (n <= NbPublic => n = NbPublic)
        BY <1>1, <3>5
      <4>4. Len(keys.vkK) = NbPublic + seen
        <5>1. CASE n <= NbPublic
          BY <1>1, <1>3, <4>3, <5>1
        <5>2. CASE ~(n <= NbPublic)
          BY <1>1, <5>2
        <5>. QED  BY <5>1, <5>2
      <4>5. /\ ~(NbPublic + seen + 1 <= NbPublic) /\ NbPublic + seen + 1 - NbPublic = seen + 1
            /\ NbPublic + seen + 1 = NbPublic + (seen + 1)
        BY <1>1
      <4>6. Len(d.vkK) = NbPublic + next /\ d.vkK[NbPublic + seen + 1] = n
        BY <3>2, <4>2, <4>4, <4>5
      <4>7. ASSUME NEW k \in 1 .. Len(d.vkK)
            PROVE  d.vkK[k] = IF k <= NbPublic THEN k - 1 ELSE commitments[k - NbPublic].index
        <5>1. CASE k \in 1 .. Len(keys.vkK)
          BY <1>1, <3>2, <5>1
        <5>2. CASE k = NbPublic + seen + 1
          <6>1. ~(k <= NbPublic) /\ k - NbPublic = seen + 1
            <7>1. NbPublic \in Nat /\ seen \in Nat
              BY <1>1
            <7>. QED  BY <5>2, <7>1
          <6>. QED  BY <4>2, <4>6, <5>2, <6>1
        <5>. QED  BY <3>3, <4>4, <5>1, <5>2
      <4>. QED  BY <4>3, <4>6, <4>7
    <3>. QED  BY <3>4, <3>5
  <2>2. CASE ~(n < NbPublic \/ n \in Indexes)
    <3>1. d.vkK = keys.vkK
      BY <2>2, DealFields
    <3>2. next = seen /\ ~(n + 1 <= NbPublic) /\ (n <= NbPublic => n = NbPublic)
      BY <1>1, <2>2
    <3>3. Len(keys.vkK) = NbPublic + seen
      <4>1. CASE n <= NbPublic
        BY <1>1, <1>3, <3>2, <4>1
      <4>2. CASE ~(n <= NbPublic)
        BY <1>1, <4>2
      <4>. QED  BY <4>1, <4>2
    <3>. QED  BY <1>1, <3>1, <3>2, <3>3
  <2>. QED  BY <2>1, <2>2
<1>8. d.pkK = IF n + 1 <= NbPublic THEN <<>> ELSE Kept[(n + 1) - NbPublic]
  <2>1. keys.pkK = IF n <= NbPublic THEN <<>> ELSE Kept[n - NbPublic]
    BY DEF Dealing, DealtPrivate
  <2>2. CASE n < NbPublic
    <3>1. d.pkK = keys.pkK /\ n <= NbPublic /\ n + 1 <= NbPublic
      BY <1>1, <2>2, DealFields
    <3>. QED  BY <2>1, <3>1
  <2>3. CASE ~(n < NbPublic)
    <3>. DEFINE m == n - NbPublic
    <3>1. /\ m \in Nat /\ m + 1 = (n + 1) - NbPublic /\ NbPublic + m = n
          /\ ~(n + 1 <= NbPublic) /\ (n <= NbPublic => m = 0)
      <4>1. NbPublic \in Nat /\ n \in Nat
        BY <1>1
      <4>. QED  BY <2>3, <4>1
    <3>2. keys.pkK = Kept[m]
      BY <2>1, <3>1, KeptEquations
    <3>. HIDE DEF m
    <3>3. Kept[m + 1] = IF n \in Removed THEN Kept[m] ELSE Append(Kept[m], n)
      <4>1. Kept[m + 1] = IF NbPublic + m \in Removed THEN Kept[m]
                              ELSE Append(Kept[m], NbPublic + m)
        BY <3>1, KeptEquations
      <4>. QED  BY <3>1, <4>1
    <3>4. n \in Removed <=> n \in Indexes \/ \E j \in 1 .. L : n \in ToSet(Private(j))
      BY RemovedWires, CommitmentsLen DEF Privates, Indexes, IInv
    <3>5. d.pkK = IF n \in Removed THEN keys.pkK ELSE Append(keys.pkK, n)
      <4>1. CASE n \in Indexes
        BY <3>4, <4>1, DealFields
      <4>2. CASE n \notin Indexes /\ \E j \in 1 .. L : n \in ToSet(Private(j))
        BY <3>4, <4>2, DealFields
      <4>3. CASE n \notin Removed
        BY <2>3, <3>4, <4>3, DealFields
      <4>. QED  BY <3>4, <4>1, <4>2, <4>3
    <3>. QED  BY <3>1, <3>2, <3>3, <3>5
  <2>. QED  BY <2>2, <2>3
<1>. HIDE DEF next
<1>9. /\ d.seen \in 0 .. L
      /\ \A k \in 1 .. d.seen : commitments[k].index < n + 1
      /\ \A k \in d.seen + 1 .. L : n + 1 <= commitments[k].index
  BY <1>4, <1>5
<1>10. Len(d.vkK) = IF n + 1 <= NbPublic THEN n + 1 ELSE NbPublic + d.seen
  BY <1>4, <1>7
<1>11. DealtIndexes(d, n + 1)
  BY <1>9 DEF DealtIndexes
<1>12. DealtLists(d, n + 1)
  BY <1>6 DEF DealtLists
<1>13. DealtPublic(d, n + 1)
  BY <1>7, <1>10 DEF DealtPublic
<1>14. DealtPrivate(d, n + 1)
  BY <1>8 DEF DealtPrivate
<1>. QED  BY <1>11, <1>12, <1>13, <1>14 DEF Dealing

\* What is in the keys when all the wires have been dealt.
LEMMA KeysMatch == ASSUME IInv  PROVE KeysMatchWitness
<1>. DEFINE T == {n \in Nat : Dealing(Dealt[n], n)}
            L == Len(commitments)
<1>1. Nat \subseteq T
  <2>1. 0 \in T
    BY NothingDealt, DealtEquations DEF IInv
  <2>2. ASSUME NEW n \in Nat, n \in T  PROVE n + 1 \in T
    <3>1. Dealt[n] \in KeySets /\ Dealt[n + 1] = Deal(Dealt[n], n)
      BY DealtEquations DEF IInv
    <3>2. Dealing(Dealt[n + 1], n + 1)
      BY <2>2, <3>1, DealStep
    <3>. QED  BY <3>2
  <2>. HIDE DEF T
  <2>. QED  BY <2>1, <2>2, NaturalsAll
<1>2. /\ Typed /\ L \in Nat /\ DOMAIN commitments = 1 .. L /\ nbWires \in Nat
      /\ NbPublic \in Nat \ {0} /\ NbSecret \in Nat /\ NbPublic + NbSecret <= nbWires
      /\ NbPublic <= nbWires
  <2>1. Typed /\ nbWires \in Nat /\ NbPublic + NbSecret <= nbWires
    BY DEF IInv, Typed
  <2>. QED  BY <2>1, CommitmentsLen, WiresAssumption
<1>3. Dealing(Keys, nbWires)
  BY <1>1, <1>2 DEF Keys
<1>4. Keys \in KeySets
  BY <1>2, DealtEquations DEF Keys
<1>. HIDE DEF T
<1>5. Keys.seen = L
  <2>1. Keys.seen \in 0 .. L /\ \A k \in Keys.seen + 1 .. L : nbWires <= commitments[k].index
    BY <1>3 DEF Dealing, DealtIndexes
  <2>. SUFFICES ASSUME Keys.seen < L  PROVE FALSE
    BY <1>2, <2>1
  <2>2. Keys.seen + 1 \in Keys.seen + 1 .. L /\ Keys.seen + 1 \in 1 .. L
    BY <1>2, <2>1
  <2>3. commitments[Keys.seen + 1].index \in NbPublic + NbSecret .. nbWires - 1
    BY <2>2 DEF IInv, IndexesSorted
  <2>4. nbWires <= commitments[Keys.seen + 1].index
    BY <2>1, <2>2
  <2>. QED  BY <1>2, <2>3, <2>4
<1>6. Keys.pkK = WireValues
  <2>1. Keys.pkK = IF nbWires <= NbPublic THEN <<>> ELSE Kept[nbWires - NbPublic]
    BY <1>3 DEF Dealing, DealtPrivate
  <2>2. nbWires <= NbPublic => nbWires - NbPublic = 0
    BY <1>2
  <2>3. PICK m \in Nat : m = nbWires - NbPublic
    BY <1>2
  <2>4. WireValues = Kept[m]
    BY <2>3, FilteredIsKept DEF WireValues
  <2>. QED  BY <2>1, <2>2, <2>3, <2>4, KeptEquations
<1>7. Keys.ckK = GetPrivateCommitted
  <2>1. Keys.ckK \in [1 .. L -> Lists]
    BY <1>4 DEF KeySets
  <2>2. ASSUME NEW j \in 1 .. L  PROVE Keys.ckK[j] = Private(j)
    <3>1. /\ Keys.ckK[j] \o Keys.slices[j] = Private(j)
          /\ \A w \in ToSet(Keys.slices[j]) : nbWires <= w
      BY <1>3 DEF Dealing, DealtLists
    <3>2. /\ Keys.slices[j] \in Lists /\ Keys.ckK[j] \in Lists
          /\ ToSet(Private(j)) = ToSet(Keys.ckK[j]) \union ToSet(Keys.slices[j])
      BY <1>2, <1>3, <1>4, Owner
    <3>3. Keys.slices[j] = <<>>
      <4>. SUFFICES ASSUME Keys.slices[j] # <<>>  PROVE FALSE
        OBVIOUS
      <4>1. PICK w \in ToSet(Keys.slices[j]) : w \in Nat
        <5>1. Len(Keys.slices[j]) \in Nat \ {0}
          BY <3>2 DEF Lists
        <5>2. 1 \in 1 .. Len(Keys.slices[j])
          BY <5>1
        <5>. QED  BY <3>2, <5>2, ListElements
      <4>2. nbWires <= w
        BY <3>1, <4>1
      <4>3. w < commitments[j].index
        BY <3>2, <4>1 DEF IInv, PrivateParts, Private
      <4>4. commitments[j].index \in NbPublic + NbSecret .. nbWires - 1
        BY DEF IInv, IndexesSorted
      <4>. QED  BY <1>2, <4>1, <4>2, <4>3, <4>4
    <3>. QED  BY <3>1, <3>2, <3>3, ConcatEmptySeq DEF Lists
  <2>3. GetPrivateCommitted = [j \in 1 .. L |-> Private(j)]
    BY <1>2 DEF GetPrivateCommitted, Private
  <2>. QED  BY <2>1, <2>2, <2>3
<1>8. Keys.vkK = WireSeq(0, NbPublic - 1) \o CommitmentIndexes
  <2>. DEFINE public == WireSeq(0, NbPublic - 1)
  <2>1. /\ public \in Seq(Nat) /\ Len(public) = NbPublic
        /\ \A k \in 1 .. NbPublic : public[k] = k - 1
    <3>1. NbPublic - 1 - 0 + 1 = NbPublic
      BY <1>2
    <3>2. public = [k \in 1 .. NbPublic |-> 0 + k - 1]
      BY <3>1 DEF WireSeq
    <3>3. \A k \in 1 .. NbPublic : 0 + k - 1 \in Nat /\ 0 + k - 1 = k - 1
      BY <1>2
    <3>. QED  BY <1>2, <3>2, <3>3
  <2>. HIDE DEF public
  <2>2. /\ CommitmentIndexes \in Seq(Nat) /\ Len(CommitmentIndexes) = L
        /\ \A k \in 1 .. L : CommitmentIndexes[k] = commitments[k].index
    BY IndexList DEF IInv, Lists
  <2>3. /\ public \o CommitmentIndexes \in Seq(Nat)
        /\ Len(public \o CommitmentIndexes) = NbPublic + L
        /\ \A k \in 1 .. NbPublic + L :
             (public \o CommitmentIndexes)[k] = IF k <= NbPublic THEN public[k]
                                                ELSE CommitmentIndexes[k - NbPublic]
    <3>1. /\ public \o CommitmentIndexes \in Seq(Nat)
          /\ Len(public \o CommitmentIndexes) = Len(public) + Len(CommitmentIndexes)
          /\ \A k \in 1 .. Len(public) + Len(CommitmentIndexes) :
               (public \o CommitmentIndexes)[k] = IF k <= Len(public) THEN public[k]
                                                  ELSE CommitmentIndexes[k - Len(public)]
      <4>1. public \in Seq(Nat) /\ CommitmentIndexes \in Seq(Nat)
        BY <2>1, <2>2
      <4>. QED  BY <4>1, ConcatProperties
    <3>. QED  BY <2>1, <2>2, <3>1
  <2>4. Keys.vkK \in Seq(Nat)
    BY <1>4 DEF KeySets, Lists
  <2>5. /\ Len(Keys.vkK) = IF nbWires <= NbPublic THEN nbWires ELSE NbPublic + Keys.seen
        /\ \A k \in 1 .. Len(Keys.vkK) :
             Keys.vkK[k] = IF k <= NbPublic THEN k - 1 ELSE commitments[k - NbPublic].index
    BY <1>3 DEF Dealing, DealtPublic
  <2>6. Len(Keys.vkK) = NbPublic + L
    <3>1. CASE nbWires <= NbPublic
      <4>1. nbWires = NbPublic
        BY <1>2, <3>1
      <4>2. L = 0
        <5>. SUFFICES ASSUME L # 0  PROVE FALSE
          OBVIOUS
        <5>1. 1 \in 1 .. L
          BY <1>2
        <5>2. commitments[1].index \in NbPublic + NbSecret .. nbWires - 1
          BY <5>1 DEF IInv, IndexesSorted
        <5>. QED  BY <1>2, <4>1, <5>2
      <4>. QED  BY <1>2, <2>5, <3>1, <4>1, <4>2
    <3>2. CASE ~(nbWires <= NbPublic)
      BY <1>5, <2>5, <3>2
    <3>. QED  BY <3>1, <3>2
  <2>7. ASSUME NEW k \in 1 .. NbPublic + L  PROVE Keys.vkK[k] = (public \o CommitmentIndexes)[k]
    <3>1. CASE k <= NbPublic
      <4>1. k \in 1 .. NbPublic
        BY <1>2, <3>1
      <4>. QED  BY <2>1, <2>3, <2>5, <2>6, <3>1, <4>1
    <3>2. CASE ~(k <= NbPublic)
      <4>1. k - NbPublic \in 1 .. L
        BY <1>2, <3>2
      <4>. QED  BY <2>2, <2>3, <2>5, <2>6, <3>2, <4>1
    <3>. QED  BY <3>1, <3>2
  <2>8. Keys.vkK = public \o CommitmentIndexes
    BY <2>3, <2>4, <2>6, <2>7, SeqEqual
  <2>. QED  BY <2>8 DEF public
<1>9. Len(Keys.pkK) = NbPrivateWires
  BY <1>6, WireValuesLength
<1>. QED  BY <1>6, <1>7, <1>8, <1>9 DEF KeysMatchWitness

\* Setup and prover agree on the wires: every list of points of the keys meets the values
\* the prover has for it, in order, and the room the setup makes for pk.G1.K is filled.
THEOREM KeysAndWitness == Spec => []KeysMatchWitness
BY KeysMatch, Invariance, PTL

=============================================================================

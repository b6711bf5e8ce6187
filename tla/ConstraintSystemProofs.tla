------------------------ MODULE ConstraintSystemProofs ------------------------
(* Whatever instructions are added in whatever order, the compiled system      *)
(* keeps the contract that the solver relies on.                               *)
EXTENDS ConstraintSystem, FiniteSetTheorems, SequenceTheorems, TLAPS

-----------------------------------------------------------------------------
(* The invariant.                                                             *)

Place(l, k) == l \in 1 .. Len(levels) /\ k \in 1 .. Len(levels[l])

\* A wire that an instruction may read: an input, or one that was inserted.
Known(w) == w \in Inputs \/ (HasWire(w) /\ GetWireLevel(w) # LevelUnset)

\* An instruction is in one place.
Placed ==
  /\ \A i \in 1 .. Len(instructions) : \E l, k : Place(l, k) /\ levels[l][k] = i
  /\ \A l, k, m, n : Place(l, k) /\ Place(m, n) /\ levels[l][k] = levels[m][n] => l = m /\ k = n

\* What it sets has its level, and what it reads a lower one.
Leveled ==
  \A l, k : Place(l, k) =>
    /\ \A w \in instructions[levels[l][k]].outputs :
         w \in Internal /\ GetWireLevel(w) = l - 1
    /\ \A w \in instructions[levels[l][k]].reads :
         w \in Inputs \/ (w \in Internal /\ GetWireLevel(w) \in 0 .. l - 2)

\* A wire with a level is the output of an instruction, and of no other.
Written ==
  /\ \A w \in Internal : GetWireLevel(w) # LevelUnset =>
       \E i \in 1 .. Len(instructions) : w \in instructions[i].outputs
  /\ \A i, j \in 1 .. Len(instructions) :
       i # j => instructions[i].outputs \cap instructions[j].outputs = {}

\* Entries of the table are known, and the cache is above those it has seen.
Cache ==
  /\ \A k \in 1 .. Len(entries) : \A w \in entries[k] : Known(w)
  /\ \A k \in 1 .. lookup.maxLevelPosition : \A w \in entries[k] :
       HasWire(w) => GetWireLevel(w) < lookup.maxLevel

NoneEmpty == \A l \in 1 .. Len(levels) : levels[l] # <<>>

IInv == TypeOK /\ Placed /\ Leveled /\ Written /\ Cache /\ NoneEmpty

-----------------------------------------------------------------------------
(* Wires and levels.                                                          *)

LEMMA WireFacts ==
  ASSUME TypeOK
  PROVE  /\ Len(lbWireLevel) \in Nat /\ Len(levels) \in Nat /\ Len(instructions) \in Nat
         /\ NbInputs \in Nat /\ Len(entries) \in Nat
         /\ DOMAIN lbWireLevel = 1 .. Len(lbWireLevel) /\ DOMAIN levels = 1 .. Len(levels)
         /\ DOMAIN instructions = 1 .. Len(instructions)
         /\ \A w \in Wires : HasWire(w) <=> w \in Internal
         /\ \A w \in Internal : w \notin Inputs /\ w - NbInputs + 1 \in 1 .. Len(lbWireLevel)
                                 /\ GetWireLevel(w) \in LevelUnset .. Len(levels) - 1
<1>1. /\ lbWireLevel \in Seq(Int) /\ levels \in Seq(Seq(DOMAIN instructions)) /\ NbInputs \in Nat
      /\ instructions \in Seq([reads : SUBSET Wires, outputs : SUBSET Internal])
      /\ entries \in Seq(SUBSET Wires)
  BY NbInputsAssumption DEF TypeOK
<1>2. /\ Len(lbWireLevel) \in Nat /\ Len(levels) \in Nat /\ Len(instructions) \in Nat
      /\ Len(entries) \in Nat
      /\ DOMAIN lbWireLevel = 1 .. Len(lbWireLevel) /\ DOMAIN levels = 1 .. Len(levels)
      /\ DOMAIN instructions = 1 .. Len(instructions)
  BY <1>1
<1>3. \A w \in Wires : HasWire(w) <=> w \in Internal
  BY <1>1, <1>2 DEF Wires, Inputs, Internal, HasWire
<1>4. \A w \in Internal : w \notin Inputs /\ w - NbInputs + 1 \in 1 .. Len(lbWireLevel)
  BY <1>1, <1>2 DEF Internal, Inputs
<1>5. \A w \in Internal : GetWireLevel(w) \in LevelUnset .. Len(levels) - 1
  BY <1>2, <1>4 DEF TypeOK, GetWireLevel
<1> QED BY <1>1, <1>2, <1>3, <1>4, <1>5

NewPlace(level) == IF level = Len(levels) THEN 1 ELSE Len(levels[level + 1]) + 1

\* AddToLevel keeps every place and adds one, on the level it was asked for.
LEMMA AddPlaces ==
  ASSUME NEW S, levels \in Seq(Seq(S)), NoneEmpty, NEW level \in 0 .. Len(levels), NEW i,
         levels' = AddToLevel(level, i)
  PROVE  /\ Len(levels') \in {Len(levels), Len(levels) + 1} /\ level < Len(levels')
         /\ levels' \in Seq(Seq(S \union {i})) /\ NoneEmpty'
         /\ level + 1 \in 1 .. Len(levels') /\ NewPlace(level) \in 1 .. Len(levels'[level + 1])
         /\ ~ Place(level + 1, NewPlace(level))
         /\ levels'[level + 1][NewPlace(level)] = i
         /\ \A l, k : Place(l, k) => Place(l, k)' /\ levels'[l][k] = levels[l][k]
         /\ \A l, k : Place(l, k)' => Place(l, k) \/ (l = level + 1 /\ k = NewPlace(level))
<1> DEFINE T == S \union {i}
<1>1. levels \in Seq(Seq(T)) /\ i \in T /\ Len(levels) \in Nat
      /\ \A l \in 1 .. Len(levels) : levels[l] \in Seq(T) /\ Len(levels[l]) \in Nat
  <2>1. Seq(S) \subseteq Seq(T)
    OBVIOUS
  <2>2. levels \in Seq(Seq(T))
    BY <2>1
  <2> HIDE DEF T
  <2>3. Len(levels) \in Nat /\ \A l \in 1 .. Len(levels) : levels[l] \in Seq(T) /\ Len(levels[l]) \in Nat
    BY <2>2
  <2> QED BY <2>2, <2>3 DEF T
<1> HIDE DEF T
<1>2. CASE level = Len(levels)
  <2> DEFINE new == <<i>>
  <2>1. levels' = Append(levels, new)
    BY <1>1, <1>2 DEF AddToLevel
  <2>2. new \in Seq(T) /\ Len(new) = 1 /\ new[1] = i /\ new # <<>>
    BY <1>1
  <2> HIDE DEF new
  <2>3. /\ levels' \in Seq(Seq(T)) /\ Len(levels') = Len(levels) + 1
        /\ levels'[Len(levels) + 1] = new
        /\ \A l \in 1 .. Len(levels) : levels'[l] = levels[l]
    BY <1>1, <2>1, <2>2
  <2>4. 1 .. Len(levels') = 1 .. Len(levels) \union {Len(levels) + 1}
        /\ Len(levels) + 1 \notin 1 .. Len(levels)
    BY <1>1, <2>3
  <2>5. NoneEmpty'
    BY <2>2, <2>3, <2>4 DEF NoneEmpty
  <2>6. /\ level + 1 \in 1 .. Len(levels') /\ 1 \in 1 .. Len(levels'[level + 1])
        /\ levels'[level + 1][1] = i /\ ~ Place(level + 1, 1)
    BY <1>2, <2>2, <2>3, <2>4 DEF Place
  <2>7. \A l, k : Place(l, k) => Place(l, k)' /\ levels'[l][k] = levels[l][k]
    BY <2>3, <2>4 DEF Place
  <2>8. \A l, k : Place(l, k)' => Place(l, k) \/ (l = level + 1 /\ k = 1)
    <3> SUFFICES ASSUME NEW l, NEW k, Place(l, k)' PROVE Place(l, k) \/ (l = level + 1 /\ k = 1)
      OBVIOUS
    <3>1. CASE l = level + 1
      <4>1. levels'[l] = new /\ k \in 1 .. Len(levels'[l])
        BY <1>2, <2>3, <3>1 DEF Place
      <4>2. k \in 1 .. 1
        BY <2>2, <4>1
      <4> QED BY <3>1, <4>2
    <3>2. CASE l # level + 1
      BY <1>2, <2>3, <2>4, <3>2 DEF Place
    <3> QED BY <3>1, <3>2
  <2>9. NewPlace(level) = 1
    BY <1>2 DEF NewPlace
  <2>10. level < Len(levels') /\ Len(levels') = Len(levels) + 1
    BY <1>1, <1>2, <2>3
  <2> QED BY <2>3, <2>5, <2>6, <2>7, <2>8, <2>9, <2>10 DEF T
<1>3. CASE level # Len(levels)
  <2> DEFINE old == levels[level + 1]  new == Append(old, i)  K == Len(old) + 1
  <2>1. level + 1 \in 1 .. Len(levels) /\ level < Len(levels)
    BY <1>1, <1>3
  <2>2. levels' = [levels EXCEPT ![level + 1] = new]
    BY <1>1, <2>1 DEF AddToLevel
  <2>3. old \in Seq(T)
    BY <1>1, <2>1
  <2>4. /\ new \in Seq(T) /\ Len(new) = K /\ new[K] = i /\ new # <<>>
        /\ 1 .. K = 1 .. Len(old) \union {K} /\ K \notin 1 .. Len(old)
        /\ \A k \in 1 .. Len(old) : new[k] = old[k]
    <3> HIDE DEF old
    <3>1. /\ new \in Seq(T) /\ Len(new) = K /\ new[K] = i
          /\ Len(old) \in Nat /\ \A k \in 1 .. Len(old) : new[k] = old[k]
      BY <1>1, <2>3
    <3> HIDE DEF new
    <3>2. new # <<>>
      BY <3>1
    <3> QED BY <3>1, <3>2
  <2> HIDE DEF new, K
  <2>5. /\ levels' \in Seq(Seq(T)) /\ Len(levels') = Len(levels)
        /\ levels'[level + 1] = new
        /\ \A l \in 1 .. Len(levels) : l # level + 1 => levels'[l] = levels[l]
    BY <1>1, <2>1, <2>2, <2>4
  <2>6. NoneEmpty'
    BY <2>1, <2>4, <2>5 DEF NoneEmpty
  <2>7. /\ level + 1 \in 1 .. Len(levels') /\ K \in 1 .. Len(levels'[level + 1])
        /\ levels'[level + 1][K] = i /\ ~ Place(level + 1, K)
    <3>1. level + 1 \in 1 .. Len(levels') /\ levels'[level + 1][K] = i
      BY <2>1, <2>4, <2>5
    <3>2. K \in 1 .. Len(levels'[level + 1])
      BY <2>4, <2>5
    <3>3. K \notin 1 .. Len(levels[level + 1])
      BY <2>4
    <3> QED BY <3>1, <3>2, <3>3 DEF Place
  <2>8. \A l, k : Place(l, k) => Place(l, k)' /\ levels'[l][k] = levels[l][k]
    <3> SUFFICES ASSUME NEW l, NEW k, Place(l, k) PROVE Place(l, k)' /\ levels'[l][k] = levels[l][k]
      OBVIOUS
    <3>1. CASE l = level + 1
      BY <2>1, <2>4, <2>5, <3>1 DEF Place
    <3>2. CASE l # level + 1
      BY <2>5, <3>2 DEF Place
    <3> QED BY <3>1, <3>2
  <2>9. \A l, k : Place(l, k)' => Place(l, k) \/ (l = level + 1 /\ k = K)
    <3> SUFFICES ASSUME NEW l, NEW k, Place(l, k)' PROVE Place(l, k) \/ (l = level + 1 /\ k = K)
      OBVIOUS
    <3>1. CASE l = level + 1
      BY <2>1, <2>4, <2>5, <3>1 DEF Place
    <3>2. CASE l # level + 1
      BY <2>5, <3>2 DEF Place
    <3> QED BY <3>1, <3>2
  <2>10. NewPlace(level) = K
    BY <1>3 DEF NewPlace, K
  <2>11. level < Len(levels') /\ Len(levels') = Len(levels)
    BY <2>1, <2>5
  <2> QED BY <2>5, <2>6, <2>7, <2>8, <2>9, <2>10, <2>11 DEF T
<1> QED BY <1>2, <1>3

\* Outputs get the level, other wires keep theirs, new wires without one are unset.
LEMMA AddWires ==
  ASSUME TypeOK, NEW outputs, NEW nbFresh \in Nat, NEW level \in Nat,
         lbWireLevel' = Insert(lbWireLevel \o [k \in 1 .. nbFresh |-> LevelUnset], outputs, level)
  PROVE  /\ Len(lbWireLevel') = Len(lbWireLevel) + nbFresh /\ lbWireLevel' \in Seq(Int)
         /\ \A k \in 1 .. Len(lbWireLevel) + nbFresh :
              lbWireLevel'[k] =
                IF k + NbInputs - 1 \in outputs THEN level
                ELSE IF k <= Len(lbWireLevel) THEN lbWireLevel[k] ELSE LevelUnset
<1> DEFINE fresh == [k \in 1 .. nbFresh |-> LevelUnset]
           n == Len(lbWireLevel)
           all == lbWireLevel \o fresh
           inserted == [k \in DOMAIN all |-> IF k + NbInputs - 1 \in outputs THEN level ELSE all[k]]
<1>1. LevelUnset \in Int
  BY DEF LevelUnset
<1>2. fresh \in Seq(Int) /\ Len(fresh) = nbFresh /\ \A k \in 1 .. nbFresh : fresh[k] = LevelUnset
  BY <1>1
<1>3. lbWireLevel \in Seq(Int) /\ n \in Nat
  BY DEF TypeOK
<1>4. lbWireLevel' = inserted
  BY DEF Insert
<1> HIDE DEF fresh
<1>5. all \in Seq(Int) /\ Len(all) = n + nbFresh /\ DOMAIN all = 1 .. n + nbFresh
  <2>1. all \in Seq(Int) /\ Len(all) = n + nbFresh
    <3> HIDE DEF n
    <3>1. lbWireLevel \in Seq(Int) /\ Len(lbWireLevel) = n
      BY <1>3 DEF n
    <3>2. fresh \in Seq(Int) /\ Len(fresh) = nbFresh
      BY <1>2
    <3>3. all \in Seq(Int) /\ Len(all) = Len(lbWireLevel) + Len(fresh)
      BY <3>1, <3>2, ConcatProperties
    <3> QED BY <3>1, <3>2, <3>3
  <2> HIDE DEF all
  <2> QED BY <2>1
<1>6. \A k \in 1 .. n + nbFresh : all[k] = IF k <= n THEN lbWireLevel[k] ELSE LevelUnset
  <2> SUFFICES ASSUME NEW k \in 1 .. n + nbFresh
               PROVE  all[k] = IF k <= n THEN lbWireLevel[k] ELSE LevelUnset
    OBVIOUS
  <2>1. CASE k <= n
    BY <1>2, <1>3, <2>1
  <2>2. CASE k > n
    <3>1. k - n \in 1 .. nbFresh /\ all[k] = fresh[k - n]
      BY <1>2, <1>3, <2>2
    <3> QED BY <1>2, <1>3, <2>2, <3>1
  <2>3. k <= n \/ k > n
    BY <1>3
  <2> QED BY <2>1, <2>2, <2>3
<1> HIDE DEF all, n
<1>7. \A k \in 1 .. n + nbFresh : all[k] \in Int
  BY <1>3, <1>5
<1>8. inserted \in [1 .. n + nbFresh -> Int]
  BY <1>5, <1>7
<1>9. inserted \in Seq(Int) /\ Len(inserted) = n + nbFresh
  BY <1>3, <1>8
<1>10. \A k \in 1 .. n + nbFresh :
         inserted[k] = IF k + NbInputs - 1 \in outputs THEN level ELSE all[k]
  BY <1>5
<1> QED BY <1>3, <1>4, <1>6, <1>9, <1>10 DEF n

\* The same for the wires themselves.
LEMMA AddLevels ==
  ASSUME TypeOK, NEW outputs, NEW nbFresh \in Nat, NEW level \in Nat,
         lbWireLevel' = Insert(lbWireLevel \o [k \in 1 .. nbFresh |-> LevelUnset], outputs, level)
  PROVE  /\ Internal' = Internal \union Fresh(nbFresh) /\ Internal \cap Fresh(nbFresh) = {}
         /\ Wires' = Wires \union Fresh(nbFresh)
         /\ \A w \in Internal' : GetWireLevel(w)' =
              IF w \in outputs THEN level
              ELSE IF w \in Internal THEN GetWireLevel(w) ELSE LevelUnset
         /\ \A w \in Wires' : HasWire(w)' <=> w \in Internal'
<1>1. /\ Len(lbWireLevel') = Len(lbWireLevel) + nbFresh
      /\ \A k \in 1 .. Len(lbWireLevel) + nbFresh :
           lbWireLevel'[k] =
             IF k + NbInputs - 1 \in outputs THEN level
             ELSE IF k <= Len(lbWireLevel) THEN lbWireLevel[k] ELSE LevelUnset
  BY AddWires
<1>2. Len(lbWireLevel) \in Nat /\ NbInputs \in Nat
  BY WireFacts
<1>3. /\ Internal' = Internal \union Fresh(nbFresh) /\ Internal \cap Fresh(nbFresh) = {}
  BY <1>1, <1>2 DEF Internal, Fresh
<1>4. Wires' = Wires \union Fresh(nbFresh)
  BY <1>3 DEF Wires, Inputs
<1>5. ASSUME NEW w \in Internal'
      PROVE  GetWireLevel(w)' =
               IF w \in outputs THEN level
               ELSE IF w \in Internal THEN GetWireLevel(w) ELSE LevelUnset
  <2> DEFINE k == w - NbInputs + 1
  <2>1. /\ k \in 1 .. Len(lbWireLevel) + nbFresh /\ k + NbInputs - 1 = w
        /\ (k <= Len(lbWireLevel) <=> w \in Internal)
    BY <1>1, <1>2 DEF Internal
  <2>2. GetWireLevel(w) = lbWireLevel[k] /\ GetWireLevel(w)' = lbWireLevel'[k]
    BY DEF GetWireLevel
  <2> HIDE DEF k
  <2> QED BY <1>1, <2>1, <2>2
<1>6. \A w \in Wires' : HasWire(w)' <=> w \in Internal'
  BY <1>1, <1>2 DEF Wires, Inputs, Internal, HasWire
<1> QED BY <1>3, <1>4, <1>5, <1>6

-----------------------------------------------------------------------------
(* An instruction that reads known wires of lower levels and sets wires without *)
(* a level.                                                                   *)

Fits(reads, outputs, nbFresh, level) ==
  /\ nbFresh \in Nat /\ level \in 0 .. Len(levels)
  /\ \A w \in reads : w \in Inputs \/ (w \in Internal /\ GetWireLevel(w) \in 0 .. level - 1)
  /\ \A w \in outputs : \/ w \in Internal /\ GetWireLevel(w) = LevelUnset
                        \/ w \in Fresh(nbFresh)

\* Wires that have a level keep it, and the outputs had none.
LEMMA KnownStay ==
  ASSUME IInv, NEW reads, NEW outputs, NEW nbFresh, NEW level,
         Fits(reads, outputs, nbFresh, level), AddInstruction(reads, outputs, nbFresh, level)
  PROVE  /\ Internal \subseteq Internal' /\ Wires \subseteq Wires'
         /\ \A w \in Internal : GetWireLevel(w) # LevelUnset =>
              w \notin outputs /\ GetWireLevel(w)' = GetWireLevel(w)
         /\ \A w \in outputs : w \in Internal' /\ GetWireLevel(w)' = level
         /\ \A w \in Internal' : GetWireLevel(w)' # LevelUnset =>
              w \in outputs \/ (w \in Internal /\ GetWireLevel(w) # LevelUnset)
<1>1. /\ Internal' = Internal \union Fresh(nbFresh) /\ Internal \cap Fresh(nbFresh) = {}
      /\ Wires' = Wires \union Fresh(nbFresh)
      /\ \A w \in Internal' : GetWireLevel(w)' =
           IF w \in outputs THEN level
           ELSE IF w \in Internal THEN GetWireLevel(w) ELSE LevelUnset
  <2>1. /\ TypeOK /\ nbFresh \in Nat /\ level \in Nat
        /\ lbWireLevel' =
             Insert(lbWireLevel \o [k \in 1 .. nbFresh |-> LevelUnset], outputs, level)
    BY DEF IInv, Fits, AddInstruction
  <2> QED BY <2>1, AddLevels
<1> QED BY <1>1 DEF Fits

LEMMA AddKeepsOrder ==
  ASSUME IInv, NEW reads, NEW outputs, NEW nbFresh, NEW level,
         Fits(reads, outputs, nbFresh, level), AddInstruction(reads, outputs, nbFresh, level)
  PROVE  Placed' /\ Leveled' /\ Written' /\ NoneEmpty'
<1> DEFINE N == Len(instructions)
           new == [reads |-> reads, outputs |-> outputs]
<1>0. PICK K : K = NewPlace(level)
  OBVIOUS
<1>1. /\ N \in Nat /\ Len(instructions') = N + 1 /\ instructions'[N + 1] = new
      /\ \A i \in 1 .. N : instructions'[i] = instructions[i]
  BY DEF IInv, TypeOK, AddInstruction
<1>2. /\ NoneEmpty' /\ Place(level + 1, K)' /\ ~ Place(level + 1, K)
      /\ levels'[level + 1][K] = N + 1
      /\ \A l, k : Place(l, k) => Place(l, k)' /\ levels'[l][k] = levels[l][k]
      /\ \A l, k : Place(l, k)' => Place(l, k) \/ (l = level + 1 /\ k = K)
  <2>1. /\ levels \in Seq(Seq(1 .. N)) /\ NoneEmpty /\ level \in 0 .. Len(levels)
        /\ levels' = AddToLevel(level, N + 1)
    BY DEF IInv, TypeOK, Fits, AddInstruction
  <2>2. /\ NoneEmpty' /\ ~ Place(level + 1, K) /\ levels'[level + 1][K] = N + 1
        /\ level + 1 \in 1 .. Len(levels') /\ K \in 1 .. Len(levels'[level + 1])
        /\ \A l, k : Place(l, k) => Place(l, k)' /\ levels'[l][k] = levels[l][k]
        /\ \A l, k : Place(l, k)' => Place(l, k) \/ (l = level + 1 /\ k = K)
    <3> HIDE DEF N
    <3> QED BY <1>0, <2>1, AddPlaces
  <2>3. Place(level + 1, K)'
    BY <2>2 DEF Place
  <2> QED BY <2>2, <2>3
<1>3. \A l, k : Place(l, k) => levels[l][k] \in 1 .. N
  <2>1. levels \in Seq(Seq(1 .. N))
    BY DEF IInv, TypeOK
  <2> QED BY <2>1 DEF Place
<1>4. /\ Internal \subseteq Internal' /\ Wires \subseteq Wires'
      /\ \A w \in Internal : GetWireLevel(w) # LevelUnset =>
           w \notin outputs /\ GetWireLevel(w)' = GetWireLevel(w)
      /\ \A w \in outputs : w \in Internal' /\ GetWireLevel(w)' = level
      /\ \A w \in Internal' : GetWireLevel(w)' # LevelUnset =>
           w \in outputs \/ (w \in Internal /\ GetWireLevel(w) # LevelUnset)
  BY KnownStay
<1>5. Placed'
  <2>1. ASSUME NEW i \in 1 .. N + 1
        PROVE  \E l, k : Place(l, k)' /\ levels'[l][k] = i
    <3>1. CASE i = N + 1
      <4>1. Place(level + 1, K)' /\ levels'[level + 1][K] = i
        BY <1>2, <3>1
      <4> QED BY <4>1
    <3>2. CASE i # N + 1
      <4>1. i \in 1 .. N
        BY <1>1, <3>2
      <4>2. PICK l, k : Place(l, k) /\ levels[l][k] = i
        BY <4>1 DEF IInv, Placed
      <4> QED BY <1>2, <4>2
    <3> QED BY <3>1, <3>2
  <2>2. ASSUME NEW l, NEW k, NEW m, NEW n, Place(l, k)', Place(m, n)', levels'[l][k] = levels'[m][n]
        PROVE  l = m /\ k = n
    <3>1. CASE Place(l, k) /\ Place(m, n)
      BY <1>2, <2>2, <3>1 DEF IInv, Placed
    <3>2. CASE ~ Place(l, k) /\ Place(m, n)
      <4>1. levels'[l][k] = N + 1 /\ levels'[m][n] \in 1 .. N
        BY <1>2, <1>3, <2>2, <3>2
      <4> QED BY <1>1, <2>2, <4>1
    <3>3. CASE Place(l, k) /\ ~ Place(m, n)
      <4>1. levels'[m][n] = N + 1 /\ levels'[l][k] \in 1 .. N
        BY <1>2, <1>3, <2>2, <3>3
      <4> QED BY <1>1, <2>2, <4>1
    <3>4. CASE ~ Place(l, k) /\ ~ Place(m, n)
      BY <1>2, <2>2, <3>4
    <3> QED BY <3>1, <3>2, <3>3, <3>4
  <2> QED BY <1>1, <2>1, <2>2 DEF Placed
<1>6. Leveled'
  <2> SUFFICES ASSUME NEW l, NEW k, Place(l, k)'
               PROVE  /\ \A w \in instructions'[levels'[l][k]].outputs :
                           w \in Internal' /\ GetWireLevel(w)' = l - 1
                      /\ \A w \in instructions'[levels'[l][k]].reads :
                           w \in Inputs \/ (w \in Internal' /\ GetWireLevel(w)' \in 0 .. l - 2)
    BY DEF Leveled, Inputs
  <2>1. level \in Nat
    BY DEF Fits
  <2>2. CASE Place(l, k)
    <3>1. instructions'[levels'[l][k]] = instructions[levels[l][k]] /\ l \in Nat \ {0}
      <4>1. levels'[l][k] = levels[l][k] /\ levels[l][k] \in 1 .. N
        BY <1>2, <1>3, <2>2
      <4>2. l \in Nat \ {0}
        BY <2>2 DEF Place
      <4> QED BY <1>1, <4>1, <4>2
    <3>2. /\ \A w \in instructions[levels[l][k]].outputs :
               w \in Internal /\ GetWireLevel(w) = l - 1
          /\ \A w \in instructions[levels[l][k]].reads :
               w \in Inputs \/ (w \in Internal /\ GetWireLevel(w) \in 0 .. l - 2)
      BY <2>2 DEF IInv, Leveled
    <3>3. l - 1 # LevelUnset /\ LevelUnset \notin 0 .. l - 2
      BY <3>1 DEF LevelUnset
    <3> QED BY <1>4, <3>1, <3>2, <3>3
  <2>3. CASE ~ Place(l, k)
    <3>1. l = level + 1 /\ instructions'[levels'[l][k]] = new
      BY <1>1, <1>2, <2>3
    <3>2. l - 1 = level /\ l - 2 = level - 1
      BY <2>1, <3>1
    <3>3. \A w \in outputs : w \in Internal' /\ GetWireLevel(w)' = level
      BY <1>4
    <3>4. \A w \in reads : w \in Inputs \/ (w \in Internal' /\ GetWireLevel(w)' \in 0 .. level - 1)
      <4>1. LevelUnset \notin 0 .. level - 1
        BY <2>1 DEF LevelUnset
      <4> QED BY <1>4, <4>1 DEF Fits
    <3> QED BY <3>1, <3>2, <3>3, <3>4
  <2> QED BY <2>2, <2>3
<1>7. Written'
  <2>1. ASSUME NEW w \in Internal', GetWireLevel(w)' # LevelUnset
        PROVE  \E i \in 1 .. N + 1 : w \in instructions'[i].outputs
    <3>1. CASE w \in outputs
      BY <1>1, <3>1
    <3>2. CASE w \notin outputs
      <4>1. w \in Internal /\ GetWireLevel(w) # LevelUnset
        BY <1>4, <2>1, <3>2
      <4>2. PICK i \in 1 .. N : w \in instructions[i].outputs
        BY <4>1 DEF IInv, Written
      <4> QED BY <1>1, <4>2
    <3> QED BY <3>1, <3>2
  <2>2. \A i \in 1 .. N : instructions[i].outputs \cap outputs = {}
    <3> SUFFICES ASSUME NEW i \in 1 .. N, NEW w \in instructions[i].outputs PROVE w \notin outputs
      OBVIOUS
    <3>1. PICK l, k : Place(l, k) /\ levels[l][k] = i
      BY DEF IInv, Placed
    <3>2. w \in Internal /\ GetWireLevel(w) = l - 1
      BY <3>1 DEF IInv, Leveled
    <3>3. l - 1 # LevelUnset
      BY <3>1 DEF Place, LevelUnset
    <3> QED BY <1>4, <3>2, <3>3
  <2>3. ASSUME NEW i \in 1 .. N + 1, NEW j \in 1 .. N + 1, i # j
        PROVE  instructions'[i].outputs \cap instructions'[j].outputs = {}
    <3>1. CASE i \in 1 .. N /\ j \in 1 .. N
      BY <1>1, <2>3, <3>1 DEF IInv, Written
    <3>2. CASE i = N + 1 /\ j \in 1 .. N
      BY <1>1, <2>2, <3>2
    <3>3. CASE i \in 1 .. N /\ j = N + 1
      BY <1>1, <2>2, <3>3
    <3> QED BY <1>1, <2>3, <3>1, <3>2, <3>3
  <2> QED BY <1>1, <2>1, <2>3 DEF Written
<1> QED BY <1>2, <1>5, <1>6, <1>7

LEMMA AddKeepsTypes ==
  ASSUME IInv, NEW reads \in SUBSET Wires, NEW outputs, NEW nbFresh, NEW level,
         Fits(reads, outputs, nbFresh, level), AddInstruction(reads, outputs, nbFresh, level)
  PROVE  /\ Len(levels') \in {Len(levels), Len(levels) + 1}
         /\ lbWireLevel' \in Seq(Int)
         /\ \A k \in DOMAIN lbWireLevel' : lbWireLevel'[k] \in LevelUnset .. Len(levels') - 1
         /\ instructions' \in Seq([reads : SUBSET Wires, outputs : SUBSET Internal])'
         /\ levels' \in Seq(Seq(DOMAIN instructions))'
         /\ Seq(SUBSET Wires) \subseteq Seq(SUBSET Wires')
<1> DEFINE N == Len(instructions)
           new == [reads |-> reads, outputs |-> outputs]
           A == [reads : SUBSET Wires, outputs : SUBSET Internal]
           R == [reads : SUBSET Wires', outputs : SUBSET Internal']
<1>1. TypeOK /\ nbFresh \in Nat /\ level \in Nat /\ level \in 0 .. Len(levels)
  BY DEF IInv, Fits
<1>2. /\ N \in Nat /\ levels \in Seq(Seq(1 .. N)) /\ NoneEmpty
      /\ levels' = AddToLevel(level, N + 1)
  BY DEF IInv, TypeOK, AddInstruction
<1>3. /\ Len(levels') \in {Len(levels), Len(levels) + 1} /\ level < Len(levels')
      /\ levels' \in Seq(Seq(1 .. N \union {N + 1}))
  <2> HIDE DEF N
  <2> QED BY <1>1, <1>2, AddPlaces
<1>4. Internal \subseteq Internal' /\ Wires \subseteq Wires' /\ outputs \in SUBSET Internal'
  BY KnownStay
<1>5. instructions' \in Seq(R) /\ DOMAIN instructions' = 1 .. N \union {N + 1}
  <2>1. A \subseteq R /\ new \in R
    BY <1>4
  <2>2. instructions \in Seq(A)
    BY <1>1 DEF TypeOK
  <2>3. instructions' = Append(instructions, new)
    BY DEF AddInstruction
  <2> HIDE DEF new, A, R
  <2>4. instructions \in Seq(R)
    BY <2>1, <2>2
  <2>5. instructions' \in Seq(R) /\ Len(instructions') = N + 1
    BY <2>1, <2>3, <2>4
  <2> QED BY <1>2, <2>5
<1>6. levels' \in Seq(Seq(DOMAIN instructions'))
  BY <1>3, <1>5
<1>7. /\ Len(lbWireLevel') = Len(lbWireLevel) + nbFresh /\ lbWireLevel' \in Seq(Int)
      /\ \A k \in 1 .. Len(lbWireLevel) + nbFresh :
           lbWireLevel'[k] =
             IF k + NbInputs - 1 \in outputs THEN level
             ELSE IF k <= Len(lbWireLevel) THEN lbWireLevel[k] ELSE LevelUnset
  BY <1>1, AddWires DEF AddInstruction
<1>8. ASSUME NEW k \in DOMAIN lbWireLevel'
      PROVE  lbWireLevel'[k] \in LevelUnset .. Len(levels') - 1
  <2>1. k \in 1 .. Len(lbWireLevel) + nbFresh
    BY <1>7
  <2>2. k <= Len(lbWireLevel) => lbWireLevel[k] \in LevelUnset .. Len(levels) - 1
    BY <1>1, <2>1 DEF TypeOK
  <2>3. Len(levels) \in Nat
    BY <1>2
  <2>4. lbWireLevel'[k] \in {level, lbWireLevel[k], LevelUnset}
        /\ (k <= Len(lbWireLevel) \/ lbWireLevel'[k] \in {level, LevelUnset})
    BY <1>7, <2>1
  <2> QED BY <1>1, <1>3, <2>2, <2>3, <2>4 DEF LevelUnset
<1>9. Seq(SUBSET Wires) \subseteq Seq(SUBSET Wires')
  <2>1. SUBSET Wires \subseteq SUBSET Wires'
    BY <1>4
  <2> QED BY <2>1
<1> QED BY <1>3, <1>5, <1>6, <1>7, <1>8, <1>9

\* The invariant holds again, when the entries the cache has seen are still below it.
LEMMA AddKeeps ==
  ASSUME IInv, NEW reads \in SUBSET Wires, NEW outputs, NEW nbFresh, NEW level,
         Fits(reads, outputs, nbFresh, level), AddInstruction(reads, outputs, nbFresh, level),
         entries' = entries,
         lookup' \in [maxLevel : 0 .. Len(levels), maxLevelPosition : 0 .. Len(entries)],
         \A k \in 1 .. lookup'.maxLevelPosition : \A w \in entries[k] :
           HasWire(w) => GetWireLevel(w) < lookup'.maxLevel
  PROVE  IInv' /\ Len(levels') \in {Len(levels), Len(levels) + 1}
<1>1. /\ Len(levels') \in {Len(levels), Len(levels) + 1}
      /\ lbWireLevel' \in Seq(Int)
      /\ \A k \in DOMAIN lbWireLevel' : lbWireLevel'[k] \in LevelUnset .. Len(levels') - 1
      /\ instructions' \in Seq([reads : SUBSET Wires, outputs : SUBSET Internal])'
      /\ levels' \in Seq(Seq(DOMAIN instructions))'
      /\ Seq(SUBSET Wires) \subseteq Seq(SUBSET Wires')
  BY AddKeepsTypes
<1>2. Placed' /\ Leveled' /\ Written' /\ NoneEmpty'
  BY AddKeepsOrder
<1>3. /\ Len(levels) \in Nat /\ Len(entries) \in Nat /\ entries \in Seq(SUBSET Wires)
      /\ \A w \in Wires : HasWire(w) <=> w \in Internal
      /\ \A w \in Internal : w \notin Inputs
  <2>1. TypeOK
    BY DEF IInv
  <2> QED BY <2>1, WireFacts DEF TypeOK
<1>4. TypeOK'
  <2>1. lookup' \in [maxLevel : 0 .. Len(levels), maxLevelPosition : 0 .. Len(entries)]'
    BY <1>1, <1>3
  <2>2. entries' \in Seq(SUBSET Wires')
    BY <1>1, <1>3
  <2> QED BY <1>1, <2>1, <2>2 DEF TypeOK
<1>5. /\ Internal \subseteq Internal'
      /\ \A w \in Internal : GetWireLevel(w) # LevelUnset => GetWireLevel(w)' = GetWireLevel(w)
  BY KnownStay
<1>6. \A w \in Internal' : HasWire(w)'
  BY <1>1, NbInputsAssumption DEF Internal, HasWire
<1>7. ASSUME NEW k \in 1 .. Len(entries), NEW w \in entries[k]
      PROVE  /\ Known(w)'
             /\ k \in 1 .. lookup'.maxLevelPosition /\ HasWire(w)' =>
                  GetWireLevel(w)' < lookup'.maxLevel
  <2>1. Known(w) /\ w \in Wires
    BY <1>3 DEF IInv, Cache
  <2>2. CASE w \in Inputs
    <3>1. ~ HasWire(w)'
      BY <1>4, <2>2, NbInputsAssumption DEF Inputs, HasWire
    <3> QED BY <2>2, <3>1 DEF Known, Inputs
  <2>3. CASE w \notin Inputs
    <3>1. HasWire(w) /\ w \in Internal /\ GetWireLevel(w) # LevelUnset
      BY <1>3, <2>1, <2>3 DEF Known
    <3> QED BY <1>5, <1>6, <3>1 DEF Known
  <2> QED BY <2>2, <2>3
<1>8. Cache'
  <2>1. lookup'.maxLevelPosition \in 0 .. Len(entries)
    OBVIOUS
  <2> QED BY <1>3, <1>7, <2>1 DEF Cache
<1> QED BY <1>1, <1>2, <1>4, <1>8 DEF IInv

-----------------------------------------------------------------------------
(* Levels that the actions compute.                                           *)

\* The level after those of the wires and of the table.
LEMMA MaxLevel ==
  ASSUME TypeOK, NEW W \in SUBSET Wires, NEW floor \in LevelUnset .. Len(levels) - 1,
         NEW max \in MaxWith(floor, Levels(W))
  PROVE  /\ max \in LevelUnset .. Len(levels) - 1 /\ floor <= max
         /\ \A w \in W : w \in Inputs \/ (w \in Internal /\ GetWireLevel(w) <= max)
<1>1. /\ max \in {floor} \union Levels(W) /\ max >= floor /\ \A l \in Levels(W) : l <= max
  BY DEF MaxWith
<1>2. \A w \in W : w \in Inputs \/ (w \in Internal /\ HasWire(w))
  BY WireFacts DEF Wires
<1>3. \A w \in W : HasWire(w) => GetWireLevel(w) \in Levels(W)
  BY DEF Levels
<1>4. \A l \in Levels(W) : l \in LevelUnset .. Len(levels) - 1
  BY WireFacts DEF Levels, Wires
<1>5. max \in LevelUnset .. Len(levels) - 1
  BY <1>1, <1>4
<1>6. Len(levels) \in Nat /\ floor <= max
  BY <1>1, <1>4, WireFacts DEF LevelUnset
<1> QED BY <1>1, <1>2, <1>3, <1>5, <1>6

\* Wires that are all known fit below the level after theirs.
LEMMA KnownFit ==
  ASSUME TypeOK, NEW reads \in SUBSET Wires, NEW outputs, NEW nbFresh \in Nat,
         NEW max \in LevelUnset .. Len(levels) - 1,
         \A w \in reads : w \in Inputs \/ (w \in Internal /\ GetWireLevel(w) <= max),
         Unset(reads) = {},
         \A w \in outputs : w \in Unset(Wires) \/ w \in Fresh(nbFresh)
  PROVE  Fits(reads, outputs, nbFresh, max + 1)
<1>1. Len(levels) \in Nat /\ max + 1 \in 0 .. Len(levels)
  BY WireFacts DEF LevelUnset
<1>2. ASSUME NEW w \in reads, w \notin Inputs
      PROVE  w \in Internal /\ GetWireLevel(w) \in 0 .. max + 1 - 1
  <2>1. w \in Internal /\ GetWireLevel(w) <= max /\ GetWireLevel(w) \in LevelUnset .. Len(levels) - 1
    BY <1>2, WireFacts
  <2>2. GetWireLevel(w) # LevelUnset
    <3>1. HasWire(w)
      BY <2>1, WireFacts DEF Wires
    <3> QED BY <3>1 DEF Unset
  <2> QED BY <1>1, <2>1, <2>2 DEF LevelUnset
<1>3. ASSUME NEW w \in outputs
      PROVE  (w \in Internal /\ GetWireLevel(w) = LevelUnset) \/ w \in Fresh(nbFresh)
  BY WireFacts DEF Unset
<1> QED BY <1>1, <1>2, <1>3 DEF Fits

\* A constraint with no table: its wires without a level are its outputs.
LEMMA ConstraintKeeps ==
  ASSUME IInv, NEW W \in SUBSET Wires, NEW nbFresh \in Nat,
         NEW outputs \in SUBSET (Unset(Wires) \union Fresh(nbFresh)), Unset(W) = {}, NEW max \in MaxWith(LevelUnset, Levels(W)),
         AddInstruction(W, outputs, nbFresh, max + 1), UNCHANGED <<entries, lookup>>
  PROVE  IInv' /\ Len(levels') \in {Len(levels), Len(levels) + 1}
<1>1. TypeOK /\ Len(levels) \in Nat /\ LevelUnset \in LevelUnset .. Len(levels) - 1
  <2>1. TypeOK
    BY DEF IInv
  <2> QED BY <2>1, WireFacts DEF LevelUnset
<1>2. Fits(W, outputs, nbFresh, max + 1)
  <2>1. /\ max \in LevelUnset .. Len(levels) - 1
        /\ \A w \in W : w \in Inputs \/ (w \in Internal /\ GetWireLevel(w) <= max)
    BY <1>1, MaxLevel
  <2>2. \A w \in outputs : w \in Unset(Wires) \/ w \in Fresh(nbFresh)
    OBVIOUS
  <2> QED BY <1>1, <2>1, <2>2, KnownFit
<1>3. lookup \in [maxLevel : 0 .. Len(levels), maxLevelPosition : 0 .. Len(entries)]
  BY <1>1 DEF TypeOK
<1>4. \A k \in 1 .. lookup.maxLevelPosition : \A w \in entries[k] :
        HasWire(w) => GetWireLevel(w) < lookup.maxLevel
  BY DEF IInv, Cache
<1> QED BY <1>2, <1>3, <1>4, AddKeeps

-----------------------------------------------------------------------------
(* The actions.                                                               *)

LEMMA AddInternalVariableKeeps ==
  ASSUME IInv, AddInternalVariable
  PROVE  IInv' /\ Len(levels') = Len(levels)
<1> USE DEF AddInternalVariable
<1>0. PICK n : n = Len(lbWireLevel)
  OBVIOUS
<1>1. TypeOK
  BY DEF IInv
<1>2. /\ n = Len(lbWireLevel) /\ n \in Nat /\ NbInputs \in Nat /\ lbWireLevel \in Seq(Int)
      /\ \A w \in Wires : HasWire(w) <=> w \in Internal
  BY <1>0, <1>1, WireFacts DEF TypeOK
<1>3. /\ lbWireLevel' \in Seq(Int) /\ Len(lbWireLevel') = n + 1
      /\ lbWireLevel'[n + 1] = LevelUnset /\ \A k \in 1 .. n : lbWireLevel'[k] = lbWireLevel[k]
  BY <1>2 DEF LevelUnset
<1>4. Internal' = Internal \union {NbInputs + n} /\ Wires' = Wires \union {NbInputs + n}
  <2>1. Internal' = Internal \union {NbInputs + n}
    <3>1. Internal = NbInputs .. NbInputs + n - 1 /\ Internal' = NbInputs .. NbInputs + (n + 1) - 1
      BY <1>2, <1>3 DEF Internal
    <3>2. \A w : w \in NbInputs .. NbInputs + (n + 1) - 1
                  <=> w \in NbInputs .. NbInputs + n - 1 \/ w = NbInputs + n
      <4>1. n \in Nat /\ NbInputs \in Nat
        BY <1>2
      <4> QED BY <4>1
    <3> QED BY <3>1, <3>2
  <2> QED BY <2>1 DEF Wires, Inputs
<1>5. GetWireLevel(NbInputs + n)' = LevelUnset
  BY <1>2, <1>3 DEF GetWireLevel
<1>6. \A w \in Internal : GetWireLevel(w)' = GetWireLevel(w)
  BY <1>2, <1>3 DEF GetWireLevel, Internal
<1>7. \A w \in Wires : HasWire(w)' <=> HasWire(w)
  BY <1>2, <1>3 DEF HasWire, Wires, Inputs, Internal
<1>8. TypeOK'
  <2>1. instructions \in Seq([reads : SUBSET Wires', outputs : SUBSET Internal'])
    <3> DEFINE A == [reads : SUBSET Wires, outputs : SUBSET Internal]
               R == [reads : SUBSET Wires', outputs : SUBSET Internal']
    <3>1. A \subseteq R /\ instructions \in Seq(A)
      BY <1>1, <1>4 DEF TypeOK
    <3> HIDE DEF A, R
    <3>2. instructions \in Seq(R)
      BY <3>1
    <3> QED BY <3>2 DEF R
  <2>2. entries \in Seq(SUBSET Wires')
    <3>1. SUBSET Wires \subseteq SUBSET Wires' /\ entries \in Seq(SUBSET Wires)
      BY <1>1, <1>4 DEF TypeOK
    <3> QED BY <3>1
  <2>3. ASSUME NEW k \in DOMAIN lbWireLevel'
        PROVE  lbWireLevel'[k] \in LevelUnset .. Len(levels) - 1
    <3>1. k \in 1 .. n \/ k = n + 1
      BY <1>2, <1>3
    <3>2. LevelUnset \in LevelUnset .. Len(levels) - 1
      BY <1>1, WireFacts DEF LevelUnset
    <3>3. k \in 1 .. n => lbWireLevel[k] \in LevelUnset .. Len(levels) - 1
      BY <1>1, <1>2 DEF TypeOK
    <3> QED BY <1>3, <3>1, <3>2, <3>3
  <2> QED BY <1>1, <1>3, <2>1, <2>2, <2>3 DEF TypeOK
<1>9. Placed' /\ NoneEmpty'
  BY DEF IInv, Placed, NoneEmpty, Place
<1>10. Leveled'
  <2> SUFFICES ASSUME NEW l, NEW k, Place(l, k)
               PROVE  /\ \A w \in instructions[levels[l][k]].outputs :
                           w \in Internal' /\ GetWireLevel(w)' = l - 1
                      /\ \A w \in instructions[levels[l][k]].reads :
                           w \in Inputs \/ (w \in Internal' /\ GetWireLevel(w)' \in 0 .. l - 2)
    BY DEF Leveled, Inputs, Place
  <2> QED BY <1>4, <1>6 DEF IInv, Leveled
<1>11. Written'
  BY <1>4, <1>5, <1>6 DEF IInv, Written
<1>12. Cache'
  <2>1. \A k \in 1 .. Len(entries) : entries[k] \subseteq Wires
    BY <1>1 DEF TypeOK
  <2>2. lookup.maxLevelPosition \in 0 .. Len(entries) /\ Len(entries) \in Nat
    BY <1>1, WireFacts DEF TypeOK
  <2>3. \A w \in Wires : Known(w) => Known(w)'
    BY <1>2, <1>6, <1>7 DEF Known, Inputs
  <2>4. \A k \in 1 .. Len(entries) : \A w \in entries[k] : Known(w)'
    BY <2>1, <2>3 DEF IInv, Cache
  <2>5. \A k \in 1 .. lookup.maxLevelPosition : \A w \in entries[k] :
          HasWire(w)' => GetWireLevel(w)' < lookup.maxLevel
    BY <1>2, <1>6, <1>7, <2>1, <2>2 DEF IInv, Cache
  <2> QED BY <2>4, <2>5 DEF Cache
<1> QED BY <1>8, <1>9, <1>10, <1>11, <1>12 DEF IInv

LEMMA InsertEntryKeeps ==
  ASSUME IInv, NEW W \in Expressions, AllSet(W), InsertEntry(W)
  PROVE  IInv' /\ Len(levels') = Len(levels)
<1> USE DEF InsertEntry
<1>1. TypeOK /\ W \in SUBSET Wires
  BY DEF IInv, Expressions
<1>2. /\ Len(entries') = Len(entries) + 1 /\ Len(entries) \in Nat
      /\ entries'[Len(entries) + 1] = W /\ entries' \in Seq(SUBSET Wires)
      /\ \A k \in 1 .. Len(entries) : entries'[k] = entries[k]
  BY <1>1 DEF TypeOK
<1>3. TypeOK'
  <2>1. lookup \in [maxLevel : 0 .. Len(levels), maxLevelPosition : 0 .. Len(entries')]
    BY <1>1, <1>2 DEF TypeOK
  <2>2. Wires' = Wires /\ Internal' = Internal
    BY DEF Wires, Inputs, Internal
  <2> QED BY <1>1, <1>2, <2>1, <2>2 DEF TypeOK
<1>4. Placed' /\ NoneEmpty' /\ Written'
  BY DEF IInv, Placed, NoneEmpty, Place, Written, Internal, GetWireLevel
<1>5. Leveled'
  BY DEF IInv, Leveled, Place, Inputs, Internal, GetWireLevel
<1>6. \A w \in W : Known(w)
  BY <1>1, WireFacts DEF AllSet, Unset, Known, Wires
<1>7. \A k \in 1 .. Len(entries') : \A w \in entries'[k] : Known(w)
  BY <1>2, <1>6 DEF IInv, Cache
<1>8. \A k \in 1 .. lookup.maxLevelPosition : \A w \in entries'[k] :
        HasWire(w) => GetWireLevel(w) < lookup.maxLevel
  <2>1. lookup.maxLevelPosition \in 0 .. Len(entries)
    BY <1>1 DEF TypeOK
  <2> QED BY <1>2, <2>1 DEF IInv, Cache
<1>9. Cache'
  BY <1>7, <1>8 DEF Cache, Known, Inputs, HasWire, GetWireLevel
<1> QED BY <1>3, <1>4, <1>5, <1>9 DEF IInv

LEMMA AddR1CKeeps ==
  ASSUME IInv, NEW W \in Expressions, AddR1C(W)
  PROVE  IInv' /\ Len(levels') \in {Len(levels), Len(levels) + 1}
<1>1. W \in SUBSET Wires /\ W \ Unset(W) \in SUBSET Wires /\ Unset(W \ Unset(W)) = {}
  BY DEF Expressions, Unset
<1>2. Unset(W) \in SUBSET (Unset(Wires) \union Fresh(0))
  BY <1>1 DEF Unset
<1>3. PICK max \in MaxWith(LevelUnset, Levels(W \ Unset(W))) :
        AddInstruction(W \ Unset(W), Unset(W), 0, max + 1)
  BY DEF AddR1C
<1> QED BY <1>1, <1>2, <1>3, ConstraintKeeps DEF AddR1C

LEMMA AddSparseR1CKeeps ==
  ASSUME IInv, NEW xa \in Wires, NEW xb \in Wires, NEW xc \in Wires,
         OneOutput({xa, xb, xc}), AddSparseR1C(xa, xb, xc)
  PROVE  IInv' /\ Len(levels') \in {Len(levels), Len(levels) + 1}
<1> DEFINE x == <<xa, xb, xc>>
           W == {xa, xb, xc}
           outputs == {x[k] : k \in {k \in 1 .. 3 : /\ x[k] \in Unset(W)
                                                    /\ \A j \in k + 1 .. 3 : x[j] \notin Unset(W)}}
<1>1. /\ Cardinality(Unset(W)) <= 1
      /\ \E max \in MaxWith(LevelUnset, Levels(W \ Unset(W))) :
           AddInstruction(W \ outputs, outputs, 0, max + 1)
      /\ UNCHANGED <<entries, lookup>>
  BY DEF OneOutput, AddSparseR1C
<1>2. W \in SUBSET Wires /\ W \ Unset(W) \in SUBSET Wires /\ Unset(W \ Unset(W)) = {}
      /\ Unset(W) \subseteq W
  BY DEF Unset
<1>3. \A u, v \in Unset(W) : u = v
  <2> SUFFICES ASSUME NEW u \in Unset(W), NEW v \in Unset(W), u # v PROVE FALSE
    OBVIOUS
  <2>1. IsFiniteSet(W)
    <3>1. IsFiniteSet({xa}) /\ IsFiniteSet({xa} \union {xb})
      BY FS_EmptySet, FS_Singleton, FS_AddElement
    <3>2. IsFiniteSet(({xa} \union {xb}) \union {xc}) /\ ({xa} \union {xb}) \union {xc} = W
      BY <3>1, FS_AddElement
    <3> QED BY <3>2
  <2>2. IsFiniteSet(Unset(W)) /\ IsFiniteSet(Unset(W) \ {v})
    BY <1>2, <2>1, FS_Subset
  <2>3. Cardinality(Unset(W) \ {v}) = Cardinality(Unset(W)) - 1 /\ Cardinality(Unset(W)) \in Nat
    BY <2>2, FS_RemoveElement, FS_CardinalityType
  <2>4. Cardinality(Unset(W) \ {v}) = 0
    BY <1>1, <2>2, <2>3, FS_CardinalityType
  <2>5. Unset(W) \ {v} = {}
    BY <2>2, <2>4, FS_EmptySet
  <2> QED BY <2>5
<1>4. outputs = Unset(W)
  <2>1. outputs \subseteq Unset(W)
    OBVIOUS
  <2>2. ASSUME NEW u \in Unset(W)
        PROVE  u \in outputs
    <3>1. u = xa \/ u = xb \/ u = xc
      BY <1>2
    <3>2. CASE u = xc
      <4>1. x[3] \in Unset(W) /\ \A j \in 3 + 1 .. 3 : x[j] \notin Unset(W)
        BY <3>2
      <4> QED BY <3>2, <4>1
    <3>3. CASE u = xb /\ u # xc
      <4>1. x[2] \in Unset(W) /\ \A j \in 2 + 1 .. 3 : x[j] \notin Unset(W)
        BY <1>3, <3>3
      <4> QED BY <3>3, <4>1
    <3>4. CASE u = xa /\ u # xb /\ u # xc
      <4>1. x[1] \in Unset(W) /\ \A j \in 1 + 1 .. 3 : x[j] \notin Unset(W)
        BY <1>3, <3>4
      <4> QED BY <3>4, <4>1
    <3> QED BY <3>1, <3>2, <3>3, <3>4
  <2> QED BY <2>1, <2>2
<1> HIDE DEF outputs, W
<1>5. Unset(W) \in SUBSET (Unset(Wires) \union Fresh(0))
  BY <1>2 DEF Unset
<1>6. PICK max \in MaxWith(LevelUnset, Levels(W \ Unset(W))) :
        AddInstruction(W \ Unset(W), Unset(W), 0, max + 1)
  BY <1>1, <1>4
<1> QED BY <1>1, <1>2, <1>5, <1>6, ConstraintKeeps

LEMMA HintKeeps ==
  ASSUME IInv, NEW W \in Expressions, NEW n \in 1 .. 2, AllSet(W),
         AddSolverHint(W, n) \/ AddBatchInverse(W, n)
  PROVE  IInv' /\ Len(levels') \in {Len(levels), Len(levels) + 1}
<1>1. /\ Unset(W) = {} /\ UNCHANGED <<entries, lookup>>
      /\ \E max \in MaxWith(LevelUnset, Levels(W)) : AddInstruction(W, Fresh(n), n, max + 1)
  BY DEF AllSet, AddSolverHint, AddBatchInverse
<1>2. W \in SUBSET Wires /\ Fresh(n) \in SUBSET (Unset(Wires) \union Fresh(n)) /\ n \in Nat
  BY DEF Expressions
<1> QED BY <1>1, <1>2, ConstraintKeeps

\* The cache after a lookup covers every entry.
LEMMA CacheCovers ==
  ASSUME IInv, NEW cache \in UpdatedCache(Len(entries))
  PROVE  /\ cache \in [maxLevel : 0 .. Len(levels), maxLevelPosition : 0 .. Len(entries)]
         /\ \A k \in 1 .. Len(entries) : \A w \in entries[k] :
              Known(w) /\ w \in Wires /\ (HasWire(w) => GetWireLevel(w) < cache.maxLevel)
<1> DEFINE n == Len(entries)
           seen == lookup.maxLevelPosition
           tail == EntryWires(seen + 1, n)
           L == {l + 1 : l \in Levels(tail)}
<1>1. TypeOK /\ n \in Nat /\ entries \in Seq(SUBSET Wires) /\ Len(levels) \in Nat
  <2>1. TypeOK
    BY DEF IInv
  <2> QED BY <2>1, WireFacts DEF TypeOK
<1>2. seen \in 0 .. n /\ lookup.maxLevel \in 0 .. Len(levels)
  BY <1>1 DEF TypeOK
<1>3. \A k \in 1 .. n : entries[k] \subseteq Wires
  BY <1>1
<1>4. PICK m \in MaxWith(lookup.maxLevel, L) : cache = [maxLevel |-> m, maxLevelPosition |-> n]
  <2>1. seen - 1 < n
    BY <1>1, <1>2
  <2> QED BY <2>1 DEF UpdatedCache
<1> HIDE DEF n, seen
<1>5. tail \subseteq Wires
  BY <1>1, <1>2, <1>3 DEF EntryWires
<1> HIDE DEF tail
<1>6. \A l \in Levels(tail) : l \in LevelUnset .. Len(levels) - 1
  BY <1>1, <1>5, WireFacts DEF Levels
<1>7. \A l \in L : l \in 0 .. Len(levels)
  BY <1>1, <1>6 DEF LevelUnset
<1>8. /\ m \in 0 .. Len(levels) /\ m >= lookup.maxLevel
      /\ \A l \in Levels(tail) : l + 1 <= m
  <2>1. m \in {lookup.maxLevel} \union L /\ m >= lookup.maxLevel /\ \A l \in L : l <= m
    BY <1>4 DEF MaxWith
  <2> QED BY <1>2, <1>7, <2>1
<1>9. ASSUME NEW k \in 1 .. n, NEW w \in entries[k], HasWire(w)
      PROVE  GetWireLevel(w) < m
  <2>1. w \in Wires /\ GetWireLevel(w) \in LevelUnset .. Len(levels) - 1
    BY <1>1, <1>3, <1>9, WireFacts
  <2>2. CASE k \in 1 .. seen
    <3>1. GetWireLevel(w) < lookup.maxLevel
      BY <1>9, <2>2 DEF IInv, Cache, seen
    <3> QED BY <1>1, <1>2, <1>8, <2>1, <3>1 DEF LevelUnset
  <2>3. CASE k \notin 1 .. seen
    <3>1. k \in seen + 1 .. n
      BY <1>1, <1>2, <2>3
    <3>2. w \in tail
      BY <3>1 DEF tail, EntryWires
    <3>3. GetWireLevel(w) \in Levels(tail)
      BY <1>9, <3>2 DEF Levels
    <3> QED BY <1>1, <1>8, <2>1, <3>3 DEF LevelUnset
  <2> QED BY <2>2, <2>3
<1>10. cache \in [maxLevel : 0 .. Len(levels), maxLevelPosition : 0 .. n]
  BY <1>1, <1>4, <1>8
<1>11. \A k \in 1 .. n : \A w \in entries[k] : Known(w)
  BY DEF IInv, Cache, n
<1> QED BY <1>3, <1>4, <1>9, <1>10, <1>11 DEF n

LEMMA AddLookupKeeps ==
  ASSUME IInv, NEW W \in Expressions, NEW n \in 1 .. 2, AllSet(W), AddLookup(W, n)
  PROVE  IInv' /\ Len(levels') \in {Len(levels), Len(levels) + 1}
<1> DEFINE table == EntryWires(1, Len(entries))
           reads == W \union table
<1>1. PICK cache \in UpdatedCache(Len(entries)) :
        /\ lookup' = cache
        /\ \E max \in MaxWith(cache.maxLevel - 1, Levels(W)) :
             AddInstruction(reads, Fresh(n), n, max + 1)
  BY DEF AddLookup
<1>2. PICK max \in MaxWith(cache.maxLevel - 1, Levels(W)) :
        AddInstruction(reads, Fresh(n), n, max + 1)
  BY <1>1
<1>3. W \in SUBSET Wires /\ Unset(W) = {} /\ entries' = entries
  BY DEF AllSet, AddLookup, Expressions
<1>4. TypeOK
  BY DEF IInv
<1>5. /\ cache \in [maxLevel : 0 .. Len(levels), maxLevelPosition : 0 .. Len(entries)]
      /\ \A k \in 1 .. Len(entries) : \A w \in entries[k] :
           Known(w) /\ w \in Wires /\ (HasWire(w) => GetWireLevel(w) < cache.maxLevel)
  BY CacheCovers
<1>6. \A w \in table : Known(w) /\ w \in Wires /\ (HasWire(w) => GetWireLevel(w) < cache.maxLevel)
  BY <1>5 DEF EntryWires
<1>7. /\ max \in LevelUnset .. Len(levels) - 1 /\ cache.maxLevel - 1 <= max
      /\ \A w \in W : w \in Inputs \/ (w \in Internal /\ GetWireLevel(w) <= max)
  <2>1. cache.maxLevel - 1 \in LevelUnset .. Len(levels) - 1
    BY <1>4, <1>5, WireFacts DEF LevelUnset
  <2> QED BY <1>3, <1>4, <2>1, MaxLevel
<1> HIDE DEF table
<1>8. \A w \in table : w \in Inputs \/ (w \in Internal /\ GetWireLevel(w) <= max)
  <2> SUFFICES ASSUME NEW w \in table, w \notin Inputs
               PROVE  w \in Internal /\ GetWireLevel(w) <= max
    OBVIOUS
  <2>1. HasWire(w) /\ w \in Internal /\ GetWireLevel(w) < cache.maxLevel
    BY <1>4, <1>6, WireFacts DEF Known
  <2>2. GetWireLevel(w) \in LevelUnset .. Len(levels) - 1
    BY <1>4, <2>1, WireFacts
  <2> QED BY <1>4, <1>5, <1>7, <2>1, <2>2, WireFacts DEF LevelUnset
<1>9. Unset(reads) = {}
  <2>1. ASSUME NEW w \in table, HasWire(w)
        PROVE  GetWireLevel(w) # LevelUnset
    BY <1>4, <1>6, <2>1, WireFacts DEF Known
  <2> QED BY <1>3, <2>1 DEF Unset
<1>10. reads \in SUBSET Wires
  BY <1>3, <1>6
<1>11. Fits(reads, Fresh(n), n, max + 1)
  <2>1. \A w \in reads : w \in Inputs \/ (w \in Internal /\ GetWireLevel(w) <= max)
    BY <1>7, <1>8
  <2>2. \A w \in Fresh(n) : w \in Unset(Wires) \/ w \in Fresh(n)
    OBVIOUS
  <2> HIDE DEF reads
  <2> QED BY <1>4, <1>7, <1>9, <1>10, <2>1, <2>2, KnownFit
<1>12. \A k \in 1 .. cache.maxLevelPosition : \A w \in entries[k] :
         HasWire(w) => GetWireLevel(w) < cache.maxLevel
  <2>1. cache.maxLevelPosition \in 0 .. Len(entries) /\ Len(entries) \in Nat
    BY <1>4, <1>5, WireFacts
  <2> QED BY <1>5, <2>1
<1> HIDE DEF reads
<1> QED BY <1>1, <1>2, <1>3, <1>5, <1>10, <1>11, <1>12, AddKeeps

LEMMA NextKeeps ==
  ASSUME IInv, [Next]_vars
  PROVE  IInv' /\ Len(levels') \in {Len(levels), Len(levels) + 1}
<1>1. CASE AddInternalVariable
  BY <1>1, AddInternalVariableKeeps
<1>2. ASSUME NEW W \in Expressions, AddR1C(W)
      PROVE  IInv' /\ Len(levels') \in {Len(levels), Len(levels) + 1}
  BY <1>2, AddR1CKeeps
<1>3. ASSUME NEW xa \in Wires, NEW xb \in Wires, NEW xc \in Wires,
             OneOutput({xa, xb, xc}), AddSparseR1C(xa, xb, xc)
      PROVE  IInv' /\ Len(levels') \in {Len(levels), Len(levels) + 1}
  BY <1>3, AddSparseR1CKeeps
<1>4. ASSUME NEW W \in Expressions, NEW n \in 1 .. 2, AllSet(W),
             AddSolverHint(W, n) \/ AddBatchInverse(W, n)
      PROVE  IInv' /\ Len(levels') \in {Len(levels), Len(levels) + 1}
  BY <1>4, HintKeeps
<1>5. ASSUME NEW W \in Expressions, AllSet(W), InsertEntry(W)
      PROVE  IInv' /\ Len(levels') \in {Len(levels), Len(levels) + 1}
  BY <1>5, InsertEntryKeeps
<1>6. ASSUME NEW W \in Expressions, NEW n \in 1 .. 2, AllSet(W), AddLookup(W, n)
      PROVE  IInv' /\ Len(levels') \in {Len(levels), Len(levels) + 1}
  BY <1>6, AddLookupKeeps
<1>7. CASE UNCHANGED vars
  <2> USE <1>7 DEF vars
  <2>1. TypeOK'
    BY DEF IInv, TypeOK, Wires, Inputs, Internal
  <2>2. Placed' /\ NoneEmpty' /\ Written'
    BY DEF IInv, Placed, NoneEmpty, Written, Place, Internal, GetWireLevel
  <2>3. Leveled'
    BY DEF IInv, Leveled, Place, Inputs, Internal, GetWireLevel
  <2>4. Cache'
    BY DEF IInv, Cache, Known, Inputs, HasWire, GetWireLevel
  <2> QED BY <2>1, <2>2, <2>3, <2>4 DEF IInv
<1> QED BY <1>1, <1>2, <1>3, <1>4, <1>5, <1>6, <1>7 DEF Next

LEMMA InitHolds == Init => IInv
<1> SUFFICES ASSUME Init PROVE IInv
  OBVIOUS
<1>1. lbWireLevel = <<>> /\ instructions = <<>> /\ levels = <<>> /\ entries = <<>>
      /\ lookup = [maxLevel |-> 0, maxLevelPosition |-> 0]
  BY DEF Init
<1>2. Internal = {}
  BY <1>1, NbInputsAssumption DEF Internal
<1> QED BY <1>1, <1>2
        DEF IInv, TypeOK, Placed, Leveled, Written, Cache, NoneEmpty, Place

LEMMA Invariance == Spec => []IInv
<1>1. IInv /\ [Next]_vars => IInv'
  BY NextKeeps
<1> QED BY InitHolds, <1>1, PTL DEF Spec

-----------------------------------------------------------------------------
(* The theorems.                                                              *)

\* The variables always hold the kinds of values the builder gives them: levels and
\* instructions refer to what exists.
THEOREM TypeCorrect == Spec => []TypeOK
<1>1. IInv => TypeOK
  BY DEF IInv
<1> QED BY Invariance, <1>1, PTL

\* The invariant says of places and levels what the contract says of reads and writes.
LEMMA InvariantIsSound == IInv => CompiledIsSound
<1> SUFFICES ASSUME IInv PROVE SoundSystem(Compiled)
  BY DEF CompiledIsSound
<1>1. /\ DOMAIN instructions = 1 .. Len(instructions) /\ DOMAIN levels = 1 .. Len(levels)
      /\ levels \in Seq(Seq(1 .. Len(instructions)))
      /\ \A w \in Internal : w \notin Inputs
  <2>1. TypeOK
    BY DEF IInv
  <2> QED BY <2>1, WireFacts DEF TypeOK
<1>2. \A l \in DOMAIN levels : DOMAIN levels[l] = 1 .. Len(levels[l])
                               /\ \A k \in DOMAIN levels[l] : levels[l][k] \in 1 .. Len(instructions)
  BY <1>1
<1>3. \A l, k : Place(l, k) <=> l \in DOMAIN levels /\ k \in DOMAIN levels[l]
  BY <1>1, <1>2 DEF Place
<1>4. EachOnce(Compiled)
  <2> DEFINE cs == Compiled
  <2>1. cs.levels = levels /\ cs.instructions = 1 .. Len(instructions)
    BY <1>1 DEF Compiled
  <2>2. \A l \in DOMAIN levels : \A k \in DOMAIN levels[l] :
          levels[l][k] \in 1 .. Len(instructions)
    BY <1>2
  <2>3. \A i \in 1 .. Len(instructions) :
          \E l \in DOMAIN levels : \E k \in DOMAIN levels[l] : levels[l][k] = i
    BY <1>3 DEF IInv, Placed
  <2>4. \A l, m \in DOMAIN levels : \A k \in DOMAIN levels[l] : \A n \in DOMAIN levels[m] :
          levels[l][k] = levels[m][n] => l = m /\ k = n
    BY <1>3 DEF IInv, Placed
  <2> HIDE DEF cs
  <2>5. EachOnce(cs)
    BY <2>1, <2>2, <2>3, <2>4 DEF EachOnce
  <2> QED BY <2>5 DEF cs
<1>5. \A i \in 1 .. Len(instructions) : \A w \in instructions[i].outputs : w \in Internal
  <2> SUFFICES ASSUME NEW i \in 1 .. Len(instructions), NEW w \in instructions[i].outputs
               PROVE  w \in Internal
    OBVIOUS
  <2>1. PICK l, k : Place(l, k) /\ levels[l][k] = i
    BY DEF IInv, Placed
  <2> QED BY <2>1 DEF IInv, Leveled
<1>6. OneWriter(Compiled)
  <2>1. \A i \in 1 .. Len(instructions) : instructions[i].outputs \cap Inputs = {}
    BY <1>1, <1>5
  <2> QED BY <1>1, <2>1 DEF OneWriter, Compiled, IInv, Written
<1>7. ReadsFromEarlierLevels(Compiled)
  <2> SUFFICES ASSUME NEW l, NEW k, Place(l, k), NEW w \in instructions[levels[l][k]].reads,
                      w \notin Inputs
               PROVE  \E m \in 1 .. l - 1 : \E n \in DOMAIN levels[m] :
                        w \in instructions[levels[m][n]].outputs
    <3>1. \A m \in DOMAIN levels : \A n \in DOMAIN levels[m] :
            Compiled.writes[levels[m][n]] = instructions[levels[m][n]].outputs
            /\ Compiled.reads[levels[m][n]] = instructions[levels[m][n]].reads
      BY <1>1, <1>2 DEF Compiled
    <3>2. Compiled.levels = levels /\ Compiled.inputs = Inputs
      BY DEF Compiled
    <3>3. \A m \in DOMAIN levels : \A j \in 1 .. m - 1 : j \in DOMAIN levels
      BY <1>1
    <3> QED BY <1>3, <3>1, <3>2, <3>3 DEF ReadsFromEarlierLevels
  <2>1. w \in Internal /\ GetWireLevel(w) \in 0 .. l - 2 /\ l \in Nat
    BY DEF IInv, Leveled, Place
  <2>2. GetWireLevel(w) # LevelUnset
    BY <2>1 DEF LevelUnset
  <2>3. PICK i \in 1 .. Len(instructions) : w \in instructions[i].outputs
    BY <2>1, <2>2 DEF IInv, Written
  <2>4. PICK m, n : Place(m, n) /\ levels[m][n] = i
    BY DEF IInv, Placed
  <2>5. GetWireLevel(w) = m - 1 /\ m \in 1 .. Len(levels)
    BY <2>3, <2>4 DEF IInv, Leveled, Place
  <2>6. m \in 1 .. l - 1
    BY <2>1, <2>5
  <2> QED BY <1>3, <2>3, <2>4, <2>6
<1> QED BY <1>4, <1>6, <1>7 DEF SoundSystem

\* Whatever is added in whatever order, every wire an instruction reads is an input or
\* is set on an earlier level, and no wire is set twice.
THEOREM Sound == Spec => []CompiledIsSound
BY Invariance, InvariantIsSound, PTL

\* A step appends at most one level, leaves none empty, and no wire is above the last.
THEOREM LevelsGrowByOne == Spec => NoLevelSkipped
<1>1. IInv /\ [Next]_vars =>
        [ /\ Len(levels') \in {Len(levels), Len(levels) + 1}
          /\ \A l \in DOMAIN levels' : levels'[l] # <<>>
          /\ \A k \in DOMAIN lbWireLevel' : lbWireLevel'[k] < Len(levels') ]_vars
  <2> SUFFICES ASSUME IInv, [Next]_vars
               PROVE  /\ Len(levels') \in {Len(levels), Len(levels) + 1}
                      /\ \A l \in DOMAIN levels' : levels'[l] # <<>>
                      /\ \A k \in DOMAIN lbWireLevel' : lbWireLevel'[k] < Len(levels')
    OBVIOUS
  <2>1. IInv' /\ Len(levels') \in {Len(levels), Len(levels) + 1}
    BY NextKeeps
  <2>2. /\ levels' \in Seq(Seq(DOMAIN instructions)') /\ NoneEmpty'
        /\ \A k \in DOMAIN lbWireLevel' : lbWireLevel'[k] \in LevelUnset .. Len(levels') - 1
    BY <2>1 DEF IInv, TypeOK
  <2>3. \A l \in DOMAIN levels' : levels'[l] # <<>>
    BY <2>2 DEF NoneEmpty
  <2>4. \A k \in DOMAIN lbWireLevel' : lbWireLevel'[k] < Len(levels')
    BY <2>2 DEF LevelUnset
  <2> QED BY <2>1, <2>3, <2>4
<1> QED BY Invariance, <1>1, PTL DEF Spec, NoLevelSkipped

\* Every system the builder can reach meets what the solver assumes of the one it is
\* given (SystemsAssumption of module Solver).
THEOREM BuiltForTheSolver == Spec => [](WellTyped(Compiled) /\ SoundSystem(Compiled))
<1>1. ASSUME IInv
      PROVE  WellTyped(Compiled)
  <2>1. TypeOK
    BY <1>1 DEF IInv
  <2>2. /\ levels \in Seq(Seq(DOMAIN instructions)) /\ Internal \subseteq Wires
        /\ \A i \in DOMAIN instructions :
             instructions[i].reads \in SUBSET Wires /\ instructions[i].outputs \in SUBSET Internal
    <3> DEFINE A == [reads : SUBSET Wires, outputs : SUBSET Internal]
    <3>1. instructions \in Seq(A) /\ levels \in Seq(Seq(DOMAIN instructions))
      BY <2>1 DEF TypeOK
    <3>2. \A i \in DOMAIN instructions : instructions[i] \in A
      <4> HIDE DEF A
      <4> QED BY <3>1
    <3> QED BY <3>1, <3>2 DEF Wires
  <2>3. /\ Compiled.levels = levels /\ Compiled.instructions = DOMAIN instructions
        /\ Compiled.wires = Wires /\ Compiled.inputs = Inputs
        /\ Compiled.reads = [i \in DOMAIN instructions |-> instructions[i].reads]
        /\ Compiled.writes = [i \in DOMAIN instructions |-> instructions[i].outputs]
    BY DEF Compiled
  <2>4. Inputs \subseteq Wires
    BY DEF Wires
  <2>5. Compiled.reads \in [DOMAIN instructions -> SUBSET Wires]
    BY <2>2, <2>3
  <2>6. Compiled.writes \in [DOMAIN instructions -> SUBSET Wires]
    BY <2>2, <2>3
  <2> QED BY <2>2, <2>3, <2>4, <2>5, <2>6 DEF WellTyped
<1>2. IInv => WellTyped(Compiled) /\ SoundSystem(Compiled)
  BY <1>1, InvariantIsSound DEF CompiledIsSound
<1> QED BY Invariance, <1>2, PTL
=============================================================================

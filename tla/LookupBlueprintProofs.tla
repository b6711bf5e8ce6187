------------------------- MODULE LookupBlueprintProofs -------------------------
(* Any number of lookups share the cache safely, over any number of runs and    *)
(* levels.                                                                    *)
EXTENDS LookupBlueprint, SequenceTheorems, TLAPS

-----------------------------------------------------------------------------
(* The invariant.                                                             *)

Cached == Len(cachedEntries)

\* Who fills the cache holds the lock, and works on the current level.
Locking ==
  /\ \A l \in Lookups : pc[l] \in {"append", "read", "unlock"} <=> lock = l
  /\ \A l \in Lookups : pc[l] \notin {"ready", "done"} => Active(l)

\* The locals of the filling loop point to the end of the cache.
Filling ==
  /\ \A l \in Lookups : pc[l] = "append" =>
       i[l] = Cached /\ offset[l] = Cached /\ Cached < NbEntries[l]
  /\ \A l \in Lookups : pc[l] = "read" =>
       i[l] + 1 = Cached /\ offset[l] + 1 = Cached /\ Cached <= NbEntries[l]
  /\ \A l \in Lookups : pc[l] = "unlock" => NbEntries[l] <= Cached
  /\ (\A l \in Lookups : pc[l] \notin {"append", "read"}) => cachedOffset = Cached

\* The capacity that Reset computed is enough.
Room ==
  /\ Cached <= TableSize
  /\ run = 0 => level = 0 /\ Cached = 0
  /\ run # 0 => capacity = TableSize

\* Entries are those of this run, but for the one being read; a lookup that left the
\* lock has all it needs.
Current ==
  /\ \A k \in 1 .. Cached :
       cachedEntries[k] = <<run, k>> \/ \E l \in Lookups : pc[l] = "read" /\ k = Cached
  /\ \A l \in Lookups : pc[l] = "query" =>
       /\ NbEntries[l] <= Cached
       /\ \A k \in 1 .. NbEntries[l] : cachedEntries[k] = <<run, k>>
  /\ AnswersAreCurrent

IInv == TypeOK /\ Locking /\ Filling /\ Room /\ Current

-----------------------------------------------------------------------------
(* The actions.                                                               *)

Value == (0 .. MaxRuns) \X (0 .. TableSize)

Answer == [idx : 1 .. TableSize, value : Value]

\* What the types say of the cache and the entries.
LEMMA CacheFacts ==
  ASSUME TypeOK
  PROVE  /\ Cached \in Nat /\ TableSize \in Nat /\ run \in Nat /\ MaxRuns \in Nat
         /\ cachedEntries \in Seq(Value) /\ Unsolved \in Value
         /\ \A l \in Lookups : NbEntries[l] \in 1 .. TableSize /\ LevelOf[l] \in 1 .. NbLevels
<1>1. TableSize \in Nat /\ MaxRuns \in Nat
  BY ConstantsAssumption DEF TableSize
<1>2. cachedEntries \in Seq(Value) /\ run \in Nat
  BY <1>1 DEF TypeOK, Value
<1>3. Unsolved \in Value
  BY <1>1 DEF Unsolved, Value
<1>4. Cached \in Nat
  BY <1>2 DEF Cached
<1> QED BY <1>1, <1>2, <1>3, <1>4, LookupsAfterEntries

\* Entries that a lookup was added after have their value when it runs.
LEMMA EntrySolved ==
  ASSUME TypeOK, NEW l \in Lookups, Active(l), NEW k \in 1 .. NbEntries[l]
  PROVE  Entry(k) = <<run, k>>
BY LookupsAfterEntries DEF Active, Entry

LEMMA StartRunKeeps ==
  ASSUME IInv, StartRun
  PROVE  IInv'
<1> USE DEF StartRun, Reset
<1>1. TypeOK /\ TableSize \in Nat /\ NbLevels \in Nat \ {0} /\ MaxRuns \in Nat /\ Locking
      /\ run \in 0 .. MaxRuns
  <2>1. TypeOK /\ Locking
    BY DEF IInv
  <2>2. TableSize \in Nat /\ NbLevels \in Nat \ {0} /\ MaxRuns \in Nat
    BY <2>1, CacheFacts, ConstantsAssumption
  <2>3. run \in 0 .. MaxRuns
    BY <2>1 DEF TypeOK
  <2> QED BY <2>1, <2>2, <2>3
<1>2. /\ Cached' = 0 /\ cachedEntries' \in Seq(Value) /\ run' \in 1 .. MaxRuns /\ run' = run + 1
      /\ level' \in 0 .. NbLevels /\ \A l \in Lookups : pc'[l] = "ready"
  BY <1>1 DEF Cached
<1>3. 0 \in 0 .. TableSize
  BY <1>1
<1>4. TypeOK'
  <2>1. /\ pc' \in [Lookups -> {"ready", "append", "read", "unlock", "query", "done"}]
        /\ output' \in [Lookups -> Seq(Answer)]
    OBVIOUS
  <2>2. /\ cachedEntries' \in Seq(Value) /\ cachedOffset' \in 0 .. TableSize
        /\ capacity' \in {0, TableSize} /\ run' \in 0 .. MaxRuns
    BY <1>1, <1>2
  <2> QED BY <1>1, <1>2, <2>1, <2>2 DEF TypeOK, Value, Answer
<1>5. \A l \in Lookups : lock # l
  \* No level was running: nobody was filling the cache.
  BY <1>1, LookupsAfterEntries DEF Locking, Active
<1>6. Locking'
  BY <1>2, <1>5 DEF Locking
<1>7. Filling'
  BY <1>2 DEF Filling
<1>8. Room'
  BY <1>1, <1>2 DEF Room
<1>9. Current'
  BY <1>2 DEF Current, AnswersAreCurrent
<1> QED BY <1>4, <1>6, <1>7, <1>8, <1>9 DEF IInv

LEMMA EndLevelKeeps ==
  ASSUME IInv, EndLevel
  PROVE  IInv'
<1> USE DEF EndLevel, locals
<1>1. TypeOK /\ Locking /\ Filling /\ Room /\ Current
  BY DEF IInv
<1>2. \A l \in Lookups : pc[l] \in {"ready", "done"}
  BY <1>1 DEF Locking
<1>3. level' \in 0 .. NbLevels
  BY <1>1, ConstantsAssumption DEF TypeOK
<1>4. TypeOK'
  BY <1>1, <1>3 DEF TypeOK
<1>5. Locking'
  BY <1>1, <1>2 DEF Locking
<1>6. Filling' /\ Current'
  BY <1>1 DEF Filling, Current, Cached, AnswersAreCurrent
<1>7. Room'
  BY <1>1 DEF Room, Cached, TypeOK
<1> QED BY <1>4, <1>5, <1>6, <1>7 DEF IInv

LEMMA LockKeeps ==
  ASSUME IInv, NEW l \in Lookups, Lock(l)
  PROVE  IInv'
<1> USE DEF Lock, Enter
<1>1. TypeOK /\ Locking /\ Filling /\ Room /\ Current
  BY DEF IInv
<1>2. /\ Cached \in Nat /\ TableSize \in Nat /\ Cached <= TableSize
      /\ \A m \in Lookups : NbEntries[m] \in 1 .. TableSize
  BY <1>1, CacheFacts DEF Room
<1>3. \A m \in Lookups : pc[m] \notin {"append", "read", "unlock"}
  BY <1>1, ConstantsAssumption DEF Locking
<1>4. /\ cachedOffset = Cached /\ Cached' = Cached
      /\ i'[l] = Cached /\ offset'[l] = Cached
      /\ pc'[l] = (IF Cached < NbEntries[l] THEN "append" ELSE "unlock")
      /\ \A m \in Lookups : m # l => pc'[m] = pc[m] /\ i'[m] = i[m] /\ offset'[m] = offset[m]
  BY <1>1, <1>3 DEF Filling, TypeOK, Cached
<1>5. TypeOK'
  BY <1>1, <1>2, <1>4 DEF TypeOK, Cached
<1>6. Locking'
  BY <1>1, <1>3, <1>4 DEF Locking, Active
<1>7. Filling'
  BY <1>2, <1>3, <1>4 DEF Filling
<1>8. Room'
  BY <1>1, <1>4 DEF Room
<1>9. Current'
  BY <1>1, <1>3, <1>4 DEF Current, AnswersAreCurrent
<1> QED BY <1>5, <1>6, <1>7, <1>8, <1>9 DEF IInv

LEMMA AppendZeroKeeps ==
  ASSUME IInv, NEW l \in Lookups, AppendZero(l)
  PROVE  /\ IInv' /\ Len(cachedEntries') <= capacity'
         /\ \A m \in Lookups : pc[m] = "query" =>
              \A k \in 1 .. NbEntries[m] : cachedEntries'[k] = cachedEntries[k]
<1> USE DEF AppendZero
<1>1. TypeOK /\ Locking /\ Filling /\ Room /\ Current
  BY DEF IInv
<1>2. /\ Cached \in Nat /\ TableSize \in Nat /\ cachedEntries \in Seq(Value) /\ Unsolved \in Value
      /\ \A m \in Lookups : NbEntries[m] \in 1 .. TableSize
  BY <1>1, CacheFacts
<1>3. /\ Cached' = Cached + 1 /\ cachedEntries' \in Seq(Value)
      /\ \A k \in 1 .. Cached : cachedEntries'[k] = cachedEntries[k]
  BY <1>2 DEF Cached
<1>4. /\ i[l] = Cached /\ offset[l] = Cached /\ Cached < NbEntries[l]
      /\ lock = l /\ \A m \in Lookups : m # l => pc[m] \notin {"append", "read", "unlock"}
  BY <1>1 DEF Filling, Locking
<1>5. pc'[l] = "read" /\ \A m \in Lookups : m # l => pc'[m] = pc[m]
  BY <1>1 DEF TypeOK
<1>6. run # 0
  <2>1. level # 0
    BY <1>1, LookupsAfterEntries DEF Locking, Active
  <2> QED BY <1>1, <2>1 DEF Room
<1>7. TypeOK'
  BY <1>1, <1>3 DEF TypeOK, Value
<1>8. Locking'
  BY <1>1, <1>4, <1>5 DEF Locking, Active
<1>9. Filling'
  BY <1>1, <1>2, <1>3, <1>4, <1>5 DEF Filling
<1>10. Room' /\ Cached' <= capacity'
  BY <1>1, <1>2, <1>3, <1>4, <1>6 DEF Room
<1>11. \A m \in Lookups : pc[m] = "query" =>
         \A k \in 1 .. NbEntries[m] : cachedEntries'[k] = cachedEntries[k]
  <2> SUFFICES ASSUME NEW m \in Lookups, pc[m] = "query", NEW k \in 1 .. NbEntries[m]
               PROVE  cachedEntries'[k] = cachedEntries[k]
    OBVIOUS
  <2>1. NbEntries[m] <= Cached
    BY <1>1 DEF Current
  <2>2. k \in 1 .. Cached
    BY <1>2, <2>1
  <2> QED BY <1>3, <2>2
<1>12. \A k \in 1 .. Cached : cachedEntries[k] = <<run, k>>
  BY <1>1, <1>4 DEF Current
<1>13. Current'
  <2>1. ASSUME NEW k \in 1 .. Cached'
        PROVE  cachedEntries'[k] = <<run, k>> \/ (pc'[l] = "read" /\ k = Cached')
    <3>1. k \in 1 .. Cached \/ k = Cached'
      BY <1>2, <1>3
    <3> QED BY <1>3, <1>5, <1>12, <3>1
  <2>2. ASSUME NEW m \in Lookups, pc'[m] = "query"
        PROVE  /\ NbEntries[m] <= Cached'
               /\ \A k \in 1 .. NbEntries[m] : cachedEntries'[k] = <<run, k>>
    <3>1. m # l /\ pc[m] = "query"
      BY <1>5, <2>2
    <3>2. NbEntries[m] <= Cached /\ \A k \in 1 .. NbEntries[m] : cachedEntries[k] = <<run, k>>
      BY <1>1, <3>1 DEF Current
    <3>3. NbEntries[m] <= Cached'
      BY <1>2, <1>3, <3>2
    <3> QED BY <1>11, <3>1, <3>2, <3>3
  <2> QED BY <1>1, <2>1, <2>2 DEF Current, AnswersAreCurrent
<1> QED BY <1>7, <1>8, <1>9, <1>10, <1>11, <1>13 DEF IInv, Cached

LEMMA ReadEntryKeeps ==
  ASSUME IInv, NEW l \in Lookups, ReadEntry(l)
  PROVE  /\ IInv' /\ Len(cachedEntries') <= capacity'
         /\ \A m \in Lookups : pc[m] = "query" =>
              \A k \in 1 .. NbEntries[m] : cachedEntries'[k] = cachedEntries[k]
<1> USE DEF ReadEntry
<1> DEFINE last == <<run, i[l] + 1>>
<1>1. TypeOK /\ Locking /\ Filling /\ Room /\ Current
  BY DEF IInv
<1>2. /\ Cached \in Nat /\ TableSize \in Nat /\ cachedEntries \in Seq(Value)
      /\ run \in 0 .. MaxRuns
      /\ \A m \in Lookups : NbEntries[m] \in 1 .. TableSize
  BY <1>1, CacheFacts DEF TypeOK
<1>3. /\ i[l] + 1 = Cached /\ offset[l] + 1 = Cached /\ Cached <= NbEntries[l]
      /\ i[l] \in Nat /\ offset[l] \in Nat
      /\ lock = l /\ \A m \in Lookups : m # l => pc[m] \notin {"append", "read", "unlock"}
  BY <1>1 DEF Filling, Locking, TypeOK
<1>4. Cached \in 1 .. NbEntries[l] /\ Cached <= TableSize
  BY <1>2, <1>3
<1>5. cachedEntries' = [cachedEntries EXCEPT ![Cached] = <<run, Cached>>]
  <2>1. Entry(Cached) = <<run, Cached>>
    BY <1>1, <1>4, EntrySolved DEF Locking
  <2> QED BY <1>3, <2>1
<1>6. <<run, Cached>> \in Value
  BY <1>2, <1>4 DEF Value
<1>7. /\ Cached' = Cached /\ cachedEntries' \in Seq(Value)
      /\ cachedEntries'[Cached] = <<run, Cached>>
      /\ \A k \in 1 .. Cached : k # Cached => cachedEntries'[k] = cachedEntries[k]
  <2>1. Cached \in 1 .. Len(cachedEntries)
    BY <1>2, <1>4 DEF Cached
  <2>2. cachedEntries' \in Seq(Value) /\ Len(cachedEntries') = Len(cachedEntries)
    <3> HIDE DEF ReadEntry
    <3>1. PICK c : c = Cached
      OBVIOUS
    <3>2. /\ [cachedEntries EXCEPT ![c] = <<run, c>>] \in Seq(Value)
          /\ Len([cachedEntries EXCEPT ![c] = <<run, c>>]) = Len(cachedEntries)
      BY <1>2, <1>6, <2>1, <3>1, ExceptSeq
    <3> QED BY <1>5, <3>1, <3>2
  <2>3. /\ cachedEntries'[Cached] = <<run, Cached>>
        /\ \A k \in 1 .. Cached : k # Cached => cachedEntries'[k] = cachedEntries[k]
    <3>1. DOMAIN cachedEntries = 1 .. Cached
      BY <1>2 DEF Cached
    <3> HIDE DEF Cached
    <3> QED BY <1>5, <2>1, <3>1
  <2> QED BY <2>2, <2>3 DEF Cached
<1>8. \A m \in Lookups : m # l => pc'[m] = pc[m] /\ i'[m] = i[m] /\ offset'[m] = offset[m]
  BY <1>1 DEF TypeOK
<1>9. /\ i'[l] = Cached /\ offset'[l] = Cached
      /\ \/ Cached < NbEntries[l] /\ pc'[l] = "append" /\ UNCHANGED cachedOffset
         \/ Cached = NbEntries[l] /\ pc'[l] = "unlock" /\ cachedOffset' = Cached
  <2>1. pc \in [Lookups -> {"ready", "append", "read", "unlock", "query", "done"}]
        /\ i \in [Lookups -> 0 .. TableSize] /\ offset \in [Lookups -> 0 .. TableSize]
    BY <1>1 DEF TypeOK
  <2>2. i'[l] = Cached /\ offset'[l] = Cached
    BY <1>3, <2>1
  <2>3. CASE i[l] + 1 < NbEntries[l]
    BY <1>3, <2>1, <2>2, <2>3
  <2>4. CASE ~ (i[l] + 1 < NbEntries[l])
    <3>1. Cached = NbEntries[l]
      BY <1>2, <1>3, <2>4
    <3> QED BY <1>3, <2>1, <2>2, <2>4, <3>1
  <2> QED BY <2>3, <2>4
<1>10. TypeOK'
  <2>1. /\ i' \in [Lookups -> 0 .. TableSize] /\ offset' \in [Lookups -> 0 .. TableSize]
        /\ cachedOffset' \in 0 .. TableSize
    <3>1. /\ i \in [Lookups -> 0 .. TableSize] /\ offset \in [Lookups -> 0 .. TableSize]
          /\ cachedOffset \in 0 .. TableSize
      BY <1>1 DEF TypeOK
    <3>2. i[l] + 1 \in 0 .. TableSize /\ offset[l] + 1 \in 0 .. TableSize
          /\ Cached \in 0 .. TableSize
      BY <1>2, <1>3, <1>4
    <3>3. i' \in [Lookups -> 0 .. TableSize] /\ offset' \in [Lookups -> 0 .. TableSize]
      BY <3>1, <3>2
    <3>4. cachedOffset' \in 0 .. TableSize
      <4> HIDE DEF ReadEntry
      <4> QED BY <1>9, <3>1, <3>2
    <3> QED BY <3>3, <3>4
  <2>2. pc' \in [Lookups -> {"ready", "append", "read", "unlock", "query", "done"}]
    BY <1>1 DEF TypeOK
  <2> QED BY <1>1, <1>7, <2>1, <2>2 DEF TypeOK, Value
<1>11. Locking'
  BY <1>1, <1>3, <1>8, <1>9 DEF Locking, Active
<1>12. Filling'
  BY <1>2, <1>3, <1>7, <1>8, <1>9 DEF Filling
<1>13. Room' /\ Cached' <= capacity'
  <2>1. run # 0
    <3>1. level # 0
      BY <1>1, LookupsAfterEntries DEF Locking, Active
    <3> QED BY <1>1, <3>1 DEF Room
  <2> QED BY <1>1, <1>4, <1>7, <2>1 DEF Room
<1>14. \A k \in 1 .. Cached : cachedEntries'[k] = <<run, k>>
  <2> SUFFICES ASSUME NEW k \in 1 .. Cached PROVE cachedEntries'[k] = <<run, k>>
    OBVIOUS
  <2>1. CASE k = Cached
    BY <1>7, <2>1
  <2>2. CASE k # Cached
    BY <1>1, <1>7, <2>2 DEF Current
  <2> QED BY <2>1, <2>2
<1>15. ASSUME NEW m \in Lookups, pc[m] = "query"
       PROVE  /\ NbEntries[m] <= Cached
              /\ \A k \in 1 .. NbEntries[m] :
                   cachedEntries'[k] = <<run, k>> /\ cachedEntries[k] = <<run, k>>
  <2>1. NbEntries[m] <= Cached /\ \A k \in 1 .. NbEntries[m] : cachedEntries[k] = <<run, k>>
    BY <1>1, <1>15 DEF Current
  <2>2. \A k \in 1 .. NbEntries[m] : k \in 1 .. Cached
    BY <1>2, <2>1
  <2> QED BY <1>14, <2>1, <2>2
<1>16. Current'
  <2>1. \A m \in Lookups : pc'[m] = "query" => pc[m] = "query"
    BY <1>8, <1>9
  <2> QED BY <1>1, <1>7, <1>14, <1>15, <2>1 DEF Current, AnswersAreCurrent
<1> QED BY <1>10, <1>11, <1>12, <1>13, <1>15, <1>16 DEF IInv, Cached

LEMMA UnlockKeeps ==
  ASSUME IInv, NEW l \in Lookups, Unlock(l)
  PROVE  IInv'
<1> USE DEF Unlock
<1>1. TypeOK /\ Locking /\ Filling /\ Room /\ Current
  BY DEF IInv
<1>2. /\ lock = l /\ \A m \in Lookups : m # l => pc[m] \notin {"append", "read", "unlock"}
      /\ NbEntries[l] <= Cached /\ Cached \in Nat /\ Cached' = Cached
      /\ \A m \in Lookups : NbEntries[m] \in 1 .. TableSize
  BY <1>1, CacheFacts DEF Locking, Filling, Cached
<1>3. pc'[l] = "query" /\ \A m \in Lookups : m # l => pc'[m] = pc[m]
  BY <1>1 DEF TypeOK
<1>4. TypeOK'
  BY <1>1 DEF TypeOK
<1>5. Locking'
  BY <1>1, <1>2, <1>3, ConstantsAssumption DEF Locking, Active
<1>6. Filling'
  BY <1>1, <1>2, <1>3 DEF Filling
<1>7. Room'
  BY <1>1, <1>2 DEF Room
<1>8. \A k \in 1 .. Cached : cachedEntries[k] = <<run, k>>
  BY <1>1, <1>2 DEF Current
<1>9. \A k \in 1 .. NbEntries[l] : cachedEntries[k] = <<run, k>>
  <2>1. \A k \in 1 .. NbEntries[l] : k \in 1 .. Cached
    BY <1>2
  <2> QED BY <1>8, <2>1
<1>10. Current'
  BY <1>1, <1>2, <1>3, <1>8, <1>9 DEF Current, AnswersAreCurrent
<1> QED BY <1>4, <1>5, <1>6, <1>7, <1>10 DEF IInv

LEMMA QueryKeeps ==
  ASSUME IInv, NEW l \in Lookups, Query(l) \/ QueryTooLarge(l)
  PROVE  IInv'
<1> USE DEF Query, QueryTooLarge
<1>1. TypeOK /\ Locking /\ Filling /\ Room /\ Current
  BY DEF IInv
<1>2. /\ pc[l] = "query" /\ pc'[l] \in {"query", "done"}
      /\ \A m \in Lookups : m # l => pc'[m] = pc[m]
      /\ UNCHANGED <<run, level, cachedEntries, capacity, cachedOffset, lock, i, offset>>
      /\ Cached' = Cached
  BY <1>1 DEF TypeOK, Cached
<1>3. \/ UNCHANGED output
      \/ \E idx \in 1 .. NbEntries[l] :
           output' = [output EXCEPT ![l] = Append(@, [idx |-> idx, value |-> <<run, idx>>])]
  BY <1>1 DEF Current
<1>4. output' \in [Lookups -> Seq(Answer)]
  <2>1. output \in [Lookups -> Seq(Answer)] /\ run \in 0 .. MaxRuns
    BY <1>1 DEF TypeOK, Value, Answer
  <2>2. \A idx \in 1 .. NbEntries[l] : [idx |-> idx, value |-> <<run, idx>>] \in Answer
    <3>1. NbEntries[l] \in 1 .. TableSize /\ TableSize \in Nat
      BY <1>1, CacheFacts
    <3>2. \A idx \in 1 .. NbEntries[l] : idx \in 1 .. TableSize
      BY <3>1
    <3>3. \A idx \in 1 .. NbEntries[l] : <<run, idx>> \in Value
      BY <2>1, <3>2 DEF Value
    <3> QED BY <3>2, <3>3 DEF Answer
  <2> HIDE DEF Query, QueryTooLarge
  <2>3. ASSUME NEW idx \in 1 .. NbEntries[l],
               output' = [output EXCEPT ![l] = Append(@, [idx |-> idx, value |-> <<run, idx>>])]
        PROVE  output' \in [Lookups -> Seq(Answer)]
    <3>1. PICK answer \in Answer : answer = [idx |-> idx, value |-> <<run, idx>>]
      BY <2>2
    <3>2. Append(output[l], answer) \in Seq(Answer)
      BY <2>1
    <3> QED BY <2>1, <2>3, <3>1, <3>2
  <2> QED BY <1>3, <2>1, <2>3
<1>5. TypeOK'
  <2>1. pc' \in [Lookups -> {"ready", "append", "read", "unlock", "query", "done"}]
        /\ failed' \in BOOLEAN
    BY <1>1 DEF TypeOK
  <2> QED BY <1>1, <1>2, <1>4, <2>1 DEF TypeOK, Value, Answer
<1>6. Locking' /\ Filling' /\ Room'
  BY <1>1, <1>2 DEF Locking, Active, Filling, Room
<1>7. AnswersAreCurrent'
  <2>1. output \in [Lookups -> Seq(Answer)]
    BY <1>1 DEF TypeOK, Value, Answer
  <2>2. AnswersAreCurrent
    BY <1>1 DEF Current
  <2>3. CASE UNCHANGED output
    BY <1>2, <2>2, <2>3 DEF AnswersAreCurrent
  <2>4. ASSUME NEW idx \in 1 .. NbEntries[l],
               output' = [output EXCEPT ![l] = Append(@, [idx |-> idx, value |-> <<run, idx>>])]
        PROVE  AnswersAreCurrent'
    <3> HIDE DEF Query, QueryTooLarge
    <3>1. \A m \in Lookups : m # l => output'[m] = output[m]
      BY <2>1, <2>4
    <3>2. /\ output'[l] = Append(output[l], [idx |-> idx, value |-> <<run, idx>>])
          /\ output[l] \in Seq(Answer)
      BY <2>1, <2>4
    <3>3. \A q \in DOMAIN output'[l] :
            \/ q \in DOMAIN output[l] /\ output'[l][q] = output[l][q]
            \/ output'[l][q] = [idx |-> idx, value |-> <<run, idx>>]
      BY <3>2
    <3>4. \A q \in DOMAIN output'[l] : output'[l][q].value = <<run, output'[l][q].idx>>
      BY <2>2, <3>3 DEF AnswersAreCurrent
    <3> QED BY <1>2, <2>2, <3>1, <3>4 DEF AnswersAreCurrent
  <2> QED BY <1>3, <2>3, <2>4
<1>8. Current'
  BY <1>1, <1>2, <1>7 DEF Current
<1> QED BY <1>5, <1>6, <1>8 DEF IInv

LEMMA InitHolds == Init => IInv
<1> SUFFICES ASSUME Init PROVE IInv
  OBVIOUS
<1> USE DEF Init
<1>1. TableSize \in Nat /\ MaxRuns \in Nat /\ NbLevels \in Nat
  BY ConstantsAssumption DEF TableSize
<1>2. Cached = 0 /\ cachedEntries \in Seq(Value)
  BY DEF Cached
<1>3. TypeOK
  <2>2. output \in [Lookups -> Seq(Answer)]
    OBVIOUS
  <2>3. /\ pc \in [Lookups -> {"ready", "append", "read", "unlock", "query", "done"}]
        /\ i \in [Lookups -> 0 .. TableSize] /\ offset \in [Lookups -> 0 .. TableSize]
    BY <1>1
  <2>4. /\ run \in 0 .. MaxRuns /\ level \in 0 .. NbLevels /\ failed \in BOOLEAN
        /\ capacity \in {0, TableSize} /\ cachedOffset \in 0 .. TableSize
        /\ lock \in Lookups \union {"free"}
    <3>1. run = 0 /\ level = 0 /\ failed = FALSE /\ capacity = 0 /\ cachedOffset = 0 /\ lock = "free"
      OBVIOUS
    <3> HIDE DEF Init
    <3>2. 0 \in 0 .. MaxRuns /\ 0 \in 0 .. NbLevels /\ 0 \in 0 .. TableSize
      BY <1>1
    <3> QED BY <3>1, <3>2
  <2> HIDE DEF Init
  <2> QED BY <1>2, <2>2, <2>3, <2>4 DEF TypeOK, Value, Answer
<1>4. Locking
  BY ConstantsAssumption DEF Locking
<1>5. Filling /\ Room
  BY <1>1, <1>2 DEF Filling, Room
<1>6. Current
  BY <1>2 DEF Current, AnswersAreCurrent
<1> QED BY <1>3, <1>4, <1>5, <1>6 DEF IInv

\* A step keeps the invariant and what a lookup is about to read.
LEMMA NextKeeps ==
  ASSUME IInv, [Next]_vars
  PROVE  /\ IInv'
         /\ run' = run =>
              \A m \in Lookups : pc[m] = "query" =>
                \A k \in 1 .. NbEntries[m] : cachedEntries'[k] = cachedEntries[k]
<1>1. CASE StartRun
  <2>1. run' # run
    BY <1>1 DEF StartRun, IInv, TypeOK
  <2> QED BY <1>1, <2>1, StartRunKeeps
<1>2. CASE EndLevel
  BY <1>2, EndLevelKeeps DEF EndLevel
<1>3. CASE Stopped \/ UNCHANGED vars
  <2>1. UNCHANGED vars
    BY <1>3 DEF Stopped
  <2> USE <2>1 DEF vars, locals
  <2>2. TypeOK'
    BY DEF IInv, TypeOK
  <2>3. Locking'
    BY DEF IInv, Locking, Active
  <2>4. Filling'
    BY DEF IInv, Filling, Cached
  <2>5. Room'
    BY DEF IInv, Room, Cached
  <2>6. Current'
    BY DEF IInv, Current, Cached, AnswersAreCurrent
  <2> QED BY <2>2, <2>3, <2>4, <2>5, <2>6 DEF IInv
<1>4. ASSUME NEW l \in Lookups, Lookup(l)
      PROVE  /\ IInv'
             /\ \A m \in Lookups : pc[m] = "query" =>
                  \A k \in 1 .. NbEntries[m] : cachedEntries'[k] = cachedEntries[k]
  <2>1. CASE Lock(l)
    BY <2>1, LockKeeps DEF Lock
  <2>2. CASE AppendZero(l)
    BY <2>2, AppendZeroKeeps
  <2>3. CASE ReadEntry(l)
    BY <2>3, ReadEntryKeeps
  <2>4. CASE Unlock(l)
    BY <2>4, UnlockKeeps DEF Unlock
  <2>5. CASE Query(l) \/ QueryTooLarge(l)
    BY <2>5, QueryKeeps DEF Query, QueryTooLarge
  <2> QED BY <1>4, <2>1, <2>2, <2>3, <2>4, <2>5 DEF Lookup
<1> QED BY <1>1, <1>2, <1>3, <1>4 DEF Next

LEMMA Invariance == Spec => []IInv
<1>1. IInv /\ [Next]_vars => IInv'
  BY NextKeeps
<1> QED BY InitHolds, <1>1, PTL DEF Spec

-----------------------------------------------------------------------------
(* The theorems.                                                              *)

\* The cache and the loop's locals never leave the table.
THEOREM TypeCorrect == Spec => []TypeOK
<1>1. IInv => TypeOK
  BY DEF IInv
<1> QED BY Invariance, <1>1, PTL

\* Every lookup answers with the value that the entry has in this run.
THEOREM Answers == Spec => []AnswersAreCurrent
<1>1. IInv => AnswersAreCurrent
  BY DEF IInv, Current
<1> QED BY Invariance, <1>1, PTL

\* No append reallocates the cache, and what a lookup may index outside the lock is
\* not written again.
THEOREM SliceStays == Spec => NeverResized
<1> DEFINE Stays == /\ Len(cachedEntries') <= capacity'
                    /\ run' = run =>
                         \A l \in Lookups : pc[l] = "query" =>
                           \A k \in 1 .. NbEntries[l] : cachedEntries'[k] = cachedEntries[k]
<1>1. IInv /\ [Next]_vars => [Stays]_vars
  <2> SUFFICES ASSUME IInv, [Next]_vars PROVE Stays
    OBVIOUS
  <2>1. IInv'
    BY NextKeeps
  <2>2. Len(cachedEntries') <= capacity'
    <3>1. cachedEntries' \in Seq(Value) /\ capacity' \in {0, TableSize}
      BY <2>1 DEF IInv, TypeOK, Value
    <3>2. Len(cachedEntries') \in Nat
      BY <3>1
    <3>3. /\ Len(cachedEntries') <= TableSize
          /\ run' = 0 => Len(cachedEntries') = 0
          /\ run' # 0 => capacity' = TableSize
      BY <2>1 DEF IInv, Room, Cached
    <3>4. 0 <= TableSize
      BY ConstantsAssumption DEF TableSize
    <3> QED BY <3>1, <3>2, <3>3, <3>4
  <2> QED BY <2>2, NextKeeps
<1> QED BY Invariance, <1>1, PTL DEF Spec, NeverResized
=============================================================================

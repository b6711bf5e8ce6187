--------------------------- MODULE LookupBlueprint ---------------------------
(* BlueprintLookupHint (constraint/blueprint_logderivlookup.go): the queries of *)
(* one lookup table share a cache of the table's entries, filled on demand by   *)
(* the solver's workers under a lock and read outside of it.  The cache belongs *)
(* to the constraint system and outlives a run: Solve resets it before it runs  *)
(* the solver (constraint/bn254/system.go).                                    *)
(*                                                                            *)
(* A run is reduced to what the cache can tell: the entries get their value at  *)
(* the end of a level, the lookups of a level run concurrently, the barrier     *)
(* (module Solver) separates the levels.                                       *)
EXTENDS Naturals, Sequences

CONSTANTS
  Lookups,     \* the lookup instructions
  NbEntries,   \* calldata[1]: the entries the table had when a lookup was added
  NbQueries,   \* calldata[2]: the queries a lookup answers, nbInputs
  LevelOf,     \* the level of a lookup
  EntryLevel,  \* the level that solves the wires of an entry, 0 for inputs
  NbLevels,
  MaxRuns      \* bound: how often Solve is called, one call after another

TableSize == Len(EntryLevel)

ASSUME ConstantsAssumption ==
  /\ NbEntries \in [Lookups -> Nat] /\ LevelOf \in [Lookups -> Nat]
  /\ NbQueries \in [Lookups -> Nat \ {0}]
  /\ EntryLevel \in Seq(Nat) /\ NbLevels \in Nat \ {0} /\ MaxRuns \in Nat
  /\ "free" \notin Lookups

\* What ConstraintSystem!CompiledIsSound says of a lookup.
ASSUME LookupsAfterEntries ==
  \A l \in Lookups : /\ NbEntries[l] \in 1 .. TableSize
                     /\ LevelOf[l] \in 1 .. NbLevels
                     /\ \A k \in 1 .. NbEntries[l] : EntryLevel[k] < LevelOf[l]

VARIABLES
  run, level,      \* the current call of Solve and its level; level 0: not running
  cachedEntries,   \* the cached values, with their capacity
  capacity,
  cachedOffset,    \* entries the cache has read from EntriesCalldata
  lock,            \* the lookup that holds b.lock, or "free"
  pc, i, offset,   \* per lookup: where it is; the locals of the filling loop
  output,          \* per lookup: the queries it answered so far, each [idx, value]
  failed           \* a query was out of range, or another instruction failed

locals == <<pc, i, offset, output>>
vars == <<run, level, cachedEntries, capacity, cachedOffset, lock, locals, failed>>

Unsolved == <<0, 0>>

\* s.Read of entry k: the value in this run, zero as long as a wire is not solved.
Entry(k) == IF EntryLevel[k] < level THEN <<run, k>> ELSE Unsolved

Active(l) == LevelOf[l] = level

Init ==
  /\ run = 0 /\ level = 0 /\ failed = FALSE
  /\ cachedEntries = <<>> /\ capacity = 0 /\ cachedOffset = 0
  /\ lock = "free"
  /\ pc = [l \in Lookups |-> "ready"]
  /\ i = [l \in Lookups |-> 0] /\ offset = [l \in Lookups |-> 0]
  /\ output = [l \in Lookups |-> <<>>]

\* Mutant: the capacity is one short.
ResetOneShort == cachedEntries' = <<>> /\ cachedOffset' = 0 /\ capacity' = TableSize - 1

\* Reset: one element per entry of the calldata, none used yet.
Reset == cachedEntries' = <<>> /\ cachedOffset' = 0 /\ capacity' = TableSize

\* Solve: reset the stateful blueprints, start at the first level.
StartRun ==
  /\ level = 0 /\ run < MaxRuns
  /\ run' = run + 1 /\ level' = 1 /\ failed' = FALSE
  /\ Reset
  /\ pc' = [l \in Lookups |-> "ready"]
  /\ output' = [l \in Lookups |-> <<>>]
  /\ UNCHANGED <<lock, i, offset>>

\* Mutant: no lock.
EnterUnlocked(l) == UNCHANGED lock

Enter(l) == lock = "free" /\ lock' = l

\* b.lock.Lock(), and the loop's locals if entries are missing.
Lock(l) ==
  /\ Active(l) /\ pc[l] = "ready"
  /\ Enter(l)
  /\ i' = [i EXCEPT ![l] = Len(cachedEntries)]
  /\ offset' = [offset EXCEPT ![l] = cachedOffset]
  /\ pc' = [pc EXCEPT ![l] = IF Len(cachedEntries) < NbEntries[l] THEN "append" ELSE "unlock"]
  /\ UNCHANGED <<run, level, cachedEntries, capacity, cachedOffset, output, failed>>

\* b.cachedEntries = append(b.cachedEntries, zero)
AppendZero(l) ==
  /\ pc[l] = "append"
  /\ cachedEntries' = Append(cachedEntries, Unsolved)
  /\ pc' = [pc EXCEPT ![l] = "read"]
  /\ UNCHANGED <<run, level, capacity, cachedOffset, lock, i, offset, output, failed>>

\* b.cachedEntries[i], delta = s.Read(b.EntriesCalldata[offset:]); the offset is
\* kept for the next lookup when the loop ends.
ReadEntry(l) ==
  /\ pc[l] = "read"
  /\ cachedEntries' = [cachedEntries EXCEPT ![i[l] + 1] = Entry(offset[l] + 1)]
  /\ i' = [i EXCEPT ![l] = @ + 1]
  /\ offset' = [offset EXCEPT ![l] = @ + 1]
  /\ IF i[l] + 1 < NbEntries[l]
     THEN pc' = [pc EXCEPT ![l] = "append"] /\ UNCHANGED cachedOffset
     ELSE pc' = [pc EXCEPT ![l] = "unlock"] /\ cachedOffset' = offset[l] + 1
  /\ UNCHANGED <<run, level, capacity, lock, output, failed>>

\* Mutant: the lock is kept when the function goes on.
UnlockForgotten(l) ==
  /\ pc[l] = "unlock"
  /\ pc' = [pc EXCEPT ![l] = "query"]
  /\ UNCHANGED <<run, level, cachedEntries, capacity, cachedOffset, lock, i, offset,
                 output, failed>>

\* b.lock.Unlock()
Unlock(l) ==
  /\ pc[l] = "unlock"
  /\ lock' = "free"
  /\ pc' = [pc EXCEPT ![l] = "query"]
  /\ UNCHANGED <<run, level, cachedEntries, capacity, cachedOffset, i, offset,
                 output, failed>>

\* entries := b.cachedEntries[:nbEntries], outside the lock, and for one query after
\* the other the output wire is set to entries[idx].  The slice header is read while
\* another lookup may append: only its length changes (NeverResized), and
\* [:nbEntries] does not depend on that.
Query(l) ==
  /\ pc[l] = "query"
  /\ \E idx \in 1 .. NbEntries[l] :
       output' = [output EXCEPT ![l] = Append(@, [idx |-> idx, value |-> cachedEntries[idx]])]
  /\ pc' = [pc EXCEPT ![l] = IF Len(output[l]) + 1 < NbQueries[l] THEN "query" ELSE "done"]
  /\ UNCHANGED <<run, level, cachedEntries, capacity, cachedOffset, lock, i, offset,
                 failed>>

\* The index is not one of the first nbEntries: "lookup query too large".  The
\* outputs of the queries before it stay set.
QueryTooLarge(l) ==
  /\ pc[l] = "query"
  /\ failed' = TRUE
  /\ pc' = [pc EXCEPT ![l] = "done"]
  /\ UNCHANGED <<run, level, cachedEntries, capacity, cachedOffset, lock, i, offset,
                 output>>

\* The barrier.  After an error in this level the run ends here; so it does after
\* the last level.
EndLevel ==
  /\ level > 0
  /\ \A l \in Lookups : Active(l) => pc[l] = "done"
  /\ \E other \in BOOLEAN :      \* another instruction of the level failed
       level' = IF failed \/ other \/ level = NbLevels THEN 0 ELSE level + 1
  /\ UNCHANGED <<run, cachedEntries, capacity, cachedOffset, lock, locals, failed>>

Lookup(l) == \/ Lock(l) \/ AppendZero(l) \/ ReadEntry(l) \/ Unlock(l)
             \/ Query(l) \/ QueryTooLarge(l)

Stopped == level = 0 /\ run = MaxRuns /\ UNCHANGED vars

Next == StartRun \/ EndLevel \/ Stopped \/ \E l \in Lookups : Lookup(l)

Fairness == WF_vars(EndLevel) /\ \A l \in Lookups : WF_vars(Lookup(l))

Spec == Init /\ [][Next]_vars /\ Fairness

-----------------------------------------------------------------------------
\* The variables hold the kinds of values the blueprint gives them; the cache never
\* has a position beyond the table.
TypeOK ==
  /\ run \in 0 .. MaxRuns /\ level \in 0 .. NbLevels /\ failed \in BOOLEAN
  /\ cachedEntries \in Seq((0 .. MaxRuns) \X (0 .. TableSize))
  /\ capacity \in {0, TableSize} /\ cachedOffset \in 0 .. TableSize
  /\ lock \in Lookups \union {"free"}
  /\ pc \in [Lookups -> {"ready", "append", "read", "unlock", "query", "done"}]
  /\ i \in [Lookups -> 0 .. TableSize] /\ offset \in [Lookups -> 0 .. TableSize]
  /\ output \in [Lookups -> Seq([idx   : 1 .. TableSize,
                                 value : (0 .. MaxRuns) \X (0 .. TableSize)])]

\* A lookup answers each query with the value the entry has in this very run: not the
\* zero of an entry appended but not read yet or read before its wires were solved, not
\* the value another entry or an earlier run left in the cache.
AnswersAreCurrent ==
  \A l \in Lookups : \A q \in DOMAIN output[l] :
    output[l][q].value = <<run, output[l][q].idx>>

\* "we only append to the entries and never resize the slice; so we can access these
\* indices safely": append never outgrows the capacity Reset computed, and what a
\* lookup found in the cache when it left the lock stays as it is.
NeverResized ==
  [][ /\ Len(cachedEntries') <= capacity'
      /\ run' = run =>
           \A l \in Lookups : pc[l] = "query" =>
             \A k \in 1 .. NbEntries[l] : cachedEntries'[k] = cachedEntries[k] ]_vars

\* Every lookup a run starts ends, so the lock never blocks the level.
LevelsEnd == level # 0 ~> level = 0
==============================================================================

--------------------------- MODULE ConstraintSystem ---------------------------
(* The level builder of constraint.System (constraint/core.go,                 *)
(* instruction_tree.go and UpdateInstructionTree of each blueprint): every     *)
(* instruction added gets the first level after those of the wires it depends  *)
(* on, and its outputs are inserted at that level.                             *)
(*                                                                            *)
(* Wires are numbers: the inputs 0 .. NbInputs-1 come first, then the internal  *)
(* wires in the order they were added.  The terms of a linear expression are    *)
(* reduced to the set of their wires; constants have none.                     *)
EXTENDS Integers, Sequences, FiniteSets, SystemContract

CONSTANTS
  NbInputs,         \* public and secret variables; all added before any constraint
  MaxInstructions,  \* bounds of a run of the checker: instructions,
  MaxInternal,      \* internal wires,
  MaxEntries,       \* entries of the lookup table,
  MaxTerms          \* and wires of an expression

ASSUME NbInputsAssumption == NbInputs \in Nat
ASSUME BoundsAssumption ==
  MaxInstructions \in Nat /\ MaxInternal \in Nat /\ MaxEntries \in Nat /\ MaxTerms \in Nat

LevelUnset == -1

VARIABLES
  lbWireLevel,   \* level of each internal wire, LevelUnset until it is inserted
  instructions,  \* [reads, outputs]: wires a solver reads and sets for it
  levels,        \* System.Levels: sequences of indexes into instructions
  entries,       \* EntriesCalldata of the lookup blueprint: the wires of each entry
  lookup         \* its cache [maxLevel, maxLevelPosition]; maxLevel is 1 more than
                 \* the level it stands for, so that its zero value is LevelUnset

vars == <<lbWireLevel, instructions, levels, entries, lookup>>

Inputs   == 0 .. NbInputs - 1
Internal == NbInputs .. NbInputs + Len(lbWireLevel) - 1
Wires    == Inputs \union Internal

HasWire(w) == w >= NbInputs /\ w - NbInputs < Len(lbWireLevel)

GetWireLevel(w) == lbWireLevel[w - NbInputs + 1]

Unset(W) == {w \in W : HasWire(w) /\ GetWireLevel(w) = LevelUnset}

Levels(W) == {GetWireLevel(w) : w \in {v \in W : HasWire(v)}}

\* One element: the greater of floor and of the greatest element of L.
MaxWith(floor, L) == {m \in {floor} \union L : m >= floor /\ \A l \in L : l <= m}

\* Mutant: outputs are one level too high.
InsertAbove(wireLevels, outputs, level) ==
  [k \in DOMAIN wireLevels |->
     IF k + NbInputs - 1 \in outputs THEN level + 1 ELSE wireLevels[k]]

\* InsertWire for each output: its level is the instruction's.  It panics on a wire
\* that has a level, which no output here has: an output is a new wire or an unset one.
Insert(wireLevels, outputs, level) ==
  [k \in DOMAIN wireLevels |->
     IF k + NbInputs - 1 \in outputs THEN level ELSE wireLevels[k]]

Fresh(n) == NbInputs + Len(lbWireLevel) .. NbInputs + Len(lbWireLevel) + n - 1

\* Mutant: an empty level before a new one.
AppendSkipping(level, i) ==
  IF level >= Len(levels) THEN levels \o <<<<>>, <<i>>>>
  ELSE [levels EXCEPT ![level + 1] = Append(@, i)]

\* Levels[level] gets the instruction; a level that is not there yet is appended.
AddToLevel(level, i) ==
  IF level >= Len(levels) THEN Append(levels, <<i>>)
  ELSE [levels EXCEPT ![level + 1] = Append(@, i)]

\* System.AddInstruction with the level UpdateInstructionTree returned: nbFresh wires
\* are added first (AddInternalVariable), then all outputs are inserted.
AddInstruction(reads, outputs, nbFresh, level) ==
  /\ Len(instructions) < MaxInstructions
  /\ Len(lbWireLevel) + nbFresh <= MaxInternal
  /\ instructions' = Append(instructions, [reads |-> reads, outputs |-> outputs])
  /\ lbWireLevel' = Insert(lbWireLevel \o [k \in 1 .. nbFresh |-> LevelUnset], outputs, level)
  /\ levels' = AddToLevel(level, Len(instructions) + 1)

-----------------------------------------------------------------------------
Init ==
  /\ lbWireLevel = <<>> /\ instructions = <<>> /\ levels = <<>>
  /\ entries = <<>>
  /\ lookup = [maxLevel |-> 0, maxLevelPosition |-> 0]

AddInternalVariable ==
  /\ Len(lbWireLevel) < MaxInternal
  /\ lbWireLevel' = Append(lbWireLevel, LevelUnset)
  /\ UNCHANGED <<instructions, levels, entries, lookup>>

\* A rank-1 constraint over the wires W.  It does not know which wires are its
\* outputs: those not inserted yet.
AddR1C(W) ==
  /\ \E max \in MaxWith(LevelUnset, Levels(W \ Unset(W))) :
       AddInstruction(W \ Unset(W), Unset(W), 0, max + 1)
  /\ UNCHANGED <<entries, lookup>>

\* A PLONK constraint over xa, xb, xc: the last wire not inserted is the output.
AddSparseR1C(xa, xb, xc) ==
  LET x       == <<xa, xb, xc>>
      W       == {xa, xb, xc}
      outputs == {x[k] : k \in {k \in 1 .. 3 : /\ x[k] \in Unset(W)
                                               /\ \A j \in k + 1 .. 3 : x[j] \notin Unset(W)}}
  IN  /\ \E max \in MaxWith(LevelUnset, Levels(W \ Unset(W))) :
           AddInstruction(W \ outputs, outputs, 0, max + 1)
      /\ UNCHANGED <<entries, lookup>>

\* A hint over the wires W; its outputs are new wires.
AddSolverHint(W, nbOutput) ==
  /\ \E max \in MaxWith(LevelUnset, Levels(W)) :
       AddInstruction(W, Fresh(nbOutput), nbOutput, max + 1)
  /\ UNCHANGED <<entries, lookup>>

\* The batch inverse of nbInputs expressions over the wires W: one output for each.
AddBatchInverse(W, nbInputs) ==
  /\ \E max \in MaxWith(LevelUnset, Levels(W)) :
       AddInstruction(W, Fresh(nbInputs), nbInputs, max + 1)
  /\ UNCHANGED <<entries, lookup>>

\* table.Insert: the entry is appended to the calldata shared by all queries.
InsertEntry(W) ==
  /\ Len(entries) < MaxEntries
  /\ entries' = Append(entries, W)
  /\ UNCHANGED <<lbWireLevel, instructions, levels, lookup>>

EntryWires(from, to) == UNION {entries[k] : k \in from .. to}

\* Mutant: the entry at the cached position is skipped.
CacheSkippingOne(nbEntries) ==
  {[maxLevel |-> m, maxLevelPosition |-> nbEntries] :
     m \in MaxWith(lookup.maxLevel,
             {l + 1 : l \in Levels(EntryWires(lookup.maxLevelPosition + 2, nbEntries))})}

\* The cache after a lookup: the entries it has not seen yet raise maxLevel.
UpdatedCache(nbEntries) ==
  IF lookup.maxLevelPosition - 1 < nbEntries
  THEN {[maxLevel |-> m, maxLevelPosition |-> nbEntries] :
          m \in MaxWith(lookup.maxLevel,
                  {l + 1 : l \in Levels(EntryWires(lookup.maxLevelPosition + 1, nbEntries))})}
  ELSE {lookup}

\* table.Lookup of nbQueries indexes over the wires W: depends on the table up to the
\* entries it has now.
AddLookup(W, nbQueries) ==
  /\ entries # <<>>
  /\ \E cache \in UpdatedCache(Len(entries)) :
       /\ lookup' = cache
       /\ \E max \in MaxWith(cache.maxLevel - 1, Levels(W)) :
            AddInstruction(W \union EntryWires(1, Len(entries)), Fresh(nbQueries),
                           nbQueries, max + 1)
  /\ UNCHANGED entries

Expressions == {W \in SUBSET Wires : Cardinality(W) <= MaxTerms}

\* What System takes on trust of the frontends that call it.  A constraint has one
\* wire at most that nothing set before (solveR1C panics on two), everything else
\* only reads wires that an instruction sets already: a frontend makes a wire known
\* to a circuit with the instruction that sets it.  Only hints assert this, and only
\* in a debug build (blueprint_hint.go:95).
OneOutput(W) == Cardinality(Unset(W)) <= 1
AllSet(W)    == Unset(W) = {}

Next ==
  \/ AddInternalVariable
  \/ \E W \in Expressions : OneOutput(W) /\ AddR1C(W)
  \/ \E xa, xb, xc \in Wires : OneOutput({xa, xb, xc}) /\ AddSparseR1C(xa, xb, xc)
  \/ \E W \in Expressions : \E n \in 1 .. 2 : AllSet(W) /\ AddSolverHint(W, n)
  \/ \E W \in Expressions : \E n \in 1 .. 2 : AllSet(W) /\ AddBatchInverse(W, n)
  \/ \E W \in Expressions : AllSet(W) /\ InsertEntry(W)
  \/ \E W \in Expressions : \E n \in 1 .. 2 : AllSet(W) /\ AddLookup(W, n)

Spec == Init /\ [][Next]_vars

-----------------------------------------------------------------------------
\* What the solver is given (see SystemContract).
Compiled ==
  [instructions |-> DOMAIN instructions,
   levels |-> levels,
   wires  |-> Wires,
   inputs |-> Inputs,
   reads  |-> [i \in DOMAIN instructions |-> instructions[i].reads],
   writes |-> [i \in DOMAIN instructions |-> instructions[i].outputs]]

\* The variables hold the kinds of values the builder gives them.
TypeOK ==
  /\ lbWireLevel \in Seq(Int)
  /\ \A k \in DOMAIN lbWireLevel : lbWireLevel[k] \in LevelUnset .. Len(levels) - 1
  /\ instructions \in Seq([reads : SUBSET Wires, outputs : SUBSET Internal])
  /\ levels \in Seq(Seq(DOMAIN instructions))
  /\ entries \in Seq(SUBSET Wires)
  /\ lookup \in [maxLevel : 0 .. Len(levels), maxLevelPosition : 0 .. Len(entries)]

\* "it is guaranteed that all dependencies for constraints in a level l are solved in
\* previous levels": the compiled system may be solved level by level, in any order
\* and in parallel within a level.
CompiledIsSound == SoundSystem(Compiled)

\* "we can't skip levels, so appending is fine": no level is empty, and an instruction
\* never lands beyond the first new level.
NoLevelSkipped ==
  [][ /\ Len(levels') \in {Len(levels), Len(levels) + 1}
      /\ \A l \in DOMAIN levels' : levels'[l] # <<>>
      /\ \A k \in DOMAIN lbWireLevel' : lbWireLevel'[k] < Len(levels') ]_vars
==============================================================================

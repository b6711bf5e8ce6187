# Verification of gnark's solver, provers and commitments

gnark compiles a circuit written in Go to a constraint system, solves the system for a witness with a
pool of goroutines, and proves the solution with Groth16 or PLONK. This directory holds TLA+ models of
the parts whose correctness depends on the order in which things happen, the TLC configurations that
check them, and TLAPS proofs about the builder of the constraint system, the parallel solver, the
compilation of gadgets that need randomness, the ceremony that generates Groth16 keys, the lookup cache, the
vectors of a sparse solution, the goroutines of both provers, and the commitments the Groth16 prover shares with
setup and verifier.

The per-curve packages are generated from templates and differ only in the field and curve; the bn254
code stands for all of them.

## 1. The system

| component | state | operations | hard behaviour | what makes it correct |
|---|---|---|---|---|
| **constraint system builder** (`constraint/core.go`, `instruction_tree.go`, `blueprint_*.go`) | instructions, levels, level of each wire, entry-level cache of each lookup table | `AddInternalVariable`, `AddR1C`, `AddSparseR1C`, `AddSolverHint`, `AddInstruction` | which wires an instruction sets follows from what was inserted before; the lookup's cache of levels | dependencies lie in earlier levels, one writer per wire, no empty level |
| **parallel solver** (`constraint/bn254/solver.go`) | wire values, `chTasks`, `chError`, `WaitGroup` | `run`, `processInstruction`, `set` | unsynchronised workers, workers that die of an error, the cut of a level, channels closed in a `defer` | as if instructions ran one by one; always returns; no data race |
| **lookup blueprint** (`constraint/blueprint_logderivlookup.go`) | cached entries, position, mutex | `Solve`, `Reset` | a slice filled under a lock and read outside; a cache that survives a run | answers come from this run's witness |
| **sparse solution** (`solver.go`, `plonk/bn254/setup.go`) | L, R, O | `initSparseLRO`, `setSparseLRO`, `buildPermutation` | rows are filled inline, in any order, instead of after solving | every position of a wire holds its value |
| **Groth16 prover** (`backend/groth16/bn254/prove.go`) | seven goroutines, six channels, shared results | `Prove`, the commitment hint | early returns while goroutines run; the hint runs inside the solver's workers | complete proof or an error; nothing leaks |
| **Groth16 commitments** (`frontend/cs/r1cs/api.go`, `constraint/commitment.go`, `setup.go`, `verify.go`) | sorted lists of wires | `Commit`, `Setup`, `filterHeap`, `GetPublicAndCommitmentCommitted` | four pieces of code walk the same lists in step | same wire, same key, same challenge |
| **PLONK prover** (`backend/plonk/bn254/prove.go`) | polynomials, transcript, proof; nine channels | nine goroutines of an errgroup and their helpers | polynomials changed in place; errors at any point | ordered accesses, right forms, first error returned |
| **compilation and deferred callbacks** (`frontend/compile.go`, `internal/circuitdefer`, `std/multicommit`) | list of functions, the multicommitter's callbacks and `closed` flag | `Defer`, `callDeferred`, `WithCommitment`, `commitAndCall` | functions that defer others; callbacks inside a deferred function | every function runs once; no argument is lost |
| **gadgets that defer** (`std/rangecheck`, `std/lookup/logderivlookup`, `std/math/emulated`, `fields_bls12377/sz.go`) | what each collected | `Check`, `Insert`, `Lookup`, `mulMod`, `checkZero`, `addSZCheck` and their deferred functions | collecting goes on while the functions run | what was collected is committed to, then asserted |
| **MPC setup** (`backend/groth16/bn254/mpcsetup`) | contributions, objects of a verifier | `Contribute`, `ReadFrom`, `VerifyPhase1`, `VerifyPhase2`, `Verify`, `Seal` | objects changed by verification and sealing; forks; challenges left out | exactly the chains are accepted; results are reproducible |
| SRS cache, witness filling, profiling, hint registry | maps and channels | `NewSRS`, `Fill`, `Start`/`Stop`, `RegisterHint` | check-then-act, producer goroutine | one value per key, no leak |
| other gadgets (`std/`), test engine, serialization, Solidity export | none shared | sequential | arithmetic | covered by tests, not by these models |

How they interact: a frontend calls the builder's `Add*` methods; `Solve` resets the stateful blueprints
and runs the pool; the pool calls back into hints, among them the provers' commitment hint, which commits
and hashes while other workers solve; the provers read the solution without a lock once `Solve` returned;
setup and verifier never meet the prover and only share the lists of wires in the constraint system.
Before all this, `Compile` runs the circuit's `Define` and then the functions that gadgets deferred, which
call the multicommitter, which calls back into the gadgets. The ceremony replaces `Setup`: its participants
share nothing but what they publish.

## 2. Modules

| module | models | how |
|---|---|---|
| `Solve` | what a caller of `Solve` relies on | instructions one at a time, each once, after the wires it reads; `nil` only if all hold and all wires have values |
| `SystemContract` | the comment on `System.Levels` as a formula | `EachOnce`, `OneWriter`, `ReadsFromEarlierLevels`; shared by the next two |
| `ConstraintSystem` | the builder | one action per kind of instruction; an expression is the set of its wires |
| `Solver` | `solver.run` | `main` is the caller's program counter, `split` the locals of the cutting loop, `wpc`/`task` each worker's; `Begin`/`Finish` make an instruction take time, so that overlaps are visible |
| `LookupBlueprint` | `BlueprintLookupHint.Solve`/`Reset` | one step per statement that touches the cache; `s.Read` of an unsolved wire is zero, as in the code |
| `SparseSolution` | `initSparseLRO`, `setSparseLRO`, `buildPermutation` | the value of a wire is symbolic; wire 0 may be zero |
| `Groth16Prover` | `groth16.Prove` | one step per statement of the hint, per channel operation and per computation; the hash is the sequence of what was written since `Reset` |
| `Groth16Commitments` | `Commit`, `Setup`, `filterHeap`, `Verify` | `Commit` is a step per wire popped from the heap; the others are operators on the resulting lists, the walks of `Setup` and of `filterHeap` (over a heap that may hold a wire twice) round by round |
| `PlonkProver` | `plonk.Prove` | a goroutine is a sequence of steps (`Use`, `Wait`, `Close`, `Start`, `Join`); a use has a begin and an end, needs pairs of an object and its state and leaves others |
| `Deferred` | `parseCircuit` after the inputs, `callDeferred`, the multicommitter and four kinds of gadgets | `pc` says whose code runs; the circuit may do any operation in `Define`, in a function it deferred and in a callback of its own; the queries of a gadget are a number, because every list the code takes of them is a prefix |
| `Ceremony` | `mpcsetup` of both phases | parameters are the set of the secrets multiplied into them, a hash is what was hashed; `memory` holds the verifier's objects, which `Verify` and `Seal` change, `origins` what they were when read |
| `MC*` | values of the constants for TLC | |
| `SolverProofs`, `DeferredProofs`, `CeremonyProofs`, `ConstraintSystemProofs`, `LookupBlueprintProofs`, `PlonkProofs`, `Groth16ProverProofs`, `Groth16CommitmentsProofs` | theorems | section 5; `PlonkProofs` is about `SparseSolution` and `PlonkProver` |

`SystemContract` composes builder and solver: the run `constraint_system` checks that every system built by a frontend
keeps the contract (`CompiledIsSound`, a theorem too), `Solver` assumes it (`SystemsAssumption`, evaluated by TLC on the
run's systems) and the proofs of `RaceFreedom` and `Refinement` use it. `Solver` implements `Solve`: `RefinesSolve` is the
abstract specification under the mapping *done* = processed and not failing, *failed* = processed and
failing, *outcome* = what `run` returned.

`Deferred` has no bound but the number of queries: an "own" function stands for whatever the circuit's author
defers or asks a challenge for. `author` remembers whether the circuit did anything but use gadgets in
`Define`. In `Ceremony` a proof of an update shows that its secret was multiplied into the parameters by
someone who knew the challenge it names; that the pairings establish this is assumed, not modelled. All
seals use one beacon. What contributors publish is what `Contribute` made, with or without its challenge: an
object that nobody's `Contribute` made, or one whose lengths do not fit, does not occur, and "exactly the chains
are accepted" is relative to that.

An instruction that fails may have set any of its wires: `solveHintGeneric` copies all outputs before it returns
the hint's error, a lookup stops at the first index beyond its table, others fail before they set any.

`ConstraintSystem` takes two things on trust of the frontends, `OneOutput` and `AllSet` in `Next`: a constraint has
at most one wire that no instruction sets yet, and hints, batch inverses, entries and lookups only read wires
that one does. The code asserts the second for hints alone, in debug builds, and the solver panics when the
first fails. Everything said of "any sequence" below is of such sequences.

In `Groth16Prover`, `"solve"` is one of the calls that may fail: invalid options and an instruction other than a
commitment hint. In `PlonkProver` the commitment hints are part of the call of `Solve`: `commitToLRO` and the
others read what they set after it alone. `commitToLRO` indexes the witness at 0 and panics on a circuit
without inputs, which ends the process and is not modelled; `sparse_no_inputs` is about such circuits.

## 3. Runs

| run | checks | bounds |
|---|---|---|
| `solver_pool` | `TypeOK`, `TasksCoverLevel`, `NoDataRace`, `WorkersSuffice`, `ErrorChannelOpen`, `RefinesSolve`, `RunReturns` | 3 workers, tasks of at least 1 instruction, three systems, every set of failing instructions (346k states) |
| `constraint_system` | `TypeOK`, `CompiledIsSound`, `NoLevelSkipped` | 1 input, 3 instructions, 3 internal wires, 2 table entries, 2 wires per expression (344k states) |
| `lookup_cache` | `TypeOK`, `AnswersAreCurrent`, `NeverResized`, `LevelsEnd` | 4 lookups of one or two queries on 2 levels (`NbQueries`), 4 entries solved at different levels, 2 runs, the first may fail |
| `sparse_solution` | `TypeOK`, `CopyConstraintsHold` | three circuits with every kind of constraint, with and without padding, wire 0 zero or not; domains of up to 16 rows (`DomainSizes`) |
| `sparse_no_inputs` | `PaddingHoldsWire0` (violated) | a circuit without inputs |
| `groth16_prover` | `TypeOK`, `ProofIsComplete`, `ReadAfterComputed`, `ChallengeOfOwnCommitment`, `NothingLeaks` | 2 commitments on one worker, up to two failing calls (`MaxFaults`), the solver among them |
| `groth16_two_workers` | `ChallengeOfOwnCommitment` (violated) | 2 commitments on two workers |
| `plonk_prover` | `ProverTypes`, `NoConflictingAccess`, `InputsReady`, `ProofOrCause`, `EveryGoroutineEnds` | the 11 goroutines of the code, up to 3 failing calls |
| `groth16_commitments` | `TypeOK`, `KeysMatchWitness`, `ChallengesMatch` | 10 wires, 3 calls of `Commit`, 2 wires each |
| `groth16_recommit` | `RecommitsToCommitment` (violated) | the same |
| `deferred` | `TypeOK`, `NothingUnproved`, `ArgumentsAreProved`, `ChallengeComesLast`, `DefineOnlyCompiles` | a table, a field of each kind, the range checker and the Schwartz-Zippel checker; 4 queries, 1 own function or callback (2.7M states) |
| `ceremony` | `TypeOK`, `AcceptsExactlyChains`, `EveryContributionCounts`, `ResultsKeep`, `Reproducible` | 2 contributions, 2 objects read, 3 calls of `VerifyPhase1` or `VerifyPhase2` (304k states) |

Why the bounds are enough. *solver_pool*: with 3 workers a level of 3, 4 or 5 instructions meets every
case of the cut (exact, one extra, two extra), two workers can die while a third goes on, and the levels
of one instruction are sequential; the theorems remove the bound. *constraint_system*: the deepest
dependency the level rule can get wrong is hint, then entry, then a second lookup that must not rely on
the cached level, which is three instructions. *lookup_cache*: two lookups that fill, a third that reads
meanwhile, an entry that must not be cached before the second level, and a second query, so that a lookup may
have answered one when the next is out of range. *groth16_commitments*: the first
commitment whose number differs from its place in the shortened list is the second, so that three calls
show the difference. *plonk_prover*: three failures are one more than any two goroutines that race to
report. *deferred*: the shortest dangerous circuit multiplies in a function it defers after the field's own,
or in a callback of its own, which takes a field, a multiplication before and one after. *ceremony*: two
contributions are a chain or a fork; three calls verify an object, verify it again, and read a result that
must not have changed; the theorems about these two modules remove the bounds. The constraint system's run
switches deadlock checking off, since a circuit may be finished at any time; so do `deferred`, where a
compilation ends, and `ceremony`, where nobody must go on.
All other models have an explicit step for "everything ended", so that TLC's deadlock check is a check that
no goroutine is stuck.

`MinWork` (the code's 50) and `NbTasks` are constants of `Solver`; the cut depends on them only through
comparisons with the level's length.

### What the violated runs show

* `sparse_no_inputs`: `initSparseLRO` copies `values[0]` to the padding before wire 0 is solved when the
  circuit has no inputs; "rows past the constraint range get values[0]" is then not what happens.
* `groth16_two_workers`: the prover's hints share `opt.HashToFieldFn`. Constraints of a level "can be
  parallelized", and a level with more than 50 instructions is; two independent commitments on both sides of
  a cut interleave `Write`, `Sum` and `Reset`. On one worker the challenge is right.
* `groth16_recommit`: `Commit` uses the number of the commitment as an index into the list it shortens while
  it walks the wires, so that a wire created after the first commitment and committed to by the second gets
  the wrong commitment, or none and a panic, when it is committed to again. `KeysMatchWitness` and
  `ChallengesMatch` hold all the same: setup, prover and verifier agree on the wrong lists.

## 4. Fairness

All liveness is under weak fairness of each goroutine: Go's scheduler is preemptive, and a goroutine whose
channel operation stays possible is eventually run. `Solver` has it for the caller and each worker,
`Groth16Prover` for `Prove`, each goroutine and each hint, `PlonkProver` for each goroutine and the final
`Wait`, `LookupBlueprint` for each lookup and the barrier. A mutex needs no strong fairness in
`LookupBlueprint` because each lookup takes it once per run. Nothing is assumed about failures: a call that
can fail may or may not.

## 5. Proofs

| theorem | states | rests on |
|---|---|---|
| `SolverProofs!TypeCorrect` | `Spec => []TypeOK` | `NbTasksAssumption`, `MinWorkAssumption` (positive numbers), `SystemsAssumption` (each system is well typed and keeps the compiler's contract) |
| `SolverProofs!LevelsAreCovered` | `Spec => []TasksCoverLevel` | the same |
| `SolverProofs!EnoughWorkers` | `Spec => []WorkersSuffice` | the same |
| `SolverProofs!ErrorsCanBeSent` | `Spec => []ErrorChannelOpen` | the same |
| `SolverProofs!RaceFreedom` | `Spec => []NoDataRace` | the same |
| `SolverProofs!Refinement` | `Spec => RefinesSolve` | the same |
| `DeferredProofs!TypeCorrect` | `Spec => []TypeOK` | `GadgetsAssumption` (the kinds of gadgets are disjoint), `BoundsAssumption` |
| `DeferredProofs!AllChecksProved` | `Spec => []NothingUnproved` | the same |
| `DeferredProofs!AllArgumentsProved` | `Spec => []ArgumentsAreProved` | the same |
| `DeferredProofs!Commitment` | `Spec => []ChallengeComesLast` | the same |
| `DeferredProofs!DefineIsSafe` | `Spec => []DefineOnlyCompiles` | the same |
| `CeremonyProofs!TypeCorrect` | `Spec => []TypeOK` | `BoundsAssumption` |
| `CeremonyProofs!OnlyChains` | `Spec => []AcceptsExactlyChains` | the same |
| `CeremonyProofs!AllContribute` | `Spec => []EveryContributionCounts` | the same |
| `CeremonyProofs!Keep` | `Spec => []ResultsKeep` | the same |
| `CeremonyProofs!Rerun` | `Spec => []Reproducible` | the same |
| `ConstraintSystemProofs!TypeCorrect` | `Spec => []TypeOK` | `NbInputsAssumption` (a natural number); `OneOutput` and `AllSet` are guards of `Next` |
| `ConstraintSystemProofs!Sound` | `Spec => []CompiledIsSound` | the same |
| `ConstraintSystemProofs!LevelsGrowByOne` | `Spec => NoLevelSkipped` | the same |
| `ConstraintSystemProofs!BuiltForTheSolver` | `Spec => [](WellTyped(Compiled) /\ SoundSystem(Compiled))` | the same |
| `LookupBlueprintProofs!TypeCorrect` | `Spec => []TypeOK` | `ConstantsAssumption` (types of the constants), `LookupsAfterEntries` (a lookup's level is above those of its entries, what `Sound` says of it) |
| `LookupBlueprintProofs!Answers` | `Spec => []AnswersAreCurrent` | the same |
| `LookupBlueprintProofs!SliceStays` | `Spec => NeverResized` | the same |
| `PlonkProofs!Types` | `Spec => []TypeOK` | `CircuitsAssumption` (each circuit is one the frontend builds: a constraint has at most one unsolved wire, its solver's; some domain has room for its rows) |
| `PlonkProofs!CopyConstraints` | `Spec => []CopyConstraintsHold` | the same and `HaveInputs`: each circuit has an input |
| `PlonkProofs!Paddings` | `Spec => []PaddingHoldsWire0` | the same and `HaveInputs` |
| `PlonkProofs!ProverTypesAlways` | `ProverSpec => []ProverTypes` | no assumption; any `MaxFailures` |
| `PlonkProofs!NeverConflicting` | `ProverSpec => []NoConflictingAccess` | the same |
| `PlonkProofs!InputsAlwaysReady` | `ProverSpec => []InputsReady` | the same |
| `PlonkProofs!ProofOrItsCause` | `ProverSpec => []ProofOrCause` | the same |
| `Groth16ProverProofs!TypeCorrect` | `Spec => []TypeOK` | `ConstantsAssumption` (types of the constants, `Capacity` not zero) |
| `Groth16ProverProofs!Complete` | `Spec => []ProofIsComplete` | the same |
| `Groth16ProverProofs!ReadsAreComputed` | `Spec => []ReadAfterComputed` | the same |
| `Groth16ProverProofs!SendsNeverWait` | `Spec => []SendsFindRoom` | the same |
| `Groth16ProverProofs!OwnChallenge` | `Spec => []ChallengeOfOwnCommitment` | the same and `SameWorker`: one worker runs all hints |
| `Groth16CommitmentsProofs!Types` | `Spec => []TypeOK` | `WiresAssumption` (there is ONE_WIRE, and room for the inputs) |
| `Groth16CommitmentsProofs!Challenges` | `Spec => []ChallengesMatch` | the same |
| `Groth16CommitmentsProofs!KeysAndWitness` | `Spec => []KeysMatchWitness` | the same |

Hardly any of the invariants is inductive; in each module `IInv` is the strengthening, each action has a lemma that
says it keeps `IInv`, and `IInv` was itself checked by TLC.

*Solver.* `IInv` adds to the types (1) where the caller can be in a level, (2) the loop invariant of the cut:
what is cut plus what the remaining iterations will cut is the level, (3) that tasks are ranges of existing
levels, cut already, and (4) the counts: the `WaitGroup` is the number of tasks queued or held, `chError` has
one error per worker that died, and idle workers are at least as many as tasks queued or to be cut. (4) is
why the comment "we will never be blocked here" is right although workers die: a worker that dies keeps the
place its own task had, and a level begins with no dead worker, since otherwise the previous one had returned
the error. The arithmetic of the cut is in the lemmas `Division`, `CutIsExact` and `OneTaskMore`, the counting
in `CountMove`. `Consecutive` adds to it that the tasks in the channel follow one another without gap or
overlap, up to the place where the next one begins. `RInv` adds for the race: tasks held or queued are
disjoint ranges of the current level (`Exclusive`), what is still ahead was not evaluated (`Unprocessed`),
and only evaluated instructions gave wires their values (`SolvedByProcessed`). With `EachOnce` two busy
workers have different instructions; `OneWriter` separates their outputs, and `ReadsFromEarlierLevels` the
outputs of one from the inputs of the other.
For the refinement, `Accounted` is the other direction of `Unprocessed`: an instruction is still ahead or it
holds, except in the level where something failed. No level with a failure is left (`NoTrouble`, from the
counts of (4): a worker that died has an error in `chError`), so that every earlier level holds; that is why
what an instruction reads has a value (`ReadsAreReady`) and why all hold when the caller has walked all levels
(`AllHold`). `ErrorsAreReal` follows an error from the worker through the channel to the caller.

*Deferred.* `InOrder`: a gadget is deferred at most once, the range checker before every field, and the
multicommitter after every gadget whose argument it holds. `Position` relates the loop's index to what was
closed, argued and committed: a gadget's argument is built exactly when the index has passed it. `Arguments`
and `Callbacks` say that an argument that needs a challenge has a callback, with the width that the native
field asks for, and `Challenges` that what was asserted was committed to. The heart is that a field cannot
grow after its argument was built, because the range checker, deferred before it, has closed by then: this is
a property of the order of two lines of `NewField` and of a panic in another package. `GadgetsOnly`, which
holds as long as only `Define` uses gadgets, says why no function fails. `ZeroChecks` holds as long, too: a small
field that has zero checks registers its argument when its function is called, and the callback finds all of
them, because `Define` was over before the first function was called (`NextZeros`).

*Ceremony.* `Lineage`: who published made what it published from an object that was not sealed, so that a
contribution names its predecessor in its proof. `Memory`: an object keeps its proof, what it is for and, until
it is sealed, its parameters. `Progress` is the loop invariant of `VerifyPhase1` and `VerifyPhase2`: what was
verified is as it was published, challenge included, is linked to its predecessor, and has the secrets of all
before it. `LinkedPasses` and `PassedIsLinked` are the two directions of `AcceptsExactlyChains` for one call of
`Verify`. A result is safe from later calls because the object it came from is marked by the beacon, which no
update proof covers: an object with a beacon never passes again (`SealKeeps`, step 10).

*Builder.* `Placed`, `Leveled` and `Written` relate the three places where a level is kept: an instruction is at
one position of `levels`, what it sets has that position's level and what it reads a lower one, and a wire
with a level is the output of one instruction. `Cache` is why a lookup may look only at the entries added
since the last one: those before `maxLevelPosition` are below `maxLevel`, and a wire never changes its level
(`KnownStay`). `AddKeeps` is the step all instructions share; each action only shows that what it reads is
known and below the level it computed (`Fits`). `BuiltForTheSolver` is, word for word, the assumption on
systems that `Solver` makes: what is proved of the solver holds of every system
built by a sequence that meets `OneOutput` and `AllSet`.

*Lookup table.* `Filling` is the loop invariant: between two iterations the locals `i` and `offset` both point
to the end of the cache, and `cachedOffset`, written only when the loop ends, does so whenever no lookup is
in the loop. `Current` says that every cached entry has this run's value but the one just appended, which
only the holder of the lock can see, because a lookup that left the lock asks for entries below it.
`EntrySolved` is where the levels come in: what the loop reads was solved on an earlier level, even when it
fills the cache for a lookup that was added later.

*Sparse solution.* A row is right for good once it is filled with wires that are solved, because a solved wire
keeps its value (`ValuesOfSolved`): `RowsFilled` says so of the rows of constraints, `PublicRows` and
`PaddingRows` of the rows that `initSparseLRO` fills before anything is solved. Those read wire 0 for their unused
wires, which is an input when there is one; `HaveInputs` is needed for nothing else, and `sparse_no_inputs` is the
run where it fails. That a row of a constraint is filled with solved wires rests on which wire each kind of
constraint may find unsolved (`ConstraintWires`), the frontend's promise in `WellFormed`.

*PLONK prover.* The invariant is `ProverInv`, in three parts. `Sync` is about channels and goroutines: a closed channel
means that the goroutine that closes it is at its end (`ClosedAtEnd`: each channel is closed by the last step of
one goroutine), what a goroutine waited for, started or joined is closed, started or ended (`PassedSteps`), and
an error in the group is one that happened first (`Results`). It says nothing of values, holds whatever fails,
and gives who has ended when a goroutine is at a step (`Ordered`). `NoConflictingAccess` follows from it alone: for
each two goroutines either one has ended before the other comes to its access, or what they need and touch is
apart (`AllApart`). `Facts` says of each object from the end of which accesses to the end of which others it stays
in a state, as long as no call has failed; a step keeps it because no access in progress touches the object
in between (`Undisturbed`), which is `Sync` again. It is this part that `InputsReady` needs, and it cannot do without
the condition: after a failure the channels may be closed over objects that were never set (`chZ` is closed
although the commitment to Z failed). `Single` is that an object has one state. The proof of `ProofOrCause` adds that
with no error in the group every goroutine got to its end by its last step, and with it every access.

*Groth16 prover.* `Phases` says what `Prove` has behind it wherever it is, and what the existence of a goroutine
tells. `SummandDone` is the life of a summand of Krs (computed, sent once to an empty channel, received once,
added), `KrsDone` that of Krs: `n` is three less the summands added, so that `n = 0` means each was added once
and none failed. That a channel is empty when its goroutine comes to send is why a buffer of one is enough
for every early return (`SendsNeverWait`). `HashInv` is about the hash the hints share: on one worker they run
one after the other, and each leaves the hash as it found it, also when it fails.

*Commitments.* `PublicParts` and `PrivateParts` say what a commitment's lists are: public inputs in order, then the
wires of earlier commitments in order; and private wires in order, none of which is a commitment's or in a second
list. `Commit` gets there by a merge, whose loop invariant is `Merging`: what was popped is below what is left in
the heap, and each list the merge shortens still has all it has not passed. That is enough although the merge may
put the wrong commitment into the heap: whatever it puts there is the wire of a commitment. `Challenges` follows,
since the verifier's scan of sorted wires never has to go back. `KeysAndWitness` is about loops over all wires,
written as recursive functions: that such a function satisfies its equation is `RecursiveFunction`, and the
induction over the wires goes by the least counterexample (`Smallest`, `NaturalsAll`). `Dealing` is the invariant
of the setup's loop: after `n` wires each list of keys has the wires below `n` of its list, and the iterators have
the rest. The length of pk.G1.K is counted by cardinalities (`PrivatesCardinality`).

Only model-checked: all liveness (`RunReturns`, `NothingLeaks`, `EveryGoroutineEnds`, `LevelsEnd`; the prover
does no fairness). `MaxFailures` bounds the failing calls of a run and no proof uses it.

## 6. Not modelled

Most of the repository is arithmetic or generated: field, curve and polynomial arithmetic in `std` and the
backends; what an instruction computes; GKR; the encoding of calldata, logs, debug information;
serialization; the code of the other curves, which the templates make from the same source; the GPU prover;
the test engine; profiling; the hint registry; the SRS cache of tests; the witness's producer. Sequential
arithmetic is what the repository's tests cover well and what a model checker cannot enumerate; the models
keep to what depends on order and sharing. Two calls of `Solve` on one system at the same time are not
modelled either: the lookup cache is shared between them and nothing in the code says whether that is allowed.

Of the gadgets that defer, `Eval`'s checks (`mvCheck`) collect and commit as multiplications do and are not
distinguished from them; `logderivprecomp` is left out.

### Observations without a run

Met while modelling, each visible in the models' definitions:

* `logderivlookup`: the comments of `Table` say that `Insert` and `Lookup` panic once the table is committed,
  and both test `immutable`, but nothing sets it. A lookup in a deferred function that runs after the table's
  own is accepted and belongs to no argument. `NothingUnproved` therefore leaves tables out.
* `smallCheckZero` after its field's callback asserts the product at once, but the quotient, whose range "the
  batched check" would bound, is in no batch any more. `NothingUnproved` promises zero checks to circuits that
  use gadgets in `Define` alone.
* The Schwartz-Zippel checks of `fields_bls12377` may be added between `resolve` and its callback, which walks
  the list it finds: they are asserted at a challenge that did not bind them. `ChallengeComesLast` excepts
  `sz`, and says so.
* A `WithCommitment` written in `Define` before the first gadget defers the multicommitter first; the gadgets'
  functions then find it closed and compilation fails with "called WithCommitment recursively". This is why
  `DefineOnlyCompiles` excepts circuits that commit themselves.
* `Verify` of the ceremony writes the challenge into an object before it checks anything else. An object that
  was read without its challenge and verified once in the wrong place is rejected afterwards in the right one;
  `AcceptsExactlyChains` asks for untouched objects where it promises acceptance. A contribution made from a
  copy that had lost its challenge is rejected by everyone.

## 7. Plan

In the order of importance; all but step 9 is done.

1. Solver and its abstract specification, with the contract of the levels (`Solve`, `SystemContract`,
   `Solver`) and the first theorems.
2. What feeds it and what runs inside it: `ConstraintSystem`, `LookupBlueprint`, `SparseSolution`.
3. The provers and the commitments: `Groth16Prover`, `Groth16Commitments`, `PlonkProver`.
4. `Deferred`: what gadgets collect, commit to and assert, with its theorems.
5. `Ceremony`: the MPC setup over mutable objects, with its theorems.
6. `CompiledIsSound` for every sequence of instructions a frontend may issue, with an inductive invariant on
   wire levels and the
   lookup's cache, and with it the assumption of the theorems about the solver; `AnswersAreCurrent` and
   `NeverResized` for any number of lookups.
7. `Solver` implements `Solve`, as a theorem.
8. Theorems about the provers' protocols and solutions: Groth16 (`ProofIsComplete`, `ReadAfterComputed`, the
   challenge), the commitments' lists (`KeysMatchWitness`, `ChallengesMatch`), the sparse solution
   (`CopyConstraintsHold`), then PLONK (`NoConflictingAccess`, `InputsReady`, `ProofOrCause`).
9. `SRSCache`: concurrent `NewSRS` with both caches.

----------------------------- MODULE Groth16Prover -----------------------------
(* groth16.Prove (backend/groth16/bn254/prove.go): the solver calls the hint of   *)
(* each commitment, which hashes it into the commitment's wire; then goroutines    *)
(* compute the parts of the proof and hand them over on channels.                *)
(*                                                                              *)
(* Group elements are reduced to whether they were computed; a hash to the       *)
(* sequence of what was written into it since its last Reset.                    *)
EXTENDS Naturals, Sequences, FiniteSets

CONSTANTS
  NbCommitments,  \* len(commitmentInfo)
  WorkerOf,       \* the solver's worker that runs the hint of a commitment
  Capacity,       \* of the channels that carry an error: 1 in the code
  MaxFaults       \* bound: calls that fail in one run

ASSUME ConstantsAssumption ==
  NbCommitments \in Nat /\ Capacity \in Nat \ {0} /\ MaxFaults \in Nat

Commitments == 1 .. NbCommitments

\* What may return an error: the hint of a commitment, "solve" for the options and any
\* other instruction, the proofs of knowledge and their folding, the random r and s,
\* the multi-exponentiations.
Calls  == {"solve", "pok", "random", "krs", "krs2", "ar", "bs1", "bs2"}
Faults == ({"hint"} \X Commitments) \union (Calls \X {0})

Goroutines == {"h", "wireA", "wireB", "ar", "bs1", "krs", "krs2"}

VARIABLES
  faults,      \* the calls that fail in this run
  hash,        \* opt.HashToFieldFn, one object for all hints
  hint,        \* per commitment: how far its hint is
  hashBts,     \* per commitment: the digest the hint took
  wire,        \* per commitment: the value the solver gave to its wire
  main,        \* where Prove is
  go,          \* per goroutine: "none" before its go statement, ..., "ended"
  computed,    \* results in shared variables: h, wireValuesA, wireValuesB, ar, bs1, krs2
  added,       \* how often each summand was added to krs
  n,           \* the summands computeKRS still waits for
  ch,          \* the channels chArDone, chBs1Done, chKrs2Done, chKrsDone
  proof,       \* the fields of the proof that were assigned
  result       \* what Prove returned

hintVars == <<hash, hint, hashBts, wire>>
goVars   == <<go, computed, added, n, ch>>
vars     == <<faults, hintVars, main, goVars, proof, result>>

Channels == {"ar", "bs1", "krs2", "krs"}

Fails(call) == <<call, 0>> \in faults

\* Mutant: the error itself is not passed on.
OutcomeOfOthers(part) == IF Fails(part) THEN "none" ELSE "nil"

Outcome(part) == IF Fails(part) THEN "err" ELSE "nil"

Init ==
  /\ faults \in {F \in SUBSET Faults : Cardinality(F) <= MaxFaults}
  /\ hash = <<>>
  /\ hint = [c \in Commitments |-> "called"]
  /\ hashBts = [c \in Commitments |-> <<>>]
  /\ wire = [c \in Commitments |-> <<>>]
  /\ main = "solve"
  /\ go = [g \in Goroutines |-> "none"]
  /\ computed = {} /\ proof = {}
  /\ added = [p \in {"krs2", "ar", "bs1"} |-> 0]
  /\ n = 3
  /\ ch = [c \in Channels |-> <<>>]
  /\ result = "none"

Spawned(G) == [g \in Goroutines |-> IF g \in G THEN "running" ELSE go[g]]

\* Mutant: channels without a buffer, and nobody left to receive.
CanSendUnbuffered(c) == Len(ch[c]) < Capacity /\ main # "returned"

CanSend(c) == Len(ch[c]) < Capacity

-----------------------------------------------------------------------------
(* The hint, as each worker of the solver runs it.                           *)

\* The hints one worker runs follow each other.
Turn(c) == \A d \in Commitments : d < c /\ WorkerOf[d] = WorkerOf[c] => hint[d] = "done"

HintWrite(c) ==
  /\ main = "solve" /\ hint[c] = "called" /\ Turn(c)
  /\ IF <<"hint", c>> \in faults    \* Commit returned an error
     THEN hint' = [hint EXCEPT ![c] = "failed"] /\ UNCHANGED hash
     ELSE hint' = [hint EXCEPT ![c] = "written"] /\ hash' = Append(hash, c)
  /\ UNCHANGED <<faults, hashBts, wire, main, goVars, proof, result>>

HintSum(c) ==
  /\ hint[c] = "written"
  /\ hint' = [hint EXCEPT ![c] = "summed"]
  /\ hashBts' = [hashBts EXCEPT ![c] = hash]
  /\ UNCHANGED <<faults, hash, wire, main, goVars, proof, result>>

\* Mutant: the hash keeps what was written.
KeepHash == UNCHANGED hash

ResetHash == hash' = <<>>

HintReset(c) ==
  /\ hint[c] = "summed"
  /\ ResetHash
  /\ wire' = [wire EXCEPT ![c] = hashBts[c]]
  /\ hint' = [hint EXCEPT ![c] = "done"]
  /\ UNCHANGED <<faults, hashBts, main, goVars, proof, result>>

-----------------------------------------------------------------------------
(* Prove.                                                                    *)

\* The options are not valid or an instruction failed: the hints of a later level, or
\* of the rest of a task, are not called, but no worker is in the middle of one.
SolveFails ==
  /\ main = "solve"
  /\ Fails("solve") \/ \E c \in Commitments : hint[c] = "failed"
  /\ \A c \in Commitments : hint[c] \in {"called", "failed", "done"}
  /\ main' = "returned" /\ result' = "err"
  /\ UNCHANGED <<faults, hintVars, goVars, proof>>

\* The proofs of knowledge, then the FFTs and the two filters.
StartFirst ==
  /\ main = "solve" /\ ~Fails("solve")
  /\ \A c \in Commitments : hint[c] = "done"
  /\ IF Fails("pok")
     THEN main' = "returned" /\ result' = "err" /\ UNCHANGED go
     ELSE /\ main' = "random" /\ UNCHANGED result
          /\ go' = Spawned({"h", "wireA", "wireB"})
  /\ UNCHANGED <<faults, hintVars, computed, added, n, ch, proof>>

SampleRandom ==
  /\ main = "random"
  /\ IF Fails("random")
     THEN main' = "returned" /\ result' = "err"
     ELSE main' = "waitH" /\ UNCHANGED result
  /\ UNCHANGED <<faults, hintVars, goVars, proof>>

\* Mutant: the parts are scheduled without waiting for the FFTs.
NoWait == TRUE

\* <-chHDone
HDone == go["h"] = "ended"

StartParts ==
  /\ main = "waitH" /\ HDone
  /\ go' = Spawned({"krs", "ar", "bs1"})
  /\ main' = "bs2"
  /\ UNCHANGED <<faults, hintVars, computed, added, n, ch, proof, result>>

\* computeBS2 runs in Prove's own goroutine, once wireValuesB is there.
ComputeBS2 ==
  /\ main = "bs2" /\ "wireB" \in computed
  /\ IF Fails("bs2")
     THEN main' = "returned" /\ result' = "err" /\ UNCHANGED proof
     ELSE main' = "waitKrs" /\ proof' = proof \union {"Bs"} /\ UNCHANGED result
  /\ UNCHANGED <<faults, hintVars, goVars>>

ReceiveKrs ==
  /\ main = "waitKrs" /\ ch["krs"] # <<>>
  /\ ch' = [ch EXCEPT !["krs"] = Tail(@)]
  /\ main' = "returned" /\ result' = Head(ch["krs"])
  /\ UNCHANGED <<faults, hintVars, go, computed, added, n, proof>>

-----------------------------------------------------------------------------
(* The goroutines.                                                           *)

\* computeH and the two filters have no channel to wait for.
ComputeFirst(g) ==
  /\ g \in {"h", "wireA", "wireB"} /\ go[g] = "running"
  /\ computed' = computed \union {g}
  /\ go' = [go EXCEPT ![g] = "ended"]
  /\ UNCHANGED <<faults, hintVars, main, added, n, ch, proof, result>>

Filtered(g) == IF g = "ar" THEN "wireA" ELSE "wireB"

\* computeAR1 and computeBS1: after the filter, the multi-exponentiation; then the
\* error or nil is sent.
ComputePart(g) ==
  /\ g \in {"ar", "bs1"} /\ go[g] = "running"
  /\ Filtered(g) \in computed
  /\ computed' = IF Fails(g) THEN computed ELSE computed \union {g}
  /\ proof' = IF g = "ar" /\ ~Fails(g) THEN proof \union {"Ar"} ELSE proof
  /\ go' = [go EXCEPT ![g] = "sending"]
  /\ UNCHANGED <<faults, hintVars, main, added, n, ch, result>>

SendPart(g) ==
  /\ g \in {"ar", "bs1", "krs2"} /\ go[g] = "sending"
  /\ CanSend(g)
  /\ ch' = [ch EXCEPT ![g] = Append(@, Outcome(g))]
  /\ go' = [go EXCEPT ![g] = "ended"]
  /\ UNCHANGED <<faults, hintVars, main, computed, added, n, proof, result>>

\* krs2.MultiExp(pk.G1.Z, h[:sizeH])
ComputeKrs2 ==
  /\ go["krs2"] = "running"
  /\ computed' = IF Fails("krs2") THEN computed ELSE computed \union {"krs2"}
  /\ go' = [go EXCEPT !["krs2"] = "sending"]
  /\ UNCHANGED <<faults, hintVars, main, added, n, ch, proof, result>>

\* computeKRS starts krs2 and does its own multi-exponentiation.
StartKrs ==
  /\ go["krs"] = "running" /\ go["krs2"] = "none"
  /\ go' = [go EXCEPT !["krs2"] = "running",
                      !["krs"] = IF Fails("krs") THEN "sendErr" ELSE "select"]
  /\ UNCHANGED <<faults, hintVars, main, computed, added, n, ch, proof, result>>

\* One round of the select: whichever channel is ready.
Select(p) ==
  /\ p \in {"krs2", "ar", "bs1"} /\ go["krs"] = "select" /\ n # 0
  /\ ch[p] # <<>>
  /\ ch' = [ch EXCEPT ![p] = Tail(@)]
  /\ IF Head(ch[p]) = "err"
     THEN go' = [go EXCEPT !["krs"] = "sendErr"] /\ UNCHANGED <<added, n>>
     ELSE added' = [added EXCEPT ![p] = @ + 1] /\ n' = n - 1 /\ UNCHANGED go
  /\ UNCHANGED <<faults, hintVars, main, computed, proof, result>>

\* Mutant: one summand too few.
TwoAdded == n <= 1

AllAdded == n = 0

FinishKrs ==
  /\ go["krs"] = "select" /\ AllAdded
  /\ proof' = proof \union {"Krs"}
  /\ go' = [go EXCEPT !["krs"] = "sendNil"]
  /\ UNCHANGED <<faults, hintVars, main, computed, added, n, ch, result>>

SendKrs ==
  /\ go["krs"] \in {"sendErr", "sendNil"} /\ CanSend("krs")
  /\ ch' = [ch EXCEPT !["krs"] = Append(@, IF go["krs"] = "sendErr" THEN "err" ELSE "nil")]
  /\ go' = [go EXCEPT !["krs"] = "ended"]
  /\ UNCHANGED <<faults, hintVars, main, computed, added, n, proof, result>>

-----------------------------------------------------------------------------
Hint(c) == HintWrite(c) \/ HintSum(c) \/ HintReset(c)

Main == SolveFails \/ StartFirst \/ SampleRandom \/ StartParts \/ ComputeBS2 \/ ReceiveKrs

Goroutine(g) ==
  \/ ComputeFirst(g) \/ ComputePart(g) \/ SendPart(g)
  \/ g = "krs2" /\ ComputeKrs2
  \/ g = "krs" /\ (StartKrs \/ (\E p \in Channels : Select(p)) \/ FinishKrs \/ SendKrs)

Returned == main = "returned" /\ \A g \in Goroutines : go[g] \in {"none", "ended"}

Stop == Returned /\ UNCHANGED vars

Next == \/ \E c \in Commitments : Hint(c)
        \/ Main
        \/ \E g \in Goroutines : Goroutine(g)
        \/ Stop

\* Goroutines that can run do run, and so do the solver's workers.
Fairness == /\ WF_vars(Main)
            /\ \A g \in Goroutines : WF_vars(Goroutine(g))
            /\ \A c \in Commitments : WF_vars(Hint(c))

Spec == Init /\ [][Next]_vars /\ Fairness

-----------------------------------------------------------------------------
\* The variables hold the kinds of values the prover gives them.
TypeOK ==
  /\ faults \subseteq Faults
  /\ hash \in Seq(Commitments)
  /\ hint \in [Commitments -> {"called", "written", "summed", "done", "failed"}]
  /\ hashBts \in [Commitments -> Seq(Commitments)] /\ wire \in [Commitments -> Seq(Commitments)]
  /\ main \in {"solve", "random", "waitH", "bs2", "waitKrs", "returned"}
  /\ go \in [Goroutines -> {"none", "running", "sending", "select", "sendErr", "sendNil", "ended"}]
  /\ computed \subseteq {"h", "wireA", "wireB", "ar", "bs1", "krs2"}
  /\ added \in [{"krs2", "ar", "bs1"} -> 0 .. 1] /\ n \in 0 .. 3
  /\ ch \in [Channels -> Seq({"err", "nil"})]
  /\ proof \subseteq {"Ar", "Bs", "Krs"} /\ result \in {"none", "nil", "err"}

\* Prove returns a proof only when nothing failed, with every field assigned and each
\* of the three summands added to Krs once, and no goroutine writes any more; it
\* returns an error only when something failed.
ProofIsComplete ==
  /\ result = "nil" => /\ faults = {}
                       /\ proof = {"Ar", "Bs", "Krs"}
                       /\ \A p \in DOMAIN added : added[p] = 1
                       /\ \A g \in Goroutines : go[g] = "ended"
  /\ result = "err" => faults # {}

\* A goroutine reads what another one computes only after it was computed: h, the
\* filtered wire values and the points added to Krs are shared variables.
ReadAfterComputed ==
  /\ go["krs2"] # "none" => "h" \in computed
  /\ \A p \in DOMAIN added : added[p] > 0 => p \in computed

\* The wire of a commitment holds the hash of that commitment alone, which is what
\* Verify recomputes, one commitment after the other: core.go says that
\* "each level contains independent constraints and can be parallelized".
ChallengeOfOwnCommitment ==
  \A c \in Commitments : hint[c] = "done" => wire[c] = <<c>>

\* Prove returns and every goroutine it started ends, also when it returned early.
NothingLeaks == <>Returned
===============================================================================

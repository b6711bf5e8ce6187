------------------------------ MODULE PlonkProver ------------------------------
(* plonk.Prove (backend/plonk/bn254/prove.go): nine goroutines of an errgroup     *)
(* share one instance without a lock.  Each waits on channels that another one   *)
(* closes, or on the context that the first error cancels.                       *)
(*                                                                              *)
(* A goroutine is the sequence of its synchronisations and of its accesses to     *)
(* the instance.  An access takes time; it needs some of the shared objects in    *)
(* a given state (a polynomial in Lagrange form, a digest computed, a transcript  *)
(* at some challenge) and leaves others in a new one.  Helper goroutines that     *)
(* are awaited by the statement that starts them are part of that access.        *)
EXTENDS Naturals, Sequences, FiniteSets

CONSTANT MaxFailures    \* bound: how many calls of one run fail

VARIABLES
  status,     \* per goroutine: "none", "running", "using", "ended"
  pc,         \* per goroutine: its next step
  ret,        \* per goroutine: what it returned: "nil", "ctx" (errContextDone) or
              \* "cause", an error of its own
  closed,     \* the channels that are closed
  val,        \* the pairs of a shared object and its state; none before it is first set
  err,        \* the errgroup's error; the context is cancelled when it is set
  result      \* what Prove returned

proverVars == <<status, pc, ret, closed, val, err, result>>

-----------------------------------------------------------------------------
(* The steps.                                                                *)

None == {}    \* no object

All(objects, state) == objects \X {state}

LRO == {"L", "R", "O"}

ObjectsOf(pairs) == {p[1] : p \in pairs}
Needs(step)   == ObjectsOf(step.needs)
Touches(step) == ObjectsOf(step.sets)

Access(needs, sets, fails, closes) ==
  [op |-> "use", needs |-> needs, sets |-> sets, fails |-> fails, closes |-> closes]

Use(needs, sets)     == Access(needs, sets, FALSE, {})
MayFail(needs, sets) == Access(needs, sets, TRUE, {})
Wait(c)  == [op |-> "wait",  ch |-> c]     \* select on ctx.Done() and c
Close(c) == [op |-> "close", ch |-> c]
Start(g) == [op |-> "start", go |-> g]     \* a go statement outside the errgroup
Join(g)  == [op |-> "join",  go |-> g]     \* wg.Wait()

\* Solve, whose workers run bsb22Hint for each commitment (it fails with Solve, and
\* what it sets is read after Solve alone); then commitToLRO, which subtracts and adds
\* back the public input in place.
SolveConstraints ==
  <<MayFail(None, All(LRO \union {"cCommitments"}, "values")
                  \union All({"commitmentVal", "bsb22"}, "set")),
    Wait("bp"),
    MayFail(All(LRO, "values") \union All({"bpLRO"}, "random"),
            All(LRO, "values") \union All({"proof.LRO"}, "set")),
    Close("LRO")>>

\* Mutant: chQk is not closed.
CompleteQkSilently ==
  <<MayFail(All({"trace.Qk"}, "values"), None),
    Wait("LRO"),
    Use(All({"commitmentVal"}, "set"), All({"Qk"}, "values"))>>

CompleteQk ==
  <<MayFail(All({"trace.Qk"}, "values"), None),
    Wait("LRO"),
    Use(All({"commitmentVal"}, "set"), All({"Qk"}, "values")),
    Close("Qk")>>

\* Mutant: chbp is closed too early.
BlindingAnnouncedFirst ==
  <<Close("bp"),
    Use(None, All({"bpLRO", "bpZ"}, "random"))>>

InitBlindingPolynomials ==
  <<Use(None, All({"bpLRO", "bpZ"}, "random")),
    Close("bp")>>

DeriveGammaAndBeta ==
  <<MayFail(All({"fs"}, "empty"), All({"fs"}, "public")),
    Wait("LRO"),
    MayFail(All({"fs"}, "public") \union All({"proof.LRO"}, "set"), All({"fs"}, "gamma")),
    MayFail(All({"fs"}, "gamma"), All({"fs"}, "beta") \union All({"gammaBeta"}, "set")),
    Close("GammaBeta")>>

\* The error of the commitment to Z is returned after chZ was closed.
BuildRatioCopyConstraint ==
  <<Wait("GammaBeta"),
    MayFail(All(LRO, "values") \union All({"gammaBeta"}, "set"), All({"Z"}, "values")),
    Access(All({"Z"}, "values") \union All({"bpZ"}, "random"), All({"proof.Z"}, "set"),
           TRUE, {"Z"})>>

\* trace.Q stands for the polynomials of the trace but Qk; x has them by reference.
Trans == LRO \union {"Z", "cCommitments", "trace.Q"}

Numerator ==
  MayFail(All(Trans \union {"Qk"}, "values") \union All({"ZS"}, "shifted")
            \union All({"alpha", "gammaBeta"}, "set") \union All({"bpLRO", "bpZ"}, "random"),
          All(Trans \union {"bpLRO", "bpZ", "Qk"}, "coset"))

\* The slots of x, alpha, the numerator, its division, the commitment to H, zeta.
ComputeQuotient ==
  <<Use(All({"trace.Q"}, "values"), None),
    Wait("LRO"),
    Use(All({"cCommitments"}, "values"), None),
    Wait("Z"),
    MayFail(All({"fs"}, "beta") \union All({"bsb22", "proof.Z"}, "set"),
            All({"fs"}, "alpha") \union All({"alpha"}, "set")),
    Use(All({"Z"}, "values"), All({"ZS"}, "shifted")),
    Wait("Qk"),
    Numerator,
    Start("restore"),
    MayFail(None, All({"h"}, "canonical")),
    MayFail(All({"h"}, "canonical"), All({"proof.H"}, "set")),
    MayFail(All({"fs"}, "alpha") \union All({"proof.H"}, "set"),
            All({"fs"}, "zeta") \union All({"zeta"}, "set")),
    Wait("RestoreLRO"),
    Close("H")>>

\* Mutant: the polynomials are announced before they are back in canonical form.
RestoreAnnouncedFirst ==
  <<Close("RestoreLRO"),
    Use(All(Trans \union {"bpLRO", "bpZ"}, "coset"),
        All(Trans, "canonical") \union All({"bpLRO", "bpZ"}, "random")
          \union All({"ZS", "Qk"}, "unset"))>>

\* "scale everything back", started by computeNumerator.
Restore ==
  <<Use(All(Trans \union {"bpLRO", "bpZ"}, "coset"),
        All(Trans, "canonical") \union All({"bpLRO", "bpZ"}, "random")
          \union All({"ZS", "Qk"}, "unset")),
    Close("RestoreLRO")>>

\* getBlindedCoefficients works on the coefficients of Z.
OpenZ ==
  <<Wait("H"),
    MayFail(All({"Z"}, "canonical") \union All({"bpZ"}, "random") \union All({"zeta"}, "set"),
            All({"Z", "blindedZ"}, "blinded") \union All({"opening"}, "set")),
    Close("ZOpening")>>

\* The goroutines that evaluate Qcp, L, R and O at zeta.
Evaluations ==
  <<Use(All(LRO \union {"trace.Q"}, "canonical") \union All({"bpLRO"}, "random")
          \union All({"zeta"}, "set"), None)>>

\* innerComputeLinearizedPoly works on blindedZ, and on Qk of the trace.
ComputeLinearizedPolynomial ==
  <<Wait("H"),
    Start("evaluations"),
    Wait("ZOpening"),
    Join("evaluations"),
    MayFail(All({"blindedZ"}, "blinded") \union All({"h", "trace.Q", "cCommitments"}, "canonical")
              \union All({"trace.Qk"}, "values")
              \union All({"opening", "alpha", "gammaBeta", "zeta"}, "set"),
            All({"blindedZ"}, "linearized") \union All({"trace.Qk"}, "canonical")
              \union All({"linearizedPolynomial"}, "set")),
    Close("LinearizedPolynomial")>>

BatchOpening ==
  <<Wait("LinearizedPolynomial"),
    MayFail(All({"linearizedPolynomial", "proof.LRO", "zeta", "opening"}, "set")
              \union All(LRO \union {"trace.Q"}, "canonical") \union All({"bpLRO"}, "random"),
            All(LRO, "blinded") \union All({"proof.Batched"}, "set"))>>

Program ==
  [solveConstraints            |-> SolveConstraints,
   completeQk                  |-> CompleteQk,
   initBlindingPolynomials     |-> InitBlindingPolynomials,
   deriveGammaAndBeta          |-> DeriveGammaAndBeta,
   buildRatioCopyConstraint    |-> BuildRatioCopyConstraint,
   computeQuotient             |-> ComputeQuotient,
   openZ                       |-> OpenZ,
   computeLinearizedPolynomial |-> ComputeLinearizedPolynomial,
   batchOpening                |-> BatchOpening,
   restore                     |-> Restore,
   evaluations                 |-> Evaluations]

Goroutines == DOMAIN Program
Group      == Goroutines \ {"restore", "evaluations"}    \* started with g.Go

-----------------------------------------------------------------------------
ProverInit ==
  /\ status = [g \in Goroutines |-> IF g \in Group THEN "running" ELSE "none"]
  /\ pc = [g \in Goroutines |-> 1]
  /\ ret = [g \in Goroutines |-> "nil"]
  /\ closed = {}
  /\ val = All({"trace.Q", "trace.Qk"}, "values") \union All({"fs"}, "empty")
  /\ err = "none" /\ result = "none"

Step(g) == Program[g][pc[g]]

At(g, op) == status[g] = "running" /\ Step(g).op = op

\* Mutants: the errgroup keeps the last error, or the last result.
LastError(g, e) == IF g \in Group /\ e # "nil" THEN e ELSE err
LastResult(g, e) == IF g \in Group THEN e ELSE err

\* The errgroup: the first error is kept, and cancels the context.
FirstError(g, e) == IF g \in Group /\ e # "nil" /\ err = "none" THEN e ELSE err

Return(g, e) ==
  /\ ret' = [ret EXCEPT ![g] = e]
  /\ status' = [status EXCEPT ![g] = "ended"]
  /\ err' = FirstError(g, e)
  /\ UNCHANGED pc

\* On to the next step; after the last one the goroutine returns nil.
Advance(g) ==
  IF pc[g] < Len(Program[g])
  THEN /\ pc' = [pc EXCEPT ![g] = @ + 1]
       /\ status' = [status EXCEPT ![g] = "running"]
       /\ UNCHANGED <<ret, err>>
  ELSE Return(g, "nil")

Begin(g) ==
  /\ At(g, "use")
  /\ status' = [status EXCEPT ![g] = "using"]
  /\ UNCHANGED <<pc, ret, closed, val, err, result>>

Succeed(g) ==
  /\ status[g] = "using"
  /\ val' = {p \in val : p[1] \notin Touches(Step(g))} \union Step(g).sets
  /\ closed' = closed \union Step(g).closes
  /\ Advance(g)
  /\ UNCHANGED result

Fail(g) ==
  /\ status[g] = "using" /\ Step(g).fails
  /\ Cardinality({f \in Goroutines : ret[f] = "cause"}) < MaxFailures
  /\ closed' = closed \union Step(g).closes
  /\ Return(g, "cause")
  /\ UNCHANGED <<val, result>>

Receive(g) ==
  /\ At(g, "wait") /\ Step(g).ch \in closed
  /\ Advance(g)
  /\ UNCHANGED <<closed, val, result>>

ContextDone(g) ==
  /\ At(g, "wait") /\ err # "none"
  /\ Return(g, "ctx")
  /\ UNCHANGED <<closed, val, result>>

CloseChannel(g) ==
  /\ At(g, "close")
  /\ closed' = closed \union {Step(g).ch}
  /\ Advance(g)
  /\ UNCHANGED <<val, result>>

StartGoroutine(g) ==
  /\ At(g, "start")
  /\ status' = [status EXCEPT ![Step(g).go] = "running"]
  /\ pc' = [pc EXCEPT ![g] = @ + 1]
  /\ UNCHANGED <<ret, closed, val, err, result>>

JoinGoroutine(g) ==
  /\ At(g, "join") /\ status[Step(g).go] = "ended"
  /\ Advance(g)
  /\ UNCHANGED <<closed, val, result>>

\* Prove: g.Wait().
WaitGroup ==
  /\ result = "none" /\ \A g \in Group : status[g] = "ended"
  /\ result' = IF err = "none" THEN "nil" ELSE err
  /\ UNCHANGED <<status, pc, ret, closed, val, err>>

Goroutine(g) ==
  \/ Begin(g) \/ Succeed(g) \/ Fail(g)
  \/ Receive(g) \/ ContextDone(g) \/ CloseChannel(g)
  \/ StartGoroutine(g) \/ JoinGoroutine(g)

AllEnded == result # "none" /\ \A g \in Goroutines : status[g] \in {"none", "ended"}

ProverStop == AllEnded /\ UNCHANGED proverVars

ProverNext == (\E g \in Goroutines : Goroutine(g)) \/ WaitGroup \/ ProverStop

\* The Go scheduler runs every goroutine that can run.
Fairness == WF_proverVars(WaitGroup) /\ \A g \in Goroutines : WF_proverVars(Goroutine(g))

ProverSpec == ProverInit /\ [][ProverNext]_proverVars /\ Fairness

-----------------------------------------------------------------------------
\* The variables hold the kinds of values the code gives them.
ProverTypes ==
  /\ status \in [Goroutines -> {"none", "running", "using", "ended"}]
  /\ \A g \in Goroutines : pc[g] \in 1 .. Len(Program[g])
  /\ ret \in [Goroutines -> {"nil", "ctx", "cause"}]
  /\ closed \subseteq {"bp", "LRO", "Qk", "GammaBeta", "Z", "RestoreLRO", "H",
                       "ZOpening", "LinearizedPolynomial"}
  /\ \A p, q \in val : p[1] = q[1] => p = q
  /\ err \in {"none", "ctx", "cause"} /\ result \in {"none", "nil", "ctx", "cause"}

Using == {g \in Goroutines : status[g] = "using"}

\* No two goroutines use a shared object at the same time when one of them changes
\* it: the channels order all conflicting accesses, also after an error.
NoConflictingAccess ==
  \A f, g \in Using :
    f # g => Touches(Step(f)) \cap (Needs(Step(g)) \union Touches(Step(g))) = {}

\* Until something fails, whatever a goroutine uses is in the state it counts on:
\* polynomials in the right form, challenges derived in the order gamma, beta, alpha,
\* zeta from digests that are there.
InputsReady ==
  (\A g \in Goroutines : ret[g] # "cause") =>
    \A g \in Using : Step(g).needs \subseteq val

\* Prove returns a proof only with every field assigned and nothing left running,
\* and the error it returns is the one that happened, never errContextDone.
ProofOrCause ==
  /\ result = "nil" =>
       /\ All({"proof.LRO", "proof.Z", "proof.H", "bsb22", "opening", "proof.Batched"}, "set")
            \subseteq val
       /\ AllEnded
  /\ result # "ctx"
  /\ result = "cause" => \E g \in Group : ret[g] = "cause"

\* Prove returns and no goroutine is left behind, whatever fails and when.
EveryGoroutineEnds == <>AllEnded
===============================================================================

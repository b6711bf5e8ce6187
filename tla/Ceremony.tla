------------------------------- MODULE Ceremony -------------------------------
(* The ceremony that generates Groth16 keys (backend/groth16/bn254/mpcsetup).   *)
(* Contributors read a contribution that was published, add a secret of their   *)
(* own and publish the result; nothing keeps two of them from starting from the *)
(* same one.  A verifier reads contributions into its memory and calls          *)
(* VerifyPhase1 and VerifyPhase2 on lists of them, as often as it likes; these  *)
(* calls change the objects they are given, and their results share memory with *)
(* the last of them.                                                          *)
(*                                                                            *)
(* The secrets of one contribution (tau, alpha and beta; delta and the sigmas)  *)
(* are multiplied into the parameters together, and stand as one: parameters    *)
(* are the set of the secrets in them, and a proof of an update shows that its  *)
(* secret was multiplied in by someone who knew it and the challenge.  A hash   *)
(* is what was hashed.  A proof, challenge or base that is not there is {},     *)
(* one that is there the set of it.                                           *)
EXTENDS Integers, Sequences, FiniteSets

CONSTANTS
  Sizes,             \* domain sizes
  MaxContributions,  \* bounds of a run of the checker: contributions,
  MaxObjects,        \* objects the verifier reads,
  MaxCalls           \* and its calls of VerifyPhase1 and VerifyPhase2

\* Verify reads Tau[1], which a domain of size 1 does not have.
ASSUME SizesAssumption == \A N \in Sizes : N \in Nat /\ N > 1
ASSUME BoundsAssumption ==
  MaxContributions \in Nat /\ MaxObjects \in Nat /\ MaxCalls \in Nat

VARIABLES
  lineage,    \* pairs <<o, p>>: Contribute made p of o, and p was published
  memory,     \* objects of the verifier
  origins,    \* what each of them was at first
  call,       \* the verifier's call: [phase, base, list, next, srs]
  verdicts,   \* how its calls ended: [phase, base, list, fresh, ok]
  commons,    \* results of VerifyPhase1: [at, params, list, base]
  keys        \* results of VerifyPhase2: the same, and the commons srs

vars == <<lineage, memory, origins, call, verdicts, commons, keys>>

\* What an empty contribution is made for: a domain size and, in phase 2, the
\* commons (the parameters they hold) of one circuit of that size.
Base(N, srs) == [size |-> N, srs |-> srs]

\* Phase1.Initialize, Phase2.Initialize
Initial(base) ==
  [params |-> [base |-> base, secrets |-> {}, beacons |-> {}, order |-> "natural"],
   proof |-> {}, challenge |-> {}]

Phase(o) == IF o.params.base.srs = {} THEN 1 ELSE 2

\* hash: of parameters, proofs and challenge
Hash(o) == o

Fresh == Cardinality(lineage) + 1

Updated(params) == [params EXCEPT !.secrets = @ \union {Fresh}]

\* Mutant: the challenge of the contribution before is left in place.
StaleChallenge(o) ==
  [params |-> Updated(o.params),
   proof |-> {[secret |-> Fresh, challenge |-> Hash(o)]}, challenge |-> o.challenge]

\* Phase1.Contribute, Phase2.Contribute, with update
Contributed(o) ==
  [params |-> Updated(o.params),
   proof |-> {[secret |-> Fresh, challenge |-> Hash(o)]}, challenge |-> {Hash(o)}]

\* The slices of a result are those of the object it was sealed from, and follow it.
ResultParams(r) == memory[r.at].params

BaseOn(r) == Base(ResultParams(r).base.size, {ResultParams(r)})

\* The empty contributions that anyone can make: for a domain size, and for commons
\* that VerifyPhase1 returned.
Empty == {Initial(Base(N, {})) : N \in Sizes} \union {Initial(BaseOn(commons[r])) : r \in DOMAIN commons}

\* WriteTo: the challenge may have been left out of what is written.
Bare(o) == [o EXCEPT !.challenge = {}]

Published == {made[2] : made \in lineage} \union {Bare(made[2]) : made \in lineage}

\* A contributor starts from o, contributes and publishes what it got.
Contribute(o) ==
  /\ Cardinality(lineage) < MaxContributions
  /\ lineage' = lineage \union {<<o, Contributed(o)>>}
  /\ UNCHANGED <<memory, origins, call, verdicts, commons, keys>>

-----------------------------------------------------------------------------
(* The verifier.                                                              *)

Idle == [phase |-> 0, base |-> Base(0, {}), list |-> <<>>, next |-> 1, srs |-> 0]

\* ReadFrom
Read(o) ==
  /\ call = Idle /\ Len(memory) < MaxObjects
  /\ memory' = Append(memory, o) /\ origins' = Append(origins, o)
  /\ UNCHANGED <<lineage, call, verdicts, commons, keys>>

Objects(phase) == {x \in 1 .. Len(memory) : Phase(memory[x]) = phase}

Lists(phase) == UNION {[1 .. n -> Objects(phase)] : n \in 0 .. Cardinality(Objects(phase))}

Begin(phase, base, list, srs) ==
  /\ call = Idle /\ Len(verdicts) < MaxCalls
  /\ call' = [phase |-> phase, base |-> base, list |-> list, next |-> 1, srs |-> srs]
  /\ verdicts' = Append(verdicts,
       [phase |-> phase, base |-> base, ok |-> TRUE,
        list |-> [k \in DOMAIN list |-> origins[list[k]]],
        fresh |-> \A k \in DOMAIN list : memory[list[k]] = origins[list[k]]])
  /\ UNCHANGED <<lineage, memory, origins, commons, keys>>

VerifyPhase1(N) == \E list \in Lists(1) : Begin(1, Base(N, {}), list, 0)
VerifyPhase2(r) == \E list \in Lists(2) : Begin(2, BaseOn(commons[r]), list, r)

\* Mutant: every contribution is compared with the empty one.
AlwaysInitial == Initial(call.base)

\* prev
Previous ==
  IF call.next = 1 THEN Initial(call.base) ELSE memory[call.list[call.next - 1]]

\* Mutant: the proof does not tie the parameters to the previous ones.
ProofOfAnything(p, n) == \E proof \in n.proof : proof.challenge = Hash(p)

\* UpdateProof.Verify, of every part of the parameters, and the sizes
ProvenUpdate(p, n) ==
  \E proof \in n.proof :
    /\ proof.challenge = Hash(p)
    /\ n.params = [p.params EXCEPT !.secrets = @ \union {proof.secret}]

Reject == call' = Idle /\ verdicts' = [verdicts EXCEPT ![Len(verdicts)].ok = FALSE]

\* Mutant: the loop verifies every other contribution.
Skipping == call.next + 2

Following == call.next + 1

\* Mutant: a challenge that was left out stays out.
AsRead(n, challenge) == n

\* next.Challenge = challenge, before anything else is verified
Challenged(n, challenge) == [n EXCEPT !.challenge = {challenge}]

\* One iteration of the loop: prev.Verify(c[i])
Verify ==
  /\ call.next <= Len(call.list)
  /\ LET x == call.list[call.next] IN
     IF ~ memory[x].challenge \subseteq {Hash(Previous)}
     THEN Reject /\ UNCHANGED memory
     ELSE /\ memory' = [memory EXCEPT ![x] = Challenged(@, Hash(Previous))]
          /\ \/ /\ ProvenUpdate(Previous, memory[x])
                /\ call' = [call EXCEPT !.next = Following]
                /\ UNCHANGED verdicts
             \/ ~ ProvenUpdate(Previous, memory[x]) /\ Reject
  /\ UNCHANGED <<lineage, origins, commons, keys>>

\* bitReverse, in place; only phase 2 has the Z it reorders.
Reversed(order) == IF order = "natural" THEN "reversed" ELSE "natural"

\* BeaconContributions and update, and the order of Z
Sealed(o) ==
  [o EXCEPT !.params.beacons = @ \union {Hash(o)},
            !.params.order = IF Phase(o) = 2 THEN Reversed(@) ELSE @]

\* Seal, of the last of the list or of prev, which only the call has
Seal ==
  /\ call # Idle /\ call.next > Len(call.list)
  /\ LET n == Len(call.list)
         at == IF n = 0 THEN Len(memory) + 1 ELSE call.list[n]
         sealed == Sealed(IF n = 0 THEN Initial(call.base) ELSE memory[at])
         result == [at |-> at, params |-> sealed.params, base |-> call.base,
                    list |-> verdicts[Len(verdicts)].list, srs |-> call.srs]
     IN /\ IF n = 0
           THEN /\ memory' = Append(memory, sealed)
                /\ origins' = Append(origins, Initial(call.base))
           ELSE memory' = [memory EXCEPT ![at] = sealed] /\ UNCHANGED origins
        /\ \/ call.phase = 1 /\ commons' = Append(commons, result) /\ UNCHANGED keys
           \/ call.phase = 2 /\ keys' = Append(keys, result) /\ UNCHANGED commons
  /\ call' = Idle
  /\ UNCHANGED <<lineage, verdicts>>

-----------------------------------------------------------------------------
Init ==
  /\ lineage = {} /\ memory = <<>> /\ origins = <<>>
  /\ call = Idle /\ verdicts = <<>> /\ commons = <<>> /\ keys = <<>>

Next ==
  \/ \E o \in Empty \union Published : Contribute(o)
  \/ \E o \in Published : Read(o)
  \/ \E r \in DOMAIN commons : VerifyPhase2(r)
  \/ \E N \in Sizes : VerifyPhase1(N)
  \/ Verify \/ Seal

Spec == Init /\ [][Next]_vars

-----------------------------------------------------------------------------
(* Properties.                                                                *)

Results == {commons[r] : r \in DOMAIN commons} \union {keys[r] : r \in DOMAIN keys}

\* Every object in memory keeps its place, a call runs over a list of objects of
\* its phase and does not step past its end, and a result is of an object.
TypeOK ==
  /\ Len(memory) = Len(origins) /\ Cardinality(lineage) <= MaxContributions
  /\ \A x \in DOMAIN memory : Phase(memory[x]) = Phase(origins[x])
  /\ call.phase \in 0 .. 2 /\ call.next \in 1 .. Len(call.list) + 1
  /\ \A k \in DOMAIN call.list : call.list[k] \in Objects(call.phase)
  /\ \A r \in Results : r.at \in DOMAIN memory

\* The contribution with its challenge, if there is a proof to tell it.
Whole(o) == [o EXCEPT !.challenge = {proof.challenge : proof \in o.proof}]

\* The list is a chain: the first contribution was made of the empty one for this
\* base, and each of the others of the one before it.
IsChain(base, list) ==
  \A k \in DOMAIN list :
    <<IF k = 1 THEN Initial(base) ELSE Whole(list[k - 1]), Whole(list[k])>> \in lineage

\* VerifyPhase1 and VerifyPhase2 accept chains only, and every chain whose objects
\* are as they were read; so one of two contributions made of the same one is lost,
\* and so is one made of a contribution that had lost its challenge.
AcceptsExactlyChains ==
  \A v \in DOMAIN verdicts :
    v < Len(verdicts) \/ call = Idle =>
      LET verdict == verdicts[v] IN
      /\ verdict.ok => IsChain(verdict.base, verdict.list)
      /\ verdict.fresh /\ IsChain(verdict.base, verdict.list) => verdict.ok

\* The secret of every contribution in the list is in the result, and no other:
\* one honest contributor is enough.
EveryContributionCounts ==
  \A r \in Results :
    r.params.secrets =
      UNION {{proof.secret : proof \in r.list[k].proof} : k \in DOMAIN r.list}

\* A result stays what it was, whatever calls the verifier makes afterwards on the
\* object it shares its memory with (VerifyPhase1 and VerifyPhase2 warn that the
\* last contribution is modified).
ResultsKeep == \A r \in Results : ResultParams(r) = r.params

\* A verifier that runs the ceremony again gets the same result, also when the
\* challenges were left out of what it reads this time.
Reproducible ==
  \A q, r \in Results :
    q.base = r.base /\ Len(q.list) = Len(r.list)
      /\ (\A k \in DOMAIN q.list : Whole(q.list[k]) = Whole(r.list[k]))
    => q.params = r.params
=============================================================================

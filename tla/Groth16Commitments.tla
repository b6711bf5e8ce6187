--------------------------- MODULE Groth16Commitments ---------------------------
(* The commitments of an R1CS from the circuit to the verifier: api.Commit         *)
(* (frontend/cs/r1cs/api.go) sorts the wires committed to; the setup deals the      *)
(* wires out to the keys (backend/groth16/bn254/setup.go); the prover drops the      *)
(* committed wires from its own list (prove.go); the verifier hashes public inputs  *)
(* and earlier commitments into the wire of each commitment (verify.go).  All four   *)
(* walk sorted lists of wires in step and rely on each other's order.               *)
(*                                                                                *)
(* Wires are numbers: 0 is ONE_WIRE, then the public, the secret and the internal    *)
(* variables.                                                                     *)
EXTENDS Naturals, Sequences, SequencesExt

CONSTANTS
  NbPublic,        \* public variables, with ONE_WIRE
  NbSecret,
  MaxWires,        \* bounds: wires,
  MaxCommitments,  \* calls of Commit,
  MaxCommitted     \* and wires of one call

\* There is the public variable ONE_WIRE, and room for the inputs.
ASSUME WiresAssumption ==
  NbPublic \in Nat \ {0} /\ NbSecret \in Nat /\ MaxWires \in Nat /\ NbPublic + NbSecret <= MaxWires

VARIABLES
  nbWires,
  commitments,  \* Groth16Commitment: [public, nbPublic, private, index], and asked, the
                \* wires Commit was called with (history)
  phase,        \* "idle", "merging" inside Commit, or "panicked"
  heap,         \* the wires not processed yet
  existing,     \* existingCommitmentIndexes
  seeker,       \* privateCommittedSeeker
  new           \* the commitment under construction

mergeVars == <<heap, existing, seeker, new>>
vars == <<nbWires, commitments, phase, mergeVars>>

NoCommitment ==
  [public |-> <<>>, nbPublic |-> 0, private |-> <<>>, index |-> 0, asked |-> {}]

CommitmentIndexes   == [i \in DOMAIN commitments |-> commitments[i].index]
GetPrivateCommitted == [i \in DOMAIN commitments |-> commitments[i].private]

Init ==
  /\ nbWires = NbPublic + NbSecret
  /\ commitments = <<>>
  /\ phase = "idle"
  /\ heap = {} /\ existing = <<>> /\ seeker = <<>> /\ new = NoCommitment

-----------------------------------------------------------------------------
(* The circuit.                                                              *)

\* Any API call that makes an internal variable.
NewInternal ==
  /\ phase = "idle" /\ nbWires < MaxWires
  /\ nbWires' = nbWires + 1
  /\ UNCHANGED <<commitments, phase, mergeVars>>

\* The random masks, which no circuit gets hold of.
Masks == {commitments[i].index - 1 : i \in DOMAIN commitments}

\* Commit adds a mask to what it commits to.
Commit(V) ==
  /\ phase = "idle" /\ Len(commitments) < MaxCommitments /\ nbWires + 2 <= MaxWires
  /\ V \subseteq (0 .. nbWires - 1) \ Masks
  /\ nbWires' = nbWires + 1
  /\ phase' = "merging"
  /\ heap' = V \union {nbWires}
  /\ existing' = CommitmentIndexes
  /\ seeker' = GetPrivateCommitted
  /\ new' = [NoCommitment EXCEPT !.asked = V]
  /\ UNCHANGED commitments

\* How many wires at the start of a list are below t, and the list without them.
Below(t, list) ==
  CHOOSE k \in 0 .. Len(list) :
    /\ \A i \in 1 .. k : list[i] < t
    /\ k < Len(list) => list[k + 1] >= t

NotBelow(t, list) == SubSeq(list, Below(t, list) + 1, Len(list))

\* Mutant: a committed wire is committed to once more.
FoundNever(t) == {}

\* The lists in which Seek finds t; the earliest one counts.
Found(t) == {i \in DOMAIN seeker : t \in ToSet(seeker[i])}

Committers(t) == {i \in Found(t) : \A j \in Found(t) : i <= j}

\* Mutant: a commitment counts as any other private wire.
IsNoCommitment(t) == FALSE

IsCommitment(t) == t \in ToSet(existing)

\* One round of the merge: the least wire leaves the heap, commitments below it leave
\* existing; a private wire has one of three fates.
Process ==
  /\ phase = "merging" /\ heap # {}
  /\ \E t \in heap :
       LET rest == NotBelow(t, existing) IN
       /\ \A w \in heap : t <= w
       /\ IF t < NbPublic
          THEN /\ heap' = heap \ {t}
               /\ new' = IF t = 0 THEN new ELSE
                    [new EXCEPT !.public = Append(@, t), !.nbPublic = @ + 1]
               /\ UNCHANGED <<phase, existing, seeker>>
          ELSE IF IsCommitment(t)
          THEN /\ heap' = heap \ {t}
               /\ new' = [new EXCEPT !.public = Append(@, t)]
               /\ existing' = Tail(rest)
               /\ UNCHANGED <<phase, seeker>>
          ELSE /\ existing' = rest
               /\ seeker' = [i \in DOMAIN seeker |->
                               IF \E j \in Committers(t) : i > j THEN seeker[i]
                               ELSE NotBelow(t, seeker[i])]
               /\ IF Committers(t) = {}
                  THEN /\ heap' = heap \ {t}
                       /\ new' = [new EXCEPT !.private = Append(@, t)]
                       /\ UNCHANGED phase
                  ELSE /\ \E c \in Committers(t) :
                            IF c <= Len(rest)
                            THEN heap' = (heap \ {t}) \union {rest[c]} /\ UNCHANGED phase
                            ELSE heap' = {} /\ phase' = "panicked"    \* index out of range
                       /\ UNCHANGED new
  /\ UNCHANGED <<nbWires, commitments>>

\* Mutant: the commitment's wire is not a new one.
AddCommitmentNoWire ==
  /\ phase = "merging" /\ heap = {}
  /\ commitments' = Append(commitments, [new EXCEPT !.index = nbWires])
  /\ phase' = "idle"
  /\ existing' = <<>> /\ seeker' = <<>> /\ new' = NoCommitment
  /\ UNCHANGED <<nbWires, heap>>

\* The commitment's wire is the output of a hint.
AddCommitment ==
  /\ phase = "merging" /\ heap = {}
  /\ commitments' = Append(commitments, [new EXCEPT !.index = nbWires])
  /\ nbWires' = nbWires + 1
  /\ phase' = "idle"
  /\ existing' = <<>> /\ seeker' = <<>> /\ new' = NoCommitment
  /\ UNCHANGED heap

Stop == phase # "merging" /\ UNCHANGED vars

Next == \/ NewInternal
        \/ \E k \in 1 .. MaxCommitted : \E V \in kSubset(k, 0 .. nbWires - 1) : Commit(V)
        \/ Process \/ AddCommitment \/ Stop

Spec == Init /\ [][Next]_vars

-----------------------------------------------------------------------------
(* The setup.                                                                *)

WireSeq(from, to) == [k \in 1 .. to - from + 1 |-> from + k - 1]

\* MergeIterator.IndexIfNext(i): the least of the lists' first wires, if it is i.
IndexIfNext(slices, i) ==
  {j \in DOMAIN slices :
     /\ slices[j] # <<>> /\ Head(slices[j]) = i
     /\ \A k \in DOMAIN slices :
          slices[k] # <<>> => Head(slices[k]) > i \/ (Head(slices[k]) = i /\ j <= k)}

\* One round of the loop over the wires: to the verifying key, to the key of its
\* commitment or to pk.G1.K.
Deal(keys, i) ==
  LET owner  == IndexIfNext(keys.slices, i)
      slices == [j \in DOMAIN keys.slices |->
                   IF j \in owner THEN Tail(keys.slices[j]) ELSE keys.slices[j]]
      isCommitment == /\ i >= NbPublic /\ keys.seen < Len(commitments)
                      /\ commitments[keys.seen + 1].index = i
  IN  IF i < NbPublic \/ isCommitment
      THEN [keys EXCEPT !.slices = slices, !.vkK = Append(@, i),
                        !.seen = IF isCommitment THEN @ + 1 ELSE @]
      ELSE IF owner # {}
      THEN [keys EXCEPT !.slices = slices,
                        !.ckK = [j \in DOMAIN @ |-> IF j \in owner THEN Append(@[j], i) ELSE @[j]]]
      ELSE [keys EXCEPT !.pkK = Append(@, i)]

NoKeys == [slices |-> GetPrivateCommitted, seen |-> 0, vkK |-> <<>>, pkK |-> <<>>,
           ckK |-> [j \in DOMAIN commitments |-> <<>>]]

\* The keys when n wires have been dealt.
Dealt[n \in Nat] == IF n = 0 THEN NoKeys ELSE Deal(Dealt[n - 1], n - 1)

Keys == Dealt[nbWires]

\* The elements of the first n lists.
NbElements[n \in 0 .. Len(commitments)] ==
  IF n = 0 THEN 0 ELSE NbElements[n - 1] + Len(commitments[n].private)

NbPrivateWires ==
  nbWires - NbPublic - NbElements[Len(commitments)] - Len(commitments)

-----------------------------------------------------------------------------
(* The prover: filterHeap on all but the public wires.                       *)

\* The wires to remove, each with the list and the position it comes from: a wire
\* that two lists hold is in the heap twice.
ToRemove ==
  {<<i, 0, commitments[i].index>> : i \in DOMAIN commitments} \union
  UNION {{<<i, k, commitments[i].private[k]>> : k \in DOMAIN commitments[i].private} :
           i \in DOMAIN commitments}

\* One round: a wire that is the least of the heap leaves it, as often as it is
\* there, and any other wire is kept.
FilterRound(before, wire) ==
  LET equal == {e \in before.heap : e[3] = wire}
  IN  IF equal # {} /\ \A e \in before.heap : wire <= e[3]
      THEN [heap |-> before.heap \ equal, r |-> before.r]
      ELSE [heap |-> before.heap, r |-> Append(before.r, wire)]

\* After the first n wires that are not public.
Filtered[n \in Nat] ==
  IF n = 0 THEN [heap |-> ToRemove, r |-> <<>>]
  ELSE FilterRound(Filtered[n - 1], NbPublic + n - 1)

WireValues == Filtered[nbWires - NbPublic].r

-----------------------------------------------------------------------------
(* The verifier.                                                             *)

\* GetPublicAndCommitmentCommitted: where the scan of the commitment wires stops for
\* entry j; it never goes back, and finds nothing when the list is not sorted.
Scan(i, j) ==
  {k \in DOMAIN commitments :
     /\ commitments[k].index = commitments[i].public[j]
     /\ \A m \in commitments[i].nbPublic + 1 .. j - 1 :
          \E n \in 1 .. k : commitments[n].index = commitments[i].public[m]}

Translated(i, j) == IF j <= commitments[i].nbPublic THEN {commitments[i].public[j]}
                    ELSE {NbPublic + k - 1 : k \in Scan(i, j)}

\* Mutant: the commitments' values are not appended to the public witness.
PublicWitnessFixed(i) == WireSeq(1, NbPublic - 1)

\* The wires whose values publicWitness has when commitment i is hashed.
PublicWitness(i) ==
  WireSeq(1, NbPublic - 1) \o SubSeq(CommitmentIndexes, 1, i - 1)

-----------------------------------------------------------------------------
\* The variables hold the kinds of values the code gives them.
TypeOK ==
  /\ nbWires \in NbPublic + NbSecret .. MaxWires
  /\ \A i \in DOMAIN commitments :
       /\ commitments[i].index \in NbPublic + NbSecret .. nbWires - 1
       /\ ToSet(commitments[i].public) \union ToSet(commitments[i].private)
            \subseteq 0 .. commitments[i].index - 1
       /\ commitments[i].nbPublic \in 0 .. Len(commitments[i].public)
  /\ phase \in {"idle", "merging", "panicked"}
  /\ heap \subseteq 0 .. nbWires - 1
  /\ ToSet(existing) \subseteq ToSet(CommitmentIndexes)
  /\ Len(seeker) \in {0, Len(commitments)}

\* Setup, prover and verifier agree on the wires, one list being walked by each:
\* pk.G1.K meets the prover's values in order, each commitment key the values its
\* hint commits to, vk.G1.K the public inputs followed by the commitments; the
\* setup's allocation of pk.G1.K is filled to the end.
KeysMatchWitness ==
  phase = "idle" =>
    /\ Keys.pkK = WireValues /\ Len(Keys.pkK) = NbPrivateWires
    /\ Keys.ckK = GetPrivateCommitted
    /\ Keys.vkK = WireSeq(0, NbPublic - 1) \o CommitmentIndexes

\* The verifier hashes into the challenge of a commitment the values of the very wires
\* the prover's hint hashes, in the same order, and has them all by then.
ChallengesMatch ==
  \A i \in DOMAIN commitments : \A j \in DOMAIN commitments[i].public :
    \E p \in Translated(i, j) :
      /\ p \in DOMAIN PublicWitness(i)
      /\ PublicWitness(i)[p] = commitments[i].public[j]

\* "Cannot commit to a secret variable that has already been committed to / instead
\* we commit to its commitment": Commit ends, and the commitment depends on the
\* commitment of each such variable.
RecommitsToCommitment ==
  /\ phase # "panicked"
  /\ \A i, c \in DOMAIN commitments : c < i =>
       \A w \in commitments[i].asked \intersect ToSet(commitments[c].private) :
         commitments[c].index \in ToSet(commitments[i].public)
=============================================================================

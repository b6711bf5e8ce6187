---------------------------- MODULE CeremonyProofs ----------------------------
(* What holds of every ceremony, for any number of contributions, objects and  *)
(* calls of the verifier.                                                     *)
EXTENDS Ceremony, FiniteSetTheorems, TLAPS

IsSeq(s) == \E S : s \in Seq(S)

IsObject(o) ==
  /\ o = [params |-> o.params, proof |-> o.proof, challenge |-> o.challenge]
  /\ o.params = [base |-> o.params.base, secrets |-> o.params.secrets,
                 beacons |-> o.params.beacons, order |-> o.params.order]

Unsealed(o) == IsObject(o) /\ o.params.beacons = {}

\* p is o with the secret s.
Derived(o, p, s) ==
  /\ Unsealed(o)
  /\ p = [params |-> [base |-> o.params.base, secrets |-> o.params.secrets \union {s},
                      beacons |-> {}, order |-> o.params.order],
          proof |-> {[secret |-> s, challenge |-> o]},
          challenge |-> {o}]

\* An object as it was read or made: empty, or with or without its challenge what a
\* contributor published.
Original(a) ==
  /\ Unsealed(a) /\ a.challenge \subseteq Whole(a).challenge
  /\ a.proof = {} \/ \E o : <<o, Whole(a)>> \in lineage

-----------------------------------------------------------------------------
(* Sequences.                                                                 *)

LEMMA AppendAny ==
  ASSUME NEW s, IsSeq(s), NEW e
  PROVE  /\ IsSeq(Append(s, e)) /\ Len(s) \in Nat /\ Len(Append(s, e)) = Len(s) + 1
         /\ DOMAIN s = 1 .. Len(s) /\ DOMAIN Append(s, e) = 1 .. Len(s) + 1
         /\ \A k \in 1 .. Len(s) : Append(s, e)[k] = s[k]
         /\ Append(s, e)[Len(s) + 1] = e
<1>1. PICK S : s \in Seq(S)
  BY DEF IsSeq
<1>2. s \in Seq(S \union {e}) /\ e \in S \union {e}
  BY <1>1
<1> DEFINE T == S \union {e}
<1>3. s \in Seq(T) /\ e \in T
  BY <1>2
<1> HIDE DEF T
<1>4. Append(s, e) \in Seq(T) /\ Len(Append(s, e)) = Len(s) + 1
  BY <1>3
<1>5. \A k \in 1 .. Len(s) : Append(s, e)[k] = s[k]
  BY <1>3
<1>6. Append(s, e)[Len(s) + 1] = e
  BY <1>3
<1> QED BY <1>3, <1>4, <1>5, <1>6 DEF IsSeq

LEMMA ReplaceAny ==
  ASSUME NEW s, IsSeq(s), NEW x \in 1 .. Len(s), NEW e
  PROVE  LET t == [s EXCEPT ![x] = e] IN
         /\ IsSeq(t) /\ Len(s) \in Nat /\ Len(t) = Len(s)
         /\ DOMAIN s = 1 .. Len(s) /\ DOMAIN t = 1 .. Len(s)
         /\ \A k \in 1 .. Len(s) : t[k] = IF k = x THEN e ELSE s[k]
<1>1. PICK S : s \in Seq(S)
  BY DEF IsSeq
<1> DEFINE T == S \union {e}  t == [s EXCEPT ![x] = e]
<1>2. s \in Seq(T) /\ e \in T
  BY <1>1
<1> HIDE DEF T
<1>3. t \in Seq(T) /\ Len(t) = Len(s) /\ \A k \in 1 .. Len(s) : t[k] = IF k = x THEN e ELSE s[k]
  BY <1>2
<1> QED BY <1>2, <1>3 DEF IsSeq

LEMMA DomainAny ==
  ASSUME NEW s, IsSeq(s)
  PROVE  DOMAIN s = 1 .. Len(s) /\ Len(s) \in Nat
  BY DEF IsSeq

-----------------------------------------------------------------------------
(* Objects.                                                                   *)

LEMMA InitialFacts ==
  ASSUME NEW base
  PROVE  /\ Unsealed(Initial(base)) /\ Initial(base).proof = {}
         /\ Initial(base).params.base = base /\ Initial(base).params.secrets = {}
         /\ Initial(base).params.beacons = {} /\ Whole(Initial(base)) = Initial(base)
  BY DEF Initial, Unsealed, IsObject, Whole

LEMMA WithChallenge ==
  ASSUME NEW o, IsObject(o), NEW c
  PROVE  [o EXCEPT !.challenge = c] = [params |-> o.params, proof |-> o.proof, challenge |-> c]
  BY DEF IsObject

LEMMA WholeFacts ==
  ASSUME NEW o, IsObject(o)
  PROVE  /\ IsObject(Whole(o)) /\ Whole(o).params = o.params /\ Whole(o).proof = o.proof
         /\ Whole(o).challenge = {proof.challenge : proof \in o.proof}
         /\ Whole(Whole(o)) = Whole(o)
<1>1. Whole(o) = [params |-> o.params, proof |-> o.proof,
                  challenge |-> {proof.challenge : proof \in o.proof}]
  <2> DEFINE c == {proof.challenge : proof \in o.proof}
  <2>1. Whole(o) = [o EXCEPT !.challenge = c]
    BY DEF Whole
  <2> HIDE DEF c
  <2>2. Whole(o) = [params |-> o.params, proof |-> o.proof, challenge |-> c]
    BY <2>1, WithChallenge
  <2> QED BY <2>2 DEF c
<1>2. IsObject(Whole(o)) /\ Whole(o).params = o.params /\ Whole(o).proof = o.proof
         /\ Whole(o).challenge = {proof.challenge : proof \in o.proof}
  BY <1>1 DEF IsObject
<1>3. Whole(Whole(o)) = [params |-> Whole(o).params, proof |-> Whole(o).proof,
                         challenge |-> {proof.challenge : proof \in Whole(o).proof}]
  BY <1>2 DEF IsObject, Whole
<1> QED BY <1>1, <1>2, <1>3

LEMMA ChallengedFacts ==
  ASSUME NEW o, IsObject(o), NEW c
  PROVE  /\ IsObject(Challenged(o, c)) /\ Challenged(o, c).params = o.params
         /\ Challenged(o, c).proof = o.proof /\ Challenged(o, c).challenge = {c}
         /\ Challenged(o, c) = [params |-> o.params, proof |-> o.proof, challenge |-> {c}]
  BY DEF IsObject, Challenged

LEMMA SealedFacts ==
  ASSUME NEW o, IsObject(o)
  PROVE  /\ IsObject(Sealed(o)) /\ Sealed(o).params.base = o.params.base
         /\ Sealed(o).params.secrets = o.params.secrets /\ Sealed(o).params.beacons # {}
         /\ Sealed(o).proof = o.proof /\ Sealed(o).challenge = o.challenge
<1> DEFINE order == IF Phase(o) = 2 THEN Reversed(o.params.order) ELSE o.params.order
<1>1. Sealed(o) = [o EXCEPT !.params.beacons = @ \union {Hash(o)}, !.params.order = order]
  BY DEF Sealed, IsObject
<1> HIDE DEF order
<1>2. Sealed(o) = [params |-> [base |-> o.params.base, secrets |-> o.params.secrets,
                               beacons |-> o.params.beacons \union {Hash(o)}, order |-> order],
                   proof |-> o.proof, challenge |-> o.challenge]
  BY <1>1 DEF IsObject
<1> QED BY <1>2 DEF IsObject

\* What a contributor publishes is derived, and with its challenge again is the same.
LEMMA ContributedFacts ==
  ASSUME NEW o, Unsealed(o)
  PROVE  Derived(o, Contributed(o), Fresh)
<1>1. Contributed(o) =
        [params |-> [base |-> o.params.base, secrets |-> o.params.secrets \union {Fresh},
                     beacons |-> o.params.beacons, order |-> o.params.order],
         proof |-> {[secret |-> Fresh, challenge |-> o]}, challenge |-> {o}]
  BY DEF Contributed, Updated, Unsealed, IsObject, Hash
<1> QED BY <1>1 DEF Derived, Unsealed

LEMMA DerivedFacts ==
  ASSUME NEW o, NEW p, NEW s, Derived(o, p, s)
  PROVE  /\ Unsealed(p) /\ Whole(p) = p /\ p.challenge = {o}
         /\ p.proof = {[secret |-> s, challenge |-> o]}
         /\ p.params = [base |-> o.params.base, secrets |-> o.params.secrets \union {s},
                        beacons |-> {}, order |-> o.params.order]
         /\ Unsealed(Bare(p)) /\ Whole(Bare(p)) = p /\ Bare(p).proof = p.proof
<1>1. /\ Unsealed(p) /\ p.challenge = {o} /\ p.proof = {[secret |-> s, challenge |-> o]}
      /\ p.params = [base |-> o.params.base, secrets |-> o.params.secrets \union {s},
                     beacons |-> {}, order |-> o.params.order]
      /\ p = [params |-> p.params, proof |-> p.proof, challenge |-> {o}]
  BY DEF Derived, Unsealed, IsObject
<1>2. {proof.challenge : proof \in p.proof} = {o}
  BY <1>1
<1>3. Whole(p) = p
  BY <1>1, <1>2 DEF Whole
<1>4. Bare(p) = [params |-> p.params, proof |-> p.proof, challenge |-> {}]
  BY <1>1, WithChallenge DEF Bare, Unsealed
<1>5. Unsealed(Bare(p)) /\ Bare(p).proof = p.proof
  <2>1. Bare(p).params = p.params /\ Bare(p).proof = p.proof /\ Bare(p).challenge = {}
    BY <1>4
  <2> QED BY <1>1, <1>4, <2>1 DEF Unsealed, IsObject
<1>6. Whole(Bare(p)) = p
  <2>1. Whole(Bare(p)).challenge = {o}
    BY <1>2, <1>5, WholeFacts DEF Unsealed
  <2>2. Whole(Bare(p)).params = p.params /\ Whole(Bare(p)).proof = p.proof /\ IsObject(Whole(Bare(p)))
    BY <1>4, <1>5, WholeFacts DEF Unsealed
  <2> QED BY <1>1, <2>1, <2>2 DEF IsObject
<1> QED BY <1>1, <1>3, <1>5, <1>6

-----------------------------------------------------------------------------
(* The invariant.                                                             *)

\* Only contributions to contributions that were not sealed are published.
Lineage ==
  /\ IsFiniteSet(lineage)
  /\ \A made \in lineage : made = <<made[1], made[2]>> /\ \E s : Derived(made[1], made[2], s)

Sequences == IsSeq(memory) /\ IsSeq(origins) /\ IsSeq(verdicts) /\ IsSeq(commons) /\ IsSeq(keys)

\* An object keeps its proof and what it is for, and its parameters until it is sealed.
Memory ==
  \A x \in 1 .. Len(memory) :
    /\ Original(origins[x]) /\ IsObject(memory[x])
    /\ memory[x].proof = origins[x].proof
    /\ memory[x].params.base = origins[x].params.base
    /\ memory[x].params.beacons = {} => memory[x].params = origins[x].params

Call ==
  /\ call = [phase |-> call.phase, base |-> call.base, list |-> call.list,
             next |-> call.next, srs |-> call.srs]
  /\ call.list \in Seq(Nat) /\ \A k \in 1 .. Len(call.list) : call.list[k] \in 1 .. Len(memory)
  /\ call = Idle \/ call.phase \in {1, 2}

Current == verdicts[Len(verdicts)]

\* The k-th of the list was made of the one before it.
Link(base, list, k) ==
  <<IF k = 1 THEN Initial(base) ELSE Whole(list[k - 1]), Whole(list[k])>> \in lineage

SecretsOf(list, n) == UNION {{proof.secret : proof \in list[k].proof} : k \in 1 .. n}

\* What was verified is as it was published, linked, and has the secrets of all before it.
Progress ==
  call # Idle =>
    LET v == verdicts[Len(verdicts)] IN
    /\ Len(verdicts) > 0 /\ v.base = call.base /\ v.ok = TRUE
    /\ v.list \in [1 .. Len(call.list) -> {origins[x] : x \in 1 .. Len(origins)}]
    /\ \A k \in 1 .. Len(call.list) : v.list[k] = origins[call.list[k]]
    /\ \A k \in 1 .. call.next - 1 :
         /\ memory[call.list[k]] = Whole(v.list[k]) /\ Link(call.base, v.list, k)
         /\ Whole(v.list[k]).params.secrets = SecretsOf(v.list, k)
    /\ v.fresh => \A k \in 1 .. Len(call.list) :
                    memory[call.list[k]] \in {v.list[k], Whole(v.list[k])}

Verdicts ==
  \A n \in 1 .. Len(verdicts) :
    LET v == verdicts[n] IN
    /\ v = [phase |-> v.phase, base |-> v.base, list |-> v.list, fresh |-> v.fresh, ok |-> v.ok]
    /\ IsSeq(v.list) /\ \A k \in 1 .. Len(v.list) : Original(v.list[k])

\* What Seal makes of a list.
Final(base, list) ==
  Sealed(IF Len(list) = 0 THEN Initial(base) ELSE Whole(list[Len(list)])).params

Sealings ==
  \A r \in Results :
    /\ r.at \in 1 .. Len(memory) /\ memory[r.at].params = r.params
    /\ IsSeq(r.list) /\ r.params = Final(r.base, r.list)
    /\ r.params.secrets = SecretsOf(r.list, Len(r.list)) /\ r.params.beacons # {}

IInv ==
  /\ TypeOK /\ Lineage /\ Sequences /\ Memory /\ Call /\ Progress /\ Verdicts
  /\ AcceptsExactlyChains /\ Sealings

LEMMA IInvImplies ==
  IInv => AcceptsExactlyChains /\ EveryContributionCounts /\ ResultsKeep /\ Reproducible
<1> SUFFICES ASSUME IInv
             PROVE  AcceptsExactlyChains /\ EveryContributionCounts /\ ResultsKeep /\ Reproducible
  OBVIOUS
<1>1. ResultsKeep
  BY DEF IInv, Sealings, ResultsKeep, ResultParams
<1>2. EveryContributionCounts
  <2> SUFFICES ASSUME NEW r \in Results
               PROVE  r.params.secrets =
                        UNION {{proof.secret : proof \in r.list[k].proof} : k \in DOMAIN r.list}
    BY DEF EveryContributionCounts
  <2>1. r.params.secrets = SecretsOf(r.list, Len(r.list)) /\ DOMAIN r.list = 1 .. Len(r.list)
    BY DomainAny DEF IInv, Sealings
  <2> QED BY <2>1 DEF SecretsOf
<1>3. Reproducible
  <2> SUFFICES ASSUME NEW q \in Results, NEW r \in Results,
                      q.base = r.base, Len(q.list) = Len(r.list),
                      \A k \in DOMAIN q.list : Whole(q.list[k]) = Whole(r.list[k])
               PROVE  q.params = r.params
    BY DEF Reproducible
  <2>1. DOMAIN q.list = 1 .. Len(q.list) /\ Len(q.list) \in Nat
    BY DomainAny DEF IInv, Sealings
  <2>2. Len(q.list) # 0 => Whole(q.list[Len(q.list)]) = Whole(r.list[Len(r.list)])
    BY <2>1
  <2> QED BY <2>2 DEF IInv, Sealings, Final
<1> QED BY <1>1, <1>2, <1>3 DEF IInv

LEMMA InitIInv == Init => IInv
<1> SUFFICES ASSUME Init PROVE IInv
  OBVIOUS
<1>1. IsSeq(<<>>) /\ Len(<<>>) = 0
  <2>1. <<>> \in Seq({})
    OBVIOUS
  <2> QED BY <2>1 DEF IsSeq
<1>2. Results = {}
  BY DEF Init, Results
<1>3. IsFiniteSet(lineage) /\ Cardinality(lineage) = 0
  BY FS_EmptySet DEF Init
<1>4. TypeOK
  BY <1>1, <1>2, <1>3, BoundsAssumption DEF Init, TypeOK, Idle
<1> QED BY <1>1, <1>2, <1>3, <1>4 DEF Init, IInv, Lineage, Sequences, Memory, Call, Progress,
           Verdicts, AcceptsExactlyChains, Sealings, Idle

-----------------------------------------------------------------------------
(* Publishing.                                                                *)

\* What anyone can start from or read was not sealed, and is original if it was published.
LEMMA PublishedFacts ==
  ASSUME IInv
  PROVE  /\ \A o \in Published : Original(o)
         /\ \A o \in Empty : Unsealed(o)
<1>1. ASSUME NEW made \in lineage
      PROVE  Original(made[2]) /\ Original(Bare(made[2]))
  <2>1. PICK s : Derived(made[1], made[2], s)
    BY DEF IInv, Lineage
  <2>2. made = <<made[1], made[2]>>
    BY DEF IInv, Lineage
  <2>3. /\ Unsealed(made[2]) /\ Whole(made[2]) = made[2]
        /\ Unsealed(Bare(made[2])) /\ Whole(Bare(made[2])) = made[2]
    BY <2>1, DerivedFacts
  <2>4. Bare(made[2]).challenge = {}
    BY <2>3, WithChallenge DEF Bare, Unsealed
  <2>5. \E o : <<o, made[2]>> \in lineage
    BY <2>2
  <2> QED BY <2>3, <2>4, <2>5 DEF Original
<1>2. \A o \in Empty : Unsealed(o)
  BY InitialFacts DEF Empty
<1> QED BY <1>1, <1>2 DEF Published

LEMMA ContributeKeeps ==
  ASSUME IInv, NEW o \in Empty \union Published, Contribute(o)
  PROVE  IInv'
<1> DEFINE p == Contributed(o)
<1>1. /\ lineage' = lineage \union {<<o, p>>} /\ Cardinality(lineage) < MaxContributions
      /\ UNCHANGED <<memory, origins, call, verdicts, commons, keys>>
  BY DEF Contribute
<1>2. Unsealed(o) /\ Derived(o, p, Fresh)
  BY PublishedFacts, ContributedFacts DEF Original
<1> HIDE DEF p
<1>3. Results' = Results
  BY <1>1 DEF Results
<1>4. Lineage' /\ Cardinality(lineage') <= MaxContributions
  <2>1. IsFiniteSet(lineage) /\ Cardinality(lineage) \in Nat
    BY FS_CardinalityType DEF IInv, Lineage
  <2>2. IsFiniteSet(lineage') /\ Cardinality(lineage') <= Cardinality(lineage) + 1
    <3>1. /\ IsFiniteSet(lineage \union {<<o, p>>})
          /\ \/ Cardinality(lineage \union {<<o, p>>}) = Cardinality(lineage)
             \/ Cardinality(lineage \union {<<o, p>>}) = Cardinality(lineage) + 1
      BY <2>1, FS_AddElement
    <3> QED BY <1>1, <2>1, <3>1
  <2>3. Cardinality(lineage') \in Nat
    BY <2>2, FS_CardinalityType
  <2>4. \A made \in lineage' : made = <<made[1], made[2]>> /\ \E s : Derived(made[1], made[2], s)
    BY <1>1, <1>2 DEF IInv, Lineage
  <2> QED BY <1>1, <2>1, <2>2, <2>3, <2>4, BoundsAssumption DEF Lineage
<1>5. TypeOK'
  BY <1>1, <1>3, <1>4 DEF IInv, TypeOK, Objects
<1>6. \A a : Original(a) => Original(a)'
  BY <1>1 DEF Original
<1>7. Sequences' /\ Call' /\ Sealings'
  BY <1>1, <1>3 DEF IInv, Sequences, Call, Sealings, Idle
<1>8. Memory' /\ Verdicts'
  BY <1>1, <1>6 DEF IInv, Memory, Verdicts
<1>9. Progress'
  <2> SUFFICES ASSUME call # Idle PROVE Progress'
    BY <1>1 DEF Progress, Idle
  <2>1. \A k \in 1 .. call.next - 1 :
          <<IF k = 1 THEN Initial(call.base) ELSE Whole(Current.list[k - 1]),
            Whole(Current.list[k])>> \in lineage'
    BY <1>1 DEF IInv, Progress, Link, Current
  <2> QED BY <1>1, <2>1 DEF IInv, Progress, Link, Current
\* A contribution that is a link was one before: it names what it was made of.
<1>10. ASSUME NEW a, Original(a), NEW q, <<q, Whole(a)>> \in lineage'
       PROVE  <<q, Whole(a)>> \in lineage
  <2>1. CASE <<q, Whole(a)>> \in lineage
    BY <2>1
  <2>2. CASE <<q, Whole(a)>> = <<o, p>>
    <3>1. q = o /\ Whole(a) = p /\ p.challenge = {o} /\ p.proof = {[secret |-> Fresh, challenge |-> o]}
      <4>1. q = o /\ Whole(a) = p
        BY <2>2
      <4>2. p.challenge = {o} /\ p.proof = {[secret |-> Fresh, challenge |-> o]}
        BY <1>2, DerivedFacts
      <4> QED BY <4>1, <4>2
    <3>2. Whole(a).proof = a.proof
      BY <1>10, WholeFacts DEF Original, Unsealed
    <3>3. PICK r : <<r, Whole(a)>> \in lineage
      BY <1>10, <3>1, <3>2 DEF Original
    <3>4. PICK s : Derived(r, Whole(a), s)
      <4>1. \E s : Derived(<<r, Whole(a)>>[1], <<r, Whole(a)>>[2], s)
        BY <3>3 DEF IInv, Lineage
      <4> QED BY <4>1
    <3>5. Whole(a).challenge = {r}
      BY <3>4, DerivedFacts
    <3>6. r = q
      BY <3>1, <3>5
    <3> QED BY <3>3, <3>6
  <2> QED BY <1>1, <1>10, <2>1, <2>2
<1>11. AcceptsExactlyChains'
  <2> SUFFICES ASSUME NEW n \in DOMAIN verdicts, n < Len(verdicts) \/ call = Idle
               PROVE  /\ verdicts[n].ok => IsChain(verdicts[n].base, verdicts[n].list)'
                      /\ verdicts[n].fresh /\ IsChain(verdicts[n].base, verdicts[n].list)'
                           => verdicts[n].ok
    BY <1>1 DEF AcceptsExactlyChains, Idle
  <2> DEFINE v == verdicts[n]
  <2>1. /\ v.ok => IsChain(v.base, v.list)
        /\ v.fresh /\ IsChain(v.base, v.list) => v.ok
    BY DEF IInv, AcceptsExactlyChains
  <2>2. \A k \in DOMAIN v.list : Original(v.list[k])
    <3>1. n \in 1 .. Len(verdicts)
      BY DomainAny DEF IInv, Sequences
    <3>2. IsSeq(v.list) /\ \A k \in 1 .. Len(v.list) : Original(v.list[k])
      BY <3>1 DEF IInv, Verdicts
    <3> QED BY <3>2, DomainAny
  <2> HIDE DEF v
  <2>3. IsChain(v.base, v.list)' <=> IsChain(v.base, v.list)
    <3>1. v' = v
      BY <1>1 DEF v
    <3>2. ASSUME NEW k \in DOMAIN v.list, NEW q
          PROVE  <<q, Whole(v.list[k])>> \in lineage' <=> <<q, Whole(v.list[k])>> \in lineage
      BY <1>1, <1>10, <2>2
    <3> QED BY <3>1, <3>2 DEF IsChain
  <2> QED BY <1>1, <2>1, <2>3 DEF v
<1> QED BY <1>5, <1>4, <1>7, <1>8, <1>9, <1>11 DEF IInv

-----------------------------------------------------------------------------
(* Reading and calling.                                                       *)

LEMMA ReadKeeps ==
  ASSUME IInv, NEW o \in Published, Read(o)
  PROVE  IInv'
<1>1. /\ memory' = Append(memory, o) /\ origins' = Append(origins, o) /\ call = Idle
      /\ UNCHANGED <<lineage, call, verdicts, commons, keys>>
  BY DEF Read
<1>2. Original(o) /\ IsObject(o)
  BY PublishedFacts DEF Original, Unsealed
<1>3. IsSeq(memory) /\ IsSeq(origins) /\ Len(memory) = Len(origins) /\ Len(memory) \in Nat
  BY DomainAny DEF IInv, Sequences, TypeOK
<1>4. /\ IsSeq(memory') /\ Len(memory') = Len(memory) + 1 /\ DOMAIN memory' = 1 .. Len(memory) + 1
      /\ \A k \in 1 .. Len(memory) : memory'[k] = memory[k]
      /\ memory'[Len(memory) + 1] = o /\ DOMAIN memory = 1 .. Len(memory)
  BY <1>1, <1>3, AppendAny
<1>5. /\ IsSeq(origins') /\ Len(origins') = Len(origins) + 1
      /\ \A k \in 1 .. Len(origins) : origins'[k] = origins[k]
      /\ origins'[Len(origins) + 1] = o
  BY <1>1, <1>3, AppendAny
<1>6. Results' = Results /\ \A a : Original(a)' <=> Original(a)
  BY <1>1 DEF Results, Original
<1>7. Memory'
  <2>1. ASSUME NEW x \in 1 .. Len(memory')
        PROVE  /\ Original(origins'[x]) /\ IsObject(memory'[x])
               /\ memory'[x].proof = origins'[x].proof
               /\ memory'[x].params.base = origins'[x].params.base
               /\ memory'[x].params.beacons = {} => memory'[x].params = origins'[x].params
    <3>1. CASE x \in 1 .. Len(memory)
      BY <1>3, <1>4, <1>5, <3>1 DEF IInv, Memory
    <3>2. CASE x = Len(memory) + 1
      BY <1>2, <1>3, <1>4, <1>5, <3>2
    <3> QED BY <1>3, <1>4, <3>1, <3>2
  <2> QED BY <1>6, <2>1 DEF Memory
<1>8. TypeOK'
  <2>1. \A x \in DOMAIN memory' : Phase(memory'[x]) = Phase(origins'[x])
    BY <1>7, <1>4 DEF Memory, Phase
  <2>2. \A r \in Results : r.at \in DOMAIN memory'
    BY <1>3, <1>4 DEF IInv, TypeOK
  <2> QED BY <1>1, <1>3, <1>4, <1>5, <1>6, <2>1, <2>2 DEF IInv, TypeOK, Idle
<1>9. Lineage' /\ Verdicts' /\ Progress'
  BY <1>1, <1>6 DEF IInv, Lineage, Verdicts, Progress
<1>10. Sequences' /\ Call'
  BY <1>1, <1>4, <1>5 DEF IInv, Sequences, Call, Idle
<1>11. AcceptsExactlyChains'
  BY <1>1 DEF IInv, AcceptsExactlyChains, IsChain
<1>12. Sealings'
  BY <1>3, <1>4, <1>6 DEF IInv, Sealings
<1> QED BY <1>7, <1>8, <1>9, <1>10, <1>11, <1>12 DEF IInv

\* An object in memory is of the phase of its base, and keeps it.
LEMMA BaseKeepsPhase ==
  ASSUME NEW o, NEW p, o.params.base = p.params.base
  PROVE  Phase(o) = Phase(p)
  BY DEF Phase

\* What AcceptsExactlyChains says of a call that has ended.
Decided(v) ==
  /\ v.ok => IsChain(v.base, v.list)
  /\ v.fresh /\ IsChain(v.base, v.list) => v.ok

LEMMA DecidedFacts ==
  /\ AcceptsExactlyChains <=>
       \A n \in DOMAIN verdicts : n < Len(verdicts) \/ call = Idle => Decided(verdicts[n])
  /\ UNCHANGED lineage =>
       (AcceptsExactlyChains' <=>
          \A n \in DOMAIN verdicts' : n < Len(verdicts') \/ call' = Idle => Decided(verdicts'[n]))
  BY DEF AcceptsExactlyChains, Decided, IsChain, Idle

LEMMA BeginKeeps ==
  ASSUME IInv, NEW phase \in {1, 2}, NEW base, NEW list \in Lists(phase), NEW srs,
         Begin(phase, base, list, srs)
  PROVE  IInv'
<1> DEFINE originals == [k \in DOMAIN list |-> origins[list[k]]]
           fresh == \A k \in DOMAIN list : memory[list[k]] = origins[list[k]]
           v == [phase |-> phase, base |-> base, ok |-> TRUE, list |-> originals, fresh |-> fresh]
<1>1. /\ call' = [phase |-> phase, base |-> base, list |-> list, next |-> 1, srs |-> srs]
      /\ verdicts' = Append(verdicts, v) /\ call = Idle
      /\ UNCHANGED <<lineage, memory, origins, commons, keys>>
  BY DEF Begin
<1>2. PICK n \in Nat : list \in [1 .. n -> Objects(phase)]
  <2>1. PICK n \in 0 .. Cardinality(Objects(phase)) : list \in [1 .. n -> Objects(phase)]
    BY DEF Lists
  <2> QED BY <2>1
<1>3. /\ list \in Seq(Nat) /\ Len(list) = n /\ DOMAIN list = 1 .. n
      /\ \A k \in 1 .. n : list[k] \in 1 .. Len(memory) /\ list[k] \in Objects(phase)
  BY <1>2 DEF Objects
<1>4. originals \in Seq({origins[x] : x \in 1 .. Len(memory)}) /\ Len(originals) = n
      /\ \A k \in 1 .. n : originals[k] = origins[list[k]]
  BY <1>3
<1>5. /\ v.phase = phase /\ v.base = base /\ v.ok = TRUE /\ v.list = originals
      /\ v.fresh = fresh
      /\ v = [phase |-> v.phase, base |-> v.base, list |-> v.list, fresh |-> v.fresh, ok |-> v.ok]
  OBVIOUS
<1> HIDE DEF originals, fresh, v
<1>6. /\ IsSeq(verdicts') /\ Len(verdicts') = Len(verdicts) + 1 /\ Len(verdicts) \in Nat
      /\ DOMAIN verdicts = 1 .. Len(verdicts) /\ DOMAIN verdicts' = 1 .. Len(verdicts) + 1
      /\ \A k \in 1 .. Len(verdicts) : verdicts'[k] = verdicts[k]
      /\ verdicts'[Len(verdicts) + 1] = v
  BY <1>1, AppendAny DEF IInv, Sequences
<1>7. Results' = Results /\ (\A a : Original(a)' <=> Original(a)) /\ Objects(phase)' = Objects(phase)
  BY <1>1 DEF Results, Original, Objects
<1>8. TypeOK'
  <2>1. /\ call'.phase = phase /\ call'.next = 1 /\ call'.list = list /\ call' # Idle
    BY <1>1 DEF Idle
  <2> QED BY <1>1, <1>3, <1>7, <2>1 DEF IInv, TypeOK
<1>9. Lineage' /\ Sequences' /\ Memory' /\ Sealings'
  BY <1>1, <1>6, <1>7 DEF IInv, Lineage, Sequences, Memory, Sealings
<1>10. Call'
  BY <1>1, <1>3 DEF Call
<1>11. Verdicts'
  <2>1. IsSeq(originals) /\ \A k \in 1 .. Len(originals) : Original(originals[k])
    BY <1>3, <1>4 DEF IInv, Memory, IsSeq
  <2>2. ASSUME NEW m \in 1 .. Len(verdicts) + 1
        PROVE  /\ verdicts'[m] = [phase |-> verdicts'[m].phase, base |-> verdicts'[m].base,
                    list |-> verdicts'[m].list, fresh |-> verdicts'[m].fresh, ok |-> verdicts'[m].ok]
               /\ IsSeq(verdicts'[m].list)
               /\ \A k \in 1 .. Len(verdicts'[m].list) : Original(verdicts'[m].list[k])
    <3>1. CASE m = Len(verdicts) + 1
      BY <1>5, <1>6, <2>1, <3>1
    <3>2. CASE m \in 1 .. Len(verdicts)
      BY <1>6, <3>2 DEF IInv, Verdicts
    <3> QED BY <1>6, <3>1, <3>2
  <2> QED BY <1>6, <1>7, <2>2 DEF Verdicts
<1>12. Progress'
  <2>1. /\ verdicts'[Len(verdicts')] = v /\ Len(verdicts') > 0
    BY <1>6
  <2>2. call'.list = list /\ call'.next = 1 /\ call'.base = base
    BY <1>1
  <2>3. v.list \in [1 .. Len(list) -> {origins[x] : x \in 1 .. Len(origins)}]
    BY <1>3, <1>4, <1>5 DEF IInv, TypeOK
  <2>4. v.fresh => \A k \in 1 .. Len(list) : memory[list[k]] = v.list[k]
    BY <1>3, <1>4, <1>5 DEF fresh
  <2> QED BY <1>1, <1>3, <1>4, <1>5, <2>1, <2>2, <2>3, <2>4 DEF Progress
\* What was decided stays, and the last decision was made when the call ended.
<1>13. AcceptsExactlyChains'
  <2> SUFFICES ASSUME NEW m \in 1 .. Len(verdicts) + 1,
                      m < Len(verdicts) + 1 \/ call' = Idle
               PROVE  Decided(verdicts'[m])
    BY <1>1, <1>6, DecidedFacts
  <2>1. call' # Idle
    BY <1>1 DEF Idle
  <2>2. m \in 1 .. Len(verdicts) /\ verdicts'[m] = verdicts[m]
    BY <1>6, <2>1
  <2> QED BY <1>1, <1>6, <2>2, DecidedFacts DEF IInv
<1> QED BY <1>8, <1>9, <1>10, <1>11, <1>12, <1>13 DEF IInv

-----------------------------------------------------------------------------
(* Verifying.                                                                 *)

\* In a call, with a contribution left to verify.
Verifying ==
  /\ IInv /\ call.next <= Len(call.list)

LEMMA CallFacts ==
  ASSUME IInv
  PROVE  /\ Len(call.list) \in Nat /\ call.next \in 1 .. Len(call.list) + 1
         /\ \A k \in 1 .. Len(call.list) :
              call.list[k] \in Nat /\ call.list[k] \in 1 .. Len(memory)
         /\ Len(memory) = Len(origins) /\ Len(memory) \in Nat
         /\ DOMAIN memory = 1 .. Len(memory)
         /\ call.next <= Len(call.list) => call # Idle
<1>1. call.list \in Seq(Nat)
  BY DEF IInv, Call
<1>2. DOMAIN memory = 1 .. Len(memory) /\ Len(memory) \in Nat
  BY DomainAny DEF IInv, Sequences
<1>3. call.next <= Len(call.list) => call # Idle
  BY DEF Idle
<1> QED BY <1>1, <1>2, <1>3 DEF IInv, Call, TypeOK

LEMMA VerdictFacts ==
  ASSUME IInv, call # Idle
  PROVE  /\ Len(verdicts) \in Nat /\ Len(verdicts) > 0 /\ DOMAIN verdicts = 1 .. Len(verdicts)
         /\ Current.base = call.base /\ Current.ok = TRUE
         /\ Len(Current.list) = Len(call.list) /\ IsSeq(Current.list)
         /\ DOMAIN Current.list = 1 .. Len(call.list)
         /\ \A k \in 1 .. Len(call.list) :
              Current.list[k] = origins[call.list[k]] /\ Original(Current.list[k])
<1>1. Len(verdicts) \in Nat /\ Len(verdicts) > 0 /\ DOMAIN verdicts = 1 .. Len(verdicts)
  BY DomainAny DEF IInv, Progress, Sequences
<1>2. /\ Current.base = call.base /\ Current.ok = TRUE
      /\ Current.list \in [1 .. Len(call.list) -> {origins[x] : x \in 1 .. Len(origins)}]
      /\ \A k \in 1 .. Len(call.list) : Current.list[k] = origins[call.list[k]]
  BY DEF IInv, Progress, Current
<1>3. IsSeq(Current.list)
  BY <1>1 DEF IInv, Verdicts, Current
<1>4. Len(Current.list) = Len(call.list)
  BY <1>2, <1>3, DomainAny, CallFacts
<1>5. \A k \in 1 .. Len(call.list) : Original(Current.list[k])
  BY <1>2, CallFacts DEF IInv, Memory
<1> QED BY <1>1, <1>2, <1>3, <1>4, <1>5

\* What a contribution is compared with is as it was published, with the secrets of
\* all contributions before it.
LEMMA PreviousFacts ==
  ASSUME IInv, call # Idle
  PROVE  /\ Unsealed(Previous)
         /\ Previous = IF call.next = 1 THEN Initial(call.base)
                       ELSE Whole(Current.list[call.next - 1])
         /\ Previous.params.secrets = SecretsOf(Current.list, call.next - 1)
<1>1. CASE call.next = 1
  <2>1. SecretsOf(Current.list, call.next - 1) = {}
    <3>1. 1 .. call.next - 1 = {}
      BY <1>1
    <3> QED BY <3>1 DEF SecretsOf
  <2> QED BY <1>1, <2>1, InitialFacts DEF Previous
<1>2. CASE call.next # 1
  <2> DEFINE k == call.next - 1
  <2>1. k \in 1 .. call.next - 1 /\ k \in 1 .. Len(call.list)
    BY <1>2, CallFacts
  <2>2. /\ memory[call.list[k]] = Whole(Current.list[k])
        /\ Whole(Current.list[k]).params.secrets = SecretsOf(Current.list, k)
    BY <2>1 DEF IInv, Progress, Current
  <2>3. Unsealed(Whole(Current.list[k]))
    BY <2>1, VerdictFacts, WholeFacts DEF Original, Unsealed
  <2> QED BY <1>2, <2>2, <2>3 DEF Previous
<1> QED BY <1>1, <1>2

\* A contribution that is linked to the one before it and untouched passes.
LEMMA LinkedPasses ==
  ASSUME Verifying, Current.fresh, IsChain(Current.base, Current.list)
  PROVE  LET o == memory[call.list[call.next]] IN
         o.challenge \subseteq {Hash(Previous)} /\ ProvenUpdate(Previous, o)
<1> DEFINE n == call.next
           o == memory[call.list[n]]
           a == Current.list[n]
           p == Previous
<1>1. n \in 1 .. Len(call.list) /\ call # Idle
  BY CallFacts DEF Verifying
<1>2. Original(a) /\ (o = a \/ o = Whole(a))
  BY <1>1, VerdictFacts DEF Verifying, IInv, Progress, Current
<1>3. <<p, Whole(a)>> \in lineage
  <2>1. n \in DOMAIN Current.list /\ Current.base = call.base
    BY <1>1, VerdictFacts DEF Verifying
  <2>2. <<IF n = 1 THEN Initial(Current.base) ELSE Whole(Current.list[n - 1]), Whole(a)>> \in lineage
    BY <2>1 DEF IsChain
  <2> QED BY <1>1, <2>1, <2>2, PreviousFacts DEF Verifying
<1>4. PICK s : Derived(p, Whole(a), s)
  <2>1. \E s : Derived(<<p, Whole(a)>>[1], <<p, Whole(a)>>[2], s)
    BY <1>3 DEF Verifying, IInv, Lineage
  <2> QED BY <2>1
<1>5. /\ Whole(a).challenge = {p} /\ Whole(a).proof = {[secret |-> s, challenge |-> p]}
      /\ Whole(a).params = [base |-> p.params.base, secrets |-> p.params.secrets \union {s},
                            beacons |-> {}, order |-> p.params.order]
  BY <1>4, DerivedFacts
<1>6. Whole(a).params = a.params /\ Whole(a).proof = a.proof /\ a.challenge \subseteq Whole(a).challenge
  BY <1>2, WholeFacts DEF Original, Unsealed
<1>7. Unsealed(p)
  BY <1>1, PreviousFacts DEF Verifying
<1> HIDE DEF p, a, o, n
<1>8. o.challenge \subseteq {p} /\ o.proof = {[secret |-> s, challenge |-> p]} /\ o.params = Whole(a).params
  BY <1>2, <1>5, <1>6
<1>9. [p.params EXCEPT !.secrets = @ \union {s}]
        = [base |-> p.params.base, secrets |-> p.params.secrets \union {s}, beacons |-> {},
           order |-> p.params.order]
  BY <1>7 DEF Unsealed, IsObject
<1>10. ProvenUpdate(p, o)
  BY <1>5, <1>8, <1>9 DEF ProvenUpdate, Hash
<1> QED BY <1>8, <1>10 DEF Hash, o, n, p

\* A contribution that passes is what was published, made of the one before it.
LEMMA PassedIsLinked ==
  ASSUME Verifying, ProvenUpdate(Previous, memory[call.list[call.next]])
  PROVE  LET o == memory[call.list[call.next]]
             a == Current.list[call.next]
         IN /\ Challenged(o, Hash(Previous)) = Whole(a)
            /\ Link(call.base, Current.list, call.next)
            /\ Whole(a).params.secrets = SecretsOf(Current.list, call.next)
<1> DEFINE n == call.next
           x == call.list[n]
           o == memory[x]
           a == Current.list[n]
           p == Previous
<1>1. n \in 1 .. Len(call.list) /\ call # Idle /\ x \in 1 .. Len(memory) /\ Verifying
  BY CallFacts DEF Verifying
<1>2. /\ Original(a) /\ a = origins[x]
      /\ \A k \in 1 .. Len(call.list) : Original(Current.list[k])
  BY <1>1, VerdictFacts DEF Verifying
<1>3. Unsealed(p)
  BY <1>1, PreviousFacts DEF Verifying
<1>4. PICK proof \in o.proof :
        proof.challenge = p /\ o.params = [p.params EXCEPT !.secrets = @ \union {proof.secret}]
  BY DEF ProvenUpdate, Hash
<1>5. IsObject(o) /\ o.proof = a.proof /\ o.params = a.params
  <2>1. o.params.beacons = {}
    BY <1>3, <1>4 DEF Unsealed, IsObject
  <2> QED BY <1>1, <1>2, <2>1 DEF Verifying, IInv, Memory
<1>6. /\ Whole(a).params = a.params /\ Whole(a).proof = a.proof /\ IsObject(Whole(a))
      /\ Whole(a).challenge = {pr.challenge : pr \in a.proof}
  BY <1>2, WholeFacts DEF Original, Unsealed
<1>7. PICK q : <<q, Whole(a)>> \in lineage
  BY <1>2, <1>4, <1>5 DEF Original
<1>8. PICK s : Derived(q, Whole(a), s)
  <2>1. \E s : Derived(<<q, Whole(a)>>[1], <<q, Whole(a)>>[2], s)
    BY <1>1, <1>7 DEF Verifying, IInv, Lineage
  <2> QED BY <2>1
<1>9. a.proof = {[secret |-> s, challenge |-> q]} /\ Whole(a).challenge = {q}
      /\ Whole(a).params.secrets = q.params.secrets \union {s}
  <2> HIDE DEF a
  <2>1. /\ Whole(a).proof = {[secret |-> s, challenge |-> q]} /\ Whole(a).challenge = {q}
        /\ Whole(a).params = [base |-> q.params.base, secrets |-> q.params.secrets \union {s},
                              beacons |-> {}, order |-> q.params.order]
    BY <1>8, DerivedFacts
  <2> QED BY <1>6, <2>1
<1>10. q = p
  <2>1. proof \in {[secret |-> s, challenge |-> q]}
    BY <1>4, <1>5, <1>9
  <2> QED BY <1>4, <2>1
<1>11. Challenged(o, p) = Whole(a)
  <2>1. Challenged(o, p) = [params |-> o.params, proof |-> o.proof, challenge |-> {p}]
    BY <1>5, ChallengedFacts
  <2>2. Whole(a) = [params |-> a.params, proof |-> a.proof, challenge |-> {p}]
    BY <1>6, <1>9, <1>10 DEF IsObject
  <2> QED BY <1>5, <2>1, <2>2
<1>12. Link(call.base, Current.list, n)
  BY <1>1, <1>7, <1>10, PreviousFacts DEF Link, Verifying
<1>13. Whole(a).params.secrets = SecretsOf(Current.list, n)
  <2>1. p.params.secrets = SecretsOf(Current.list, n - 1)
    BY <1>1, PreviousFacts DEF Verifying
  <2>2. 1 .. n = (1 .. n - 1) \union {n} /\ Current.list[n] = a
    BY <1>1, CallFacts DEF Verifying
  <2>3. {pr.secret : pr \in a.proof} = {s}
    BY <1>9
  <2> HIDE DEF a, p, n
  <2>4. SecretsOf(Current.list, n) = SecretsOf(Current.list, n - 1) \union {s}
    BY <2>2, <2>3 DEF SecretsOf
  <2> QED BY <1>9, <1>10, <2>1, <2>4
<1> QED BY <1>11, <1>12, <1>13 DEF Hash

LEMMA WithOk ==
  ASSUME NEW c, c = [phase |-> c.phase, base |-> c.base, list |-> c.list, fresh |-> c.fresh, ok |-> c.ok],
         NEW e
  PROVE  [c EXCEPT !.ok = e] =
           [phase |-> c.phase, base |-> c.base, list |-> c.list, fresh |-> c.fresh, ok |-> e]
  OBVIOUS

LEMMA VerifyKeeps ==
  ASSUME IInv, Verify
  PROVE  IInv'
<1> DEFINE n == call.next
           x == call.list[n]
           o == memory[x]
           p == Previous
           challenged == [memory EXCEPT ![x] = Challenged(o, p)]
           rejected == call' = Idle /\ verdicts' = [verdicts EXCEPT ![Len(verdicts)].ok = FALSE]
           accepted == /\ call' = [call EXCEPT !.next = n + 1] /\ UNCHANGED verdicts
                       /\ ProvenUpdate(p, o) /\ memory' = challenged
<1>1. /\ n \in 1 .. Len(call.list) /\ call # Idle /\ x \in 1 .. Len(memory) /\ Verifying
      /\ Len(memory) \in Nat /\ DOMAIN memory = 1 .. Len(memory)
  BY CallFacts DEF Verify, Verifying
<1>2. UNCHANGED <<lineage, origins, commons, keys>>
  BY DEF Verify
<1>3. \/ rejected /\ ~ (o.challenge \subseteq {p} /\ ProvenUpdate(p, o))
         /\ (memory' = challenged \/ UNCHANGED memory)
      \/ accepted
  BY DEF Verify, Reject, Following, Hash
<1> HIDE DEF p, challenged, rejected, accepted
\* Only challenges change.
<1>4. /\ IsSeq(memory') /\ Len(memory') = Len(memory) /\ DOMAIN memory' = 1 .. Len(memory)
      /\ \A y \in 1 .. Len(memory) :
           /\ IsObject(memory'[y]) /\ memory'[y].params = memory[y].params
           /\ memory'[y].proof = memory[y].proof
           /\ y # x => memory'[y] = memory[y]
  <2>1. CASE UNCHANGED memory
    BY <1>1, <2>1 DEF IInv, Memory, Sequences
  <2>2. CASE memory' = challenged
    <3>1. /\ IsSeq(memory') /\ Len(memory') = Len(memory) /\ DOMAIN memory' = 1 .. Len(memory)
          /\ \A y \in 1 .. Len(memory) : memory'[y] = IF y = x THEN Challenged(o, p) ELSE memory[y]
      <4>1. IsSeq(memory) /\ x \in 1 .. Len(memory)
        BY <1>1 DEF IInv, Sequences
      <4>2. memory' = [memory EXCEPT ![x] = Challenged(o, p)]
        BY <2>2 DEF challenged
      <4> HIDE DEF x, o
      <4> QED BY <4>1, <4>2, ReplaceAny
    <3>2. \A y \in 1 .. Len(memory) : IsObject(memory[y])
      BY DEF IInv, Memory
    <3>3. IsObject(Challenged(o, p)) /\ Challenged(o, p).params = o.params /\ Challenged(o, p).proof = o.proof
      BY <1>1, <3>2, ChallengedFacts
    <3> QED BY <3>1, <3>2, <3>3
  <2> QED BY <1>3, <2>1, <2>2 DEF accepted
<1>5. Results' = Results /\ (\A a : Original(a)' <=> Original(a))
  BY <1>2 DEF Results, Original
<1>6. Memory'
  BY <1>2, <1>4, <1>5 DEF IInv, Memory
<1>7. Lineage' /\ Sealings'
  BY <1>2, <1>4, <1>5 DEF IInv, Lineage, Sealings
<1>8. \A y \in DOMAIN memory' : Phase(memory'[y]) = Phase(origins'[y]) /\ Phase(memory'[y]) = Phase(memory[y])
  BY <1>1, <1>2, <1>4, <1>6, BaseKeepsPhase DEF Memory
<1>9. \A r \in Results : r.at \in DOMAIN memory'
  BY <1>4, <1>1 DEF IInv, TypeOK
<1>10. CASE rejected
  <2>1. /\ IsSeq(verdicts') /\ Len(verdicts') = Len(verdicts) /\ Len(verdicts) \in Nat
        /\ DOMAIN verdicts = 1 .. Len(verdicts) /\ DOMAIN verdicts' = 1 .. Len(verdicts)
        /\ \A k \in 1 .. Len(verdicts) :
             verdicts'[k] = IF k = Len(verdicts) THEN [Current EXCEPT !.ok = FALSE] ELSE verdicts[k]
    <3>1. Len(verdicts) \in 1 .. Len(verdicts)
      BY <1>1, VerdictFacts
    <3>2. verdicts' = [verdicts EXCEPT ![Len(verdicts)] = [Current EXCEPT !.ok = FALSE]]
      BY <1>10 DEF rejected, Current
    <3>3. IsSeq(verdicts)
      BY DEF IInv, Sequences
    <3> DEFINE last == Len(verdicts)  e == [Current EXCEPT !.ok = FALSE]
    <3>4. last \in 1 .. Len(verdicts) /\ verdicts' = [verdicts EXCEPT ![last] = e]
      BY <3>1, <3>2
    <3> HIDE DEF last, e
    <3>5. /\ IsSeq(verdicts') /\ Len(verdicts') = Len(verdicts) /\ Len(verdicts) \in Nat
          /\ DOMAIN verdicts = 1 .. Len(verdicts) /\ DOMAIN verdicts' = 1 .. Len(verdicts)
          /\ \A k \in 1 .. Len(verdicts) : verdicts'[k] = IF k = last THEN e ELSE verdicts[k]
      BY <3>3, <3>4, ReplaceAny
    <3> QED BY <3>5 DEF last, e
  <2>2. Len(verdicts) \in 1 .. Len(verdicts)
    BY <1>1, VerdictFacts
  <2>3. Current = [phase |-> Current.phase, base |-> Current.base, list |-> Current.list,
                   fresh |-> Current.fresh, ok |-> Current.ok]
    BY <2>2 DEF IInv, Verdicts, Current
  <2>4. [Current EXCEPT !.ok = FALSE] =
          [phase |-> Current.phase, base |-> Current.base, list |-> Current.list,
           fresh |-> Current.fresh, ok |-> FALSE]
    BY <2>3, WithOk
  <2>5. Sequences'
    BY <1>2, <1>4, <2>1 DEF IInv, Sequences
  <2>6. call' = Idle
    BY <1>10 DEF rejected
  <2>7. Call' /\ Progress'
    <3>1. \A k : k \notin 1 .. 0
      OBVIOUS
    <3>2. <<>> \in Seq(Nat) /\ Len(<<>>) = 0
      OBVIOUS
    <3> QED BY <2>6, <3>1, <3>2 DEF Call, Progress, Idle
  <2>8. Verdicts'
    <3>1. ASSUME NEW k \in 1 .. Len(verdicts)
          PROVE  /\ verdicts'[k] = [phase |-> verdicts'[k].phase, base |-> verdicts'[k].base,
                      list |-> verdicts'[k].list, fresh |-> verdicts'[k].fresh, ok |-> verdicts'[k].ok]
                 /\ IsSeq(verdicts'[k].list)
                 /\ \A j \in 1 .. Len(verdicts'[k].list) : Original(verdicts'[k].list[j])
      <4>1. CASE k = Len(verdicts)
        <5>1. IsSeq(Current.list) /\ \A j \in 1 .. Len(Current.list) : Original(Current.list[j])
          BY <2>2 DEF IInv, Verdicts, Current
        <5> QED BY <2>1, <2>4, <4>1, <5>1
      <4>2. CASE k # Len(verdicts)
        BY <2>1, <4>2 DEF IInv, Verdicts
      <4> QED BY <4>1, <4>2
    <3> QED BY <1>5, <2>1, <3>1 DEF Verdicts
  <2>9. AcceptsExactlyChains'
    <3> SUFFICES ASSUME NEW k \in 1 .. Len(verdicts) PROVE Decided(verdicts'[k])
      BY <1>2, <2>1, DecidedFacts
    <3>1. CASE k # Len(verdicts)
      BY <2>1, <3>1, DecidedFacts DEF IInv
    <3>2. CASE k = Len(verdicts)
      <4>1. ~ (Current.fresh /\ IsChain(Current.base, Current.list))
        <5>1. ~ (o.challenge \subseteq {p} /\ ProvenUpdate(p, o))
          <6>1. ~ accepted
            BY <1>1, <2>2, <1>10, VerdictFacts DEF accepted, rejected, Idle, IInv, Call
          <6> QED BY <1>3, <6>1
        <5> QED BY <1>1, <5>1, LinkedPasses DEF p, Hash
      <4> QED BY <2>1, <2>4, <3>2, <4>1 DEF Decided
    <3> QED BY <3>1, <3>2
  <2>10. TypeOK'
    BY <1>2, <1>4, <1>5, <1>8, <1>9, <2>6 DEF IInv, TypeOK, Idle
  <2> QED BY <1>6, <1>7, <2>5, <2>7, <2>8, <2>9, <2>10 DEF IInv
<1>11. CASE accepted
  <2>1. /\ call' = [phase |-> call.phase, base |-> call.base, list |-> call.list,
                    next |-> n + 1, srs |-> call.srs]
        /\ UNCHANGED verdicts /\ ProvenUpdate(p, o) /\ memory' = challenged
    BY <1>11 DEF accepted, IInv, Call
  <2>2. call' # Idle /\ call'.phase \in {1, 2}
    BY <1>1, <2>1 DEF Idle, IInv, Call
  <2>3. Sequences' /\ Verdicts'
    BY <1>2, <1>4, <1>5, <2>1 DEF IInv, Sequences, Verdicts
  <2>4. Call'
    BY <1>4, <2>1, <2>2 DEF IInv, Call
  <2>5. /\ memory'[x] = Whole(Current.list[n]) /\ Link(call.base, Current.list, n)
        /\ Whole(Current.list[n]).params.secrets = SecretsOf(Current.list, n)
    <3>1. /\ Challenged(o, p) = Whole(Current.list[n]) /\ Link(call.base, Current.list, n)
          /\ Whole(Current.list[n]).params.secrets = SecretsOf(Current.list, n)
      BY <1>1, <2>1, PassedIsLinked DEF p, Hash
    <3>2. memory'[x] = Challenged(o, p)
      BY <1>1, <2>1 DEF challenged
    <3> QED BY <3>1, <3>2
  <2>6. Progress'
    <3>1. /\ Len(verdicts) > 0 /\ Current.base = call.base /\ Current.ok = TRUE
          /\ Current.list \in [1 .. Len(call.list) -> {origins[y] : y \in 1 .. Len(origins)}]
          /\ \A k \in 1 .. Len(call.list) : Current.list[k] = origins[call.list[k]]
          /\ \A k \in 1 .. n - 1 :
               /\ memory[call.list[k]] = Whole(Current.list[k]) /\ Link(call.base, Current.list, k)
               /\ Whole(Current.list[k]).params.secrets = SecretsOf(Current.list, k)
          /\ Current.fresh => \A k \in 1 .. Len(call.list) :
                        memory[call.list[k]] \in {Current.list[k], Whole(Current.list[k])}
      BY <1>1 DEF IInv, Progress, Current
    <3>2. \A k \in 1 .. Len(call.list) : call.list[k] = x => memory'[call.list[k]] = Whole(Current.list[k])
      <4> SUFFICES ASSUME NEW k \in 1 .. Len(call.list), call.list[k] = x
                   PROVE  memory'[x] = Whole(Current.list[k])
        OBVIOUS
      <4>1. Current.list[k] = origins[x] /\ Current.list[n] = origins[x]
        BY <1>1, <3>1
      <4> QED BY <2>5, <4>1
    <3>3. \A k \in 1 .. Len(call.list) :
            call.list[k] # x => memory'[call.list[k]] = memory[call.list[k]]
      BY <1>4, CallFacts
    <3>4. ASSUME NEW k \in 1 .. n
          PROVE  /\ memory'[call.list[k]] = Whole(Current.list[k]) /\ Link(call.base, Current.list, k)
                 /\ Whole(Current.list[k]).params.secrets = SecretsOf(Current.list, k)
      <4>1. CASE k = n
        BY <2>5, <4>1
      <4>2. CASE k # n
        <5>1. k \in 1 .. n - 1 /\ k \in 1 .. Len(call.list)
          BY <1>1, <4>2, CallFacts
        <5> QED BY <3>1, <3>2, <3>3, <5>1
      <4> QED BY <4>1, <4>2
    <3>5. Current.fresh => \A k \in 1 .. Len(call.list) :
                        memory'[call.list[k]] \in {Current.list[k], Whole(Current.list[k])}
      BY <3>1, <3>2, <3>3
    <3>7. call'.base = call.base /\ call'.list = call.list /\ call'.next = n + 1
      BY <2>1
    <3>8. 1 .. n + 1 - 1 = 1 .. n
      BY <1>1, CallFacts
    <3>10. verdicts'[Len(verdicts')] = Current /\ Len(verdicts') = Len(verdicts) /\ origins' = origins
      BY <1>2, <2>1 DEF Current
    <3>11. \A k \in 1 .. call'.next - 1 :
             /\ memory'[call.list[k]] = Whole(Current.list[k])
             /\ <<IF k = 1 THEN Initial(call.base) ELSE Whole(Current.list[k - 1]),
                  Whole(Current.list[k])>> \in lineage'
             /\ Whole(Current.list[k]).params.secrets = SecretsOf(Current.list, k)
      <4>1. ASSUME NEW k \in 1 .. n
            PROVE  <<IF k = 1 THEN Initial(call.base) ELSE Whole(Current.list[k - 1]),
                     Whole(Current.list[k])>> \in lineage'
        BY <1>2, <3>4 DEF Link
      <4>2. call'.next - 1 = n
        BY <1>1, <3>7, CallFacts
      <4> HIDE DEF n
      <4> QED BY <3>4, <4>1, <4>2
    <3> HIDE DEF n
    <3> QED BY <3>1, <3>5, <3>7, <3>10, <3>11 DEF Progress, Link
  <2>7. AcceptsExactlyChains'
    <3>1. \A k \in DOMAIN verdicts' : k < Len(verdicts') \/ call' = Idle => Decided(verdicts'[k])
      BY <2>1, <2>2, DecidedFacts DEF IInv
    <3> QED BY <1>2, <3>1, DecidedFacts
  <2>8. TypeOK'
    <3>1. /\ call'.phase = call.phase /\ call'.list = call.list /\ call'.next = n + 1
          /\ n + 1 \in 1 .. Len(call.list) + 1
      BY <1>1, <2>1, CallFacts
    <3>2. Objects(call.phase)' = Objects(call.phase)
      BY <1>1, <1>4, <1>8, <3>1 DEF Objects
    <3> QED BY <1>2, <1>4, <1>5, <1>8, <1>9, <3>1, <3>2 DEF IInv, TypeOK
  <2> QED BY <1>6, <1>7, <2>3, <2>4, <2>6, <2>7, <2>8 DEF IInv
<1> QED BY <1>3, <1>10, <1>11

-----------------------------------------------------------------------------
(* Sealing.                                                                   *)

LEMMA SealKeeps ==
  ASSUME IInv, Seal
  PROVE  IInv'
<1> DEFINE n == Len(call.list)
           at == IF n = 0 THEN Len(memory) + 1 ELSE call.list[n]
           last == IF n = 0 THEN Initial(call.base) ELSE memory[at]
           result == [at |-> at, params |-> Sealed(last).params, base |-> call.base,
                      list |-> Current.list, srs |-> call.srs]
<1>1. /\ call # Idle /\ call.next = n + 1 /\ call' = Idle /\ UNCHANGED <<lineage, verdicts>>
      /\ n \in Nat /\ Len(memory) \in Nat /\ Len(origins) = Len(memory)
      /\ DOMAIN memory = 1 .. Len(memory) /\ DOMAIN origins = 1 .. Len(memory)
  <2>1. DOMAIN origins = 1 .. Len(origins)
    BY DomainAny DEF IInv, Sequences
  <2>2. call # Idle /\ call.next > n /\ call' = Idle /\ UNCHANGED <<lineage, verdicts>>
    BY DEF Seal
  <2>3. n \in Nat /\ call.next \in 1 .. n + 1
    BY CallFacts
  <2>4. call.next = n + 1
    BY <2>2, <2>3
  <2>5. Len(memory) \in Nat /\ Len(origins) = Len(memory) /\ DOMAIN memory = 1 .. Len(memory)
    BY CallFacts
  <2> QED BY <2>1, <2>2, <2>3, <2>4, <2>5
<1>2. /\ IF n = 0 THEN memory' = Append(memory, Sealed(last)) /\ origins' = Append(origins, last)
         ELSE memory' = [memory EXCEPT ![at] = Sealed(last)] /\ UNCHANGED origins
      /\ \/ commons' = Append(commons, result) /\ UNCHANGED keys
         \/ keys' = Append(keys, result) /\ UNCHANGED commons
  BY DEF Seal, Current
<1>3. /\ Len(Current.list) = n /\ IsSeq(Current.list) /\ DOMAIN Current.list = 1 .. n
      /\ Current.base = call.base /\ Current.ok = TRUE
      /\ \A k \in 1 .. n : Current.list[k] = origins[call.list[k]] /\ Original(Current.list[k])
  BY <1>1, VerdictFacts
<1>4. \A k \in 1 .. n :
        /\ memory[call.list[k]] = Whole(Current.list[k]) /\ Link(call.base, Current.list, k)
        /\ Whole(Current.list[k]).params.secrets = SecretsOf(Current.list, k)
  <2>1. n + 1 - 1 = n
    BY <1>1
  <2> QED BY <1>1, <2>1 DEF IInv, Progress, Current
<1>5. /\ Unsealed(last) /\ last = IF n = 0 THEN Initial(call.base) ELSE Whole(Current.list[n])
      /\ last.params.secrets = SecretsOf(Current.list, n)
  <2>1. CASE n = 0
    <3>1. SecretsOf(Current.list, n) = {}
      <4>1. 1 .. n = {}
        BY <2>1
      <4> QED BY <4>1 DEF SecretsOf
    <3> QED BY <2>1, <3>1, InitialFacts
  <2>2. CASE n # 0
    <3>1. n \in 1 .. n
      BY <1>1, <2>2
    <3>2. Unsealed(Whole(Current.list[n]))
      BY <1>3, <3>1, WholeFacts DEF Original, Unsealed
    <3> QED BY <1>4, <2>2, <3>1, <3>2
  <2> QED BY <2>1, <2>2
<1>6. /\ IsObject(Sealed(last)) /\ Sealed(last).params.base = last.params.base
      /\ Sealed(last).params.secrets = last.params.secrets /\ Sealed(last).params.beacons # {}
      /\ Sealed(last).proof = last.proof /\ Unsealed(last)
  BY <1>5, SealedFacts DEF Unsealed
<1>7. \A a : Original(a)' <=> Original(a)
  BY <1>1 DEF Original
\* One place of memory is sealed, or a new one is.
<1>8. /\ IsSeq(memory') /\ IsSeq(origins') /\ Len(memory') = Len(origins')
      /\ DOMAIN memory' = 1 .. Len(memory') /\ at \in 1 .. Len(memory')
      /\ 1 .. Len(memory') = (1 .. Len(memory)) \union {at}
      /\ \A y \in 1 .. Len(memory') : y # at => memory'[y] = memory[y] /\ origins'[y] = origins[y]
      /\ memory'[at] = Sealed(last)
      /\ Original(origins'[at]) /\ origins'[at].proof = last.proof
      /\ origins'[at].params.base = last.params.base
  <2>1. IsSeq(memory) /\ IsSeq(origins)
    BY DEF IInv, Sequences
  <2>2. CASE n = 0
    <3>1. memory' = Append(memory, Sealed(last)) /\ origins' = Append(origins, last) /\ at = Len(memory) + 1
      BY <1>2, <2>2
    <3>2. Original(last)
      BY <1>6, <2>2, InitialFacts DEF Original
    <3> HIDE DEF at, last
    <3>3. /\ IsSeq(memory') /\ Len(memory') = Len(memory) + 1 /\ DOMAIN memory' = 1 .. Len(memory) + 1
          /\ \A k \in 1 .. Len(memory) : memory'[k] = memory[k]
          /\ memory'[Len(memory) + 1] = Sealed(last)
      BY <2>1, <3>1, AppendAny
    <3>4. /\ IsSeq(origins') /\ Len(origins') = Len(origins) + 1
          /\ \A k \in 1 .. Len(origins) : origins'[k] = origins[k]
          /\ origins'[Len(origins) + 1] = last
      BY <2>1, <3>1, AppendAny
    <3> QED BY <1>1, <3>1, <3>2, <3>3, <3>4
  <2>3. CASE n # 0
    <3>1. n \in 1 .. n /\ at = call.list[n] /\ at \in 1 .. Len(memory)
      BY <1>1, <2>3, CallFacts
    <3>2. memory' = [memory EXCEPT ![at] = Sealed(last)] /\ UNCHANGED origins
      BY <1>2, <2>3
    <3>3. Original(origins[at]) /\ last = Whole(origins[at])
      BY <1>3, <1>5, <2>3, <3>1
    <3>4. last.proof = origins[at].proof /\ last.params = origins[at].params
      BY <3>3, WholeFacts DEF Original, Unsealed
    <3> HIDE DEF at, last
    <3>5. /\ IsSeq(memory') /\ Len(memory') = Len(memory) /\ DOMAIN memory' = 1 .. Len(memory)
          /\ \A k \in 1 .. Len(memory) : memory'[k] = IF k = at THEN Sealed(last) ELSE memory[k]
      <4> DEFINE e == Sealed(last)
      <4>1. at \in 1 .. Len(memory) /\ memory' = [memory EXCEPT ![at] = e]
        BY <3>1, <3>2
      <4> HIDE DEF e
      <4>2. LET t == [memory EXCEPT ![at] = e] IN
            /\ IsSeq(t) /\ Len(memory) \in Nat /\ Len(t) = Len(memory)
            /\ DOMAIN t = 1 .. Len(memory)
            /\ \A k \in 1 .. Len(memory) : t[k] = IF k = at THEN e ELSE memory[k]
        BY <2>1, <4>1, ReplaceAny
      <4> QED BY <4>1, <4>2 DEF e
    <3>6. 1 .. Len(memory') = (1 .. Len(memory)) \union {at} /\ at \in 1 .. Len(memory')
      BY <3>1, <3>5
    <3>7. /\ \A y \in 1 .. Len(memory') : y # at => memory'[y] = memory[y] /\ origins'[y] = origins[y]
          /\ memory'[at] = Sealed(last)
      BY <3>1, <3>2, <3>5
    <3> QED BY <1>1, <2>1, <3>2, <3>3, <3>4, <3>5, <3>6, <3>7
  <2> QED BY <2>2, <2>3
<1>9. Memory'
  <2>1. ASSUME NEW y \in 1 .. Len(memory')
        PROVE  /\ Original(origins'[y]) /\ IsObject(memory'[y])
               /\ memory'[y].proof = origins'[y].proof
               /\ memory'[y].params.base = origins'[y].params.base
               /\ memory'[y].params.beacons = {} => memory'[y].params = origins'[y].params
    <3>1. CASE y = at
      <4> HIDE DEF at, last
      <4> QED BY <1>6, <1>8, <3>1
    <3>2. CASE y # at
      <4> HIDE DEF at, last
      <4>1. y \in 1 .. Len(memory) /\ memory'[y] = memory[y] /\ origins'[y] = origins[y]
        BY <1>8, <3>2
      <4> QED BY <4>1 DEF IInv, Memory
    <3> QED BY <3>1, <3>2
  <2> QED BY <1>7, <2>1 DEF Memory
\* A result is of an object that was sealed before, and of another one.
<1>10. \A r \in Results : r.at # at
  <2>1. CASE n = 0
    BY <1>1, <2>1 DEF IInv, Sealings
  <2>2. CASE n # 0
    <3>1. last = memory[at] /\ last.params.beacons = {}
      BY <1>6, <2>2 DEF Unsealed
    <3> HIDE DEF at, last
    <3> QED BY <3>1 DEF IInv, Sealings
  <2> QED BY <2>1, <2>2
<1>11. IsSeq(commons') /\ IsSeq(keys') /\ Results' \subseteq Results \union {result}
  <2> HIDE DEF result
  <2>1. IsSeq(commons) /\ IsSeq(keys)
    BY DEF IInv, Sequences
  <2>2. /\ IsSeq(Append(commons, result)) /\ DOMAIN commons = 1 .. Len(commons)
        /\ DOMAIN Append(commons, result) = 1 .. Len(commons) + 1
        /\ \A k \in 1 .. Len(commons) : Append(commons, result)[k] = commons[k]
        /\ Append(commons, result)[Len(commons) + 1] = result /\ Len(commons) \in Nat
    BY <2>1, AppendAny
  <2>3. /\ IsSeq(Append(keys, result)) /\ DOMAIN keys = 1 .. Len(keys)
        /\ DOMAIN Append(keys, result) = 1 .. Len(keys) + 1
        /\ \A k \in 1 .. Len(keys) : Append(keys, result)[k] = keys[k]
        /\ Append(keys, result)[Len(keys) + 1] = result /\ Len(keys) \in Nat
    BY <2>1, AppendAny
  <2>4. \A k \in 1 .. Len(commons) + 1 : k \in 1 .. Len(commons) \/ k = Len(commons) + 1
    BY <2>2
  <2>5. \A k \in 1 .. Len(keys) + 1 : k \in 1 .. Len(keys) \/ k = Len(keys) + 1
    BY <2>3
  <2>6. CASE commons' = Append(commons, result) /\ UNCHANGED keys
    BY <2>1, <2>2, <2>4, <2>6 DEF Results
  <2>7. CASE keys' = Append(keys, result) /\ UNCHANGED commons
    BY <2>1, <2>3, <2>5, <2>7 DEF Results
  <2> QED BY <1>2, <2>6, <2>7 DEF result
<1>12. Sealings'
  <2>1. ASSUME NEW r \in Results
        PROVE  r.at \in 1 .. Len(memory') /\ memory'[r.at].params = r.params
    <3> HIDE DEF at, last
    <3>1. r.at \in 1 .. Len(memory) /\ r.at # at /\ memory[r.at].params = r.params
      BY <1>10 DEF IInv, Sealings
    <3> QED BY <1>8, <3>1
  <2>2. /\ result.at \in 1 .. Len(memory') /\ memory'[result.at].params = result.params
        /\ IsSeq(result.list) /\ result.params = Final(result.base, result.list)
        /\ result.params.secrets = SecretsOf(result.list, Len(result.list))
        /\ result.params.beacons # {}
    <3>1. /\ result.at = at /\ result.params = Sealed(last).params /\ result.list = Current.list
          /\ result.base = call.base
      OBVIOUS
    <3> HIDE DEF at, last, result
    <3>2. Final(call.base, Current.list) = Sealed(last).params
      BY <1>3, <1>5 DEF Final
    <3>3. Sealed(last).params.secrets = SecretsOf(Current.list, Len(Current.list))
      BY <1>3, <1>5, <1>6
    <3> QED BY <1>3, <1>6, <1>8, <3>1, <3>2, <3>3
  <2> HIDE DEF result
  <2> QED BY <1>11, <2>1, <2>2 DEF IInv, Sealings
<1>13. Lineage' /\ Verdicts' /\ Sequences'
  BY <1>1, <1>7, <1>8, <1>11 DEF IInv, Lineage, Verdicts, Sequences
<1>14. Call' /\ Progress'
  <2>1. \A k : k \notin 1 .. 0
    OBVIOUS
  <2>2. <<>> \in Seq(Nat) /\ Len(<<>>) = 0
    OBVIOUS
  <2> QED BY <1>1, <2>1, <2>2 DEF Call, Progress, Idle
<1>15. AcceptsExactlyChains'
  <2>1. IsChain(Current.base, Current.list)
    BY <1>3, <1>4 DEF IsChain, Link
  <2>2. Decided(Current)
    BY <1>3, <2>1 DEF Decided
  <2>3. \A k \in DOMAIN verdicts : k < Len(verdicts) => Decided(verdicts[k])
    BY DecidedFacts DEF IInv
  <2>4. DOMAIN verdicts = 1 .. Len(verdicts) /\ Len(verdicts) \in Nat
    BY <1>1, VerdictFacts
  <2>5. \A k \in DOMAIN verdicts : Decided(verdicts[k])
    BY <2>2, <2>3, <2>4 DEF Current
  <2> QED BY <1>1, <2>5, DecidedFacts
<1>16. TypeOK'
  <2>1. \A y \in DOMAIN memory' : Phase(memory'[y]) = Phase(origins'[y])
    BY <1>8, <1>9, BaseKeepsPhase DEF Memory
  <2>2. \A r \in Results' : r.at \in DOMAIN memory'
    BY <1>8, <1>12 DEF Sealings
  <2> HIDE DEF n, at, last, result
  <2> QED BY <1>1, <1>8, <2>1, <2>2 DEF IInv, TypeOK, Idle
<1> QED BY <1>9, <1>12, <1>13, <1>14, <1>15, <1>16 DEF IInv

-----------------------------------------------------------------------------
(* The theorems.                                                              *)

LEMMA NextIInv == IInv /\ [Next]_vars => IInv'
<1> SUFFICES ASSUME IInv, [Next]_vars PROVE IInv'
  OBVIOUS
<1>1. ASSUME NEW o \in Empty \union Published, Contribute(o) PROVE IInv'
  BY <1>1, ContributeKeeps
<1>2. ASSUME NEW o \in Published, Read(o) PROVE IInv'
  BY <1>2, ReadKeeps
<1>3. ASSUME NEW N, VerifyPhase1(N) PROVE IInv'
  <2>1. PICK list \in Lists(1) : Begin(1, Base(N, {}), list, 0)
    BY <1>3 DEF VerifyPhase1
  <2> QED BY <2>1, BeginKeeps
<1>4. ASSUME NEW r, VerifyPhase2(r) PROVE IInv'
  <2>1. PICK list \in Lists(2) : Begin(2, BaseOn(commons[r]), list, r)
    BY <1>4 DEF VerifyPhase2
  <2> QED BY <2>1, BeginKeeps
<1>5. CASE UNCHANGED vars
  <2>1. UNCHANGED <<lineage, memory, origins, call, verdicts, commons, keys>>
    BY <1>5 DEF vars
  <2>2. Results' = Results
    BY <2>1 DEF Results
  <2>3. TypeOK' /\ Lineage' /\ Sequences'
    BY <2>1, <2>2 DEF IInv, TypeOK, Objects, Lineage, Sequences
  <2>4. Memory' /\ Verdicts'
    <3>1. \A a : Original(a)' <=> Original(a)
      BY <2>1 DEF Original
    <3> QED BY <2>1, <3>1 DEF IInv, Memory, Verdicts
  <2>5. Call' /\ Progress'
    BY <2>1 DEF IInv, Call, Progress, Link, Idle
  <2>6. AcceptsExactlyChains' /\ Sealings'
    BY <2>1, <2>2 DEF IInv, AcceptsExactlyChains, IsChain, Sealings, Idle
  <2> QED BY <2>3, <2>4, <2>5, <2>6 DEF IInv
<1> QED BY <1>1, <1>2, <1>3, <1>4, <1>5, VerifyKeeps, SealKeeps DEF Next

LEMMA Invariance == Spec => []IInv
<1> QED BY InitIInv, NextIInv, PTL DEF Spec

\* Objects keep their place and phase, and calls stay in their lists (TypeOK).
THEOREM TypeCorrect == Spec => []TypeOK
<1>1. IInv => TypeOK
  BY DEF IInv
<1> QED BY <1>1, Invariance, PTL

\* VerifyPhase1 and VerifyPhase2 accept chains, and all chains of untouched objects.
THEOREM OnlyChains == Spec => []AcceptsExactlyChains
BY IInvImplies, Invariance, PTL

\* A result has the secrets of the contributions in its list, and no other.
THEOREM AllContribute == Spec => []EveryContributionCounts
BY IInvImplies, Invariance, PTL

\* Later calls leave a result as it is, although it shares memory with an object.
THEOREM Keep == Spec => []ResultsKeep
BY IInvImplies, Invariance, PTL

\* Results depend on the contributions alone.
THEOREM Rerun == Spec => []Reproducible
BY IInvImplies, Invariance, PTL
=============================================================================

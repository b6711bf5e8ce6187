-------------------------- MODULE Groth16ProverProofs --------------------------
(* The Groth16 prover for any number of commitments and whatever fails: a proof   *)
(* that is returned is complete, what a goroutine reads was computed, no send     *)
(* has to wait, and on one worker a commitment's challenge is its own.            *)
EXTENDS Groth16Prover, SequenceTheorems, TLAPS

Filters == {"h", "wireA", "wireB"}
Summands == {"krs2", "ar", "bs1"}
Parts == Summands \union {"krs"}

-----------------------------------------------------------------------------
(* The inductive invariant.                                                   *)

AllHashed == \A c \in Commitments : hint[c] = "done"

\* A hint fails if and only if its call does.
HintsFail ==
  \A c \in Commitments :
    /\ hint[c] = "failed" => <<"hint", c>> \in faults
    /\ hint[c] \in {"written", "summed", "done"} => <<"hint", c>> \notin faults

\* What Prove has behind it when it is somewhere, and what a goroutine's existence says.
Phases ==
  /\ main \notin {"solve", "returned"} => AllHashed /\ ~Fails("solve") /\ ~Fails("pok")
  /\ main = "solve" => \A g \in Filters : go[g] = "none"
  /\ main \in {"solve", "random", "waitH"} => \A g \in Parts : go[g] = "none"
  /\ main \in {"waitH", "bs2", "waitKrs"} => ~Fails("random")
  /\ main = "waitKrs" => ~Fails("bs2") /\ "Bs" \in proof
  /\ \A g \in Goroutines : go[g] # "none" => AllHashed /\ ~Fails("pok")
  /\ \A g \in Parts : go[g] # "none" => ~Fails("random") /\ go["h"] = "ended"

FiltersDone ==
  \A g \in Filters : /\ go[g] \in {"none", "running", "ended"}
                     /\ g \in computed <=> go[g] = "ended"

\* The life of a summand: computed, sent once, received once, added.
SummandDone(p) ==
  /\ go[p] \in {"none", "running", "sending", "ended"}
  /\ go[p] \in {"sending", "ended"} /\ ~Fails(p) => p \in computed
  /\ ch[p] # <<>> => go[p] = "ended" /\ added[p] = 0 /\ ch[p] = <<Outcome(p)>>
  /\ added[p] = 1 => go[p] = "ended" /\ ~Fails(p)

SummandsDone ==
  /\ \A p \in Summands : SummandDone(p)
  /\ go["ar"] \in {"sending", "ended"} =>
       "wireA" \in computed /\ (~Fails("ar") => "Ar" \in proof)
  /\ go["bs1"] \in {"sending", "ended"} => "wireB" \in computed

\* The life of Krs.
KrsDone ==
  /\ n + added["krs2"] + added["ar"] + added["bs1"] = 3
  /\ go["krs"] \in {"none", "running"} => go["krs2"] = "none"
  /\ go["krs"] \in {"select", "sendNil"} => ~Fails("krs")
  /\ go["krs"] = "sendNil" => n = 0 /\ "Krs" \in proof
  /\ go["krs"] = "sendErr" => faults # {}
  /\ go["krs"] # "sending"
  /\ ch["krs"] # <<>> =>
       /\ go["krs"] = "ended"
       /\ \/ ch["krs"] = <<"err">> /\ faults # {}
          \/ ch["krs"] = <<"nil">> /\ n = 0 /\ "Krs" \in proof /\ ~Fails("krs")

Returns == (result = "none" <=> main # "returned") /\ ProofIsComplete

IInv == /\ TypeOK /\ HintsFail /\ Phases /\ FiltersDone /\ SummandsDone /\ KrsDone
        /\ Returns

-----------------------------------------------------------------------------
LEMMA InitIInv == Init => IInv
<1> SUFFICES ASSUME Init PROVE IInv OBVIOUS
<1>1. TypeOK
  <2>1. <<>> \in Seq(Commitments) /\ <<>> \in Seq({"err", "nil"}) BY EmptySeq
  <2>2. QED BY <2>1 DEF Init, TypeOK
<1>2. HintsFail /\ Phases
  BY DEF Init, HintsFail, Phases, Filters, Parts, Summands, Goroutines
<1>3. FiltersDone BY DEF Init, FiltersDone, Filters, Goroutines
<1>4. SummandsDone /\ KrsDone
  BY DEF Init, SummandsDone, SummandDone, KrsDone, Summands, Goroutines, Channels
<1>5. Returns BY DEF Init, Returns, ProofIsComplete
<1>6. QED BY <1>1, <1>2, <1>3, <1>4, <1>5 DEF IInv

\* The hints change nothing that the rest looks at but their own progress.
LEMMA HintKeeps ==
  ASSUME IInv, NEW c \in Commitments, Hint(c)
  PROVE  IInv'
<1>1. UNCHANGED <<faults, main, go, computed, added, n, ch, proof, result>>
  BY DEF Hint, HintWrite, HintSum, HintReset, goVars
<1>2. TypeOK'
  <2>1. CASE HintWrite(c)
    <3>1. Append(hash, c) \in Seq(Commitments) BY DEF IInv, TypeOK
    <3>2. QED BY <1>1, <2>1, <3>1 DEF HintWrite, IInv, TypeOK
  <2>2. CASE HintSum(c) BY <1>1, <2>2 DEF HintSum, IInv, TypeOK
  <2>3. CASE HintReset(c)
    <3>1. <<>> \in Seq(Commitments) BY EmptySeq
    <3>2. QED BY <1>1, <2>3, <3>1 DEF HintReset, ResetHash, IInv, TypeOK
  <2>4. QED BY <2>1, <2>2, <2>3 DEF Hint
<1>3. HintsFail'
  BY <1>1 DEF Hint, HintWrite, HintSum, HintReset, IInv, TypeOK, HintsFail
<1>4. AllHashed => AllHashed'
  BY DEF AllHashed, Hint, HintWrite, HintSum, HintReset, IInv, TypeOK
<1>5. Phases' BY <1>1, <1>4 DEF IInv, Phases, Fails
<1>6. FiltersDone' /\ SummandsDone' /\ KrsDone'
  BY <1>1 DEF IInv, FiltersDone, SummandsDone, SummandDone, KrsDone, Fails, Outcome
<1>7. Returns' BY <1>1 DEF IInv, Returns, ProofIsComplete
<1>8. QED BY <1>2, <1>3, <1>5, <1>6, <1>7 DEF IInv

LEMMA SolveFailsKeeps ==
  ASSUME IInv, SolveFails
  PROVE  IInv'
<1> USE DEF SolveFails, hintVars, goVars
<1>1. TypeOK' /\ HintsFail' BY DEF IInv, TypeOK, HintsFail
<1>2. Phases' BY DEF IInv, Phases, Fails, AllHashed
<1>3. FiltersDone' /\ SummandsDone' /\ KrsDone'
  BY DEF IInv, FiltersDone, SummandsDone, SummandDone, KrsDone, Fails, Outcome
<1>4. faults # {} BY DEF IInv, HintsFail, Fails
<1>5. Returns' BY <1>4 DEF IInv, Returns, ProofIsComplete
<1>6. QED BY <1>1, <1>2, <1>3, <1>5 DEF IInv

LEMMA StartFirstKeeps ==
  ASSUME IInv, StartFirst
  PROVE  IInv'
<1> USE DEF StartFirst, hintVars, Filters, Summands, Parts
<1>1. TypeOK' /\ HintsFail' BY DEF IInv, TypeOK, HintsFail, Spawned, Goroutines
<1>2. \A g \in Parts : go'[g] = go[g]
  BY DEF Spawned, Goroutines
<1>3. \A g \in Filters : go'[g] \in {go[g], "running"} /\ go[g] = "none"
  BY DEF IInv, Phases, Spawned, Goroutines
<1>4. Phases'
  BY <1>2, <1>3 DEF IInv, TypeOK, Phases, Fails, AllHashed, Goroutines, Spawned
<1>5. FiltersDone' BY <1>3 DEF IInv, FiltersDone
<1>6. SummandsDone' /\ KrsDone'
  BY <1>2 DEF IInv, SummandsDone, SummandDone, KrsDone, Fails, Outcome
<1>7. Returns' BY DEF IInv, Returns, ProofIsComplete, Fails
<1>8. QED BY <1>1, <1>4, <1>5, <1>6, <1>7 DEF IInv

LEMMA SampleRandomKeeps ==
  ASSUME IInv, SampleRandom
  PROVE  IInv'
<1> USE DEF SampleRandom, hintVars, goVars
<1>1. TypeOK' /\ HintsFail' BY DEF IInv, TypeOK, HintsFail
<1>2. Phases' BY DEF IInv, Phases, Fails, AllHashed
<1>3. FiltersDone' /\ SummandsDone' /\ KrsDone'
  BY DEF IInv, FiltersDone, SummandsDone, SummandDone, KrsDone, Fails, Outcome
<1>4. Returns' BY DEF IInv, Returns, ProofIsComplete, Fails
<1>5. QED BY <1>1, <1>2, <1>3, <1>4 DEF IInv

LEMMA StartPartsKeeps ==
  ASSUME IInv, StartParts
  PROVE  IInv'
<1> USE DEF StartParts, hintVars, Filters, Summands, Parts
<1>1. TypeOK' /\ HintsFail' BY DEF IInv, TypeOK, HintsFail, Spawned, Goroutines
<1>2. /\ \A g \in Filters \union {"krs2"} : go'[g] = go[g]
      /\ \A g \in Parts : go[g] = "none"
      /\ \A g \in {"krs", "ar", "bs1"} : go'[g] = "running"
  BY DEF IInv, Phases, Spawned, Goroutines
<1>3. Phases'
  BY <1>2 DEF IInv, TypeOK, Phases, Fails, AllHashed, Goroutines, HDone
<1>4. FiltersDone' BY <1>2 DEF IInv, FiltersDone
<1>5. SummandsDone' /\ KrsDone'
  BY <1>2 DEF IInv, SummandsDone, SummandDone, KrsDone, Fails, Outcome
<1>6. Returns' BY DEF IInv, Returns, ProofIsComplete
<1>7. QED BY <1>1, <1>3, <1>4, <1>5, <1>6 DEF IInv

LEMMA ComputeBS2Keeps ==
  ASSUME IInv, ComputeBS2
  PROVE  IInv'
<1> USE DEF ComputeBS2, hintVars, goVars
<1>1. TypeOK' /\ HintsFail' BY DEF IInv, TypeOK, HintsFail
<1>2. Phases' BY DEF IInv, Phases, Fails, AllHashed
<1>3. FiltersDone' /\ SummandsDone' /\ KrsDone'
  BY DEF IInv, FiltersDone, SummandsDone, SummandDone, KrsDone, Fails, Outcome
<1>4. Returns' BY DEF IInv, Returns, ProofIsComplete, Fails
<1>5. QED BY <1>1, <1>2, <1>3, <1>4 DEF IInv

LEMMA ReceiveKrsKeeps ==
  ASSUME IInv, ReceiveKrs
  PROVE  IInv'
<1> USE DEF ReceiveKrs, hintVars
<1>1. /\ \A p \in Summands : ch'[p] = ch[p]
      /\ ch["krs"] # <<>> /\ ch'["krs"] = Tail(ch["krs"])
      /\ ch' \in [Channels -> Seq({"err", "nil"})] /\ Head(ch["krs"]) \in {"err", "nil"}
  <2>1. ch["krs"] \in Seq({"err", "nil"}) BY DEF IInv, TypeOK, Channels
  <2>2. Tail(ch["krs"]) \in Seq({"err", "nil"}) /\ Head(ch["krs"]) \in {"err", "nil"}
    BY <2>1, HeadTailProperties
  <2>3. QED BY <2>2 DEF IInv, TypeOK, Channels, Summands
<1>2. ch["krs"] \in {<<"err">>, <<"nil">>} BY DEF IInv, KrsDone
<1>3. ch'["krs"] = <<>>
  BY <1>1, <1>2
<1>4. TypeOK' /\ HintsFail' BY <1>1 DEF IInv, TypeOK, HintsFail
<1>5. Phases' BY DEF IInv, Phases, Fails, AllHashed
<1>6. FiltersDone' BY DEF IInv, FiltersDone
<1>7. SummandsDone' BY <1>1 DEF IInv, SummandsDone, SummandDone, Fails, Outcome
<1>8. KrsDone' BY <1>3 DEF IInv, KrsDone, Fails
<1>9. Returns'
  <2>1. CASE ch["krs"] = <<"err">>
    BY <2>1 DEF IInv, KrsDone, Returns, ProofIsComplete
  <2>2. CASE ch["krs"] = <<"nil">>
    <3>1. /\ n = 0 /\ ~Fails("krs") /\ "Krs" \in proof /\ go["krs"] = "ended"
          /\ "Bs" \in proof /\ ~Fails("bs2") /\ ~Fails("random") /\ ~Fails("pok")
          /\ ~Fails("solve")
          /\ AllHashed /\ go["h"] = "ended"
      BY <2>2 DEF IInv, KrsDone, Phases, Parts
    <3>2. \A p \in Summands : added[p] = 1
      BY <3>1 DEF IInv, TypeOK, KrsDone, Summands
    <3>3. \A p \in Summands : go[p] = "ended" /\ ~Fails(p)
      BY <3>2 DEF IInv, SummandsDone, SummandDone
    <3>4. "Ar" \in proof /\ "wireA" \in computed /\ "wireB" \in computed
      BY <3>3 DEF IInv, SummandsDone, SummandDone, Summands
    <3>5. go["wireA"] = "ended" /\ go["wireB"] = "ended"
      BY <3>4 DEF IInv, FiltersDone, Filters
    <3>6. faults = {}
      <4>1. \A c \in Commitments : <<"hint", c>> \notin faults
        BY <3>1 DEF IInv, HintsFail, AllHashed
      <4>2. \A k \in Calls : <<k, 0>> \notin faults
        BY <3>1, <3>3 DEF Calls, Summands, Fails
      <4>3. ASSUME NEW f \in faults PROVE FALSE
        <5>1. f \in {"hint"} \X Commitments \/ f \in Calls \X {0}
          BY DEF IInv, TypeOK, Faults
        <5>2. CASE f \in {"hint"} \X Commitments
          <6>1. PICK c \in Commitments : f = <<"hint", c>> BY <5>2
          <6>2. QED BY <4>1, <6>1
        <5>3. CASE f \in Calls \X {0}
          <6>1. PICK k \in Calls : f = <<k, 0>> BY <5>3
          <6>2. QED BY <4>2, <6>1
        <5>4. QED BY <5>1, <5>2, <5>3
      <4>4. QED BY <4>3
    <3>7. proof = {"Ar", "Bs", "Krs"} BY <3>1, <3>4 DEF IInv, TypeOK
    <3>8. \A g \in Goroutines : go[g] = "ended"
      BY <3>1, <3>3, <3>5 DEF Goroutines, Summands
    <3>9. DOMAIN added = Summands BY DEF IInv, TypeOK, Summands
    <3>10. result' = "nil" BY <2>2
    <3>11. QED BY <3>2, <3>6, <3>7, <3>8, <3>9, <3>10 DEF Returns, ProofIsComplete
  <2>3. QED BY <1>2, <2>1, <2>2
<1>10. QED BY <1>4, <1>5, <1>6, <1>7, <1>8, <1>9 DEF IInv

-----------------------------------------------------------------------------
(* The goroutines.                                                            *)

\* A goroutine that runs finds Prove without the proof.
LEMMA NotComplete ==
  ASSUME IInv, NEW g \in Goroutines, go[g] # "ended"
  PROVE  result # "nil"
BY DEF IInv, Returns, ProofIsComplete

LEMMA ComputeFirstKeeps ==
  ASSUME IInv, NEW g \in Goroutines, ComputeFirst(g)
  PROVE  IInv'
<1> USE DEF ComputeFirst, hintVars, Filters, Parts, Summands
<1>1. TypeOK' /\ HintsFail' BY DEF IInv, TypeOK, HintsFail
<1>2. /\ \A f \in Goroutines : f # g => go'[f] = go[f]
      /\ go'[g] = "ended" /\ go[g] = "running" /\ g \in Filters
  BY DEF IInv, TypeOK
<1>3. Phases' BY <1>2 DEF IInv, Phases, Fails, AllHashed, Goroutines
<1>4. FiltersDone' BY <1>2 DEF IInv, FiltersDone, Goroutines
<1>5. SummandsDone' BY <1>2 DEF IInv, SummandsDone, SummandDone, Fails, Outcome, Goroutines
<1>6. KrsDone' BY <1>2 DEF IInv, KrsDone, Fails, Goroutines
<1>7. Returns' BY <1>2, NotComplete DEF IInv, Returns, ProofIsComplete
<1>8. QED BY <1>1, <1>3, <1>4, <1>5, <1>6, <1>7 DEF IInv

LEMMA ComputePartKeeps ==
  ASSUME IInv, NEW g \in Goroutines, ComputePart(g)
  PROVE  IInv'
<1> USE DEF ComputePart, hintVars, Filters, Parts, Summands
<1>1. TypeOK' /\ HintsFail' BY DEF IInv, TypeOK, HintsFail
<1>2. /\ \A f \in Goroutines : f # g => go'[f] = go[f]
      /\ go'[g] = "sending" /\ go[g] = "running" /\ g \in {"ar", "bs1"}
  BY DEF IInv, TypeOK
<1>3. Phases' BY <1>2 DEF IInv, Phases, Fails, AllHashed, Goroutines
<1>4. FiltersDone' BY <1>2 DEF IInv, FiltersDone, Goroutines
<1>5. SummandsDone'
  BY <1>2 DEF IInv, SummandsDone, SummandDone, Fails, Outcome, Goroutines, Filtered
<1>6. KrsDone' BY <1>2 DEF IInv, KrsDone, Fails, Goroutines
<1>7. Returns' BY <1>2, NotComplete DEF IInv, Returns, ProofIsComplete
<1>8. QED BY <1>1, <1>3, <1>4, <1>5, <1>6, <1>7 DEF IInv

LEMMA ComputeKrs2Keeps ==
  ASSUME IInv, ComputeKrs2
  PROVE  IInv'
<1> USE DEF ComputeKrs2, hintVars, Filters, Parts, Summands
<1>1. TypeOK' /\ HintsFail' BY DEF IInv, TypeOK, HintsFail
<1>2. /\ \A f \in Goroutines : f # "krs2" => go'[f] = go[f]
      /\ go'["krs2"] = "sending" /\ go["krs2"] = "running" /\ "krs2" \in Goroutines
  BY DEF IInv, TypeOK, Goroutines
<1>3. Phases' BY <1>2 DEF IInv, Phases, Fails, AllHashed, Goroutines
<1>4. FiltersDone' BY <1>2 DEF IInv, FiltersDone, Goroutines
<1>5. SummandsDone' BY <1>2 DEF IInv, SummandsDone, SummandDone, Fails, Outcome, Goroutines
<1>6. KrsDone' BY <1>2 DEF IInv, KrsDone, Fails, Goroutines
<1>7. Returns' BY <1>2, NotComplete DEF IInv, Returns, ProofIsComplete
<1>8. QED BY <1>1, <1>3, <1>4, <1>5, <1>6, <1>7 DEF IInv

\* A summand goes to an empty channel.
LEMMA SendPartKeeps ==
  ASSUME IInv, NEW g \in Goroutines, SendPart(g)
  PROVE  IInv'
<1> USE DEF SendPart, hintVars, Filters, Parts, Summands
<1>1. /\ \A f \in Goroutines : f # g => go'[f] = go[f]
      /\ go'[g] = "ended" /\ go[g] = "sending" /\ g \in Summands
  BY DEF IInv, TypeOK
<1>2. ch[g] = <<>> BY <1>1 DEF IInv, SummandsDone, SummandDone
<1>3. Outcome(g) \in {"err", "nil"} BY DEF Outcome
<1>4. /\ \A p \in Channels : p # g => ch'[p] = ch[p]
      /\ ch'[g] = <<Outcome(g)>> /\ ch' \in [Channels -> Seq({"err", "nil"})]
  <2>1. Append(ch[g], Outcome(g)) = <<Outcome(g)>> BY <1>2
  <2>2. <<Outcome(g)>> \in Seq({"err", "nil"}) BY <1>3
  <2>3. QED BY <2>1, <2>2 DEF IInv, TypeOK, Channels
<1>5. TypeOK' /\ HintsFail' BY <1>4 DEF IInv, TypeOK, HintsFail
<1>6. Phases' BY <1>1 DEF IInv, Phases, Fails, AllHashed, Goroutines
<1>7. FiltersDone' BY <1>1 DEF IInv, FiltersDone, Goroutines
<1>8. added[g] = 0 BY <1>1 DEF IInv, TypeOK, SummandsDone, SummandDone
<1>9. SummandsDone'
  <2>1. SummandDone(g)'
    BY <1>1, <1>4, <1>8 DEF IInv, SummandsDone, SummandDone, Fails, Outcome
  <2>2. ASSUME NEW p \in Summands, p # g PROVE SummandDone(p)'
    <3>1. go'[p] = go[p] /\ ch'[p] = ch[p]
      BY <1>1, <1>4, <2>2 DEF Goroutines, Channels
    <3>2. SummandDone(p) BY DEF IInv, SummandsDone
    <3>3. QED BY <3>1, <3>2 DEF SummandDone, Fails, Outcome
  <2>3. /\ go'["ar"] \in {"sending", "ended"} => go["ar"] \in {"sending", "ended"}
        /\ go'["bs1"] \in {"sending", "ended"} => go["bs1"] \in {"sending", "ended"}
    BY <1>1 DEF Goroutines
  <2>4. QED BY <2>1, <2>2, <2>3 DEF IInv, SummandsDone, Fails
<1>10. KrsDone'
  BY <1>1, <1>4 DEF IInv, KrsDone, Fails, Goroutines, Channels
<1>11. Returns' BY <1>1, NotComplete DEF IInv, Returns, ProofIsComplete
<1>12. QED BY <1>5, <1>6, <1>7, <1>9, <1>10, <1>11 DEF IInv

LEMMA StartKrsKeeps ==
  ASSUME IInv, StartKrs
  PROVE  IInv'
<1> USE DEF StartKrs, hintVars, Filters, Parts, Summands
<1>1. TypeOK' /\ HintsFail' BY DEF IInv, TypeOK, HintsFail, Goroutines
<1>2. /\ \A f \in Goroutines \ {"krs", "krs2"} : go'[f] = go[f]
      /\ go'["krs2"] = "running" /\ go["krs2"] = "none"
      /\ go'["krs"] = IF Fails("krs") THEN "sendErr" ELSE "select"
      /\ go["krs"] = "running" /\ "krs" \in Goroutines
  BY DEF IInv, TypeOK, Goroutines
<1>3. Phases' BY <1>2 DEF IInv, Phases, Fails, AllHashed, Goroutines
<1>4. FiltersDone' BY <1>2 DEF IInv, FiltersDone, Goroutines
<1>5. SummandsDone'
  <2>1. \A f \in {"ar", "bs1"} : go'[f] = go[f] BY <1>2 DEF Goroutines
  <2>2. SummandDone("ar")' /\ SummandDone("bs1")'
    BY <2>1 DEF IInv, SummandsDone, SummandDone, Fails, Outcome
  <2>3. SummandDone("krs2")'
    BY <1>2 DEF IInv, SummandsDone, SummandDone, Fails, Outcome
  <2>4. QED BY <2>1, <2>2, <2>3 DEF IInv, SummandsDone, Fails
<1>6. KrsDone' BY <1>2 DEF IInv, KrsDone, Fails, Goroutines
<1>7. Returns' BY <1>2, NotComplete DEF IInv, Returns, ProofIsComplete
<1>8. QED BY <1>1, <1>3, <1>4, <1>5, <1>6, <1>7 DEF IInv

LEMMA SelectKeeps ==
  ASSUME IInv, NEW p \in Channels, Select(p)
  PROVE  IInv'
<1> USE DEF Select, hintVars, Filters, Parts, Summands
<1>1. /\ p \in Summands /\ go["krs"] = "select" /\ n # 0 /\ ch[p] = <<Outcome(p)>>
      /\ go[p] = "ended" /\ added[p] = 0 /\ "krs" \in Goroutines
  BY DEF IInv, SummandsDone, SummandDone, Goroutines
<1>2. /\ \A q \in Channels : q # p => ch'[q] = ch[q]
      /\ ch'[p] = <<>> /\ ch' \in [Channels -> Seq({"err", "nil"})]
  <2>1. Tail(ch[p]) = <<>> BY <1>1
  <2>2. <<>> \in Seq({"err", "nil"}) BY EmptySeq
  <2>3. QED BY <2>1, <2>2 DEF IInv, TypeOK
<1>3. Head(ch[p]) = Outcome(p) BY <1>1
<1>4. CASE Fails(p)
  <2>1. /\ \A f \in Goroutines \ {"krs"} : go'[f] = go[f]
        /\ go'["krs"] = "sendErr" /\ UNCHANGED <<added, n>>
    BY <1>1, <1>3, <1>4 DEF IInv, TypeOK, Outcome
  <2>2. TypeOK' /\ HintsFail'
    <3>1. go' \in [Goroutines -> {"none", "running", "sending", "select", "sendErr",
                                  "sendNil", "ended"}]
      BY <1>3, <1>4 DEF IInv, TypeOK, Outcome
    <3>2. QED BY <1>2, <2>1, <3>1 DEF IInv, TypeOK, HintsFail
  <2>3. Phases' BY <1>1, <2>1 DEF IInv, Phases, Fails, AllHashed, Goroutines
  <2>4. FiltersDone' BY <2>1 DEF IInv, FiltersDone, Goroutines
  <2>5. SummandsDone'
    BY <1>2, <2>1 DEF IInv, SummandsDone, SummandDone, Fails, Outcome, Goroutines, Channels
  <2>6. KrsDone'
    BY <1>1, <1>2, <1>4, <2>1 DEF IInv, KrsDone, Fails, Goroutines, Channels
  <2>7. Returns' BY <1>1, NotComplete DEF IInv, Returns, ProofIsComplete
  <2>8. QED BY <2>2, <2>3, <2>4, <2>5, <2>6, <2>7 DEF IInv
<1>5. CASE ~Fails(p)
  <2>1. /\ UNCHANGED go /\ n' = n - 1 /\ added'[p] = 1
        /\ \A q \in Summands : q # p => added'[q] = added[q]
        /\ added' \in [{"krs2", "ar", "bs1"} -> 0 .. 1] /\ n' \in 0 .. 3
    BY <1>1, <1>3, <1>5 DEF IInv, TypeOK, Outcome
  <2>2. TypeOK' /\ HintsFail' BY <1>2, <2>1 DEF IInv, TypeOK, HintsFail
  <2>3. Phases' BY <2>1 DEF IInv, Phases, Fails, AllHashed
  <2>4. FiltersDone' BY <2>1 DEF IInv, FiltersDone
  <2>5. SummandsDone'
    <3>1. SummandDone(p)'
      BY <1>1, <1>2, <1>5, <2>1 DEF IInv, SummandsDone, SummandDone, Fails, Outcome
    <3>2. ASSUME NEW q \in Summands, q # p PROVE SummandDone(q)'
      <4>1. ch'[q] = ch[q] /\ added'[q] = added[q] BY <1>2, <2>1, <3>2 DEF Channels
      <4>2. SummandDone(q) BY DEF IInv, SummandsDone
      <4>3. QED BY <2>1, <4>1, <4>2 DEF SummandDone, Fails, Outcome
    <3>3. QED BY <2>1, <3>1, <3>2 DEF IInv, SummandsDone, Fails
  <2>6. n' + added'["krs2"] + added'["ar"] + added'["bs1"] = 3
    <3>1. n \in Nat /\ \A q \in Summands : added[q] \in Nat BY DEF IInv, TypeOK
    <3>2. n + added["krs2"] + added["ar"] + added["bs1"] = 3 BY DEF IInv, KrsDone
    <3>3. CASE p = "krs2" BY <1>1, <2>1, <3>1, <3>2, <3>3
    <3>4. CASE p = "ar" BY <1>1, <2>1, <3>1, <3>2, <3>4
    <3>5. CASE p = "bs1" BY <1>1, <2>1, <3>1, <3>2, <3>5
    <3>6. QED BY <1>1, <3>3, <3>4, <3>5
  <2>7. KrsDone'
    BY <1>1, <1>2, <2>1, <2>6 DEF IInv, KrsDone, Fails, Channels
  <2>8. Returns' BY <1>1, NotComplete DEF IInv, Returns, ProofIsComplete
  <2>9. QED BY <2>2, <2>3, <2>4, <2>5, <2>7, <2>8 DEF IInv
<1>6. QED BY <1>4, <1>5

LEMMA FinishKrsKeeps ==
  ASSUME IInv, FinishKrs
  PROVE  IInv'
<1> USE DEF FinishKrs, hintVars, Filters, Parts, Summands
<1>1. TypeOK' /\ HintsFail' BY DEF IInv, TypeOK, HintsFail
<1>2. /\ \A f \in Goroutines \ {"krs"} : go'[f] = go[f]
      /\ go'["krs"] = "sendNil" /\ go["krs"] = "select" /\ "krs" \in Goroutines
  BY DEF IInv, TypeOK, Goroutines
<1>3. Phases' BY <1>2 DEF IInv, Phases, Fails, AllHashed, Goroutines
<1>4. FiltersDone' BY <1>2 DEF IInv, FiltersDone, Goroutines
<1>5. SummandsDone' BY <1>2 DEF IInv, SummandsDone, SummandDone, Fails, Outcome, Goroutines
<1>6. KrsDone' BY <1>2 DEF IInv, KrsDone, Fails, Goroutines, AllAdded
<1>7. Returns' BY <1>2, NotComplete DEF IInv, Returns, ProofIsComplete
<1>8. QED BY <1>1, <1>3, <1>4, <1>5, <1>6, <1>7 DEF IInv

LEMMA SendKrsKeeps ==
  ASSUME IInv, SendKrs
  PROVE  IInv'
<1> USE DEF SendKrs, hintVars, Filters, Parts, Summands
<1> DEFINE e == IF go["krs"] = "sendErr" THEN "err" ELSE "nil"
<1>1. /\ \A f \in Goroutines \ {"krs"} : go'[f] = go[f]
      /\ go'["krs"] = "ended" /\ go["krs"] \in {"sendErr", "sendNil"}
      /\ "krs" \in Goroutines
  BY DEF IInv, TypeOK, Goroutines
<1>2. ch["krs"] = <<>> BY <1>1 DEF IInv, KrsDone
<1>3. /\ \A p \in Summands : ch'[p] = ch[p]
      /\ ch'["krs"] = <<e>> /\ ch' \in [Channels -> Seq({"err", "nil"})]
  <2>1. Append(ch["krs"], e) = <<e>> BY <1>2
  <2>2. <<e>> \in Seq({"err", "nil"}) OBVIOUS
  <2>3. QED BY <2>1, <2>2 DEF IInv, TypeOK, Channels
<1>4. TypeOK' /\ HintsFail' BY <1>3 DEF IInv, TypeOK, HintsFail
<1>5. Phases' BY <1>1 DEF IInv, Phases, Fails, AllHashed, Goroutines
<1>6. FiltersDone' BY <1>1 DEF IInv, FiltersDone, Goroutines
<1>7. SummandsDone'
  BY <1>1, <1>3 DEF IInv, SummandsDone, SummandDone, Fails, Outcome, Goroutines
<1>8. KrsDone' BY <1>1, <1>3 DEF IInv, KrsDone, Fails, Goroutines
<1>9. Returns' BY <1>1, NotComplete DEF IInv, Returns, ProofIsComplete
<1>10. QED BY <1>4, <1>5, <1>6, <1>7, <1>8, <1>9 DEF IInv

LEMMA NextKeepsIInv == IInv /\ [Next]_vars => IInv'
<1> SUFFICES ASSUME IInv, [Next]_vars PROVE IInv' OBVIOUS
<1>1. ASSUME NEW c \in Commitments, Hint(c) PROVE IInv' BY <1>1, HintKeeps
<1>2. CASE Main
  BY <1>2, SolveFailsKeeps, StartFirstKeeps, SampleRandomKeeps, StartPartsKeeps,
     ComputeBS2Keeps, ReceiveKrsKeeps DEF Main
<1>3. ASSUME NEW g \in Goroutines, Goroutine(g) PROVE IInv'
  BY <1>3, ComputeFirstKeeps, ComputePartKeeps, SendPartKeeps, ComputeKrs2Keeps,
     StartKrsKeeps, SelectKeeps, FinishKrsKeeps, SendKrsKeeps DEF Goroutine
<1>4. CASE UNCHANGED vars
  <2> USE <1>4 DEF vars, hintVars, goVars
  <2>1. TypeOK' /\ HintsFail' BY DEF IInv, TypeOK, HintsFail
  <2>2. Phases' /\ FiltersDone' BY DEF IInv, Phases, FiltersDone, Fails, AllHashed
  <2>3. SummandsDone' /\ KrsDone'
    BY DEF IInv, SummandsDone, SummandDone, KrsDone, Fails, Outcome
  <2>4. Returns' BY DEF IInv, Returns, ProofIsComplete
  <2>5. QED BY <2>1, <2>2, <2>3, <2>4 DEF IInv
<1>5. QED BY <1>1, <1>2, <1>3, <1>4 DEF Next, Stop

-----------------------------------------------------------------------------
(* The theorems.                                                              *)

THEOREM Invariance == Spec => []IInv
BY InitIInv, NextKeepsIInv, PTL DEF Spec

\* The state of Prove stays within its types, for any number of commitments: in
\* particular no summand is added twice and n is never below zero.
THEOREM TypeCorrect == Spec => []TypeOK
<1>1. IInv => TypeOK BY DEF IInv
<1>2. QED BY Invariance, <1>1, PTL

\* Prove returns nil only with a complete proof, when nothing failed and no goroutine
\* is left that could write to it; it returns an error only when something failed.
THEOREM Complete == Spec => []ProofIsComplete
<1>1. IInv => ProofIsComplete BY DEF IInv, Returns
<1>2. QED BY Invariance, <1>1, PTL

\* computeKRS reads h, and adds the other parts, only after they were computed.
THEOREM ReadsAreComputed == Spec => []ReadAfterComputed
<1>1. ASSUME IInv PROVE ReadAfterComputed
  <2>1. go["krs2"] # "none" => "h" \in computed
    BY <1>1 DEF IInv, Phases, FiltersDone, Filters, Parts, Summands
  <2>2. ASSUME NEW p \in DOMAIN added, added[p] > 0 PROVE p \in computed
    <3>1. p \in Summands /\ added[p] = 1 BY <1>1, <2>2 DEF IInv, TypeOK, Summands
    <3>2. QED BY <1>1, <3>1 DEF IInv, SummandsDone, SummandDone
  <2>3. QED BY <2>1, <2>2 DEF ReadAfterComputed
<1>2. QED BY Invariance, <1>1, PTL

\* A goroutine that has something to send finds room in its channel, whether or not
\* anybody is left to receive: this is why nothing leaks when Prove returns early.
SendsFindRoom ==
  /\ \A p \in Summands : go[p] = "sending" => CanSend(p)
  /\ go["krs"] \in {"sendErr", "sendNil"} => CanSend("krs")

\* SendsFindRoom for every capacity but zero.
THEOREM SendsNeverWait == Spec => []SendsFindRoom
<1>1. ASSUME IInv PROVE SendsFindRoom
  <2>1. Len(<<>>) = 0 /\ Capacity > 0 BY ConstantsAssumption
  <2>2. ASSUME NEW p \in Summands, go[p] = "sending" PROVE CanSend(p)
    BY <1>1, <2>1, <2>2 DEF IInv, SummandsDone, SummandDone, CanSend
  <2>3. ASSUME go["krs"] \in {"sendErr", "sendNil"} PROVE CanSend("krs")
    BY <1>1, <2>1, <2>3 DEF IInv, KrsDone, CanSend
  <2>4. QED BY <2>2, <2>3 DEF SendsFindRoom
<1>2. QED BY Invariance, <1>1, PTL

-----------------------------------------------------------------------------
(* The hash that the hints share.                                             *)

\* One worker of the solver runs all hints.
SameWorker == \A c, d \in Commitments : WorkerOf[c] = WorkerOf[d]

\* The hints run one after the other and leave the hash as they found it.
HashInv ==
  /\ TypeOK
  /\ \A c, d \in Commitments : hint[c] # "called" /\ d < c => hint[d] = "done"
  /\ \A c \in Commitments :
       /\ hint[c] \in {"written", "summed"} => hash = <<c>>
       /\ hint[c] = "summed" => hashBts[c] = <<c>>
       /\ hint[c] = "done" => wire[c] = <<c>>
  /\ (\A c \in Commitments : hint[c] \notin {"written", "summed"}) => hash = <<>>

\* While a hint has something in the hash the others have not begun or are done.
LEMMA Alone ==
  ASSUME HashInv, NEW c \in Commitments, hint[c] \in {"written", "summed"}
  PROVE  \A d \in Commitments : d # c => hint[d] \in {"called", "done"}
<1>1. ASSUME NEW d \in Commitments, d # c PROVE hint[d] \in {"called", "done"}
  <2>1. d < c \/ c < d BY <1>1, ConstantsAssumption DEF Commitments
  <2>2. QED BY <2>1 DEF HashInv
<1>2. QED BY <1>1

LEMMA HashStep ==
  ASSUME SameWorker, HashInv, TypeOK', NEW c \in Commitments, Hint(c)
  PROVE  HashInv'
<1>1. /\ \A d \in Commitments : d # c => hint'[d] = hint[d] /\ wire'[d] = wire[d]
                                         /\ hashBts'[d] = hashBts[d]
      /\ hint[c] \in {"called", "written", "summed"} /\ hint'[c] # "called"
  BY DEF Hint, HintWrite, HintSum, HintReset, HashInv, TypeOK
<1>2. CASE HintWrite(c)
  <2>1. \A d \in Commitments : d < c => hint[d] = "done"
    BY <1>2 DEF HintWrite, Turn, SameWorker
  <2>2. \A d \in Commitments : c < d => hint[d] = "called"
    BY <1>2 DEF HintWrite, HashInv
  <2>3. \A d \in Commitments : d < c \/ d = c \/ c < d
    BY ConstantsAssumption DEF Commitments
  <2>4. \A d \in Commitments : hint[d] \in {"called", "done"}
    BY <1>2, <2>1, <2>2, <2>3 DEF HintWrite
  <2>5. hash = <<>> BY <2>4 DEF HashInv
  <2>6. \/ hint'[c] = "failed" /\ hash' = <<>>
        \/ hint'[c] = "written" /\ hash' = <<c>>
    <3>1. Append(<<>>, c) = <<c>> OBVIOUS
    <3>2. QED BY <1>2, <2>5, <3>1 DEF HintWrite, HashInv, TypeOK
  <2>7. \A d, f \in Commitments : hint'[d] # "called" /\ f < d => hint'[f] = "done"
    <3>1. ASSUME NEW d \in Commitments, NEW f \in Commitments,
                 hint'[d] # "called", f < d
          PROVE  hint'[f] = "done"
      <4>1. CASE d = c
        <5>1. f # c BY <3>1, <4>1, ConstantsAssumption DEF Commitments
        <5>2. QED BY <1>1, <2>1, <3>1, <4>1, <5>1
      <4>2. CASE d # c
        <5>1. hint[d] # "called" /\ d < c BY <1>1, <2>2, <2>3, <3>1, <4>2
        <5>2. f # c
          BY <3>1, <5>1, ConstantsAssumption DEF Commitments
        <5>3. QED BY <1>1, <3>1, <5>1, <5>2 DEF HashInv
      <4>3. QED BY <4>1, <4>2
    <3>2. QED BY <3>1
  <2>8. \A d \in Commitments :
          /\ hint'[d] \in {"written", "summed"} => hash' = <<d>>
          /\ hint'[d] = "summed" => hashBts'[d] = <<d>>
          /\ hint'[d] = "done" => wire'[d] = <<d>>
    BY <1>1, <2>4, <2>6 DEF HashInv
  <2>9. (\A d \in Commitments : hint'[d] \notin {"written", "summed"}) => hash' = <<>>
    BY <2>6
  <2>10. QED BY <2>7, <2>8, <2>9 DEF HashInv
<1>3. CASE HintSum(c) \/ HintReset(c)
  <2>1. hint[c] \in {"written", "summed"} /\ hash = <<c>>
    BY <1>3 DEF HintSum, HintReset, HashInv
  <2>2. \A d \in Commitments : d # c => hint'[d] \in {"called", "done"}
    BY <1>1, <2>1, Alone
  <2>3. \A d, f \in Commitments : hint'[d] # "called" /\ f < d => hint'[f] = "done"
    <3>1. ASSUME NEW d \in Commitments, NEW f \in Commitments,
                 hint'[d] # "called", f < d
          PROVE  hint'[f] = "done"
      <4>1. hint[d] # "called" BY <1>1, <2>1, <3>1
      <4>2. hint[f] = "done" BY <3>1, <4>1 DEF HashInv
      <4>3. f # c BY <2>1, <4>2
      <4>4. QED BY <1>1, <4>2, <4>3
    <3>2. QED BY <3>1
  <2>4. CASE HintSum(c)
    <3>1. hint'[c] = "summed" /\ hashBts'[c] = <<c>> /\ hash' = <<c>> /\ wire' = wire
      BY <2>1, <2>4 DEF HintSum, HashInv, TypeOK
    <3>2. QED BY <1>1, <2>2, <2>3, <3>1 DEF HashInv
  <2>5. CASE HintReset(c)
    <3>1. hint'[c] = "done" /\ wire'[c] = <<c>> /\ hash' = <<>> /\ hashBts' = hashBts
      BY <2>5 DEF HintReset, ResetHash, HashInv, TypeOK
    <3>2. QED BY <1>1, <2>2, <2>3, <3>1 DEF HashInv
  <2>6. QED BY <1>3, <2>4, <2>5
<1>4. QED BY <1>2, <1>3 DEF Hint

\* When one worker of the solver runs all hints, the wire of a commitment holds the
\* hash of that commitment alone, however many there are and whatever fails; TLC's
\* run groth16_two_workers shows that the hypothesis is needed.
THEOREM OwnChallenge ==
  ASSUME SameWorker
  PROVE  Spec => []ChallengeOfOwnCommitment
<1>1. Init => HashInv
  <2>1. Init => TypeOK BY InitIInv DEF IInv
  <2>2. QED BY <2>1 DEF Init, HashInv
<1>2. HashInv /\ TypeOK' /\ [Next]_vars => HashInv'
  <2> SUFFICES ASSUME HashInv, TypeOK', [Next]_vars PROVE HashInv' OBVIOUS
  <2>1. ASSUME NEW c \in Commitments, Hint(c) PROVE HashInv' BY <2>1, HashStep
  <2>2. ASSUME UNCHANGED hintVars PROVE HashInv'
    BY <2>2 DEF hintVars, HashInv
  <2>3. CASE Main
    BY <2>2, <2>3 DEF Main, SolveFails, StartFirst, SampleRandom, StartParts, ComputeBS2,
                      ReceiveKrs
  <2>4. ASSUME NEW g \in Goroutines, Goroutine(g) PROVE HashInv'
    BY <2>2, <2>4 DEF Goroutine, ComputeFirst, ComputePart, SendPart, ComputeKrs2,
                      StartKrs, Select, FinishKrs, SendKrs
  <2>5. CASE UNCHANGED vars BY <2>2, <2>5 DEF vars
  <2>6. QED BY <2>1, <2>3, <2>4, <2>5 DEF Next, Stop
<1>3. HashInv => ChallengeOfOwnCommitment BY DEF HashInv, ChallengeOfOwnCommitment
<1>4. QED BY TypeCorrect, <1>1, <1>2, <1>3, PTL DEF Spec
================================================================================

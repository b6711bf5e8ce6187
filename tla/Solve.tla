-------------------------------- MODULE Solve --------------------------------
(* What a caller of Solve may rely on, whatever the number of goroutines:     *)
(* instructions are evaluated one at a time, each at most once and only when  *)
(* every wire it reads has a value; the call returns nil only when every      *)
(* instruction holds and every wire has a value, it returns the error of an   *)
(* instruction that does fail, and no wire is written after it returned       *)
(* (backend/*/prove.go reads the solution without any lock).                  *)
EXTENDS FiniteSets

CONSTANT Systems    \* the constraint systems, see Solver

VARIABLES
  cs,        \* the system being solved
  failing,   \* the instructions that do not hold on this witness
  done,      \* the instructions that were evaluated and hold
  failed,    \* the instructions that were evaluated and do not hold
  outcome    \* "none" until the call returns: <<"nil">>, <<"err", i>> or
             \* <<"unsolved">>, a wire has no instruction

vars == <<cs, failing, done, failed, outcome>>

Outputs(I) == UNION {cs.writes[i] : i \in I}

AllSolved == cs.wires \subseteq cs.inputs \union Outputs(done)

Init ==
  /\ cs \in Systems
  /\ failing \in SUBSET cs.instructions
  /\ done = {} /\ failed = {}
  /\ outcome = <<"none">>

Evaluate(i) ==
  /\ outcome = <<"none">>
  /\ i \in cs.instructions \ (done \union failed)
  /\ cs.reads[i] \subseteq cs.inputs \union Outputs(done)
  /\ IF i \in failing
     THEN failed' = failed \union {i} /\ UNCHANGED done
     ELSE done' = done \union {i} /\ UNCHANGED failed
  /\ UNCHANGED <<cs, failing, outcome>>

Return ==
  /\ outcome = <<"none">>
  /\ \/ \E i \in failed : outcome' = <<"err", i>>
     \/ /\ done = cs.instructions
        /\ outcome' = IF AllSolved THEN <<"nil">> ELSE <<"unsolved">>
  /\ UNCHANGED <<cs, failing, done, failed>>

Next == Return \/ \E i \in cs.instructions : Evaluate(i)

Spec == Init /\ [][Next]_vars
==============================================================================

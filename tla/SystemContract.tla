--------------------------- MODULE SystemContract ---------------------------
(* What the compiler promises the solver about a constraint system: the       *)
(* meaning of the comment on System.Levels in constraint/core.go.  The module  *)
(* ConstraintSystem keeps the promise, the module Solver relies on it.         *)
(*                                                                            *)
(* A system is a record [instructions, levels, wires, inputs, reads, writes].  *)
EXTENDS Naturals, Sequences

\* "each level contains independent constraints": an instruction is in one place.
EachOnce(cs) ==
  /\ \A l \in DOMAIN cs.levels : \A k \in DOMAIN cs.levels[l] :
       cs.levels[l][k] \in cs.instructions
  /\ \A i \in cs.instructions : \E l \in DOMAIN cs.levels : \E k \in DOMAIN cs.levels[l] :
       cs.levels[l][k] = i
  /\ \A l, m \in DOMAIN cs.levels :
       \A k \in DOMAIN cs.levels[l] : \A n \in DOMAIN cs.levels[m] :
         cs.levels[l][k] = cs.levels[m][n] => l = m /\ k = n

\* A wire is set by one instruction at most, an input by none.
OneWriter(cs) ==
  \A i \in cs.instructions :
    /\ cs.writes[i] \cap cs.inputs = {}
    /\ \A j \in cs.instructions \ {i} : cs.writes[i] \cap cs.writes[j] = {}

\* "all dependencies for constraints in a level l are solved in previous levels"
ReadsFromEarlierLevels(cs) ==
  \A l \in DOMAIN cs.levels : \A k \in DOMAIN cs.levels[l] :
    \A w \in cs.reads[cs.levels[l][k]] \ cs.inputs :
      \E m \in 1 .. l - 1 : \E n \in DOMAIN cs.levels[m] : w \in cs.writes[cs.levels[m][n]]

SoundSystem(cs) == EachOnce(cs) /\ OneWriter(cs) /\ ReadsFromEarlierLevels(cs)

\* The shape of a system over the given instructions and wires.
WellTyped(cs) ==
  /\ cs.levels \in Seq(Seq(cs.instructions))
  /\ cs.inputs \subseteq cs.wires
  /\ cs.reads \in [cs.instructions -> SUBSET cs.wires]
  /\ cs.writes \in [cs.instructions -> SUBSET cs.wires]
==============================================================================

---------------------------- MODULE SparseSolution ----------------------------
(* The vectors L, R, O of a SparseR1CS solution (constraint/bn254/solver.go):  *)
(* the rows of the public inputs and the padding are filled before the solver  *)
(* runs (initSparseLRO), the row of a constraint by the worker that solves it  *)
(* (setSparseLRO).  The PLONK permutation argument accepts the solution only   *)
(* when all positions of a wire hold one value; which wire a position belongs  *)
(* to is fixed by the setup (buildPermutation, backend/plonk/bn254/setup.go).  *)
(*                                                                            *)
(* A wire has a value of its own, but for wire 0, whose value may be zero; a    *)
(* wire not solved yet reads as zero.                                          *)
EXTENDS Naturals, Sequences, FiniteSets

CONSTANTS
  DomainSizes,  \* the powers of two, up to a bound
  Circuits   \* records [nbPublic, nbSecret, nbInternal, hints, constraints]:
             \* hints is a sequence of sets of output wires, constraints one of
             \* [kind, xa, xb, xc, inserted]; an unused wire of a constraint is 0,
             \* inserted is the output updateInstructionTree found, if any

VARIABLES circuit, zeroWire0, values, solved, hinted, rowed, l, r, o

vars == <<circuit, zeroWire0, values, solved, hinted, rowed, l, r, o>>

NbInputs(c) == c.nbPublic + c.nbSecret
WiresOf(c)  == 0 .. NbInputs(c) + c.nbInternal - 1

Assigned(w) == IF w = 0 /\ zeroWire0 THEN 0 ELSE w + 1

NbRows(c) == c.nbPublic + Len(c.constraints)

\* ecc.NextPowerOfTwo(GetNbConstraints() + len(Public))
Size(c) == CHOOSE n \in DomainSizes :
             n >= NbRows(c) /\ \A m \in DomainSizes : m >= NbRows(c) => n <= m

\* What the frontend builds: a constraint "has at most one unsolved wire"
\* (updateInstructionTree), which is one that its solver sets.
WellFormed(c) ==
  /\ {c.nbPublic, c.nbSecret, c.nbInternal} \subseteq Nat
  /\ c.hints \in Seq(SUBSET WiresOf(c))
  /\ c.constraints \in
       Seq([kind : {"add", "mul", "generic", "bool", "commitment"}, xa : WiresOf(c),
            xb : WiresOf(c), xc : WiresOf(c), inserted : SUBSET WiresOf(c)])
  /\ \A k \in DOMAIN c.constraints : LET d == c.constraints[k] IN
       /\ d.kind \in {"add", "mul"} => d.inserted \subseteq {d.xc}
       /\ d.kind = "generic" => \A v, w \in d.inserted : v = w
       /\ d.kind \in {"bool", "commitment"} => d.inserted = {}

ASSUME CircuitsAssumption ==
  /\ DomainSizes \subseteq Nat
  /\ \A c \in Circuits : WellFormed(c) /\ \E n \in DomainSizes : n >= NbRows(c)

\* Mutant: the padding is left at zero.
PaddingZero(c, s0) == 0

\* What a row outside of the constraints holds on its unused wires.
Padding(c, s0) == s0

\* newSolver: the witness is copied, then initSparseLRO reads it.
InitialValues(c) ==
  [w \in WiresOf(c) |-> IF w < NbInputs(c) THEN Assigned(w) ELSE 0]

\* Mutant: the columns are as long as the constraint system, not as the domain.
InitialColumnUnpadded(c, vals, isL) ==
  [j \in 0 .. c.nbPublic + Len(c.constraints) - 1 |->
     IF j < c.nbPublic THEN (IF isL THEN vals[j] ELSE vals[0]) ELSE 0]

InitialColumn(c, vals, isL) ==
  LET s0 == IF WiresOf(c) = {} THEN 0 ELSE vals[0] IN
  [j \in 0 .. Size(c) - 1 |->
     IF j < c.nbPublic THEN (IF isL THEN vals[j] ELSE s0)
     ELSE IF j < c.nbPublic + Len(c.constraints) THEN 0 ELSE Padding(c, s0)]

Init ==
  /\ circuit \in Circuits /\ zeroWire0 \in BOOLEAN
  /\ values = InitialValues(circuit)
  /\ solved = 0 .. NbInputs(circuit) - 1
  /\ hinted = {} /\ rowed = {}
  /\ l = InitialColumn(circuit, values, TRUE)
  /\ r = InitialColumn(circuit, values, FALSE)
  /\ o = InitialColumn(circuit, values, FALSE)

\* The wires a constraint sets, given what is solved when it runs.
Output(c) ==
  CASE c.kind \in {"add", "mul"} -> {c.xc}
    [] c.kind = "generic" -> IF c.xa \notin solved THEN {c.xa}
                             ELSE IF c.xb \notin solved THEN {c.xb}
                             ELSE IF c.xc \notin solved THEN {c.xc} ELSE {}
    [] OTHER -> {}             \* bool; commitment constraints are not solved

\* The wires updateInstructionTree looks at; the level is after those it did not
\* insert itself.
TreeWires(c)    == IF c.kind = "bool" THEN {c.xa} ELSE {c.xa, c.xb, c.xc}
Dependencies(c) == TreeWires(c) \ c.inserted

Set(W) == /\ values' = [w \in DOMAIN values |-> IF w \in W THEN Assigned(w) ELSE values[w]]
          /\ solved' = solved \union W

\* Mutant: the row is filled before the constraint is solved.
RowValueBefore(w) == values[w]

\* setSparseLRO reads s.values after the constraint set its wire.
RowValue(w) == values'[w]

\* The third wire of a row: a boolean constraint passes wire 0.
Third(c) == IF c.kind = "bool" THEN 0 ELSE c.xc
Second(c) == IF c.kind = "bool" THEN c.xa ELSE c.xb

\* A hint instruction; its level is after what it reads, which is left out here.
SolveHint(h) ==
  /\ h \notin hinted
  /\ hinted' = hinted \union {h}
  /\ Set(circuit.hints[h])
  /\ UNCHANGED <<circuit, zeroWire0, rowed, l, r, o>>

\* processInstruction of constraint k, in any order the levels allow.
SolveConstraint(k) ==
  LET c   == circuit.constraints[k]
      row == circuit.nbPublic + k - 1
  IN  /\ k \notin rowed
      /\ Dependencies(c) \subseteq solved
      /\ rowed' = rowed \union {k}
      /\ Set(Output(c))
      /\ l' = [l EXCEPT ![row] = RowValue(c.xa)]
      /\ r' = [r EXCEPT ![row] = RowValue(Second(c))]
      /\ o' = [o EXCEPT ![row] = RowValue(Third(c))]
      /\ UNCHANGED <<circuit, zeroWire0, hinted>>

Solved == hinted = DOMAIN circuit.hints /\ rowed = DOMAIN circuit.constraints

Stop == Solved /\ UNCHANGED vars

Next == \/ \E h \in DOMAIN circuit.hints : SolveHint(h)
        \/ \E k \in DOMAIN circuit.constraints : SolveConstraint(k)
        \/ Stop

Spec == Init /\ [][Next]_vars

-----------------------------------------------------------------------------
(* The setup's view: the wire of each position of L, R and O.                *)

Row(j) == circuit.constraints[j - circuit.nbPublic + 1]

IsConstraintRow(j) ==
  j >= circuit.nbPublic /\ j < circuit.nbPublic + Len(circuit.constraints)

WireL(j) == IF j < circuit.nbPublic THEN j
            ELSE IF IsConstraintRow(j) THEN Row(j).xa ELSE 0
WireR(j) == IF IsConstraintRow(j) THEN Second(Row(j)) ELSE 0
WireO(j) == IF IsConstraintRow(j) THEN Third(Row(j)) ELSE 0

\* The variables hold the kinds of values the solver gives them; the columns are as
\* long as the domain.
TypeOK ==
  /\ circuit \in Circuits /\ zeroWire0 \in BOOLEAN
  /\ values \in [WiresOf(circuit) -> Nat] /\ solved \subseteq WiresOf(circuit)
  /\ hinted \subseteq DOMAIN circuit.hints /\ rowed \subseteq DOMAIN circuit.constraints
  /\ {l, r, o} \subseteq [0 .. Size(circuit) - 1 -> Nat]

\* Once the system is solved, every position of L, R and O holds the value of the
\* wire the setup put there, so that the copy constraints hold: no row was filled
\* before a wire of its own was solved.
CopyConstraintsHold ==
  Solved => \A j \in 0 .. Size(circuit) - 1 :
              l[j] = values[WireL(j)] /\ r[j] = values[WireR(j)] /\ o[j] = values[WireO(j)]

\* initSparseLRO: "rows past the constraint range get values[0] to satisfy the PLONK
\* permutation argument (wire id 0 by convention)".
PaddingHoldsWire0 ==
  Solved => \A j \in circuit.nbPublic + Len(circuit.constraints) .. Size(circuit) - 1 :
              {l[j], r[j], o[j]} = {values[0]}
==============================================================================

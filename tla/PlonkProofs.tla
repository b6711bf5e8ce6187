------------------------------ MODULE PlonkProofs ------------------------------
(* Proofs about the PLONK side: first the vectors L, R, O of SparseSolution, for   *)
(* every set of circuits the frontend may build and every set of domain sizes;     *)
(* then the goroutines of PlonkProver, for every bound on the calls that fail.     *)
EXTENDS SparseSolution, PlonkProver, SequenceTheorems, WellFoundedInduction, TLAPS

-----------------------------------------------------------------------------
(* The invariant.                                                             *)

\* A wire holds its value once it is solved, and zero before.
ValuesOfSolved ==
  values = [w \in WiresOf(circuit) |-> IF w \in solved THEN Assigned(w) ELSE 0]

InputsSolved == 0 .. NbInputs(circuit) - 1 \subseteq solved

\* Row j of the three vectors holds the final values of three wires.
Holds(j, v, w, x) ==
  l[j] = Assigned(v) /\ r[j] = Assigned(w) /\ o[j] = Assigned(x)

\* A row that a worker filled was filled with solved wires.
RowsFilled ==
  \A k \in rowed : LET c == circuit.constraints[k] IN
    /\ {c.xa, Second(c), Third(c)} \subseteq solved
    /\ Holds(circuit.nbPublic + k - 1, c.xa, Second(c), Third(c))

PublicRows == \A j \in 0 .. circuit.nbPublic - 1 : Holds(j, j, 0, 0)

PaddingRows ==
  \A j \in NbRows(circuit) .. Size(circuit) - 1 : Holds(j, 0, 0, 0)

IInv == /\ TypeOK /\ ValuesOfSolved /\ InputsSolved
        /\ RowsFilled /\ PublicRows /\ PaddingRows

\* Every circuit has an input.  (Without one, wire 0 is not solved when the public rows
\* and the padding are filled with its value.)
HaveInputs == \A c \in Circuits : NbInputs(c) > 0

-----------------------------------------------------------------------------
(* Facts about circuits.                                                      *)

\* The sizes of a circuit are natural numbers.
LEMMA CircuitSizes ==
  ASSUME NEW c \in Circuits
  PROVE  /\ c.nbPublic \in Nat /\ c.nbSecret \in Nat /\ c.nbInternal \in Nat
         /\ NbInputs(c) \in Nat /\ c.nbPublic <= NbInputs(c)
         /\ Len(c.constraints) \in Nat
         /\ DOMAIN c.constraints = 1 .. Len(c.constraints)
         /\ NbRows(c) \in Nat /\ NbRows(c) = c.nbPublic + Len(c.constraints)
<1>1. WellFormed(c)
  BY CircuitsAssumption
<1>2. c.nbPublic \in Nat /\ c.nbSecret \in Nat /\ c.nbInternal \in Nat
  BY <1>1 DEF WellFormed
<1>3. Len(c.constraints) \in Nat /\ DOMAIN c.constraints = 1 .. Len(c.constraints)
  BY <1>1 DEF WellFormed
<1>. QED  BY <1>2, <1>3 DEF NbInputs, NbRows

\* What the wires of a constraint are, and which of them it may find unsolved.
LEMMA ConstraintWires ==
  ASSUME NEW c \in Circuits, NEW k \in DOMAIN c.constraints
  PROVE  LET d == c.constraints[k] IN
         /\ d.kind \in {"add", "mul", "generic", "bool", "commitment"}
         /\ {d.xa, d.xb, d.xc, Second(d), Third(d)} \subseteq WiresOf(c)
         /\ d.kind \in {"add", "mul"} => d.inserted \subseteq {d.xc}
         /\ d.kind = "generic" => \A v, w \in d.inserted : v = w
         /\ d.kind \in {"bool", "commitment"} => d.inserted = {}
<1>1. WellFormed(c)
  BY CircuitsAssumption
<1>. DEFINE d == c.constraints[k]
<1>2. /\ d.kind \in {"add", "mul", "generic", "bool", "commitment"}
      /\ {d.xa, d.xb, d.xc} \subseteq WiresOf(c)
  <2>. DEFINE Constraints == [kind : {"add", "mul", "generic", "bool", "commitment"},
                              xa : WiresOf(c), xb : WiresOf(c), xc : WiresOf(c),
                              inserted : SUBSET WiresOf(c)]
  <2>1. c.constraints \in Seq(Constraints) /\ k \in 1 .. Len(c.constraints)
    BY <1>1, CircuitSizes DEF WellFormed
  <2>2. d \in Constraints
    <3>. HIDE DEF Constraints
    <3>. QED  BY <2>1, ElementOfSeq
  <2>. QED  BY <2>2
<1>3. 0 \in WiresOf(c)
  BY <1>2, CircuitSizes DEF WiresOf
<1>4. {Second(d), Third(d)} \subseteq WiresOf(c)
  BY <1>2, <1>3 DEF Second, Third
<1>. QED  BY <1>1, <1>2, <1>4 DEF WellFormed

\* The domain has room for all rows.
LEMMA RowsFit ==
  ASSUME NEW c \in Circuits
  PROVE  Size(c) \in Nat /\ NbRows(c) <= Size(c)
<1>. DEFINE Big == {n \in DomainSizes : n >= NbRows(c)}
<1>1. Big \subseteq Nat /\ Big # {} /\ NbRows(c) \in Nat
  BY CircuitsAssumption, CircuitSizes
<1>2. PICK n \in Big : \A m \in Big : <<m, n>> \notin OpToRel(<, Nat)
  <2>1. IsWellFoundedOn(OpToRel(<, Nat), Nat)
    BY NatLessThanWellFounded
  <2>. HIDE DEF Big
  <2>. QED  BY ONLY <1>1, <2>1, WFMin
<1>3. \A m \in DomainSizes : m >= NbRows(c) => n <= m
  <2>. SUFFICES ASSUME NEW m \in DomainSizes, m >= NbRows(c) PROVE n <= m
    OBVIOUS
  <2>1. m \in Big /\ m \in Nat /\ n \in Nat
    BY <1>1, <1>2
  <2>2. <<m, n>> \notin OpToRel(<, Nat)
    BY <2>1, <1>2
  <2>3. ~(m < n)
    BY <2>1, <2>2 DEF OpToRel
  <2>. QED  BY <2>1, <2>3
<1>4. \E s \in DomainSizes :
        s >= NbRows(c) /\ \A m \in DomainSizes : m >= NbRows(c) => s <= m
  BY <1>2, <1>3
<1>5. Size(c) \in DomainSizes /\ Size(c) >= NbRows(c)
  BY <1>4 DEF Size
<1>. QED  BY <1>1, <1>5, CircuitsAssumption

-----------------------------------------------------------------------------
(* Type correctness.                                                          *)

LEMMA InitialColumnType ==
  ASSUME NEW c \in Circuits, zeroWire0 \in BOOLEAN, NEW isL \in BOOLEAN
  PROVE  /\ InitialValues(c) \in [WiresOf(c) -> Nat]
         /\ InitialColumn(c, InitialValues(c), isL) \in [0 .. Size(c) - 1 -> Nat]
<1>1. \A w \in WiresOf(c) : Assigned(w) \in Nat
  BY CircuitSizes DEF WiresOf, Assigned
<1>2. InitialValues(c) \in [WiresOf(c) -> Nat]
  BY <1>1 DEF InitialValues
<1>3. WiresOf(c) # {} => 0 \in WiresOf(c)
  BY CircuitSizes DEF WiresOf
<1>4. \A j \in Nat : j < c.nbPublic => j \in WiresOf(c)
  BY CircuitSizes DEF WiresOf
<1>. QED  BY <1>2, <1>3, <1>4, RowsFit DEF InitialColumn, Padding

\* What solving something does to the wires' values.
LEMMA SetType ==
  ASSUME TypeOK, NEW W \in SUBSET WiresOf(circuit), Set(W), circuit' = circuit
  PROVE  values' \in [WiresOf(circuit) -> Nat] /\ solved' \subseteq WiresOf(circuit)
<1>1. \A w \in WiresOf(circuit) : Assigned(w) \in Nat
  BY CircuitSizes DEF TypeOK, WiresOf, Assigned
<1>. QED  BY <1>1 DEF Set, TypeOK

\* The wires a step sets are wires of the circuit; the row it fills is one of the domain.
LEMMA OutputWires ==
  ASSUME NEW c \in Circuits, NEW k \in DOMAIN c.constraints
  PROVE  /\ Output(c.constraints[k]) \subseteq WiresOf(c)
         /\ c.nbPublic + k - 1 \in 0 .. Size(c) - 1
<1>1. c.nbPublic + k - 1 \in 0 .. Size(c) - 1
  BY CircuitSizes, RowsFit
<1>. QED  BY <1>1, ConstraintWires DEF Output

LEMMA HintWires ==
  ASSUME NEW c \in Circuits, NEW h \in DOMAIN c.hints
  PROVE  c.hints[h] \subseteq WiresOf(c)
<1>1. c.hints \in Seq(SUBSET WiresOf(c))
  BY CircuitsAssumption DEF WellFormed
<1>2. h \in 1 .. Len(c.hints)
  BY <1>1
<1>. QED  BY <1>1, <1>2, ElementOfSeq

\* Every step keeps the kinds of values.
LEMMA TypeStep == TypeOK /\ [Next]_vars => TypeOK'
<1>. SUFFICES ASSUME TypeOK, [Next]_vars  PROVE TypeOK'
  OBVIOUS
<1>1. ASSUME NEW h \in DOMAIN circuit.hints, SolveHint(h)  PROVE TypeOK'
  <2>1. values' \in [WiresOf(circuit) -> Nat] /\ solved' \subseteq WiresOf(circuit)
    BY <1>1, SetType, HintWires DEF SolveHint, TypeOK
  <2>. QED  BY <1>1, <2>1 DEF SolveHint, TypeOK
<1>2. ASSUME NEW k \in DOMAIN circuit.constraints, SolveConstraint(k)  PROVE TypeOK'
  <2>. DEFINE c == circuit.constraints[k]
  <2>1. circuit \in Circuits /\ circuit' = circuit
    BY <1>2 DEF TypeOK, SolveConstraint
  <2>2. values' \in [WiresOf(circuit) -> Nat] /\ solved' \subseteq WiresOf(circuit)
    BY <1>2, <2>1, SetType, OutputWires DEF SolveConstraint
  <2>3. {RowValue(c.xa), RowValue(Second(c)), RowValue(Third(c))} \subseteq Nat
    BY <2>1, <2>2, ConstraintWires DEF RowValue
  <2>4. {l', r', o'} \subseteq [0 .. Size(circuit) - 1 -> Nat]
    <3>1. l' \in [0 .. Size(circuit) - 1 -> Nat]
      BY <1>2, <2>3 DEF SolveConstraint, TypeOK
    <3>2. r' \in [0 .. Size(circuit) - 1 -> Nat]
      BY <1>2, <2>3 DEF SolveConstraint, TypeOK
    <3>3. o' \in [0 .. Size(circuit) - 1 -> Nat]
      BY <1>2, <2>3 DEF SolveConstraint, TypeOK
    <3>. QED  BY <3>1, <3>2, <3>3
  <2>. QED  BY <1>2, <2>1, <2>2, <2>4 DEF SolveConstraint, TypeOK
<1>3. CASE UNCHANGED vars
  BY <1>3 DEF vars, TypeOK
<1>. QED  BY <1>1, <1>2, <1>3 DEF Next, Stop

LEMMA TypeInit == Init => TypeOK
<1>. SUFFICES ASSUME Init  PROVE TypeOK
  OBVIOUS
<1>1. circuit \in Circuits /\ zeroWire0 \in BOOLEAN
  BY DEF Init
<1>2. values \in [WiresOf(circuit) -> Nat] /\ {l, r, o} \subseteq [0 .. Size(circuit) - 1 -> Nat]
  BY <1>1, InitialColumnType DEF Init
<1>3. solved \subseteq WiresOf(circuit)
  BY <1>1, CircuitSizes DEF Init, WiresOf
<1>. QED  BY <1>1, <1>2, <1>3 DEF Init, TypeOK

\* The variables keep to the kinds of values the code gives them, and the vectors to
\* the length of the domain, for every circuit (newSolver, processInstruction).
THEOREM Types == Spec => []TypeOK
BY TypeInit, TypeStep, PTL DEF Spec

-----------------------------------------------------------------------------
(* The copy constraints.                                                      *)

\* The vectors as initSparseLRO leaves them are right in the rows it is responsible for.
LEMMA InvInit == ASSUME HaveInputs, Init  PROVE IInv
<1>1. TypeOK /\ circuit \in Circuits /\ NbInputs(circuit) \in Nat \ {0}
  BY TypeInit, CircuitSizes DEF Init, HaveInputs
<1>2. ValuesOfSolved
  BY <1>1 DEF ValuesOfSolved, Init, InitialValues, WiresOf
<1>3. InputsSolved /\ RowsFilled
  BY DEF Init, InputsSolved, RowsFilled
<1>4. \A w \in 0 .. NbInputs(circuit) - 1 : w \in WiresOf(circuit) /\ values[w] = Assigned(w)
  BY <1>1, <1>2, <1>3, CircuitSizes DEF ValuesOfSolved, InputsSolved, WiresOf
<1>5. WiresOf(circuit) # {} /\ values[0] = Assigned(0)
  BY <1>1, <1>4
<1>6. PublicRows
  <2>. SUFFICES ASSUME NEW j \in 0 .. circuit.nbPublic - 1  PROVE Holds(j, j, 0, 0)
    BY DEF PublicRows
  <2>1. j \in 0 .. Size(circuit) - 1 /\ j < circuit.nbPublic /\ j \in 0 .. NbInputs(circuit) - 1
    BY <1>1, CircuitSizes, RowsFit
  <2>. QED  BY <2>1, <1>4, <1>5 DEF Init, InitialColumn, Holds
<1>7. PaddingRows
  <2>. SUFFICES ASSUME NEW j \in NbRows(circuit) .. Size(circuit) - 1  PROVE Holds(j, 0, 0, 0)
    BY DEF PaddingRows
  <2>1. /\ j \in 0 .. Size(circuit) - 1 /\ ~(j < circuit.nbPublic)
        /\ ~(j < circuit.nbPublic + Len(circuit.constraints))
    BY <1>1, CircuitSizes, RowsFit
  <2>. QED  BY <2>1, <1>5 DEF Init, InitialColumn, Padding, Holds
<1>. QED  BY <1>1, <1>2, <1>3, <1>6, <1>7 DEF IInv

\* Solving something keeps the values of what is solved, and what is solved stays so.
LEMMA SetKeeps ==
  ASSUME TypeOK, ValuesOfSolved, NEW W \in SUBSET WiresOf(circuit), Set(W),
         UNCHANGED <<circuit, zeroWire0>>
  PROVE  /\ ValuesOfSolved' /\ solved' = solved \union W
         /\ \A w : Assigned(w)' = Assigned(w)
<1>1. \A w : Assigned(w)' = Assigned(w)
  BY DEF Assigned
<1>2. DOMAIN values = WiresOf(circuit) /\ WiresOf(circuit)' = WiresOf(circuit)
  BY DEF ValuesOfSolved
<1>. QED  BY <1>1, <1>2 DEF Set, ValuesOfSolved

\* When a constraint has been solved, so are the wires of its row: those it did not
\* wait for are what it sets.  This is where "at most one unsolved wire" is needed.
LEMMA RowSolved ==
  ASSUME IInv, HaveInputs, NEW k \in DOMAIN circuit.constraints,
         Dependencies(circuit.constraints[k]) \subseteq solved
  PROVE  LET c == circuit.constraints[k] IN
         {c.xa, Second(c), Third(c)} \subseteq solved \union Output(c)
<1>. DEFINE c == circuit.constraints[k]
<1>1. circuit \in Circuits /\ 0 \in solved
  BY CircuitSizes DEF IInv, TypeOK, InputsSolved, HaveInputs
<1>2. CASE c.kind \in {"add", "mul"}
  <2>1. c.inserted \subseteq {c.xc} /\ Output(c) = {c.xc}
    BY <1>1, <1>2, ConstraintWires DEF Output
  <2>. QED  BY <1>2, <2>1 DEF Dependencies, TreeWires, Second, Third
<1>3. CASE c.kind = "generic"
  <2>1. \A v, w \in c.inserted : v = w
    BY <1>1, <1>3, ConstraintWires
  <2>2. Second(c) = c.xb /\ Third(c) = c.xc /\ TreeWires(c) = {c.xa, c.xb, c.xc}
    BY <1>3 DEF TreeWires, Second, Third
  <2>3. Output(c) = IF c.xa \notin solved THEN {c.xa}
                    ELSE IF c.xb \notin solved THEN {c.xb}
                    ELSE IF c.xc \notin solved THEN {c.xc} ELSE {}
    BY <1>3 DEF Output
  <2>. QED  BY <2>1, <2>2, <2>3 DEF Dependencies
<1>4. CASE c.kind \in {"bool", "commitment"}
  <2>1. c.inserted = {}
    BY <1>1, <1>4, ConstraintWires
  <2>. QED  BY <1>1, <1>4, <2>1 DEF Dependencies, TreeWires, Second, Third
<1>. QED  BY <1>1, <1>2, <1>3, <1>4, ConstraintWires

\* A hint changes no row.
LEMMA HintStep ==
  ASSUME IInv, NEW h \in DOMAIN circuit.hints, SolveHint(h)
  PROVE  IInv'
<1>1. TypeOK' /\ circuit \in Circuits
  BY TypeStep DEF IInv, TypeOK, Next
<1>2. ValuesOfSolved' /\ solved \subseteq solved' /\ \A w : Assigned(w)' = Assigned(w)
  BY <1>1, SetKeeps, HintWires DEF IInv, SolveHint
<1>3. InputsSolved'
  BY <1>2 DEF IInv, InputsSolved, SolveHint, NbInputs
<1>4. \A j, v, w, x : Holds(j, v, w, x) => Holds(j, v, w, x)'
  BY <1>2 DEF Holds, SolveHint
<1>5. RowsFilled'
  BY <1>2, <1>4 DEF IInv, RowsFilled, SolveHint
<1>6. PublicRows' /\ PaddingRows'
  BY <1>4 DEF IInv, PublicRows, PaddingRows, SolveHint
<1>. QED  BY <1>1, <1>2, <1>3, <1>5, <1>6 DEF IInv

\* A constraint fills its row, and no other one, with the values of solved wires.
LEMMA ConstraintStep ==
  ASSUME IInv, HaveInputs, NEW k \in DOMAIN circuit.constraints, SolveConstraint(k)
  PROVE  IInv'
<1>. DEFINE c == circuit.constraints[k]
            row == circuit.nbPublic + k - 1
<1>1. TypeOK /\ TypeOK' /\ circuit \in Circuits
  BY TypeStep DEF IInv, TypeOK, Next
<1>2. /\ ValuesOfSolved' /\ solved' = solved \union Output(c)
      /\ \A w : Assigned(w)' = Assigned(w)
  BY <1>1, SetKeeps, OutputWires DEF IInv, SolveConstraint
<1>3. InputsSolved'
  BY <1>2 DEF IInv, InputsSolved, SolveConstraint, NbInputs
<1>4. /\ c.xa \in WiresOf(circuit) /\ Second(c) \in WiresOf(circuit)
      /\ Third(c) \in WiresOf(circuit) /\ row \in 0 .. Size(circuit) - 1
  BY <1>1, ConstraintWires, OutputWires
<1>5. {c.xa, Second(c), Third(c)} \subseteq solved'
  BY <1>2, RowSolved DEF SolveConstraint
<1>6. \A w \in WiresOf(circuit) \intersect solved' : values'[w] = Assigned(w)'
  BY <1>2 DEF ValuesOfSolved, SolveConstraint
<1>7. Holds(row, c.xa, Second(c), Third(c))'
  BY <1>1, <1>4, <1>5, <1>6 DEF Holds, SolveConstraint, RowValue, TypeOK
<1>8. \A j, v, w, x : j # row /\ Holds(j, v, w, x) => Holds(j, v, w, x)'
  BY <1>1, <1>2 DEF Holds, SolveConstraint, TypeOK
<1>9. RowsFilled'
  <2>. SUFFICES ASSUME NEW n \in rowed'
                PROVE  /\ {circuit.constraints[n].xa, Second(circuit.constraints[n]),
                           Third(circuit.constraints[n])} \subseteq solved'
                       /\ Holds(circuit.nbPublic + n - 1, circuit.constraints[n].xa,
                                Second(circuit.constraints[n]),
                                Third(circuit.constraints[n]))'
    BY DEF RowsFilled, SolveConstraint, Second, Third
  <2>1. CASE n = k
    BY <2>1, <1>5, <1>7
  <2>2. CASE n # k
    <3>1. n \in rowed /\ n \in DOMAIN circuit.constraints
      BY <1>1, <2>2 DEF SolveConstraint, TypeOK
    <3>2. circuit.nbPublic + n - 1 # row
      BY <1>1, <3>1, <2>2, CircuitSizes
    <3>. DEFINE d == circuit.constraints[n]
    <3>3. /\ {d.xa, Second(d), Third(d)} \subseteq solved
          /\ Holds(circuit.nbPublic + n - 1, d.xa, Second(d), Third(d))
      BY <3>1 DEF IInv, RowsFilled
    <3>4. Holds(circuit.nbPublic + n - 1, d.xa, Second(d), Third(d))'
      <4>1. \A i, u, v, w : i # row /\ Holds(i, u, v, w) =>
              l'[i] = Assigned(u)' /\ r'[i] = Assigned(v)' /\ o'[i] = Assigned(w)'
        BY <1>8 DEF Holds
      <4>2. circuit' = circuit
        BY DEF SolveConstraint
      <4>. QED  BY <3>2, <3>3, <4>1, <4>2 DEF Holds, Second, Third
    <3>. QED  BY <3>3, <3>4, <1>2
  <2>. QED  BY <2>1, <2>2
<1>10. PublicRows'
  <2>1. \A j \in 0 .. circuit.nbPublic - 1 : j # row
    BY <1>1, CircuitSizes
  <2>. QED  BY <2>1, <1>8 DEF IInv, PublicRows, SolveConstraint
<1>11. PaddingRows'
  <2>1. \A j \in NbRows(circuit) .. Size(circuit) - 1 : j # row
    BY <1>1, CircuitSizes, RowsFit
  <2>. QED  BY <2>1, <1>8 DEF IInv, PaddingRows, SolveConstraint
<1>. QED  BY <1>1, <1>2, <1>3, <1>9, <1>10, <1>11 DEF IInv

\* Once every row is filled, all positions are right.
LEMMA InvImplies ==
  ASSUME IInv, HaveInputs  PROVE CopyConstraintsHold /\ PaddingHoldsWire0
<1>1. circuit \in Circuits /\ TypeOK
  BY DEF IInv, TypeOK
<1>2. \A w \in WiresOf(circuit) : w \in solved => values[w] = Assigned(w)
  BY DEF IInv, ValuesOfSolved
<1>3. /\ \A w \in 0 .. NbInputs(circuit) - 1 : w \in WiresOf(circuit) /\ values[w] = Assigned(w)
      /\ values[0] = Assigned(0)
  BY <1>1, <1>2, CircuitSizes DEF IInv, InputsSolved, WiresOf, HaveInputs
<1>4. ASSUME Solved, NEW j \in 0 .. Size(circuit) - 1
      PROVE  l[j] = values[WireL(j)] /\ r[j] = values[WireR(j)] /\ o[j] = values[WireO(j)]
  <2>1. CASE j < circuit.nbPublic
    <3>1. WireL(j) = j /\ WireR(j) = 0 /\ WireO(j) = 0
      BY <1>1, <2>1, CircuitSizes DEF WireL, WireR, WireO, IsConstraintRow
    <3>2. j \in 0 .. circuit.nbPublic - 1 /\ j \in 0 .. NbInputs(circuit) - 1
      BY <1>1, <2>1, CircuitSizes
    <3>. QED  BY <3>1, <3>2, <1>3 DEF IInv, PublicRows, Holds
  <2>2. CASE IsConstraintRow(j)
    <3>. DEFINE k == j - circuit.nbPublic + 1
                c == circuit.constraints[k]
    <3>1. k \in DOMAIN circuit.constraints /\ circuit.nbPublic + k - 1 = j
      BY <1>1, <2>2, CircuitSizes, RowsFit DEF IsConstraintRow
    <3>2. k \in rowed
      BY <1>4, <3>1 DEF Solved
    <3>3. /\ {c.xa, Second(c), Third(c)} \subseteq solved
          /\ Holds(j, c.xa, Second(c), Third(c))
      BY <3>1, <3>2 DEF IInv, RowsFilled
    <3>4. {c.xa, Second(c), Third(c)} \subseteq WiresOf(circuit)
      BY <1>1, <3>1, ConstraintWires
    <3>5. WireL(j) = c.xa /\ WireR(j) = Second(c) /\ WireO(j) = Third(c)
      BY <1>1, <2>2, CircuitSizes DEF WireL, WireR, WireO, IsConstraintRow, Row
    <3>. QED  BY <3>3, <3>4, <3>5, <1>2 DEF Holds
  <2>3. CASE ~(j < circuit.nbPublic) /\ ~IsConstraintRow(j)
    <3>1. WireL(j) = 0 /\ WireR(j) = 0 /\ WireO(j) = 0
      BY <2>3 DEF WireL, WireR, WireO
    <3>2. j \in NbRows(circuit) .. Size(circuit) - 1
      BY <1>1, <2>3, CircuitSizes, RowsFit DEF IsConstraintRow
    <3>. QED  BY <3>1, <3>2, <1>3 DEF IInv, PaddingRows, Holds
  <2>. QED  BY <2>1, <2>2, <2>3
<1>5. CopyConstraintsHold
  BY <1>4 DEF CopyConstraintsHold
<1>6. PaddingHoldsWire0
  BY <1>1, <1>3, CircuitSizes DEF IInv, PaddingRows, PaddingHoldsWire0, Holds, NbRows
<1>. QED  BY <1>5, <1>6

\* The invariant holds throughout.
LEMMA Invariance == ASSUME HaveInputs  PROVE Spec => []IInv
<1>1. Init => IInv
  BY InvInit
<1>2. IInv /\ [Next]_vars => IInv'
  <2>. SUFFICES ASSUME IInv, [Next]_vars  PROVE IInv'
    OBVIOUS
  <2>1. CASE UNCHANGED vars
    BY <2>1 DEF IInv, TypeOK, ValuesOfSolved, InputsSolved, RowsFilled, PublicRows,
                PaddingRows, Holds, Assigned, vars
  <2>. QED  BY <2>1, HintStep, ConstraintStep DEF Next, Stop
<1>. QED  BY <1>1, <1>2, PTL DEF Spec

\* When a circuit that has an input is solved, each position of L, R and O holds the
\* value of the wire the setup's permutation puts there, whatever order the workers
\* solved it in (initSparseLRO and setSparseLRO against buildPermutation).
THEOREM CopyConstraints == ASSUME HaveInputs  PROVE Spec => []CopyConstraintsHold
<1>1. IInv => CopyConstraintsHold
  BY InvImplies
<1>. QED  BY <1>1, Invariance, PTL

\* With an input, the padding holds the value of wire 0 as initSparseLRO's comment says:
\* having none is the only way to break it.
THEOREM Paddings == ASSUME HaveInputs  PROVE Spec => []PaddingHoldsWire0
<1>1. IInv => PaddingHoldsWire0
  BY InvImplies
<1>. QED  BY <1>1, Invariance, PTL

-----------------------------------------------------------------------------
(* The PLONK prover: its goroutines and their steps.                         *)

\* The goroutine that closes a channel, as the last thing it does.
Closer ==
  [bp |-> "initBlindingPolynomials", LRO |-> "solveConstraints", Qk |-> "completeQk",
   GammaBeta |-> "deriveGammaAndBeta", Z |-> "buildRatioCopyConstraint",
   RestoreLRO |-> "restore", H |-> "computeQuotient", ZOpening |-> "openZ",
   LinearizedPolynomial |-> "computeLinearizedPolynomial"]

\* The goroutines outside the errgroup and the go statements that start them.
Helpers == {"restore", "evaluations"}

Starter == [restore |-> "computeQuotient", evaluations |-> "computeLinearizedPolynomial"]
StartOf == [restore |-> 9, evaluations |-> 2]

Last(g) == Len(Program[g])

Single(pairs) == \A p, q \in pairs : p[1] = q[1] => p = q

\* What the invariant needs to know of step k of goroutine g.
Proper(g, k) == LET s == Program[g][k] IN
  /\ s.op \in {"use", "wait", "close", "start", "join"}
  /\ s.op = "use" => /\ \A c \in s.closes : c \in DOMAIN Closer /\ Closer[c] = g /\ k = Last(g)
                     /\ s.fails => g \in Group
                     /\ Single(s.sets)
  /\ s.op = "close" => s.ch \in DOMAIN Closer /\ Closer[s.ch] = g /\ k = Last(g)
  /\ s.op = "wait" => g \in Group /\ k # Last(g)
  /\ s.op = "start" => s.go \in Helpers /\ Starter[s.go] = g /\ StartOf[s.go] = k /\ k # Last(g)
  /\ s.op = "join" => s.go \in Helpers /\ k # Last(g)

LEMMA GoroutineNames ==
  /\ Goroutines = {"solveConstraints", "completeQk", "initBlindingPolynomials",
                   "deriveGammaAndBeta", "buildRatioCopyConstraint", "computeQuotient", "openZ",
                   "computeLinearizedPolynomial", "batchOpening", "restore", "evaluations"}
  /\ Group = Goroutines \ Helpers /\ Helpers \subseteq Goroutines
BY DEF Goroutines, Program, Group, Helpers


\* The objects of the pairs of a step, and that it has one pair for each.
LEMMA Pairs ==
  /\ Single({}) /\ ObjectsOf({}) = {}
  /\ \A S, x : Single(All(S, x)) /\ ObjectsOf(All(S, x)) = S
  /\ \A A, B : ObjectsOf(A \union B) = ObjectsOf(A) \union ObjectsOf(B)
<1>1. Single({}) /\ ObjectsOf({}) = {}
  BY DEF Single, ObjectsOf
<1>2. ASSUME NEW S, NEW x  PROVE Single(All(S, x)) /\ ObjectsOf(All(S, x)) = S
  <2>1. \A p \in S \X {x} : p = <<p[1], x>> /\ p[1] \in S
    OBVIOUS
  <2>2. \A y \in S : <<y, x>> \in S \X {x} /\ <<y, x>>[1] = y
    OBVIOUS
  <2>3. Single(S \X {x})
    BY <2>1 DEF Single
  <2>4. ObjectsOf(S \X {x}) = S
    <3>1. \A y \in S : y \in ObjectsOf(S \X {x})
      BY <2>2, Zenon DEF ObjectsOf
    <3>2. \A y \in ObjectsOf(S \X {x}) : y \in S
      BY <2>1, Zenon DEF ObjectsOf
    <3>. QED  BY <3>1, <3>2
  <2>. QED  BY <2>3, <2>4 DEF All
<1>3. ASSUME NEW A, NEW B
      PROVE  ObjectsOf(A \union B) = ObjectsOf(A) \union ObjectsOf(B)
  BY DEF ObjectsOf
<1>. QED  BY <1>1, <1>2, <1>3

LEMMA DisjointPairs ==
  ASSUME NEW A, NEW B, Single(A), Single(B), ObjectsOf(A) \intersect ObjectsOf(B) = {}
  PROVE  Single(A \union B)
<1>. SUFFICES ASSUME NEW p \in A \union B, NEW q \in A \union B, p[1] = q[1]  PROVE p = q
  BY DEF Single
<1>1. \A y \in A : y[1] \in ObjectsOf(A)
  BY DEF ObjectsOf
<1>2. \A y \in B : y[1] \in ObjectsOf(B)
  BY DEF ObjectsOf
<1>. QED  BY <1>1, <1>2 DEF Single

LEMMA TwoParts ==
  ASSUME NEW S, NEW T, S \intersect T = {}, NEW x, NEW y
  PROVE  Single(All(S, x) \union All(T, y))
BY Pairs, DisjointPairs

LEMMA ThreeParts ==
  ASSUME NEW S, NEW T, NEW U, S \intersect T = {}, S \intersect U = {}, T \intersect U = {},
         NEW x, NEW y, NEW z
  PROVE  Single(All(S, x) \union All(T, y) \union All(U, z))
<1>1. Single(All(S, x) \union All(T, y))
  BY TwoParts
<1>2. ObjectsOf(All(S, x) \union All(T, y)) \intersect ObjectsOf(All(U, z)) = {}
  BY Pairs
<1>. QED  BY <1>1, <1>2, Pairs, DisjointPairs

LEMMA CloserNames == \A c \in DOMAIN Closer : Closer[c] \in Goroutines
BY GoroutineNames DEF Closer

\* The steps of each goroutine, and that the invariant may rely on them.
LEMMA SolveConstraintsSteps ==
  LET g == "solveConstraints" IN Last(g) = 4 /\ \A k \in 1 .. 4 : Proper(g, k)
<1>. DEFINE g == "solveConstraints"
<1>1. Last(g) = 4
  BY DEF Program, SolveConstraints, Last
<1>2. Single(All(LRO \union {"cCommitments"}, "values")
            \union All({"commitmentVal", "bsb22"}, "set"))
  BY TwoParts DEF LRO
<1>3. Single(All(LRO, "values") \union All({"proof.LRO"}, "set"))
  BY TwoParts DEF LRO
<1>. USE <1>1, <1>2, <1>3, GoroutineNames
       DEF Program, SolveConstraints, Proper, Use, MayFail, Access, Wait, Close, Start, Join,
           None, Closer, Helpers, Starter, StartOf
<1>4. Proper(g, 1)
  OBVIOUS
<1>5. Proper(g, 2)
  OBVIOUS
<1>6. Proper(g, 3)
  OBVIOUS
<1>7. Proper(g, 4)
  OBVIOUS
<1>. HIDE DEF Proper, Program
<1>. QED  BY <1>1, <1>4, <1>5, <1>6, <1>7

LEMMA CompleteQkSteps ==
  LET g == "completeQk" IN Last(g) = 4 /\ \A k \in 1 .. 4 : Proper(g, k)
<1>. DEFINE g == "completeQk"
<1>1. Last(g) = 4
  BY DEF Program, CompleteQk, Last
<1>2. Single({}) /\ Single(All({"Qk"}, "values"))
  BY Pairs
<1>. USE <1>1, <1>2, GoroutineNames
       DEF Program, CompleteQk, Proper, Use, MayFail, Access, Wait, Close, Start, Join, None,
           Closer, Helpers, Starter, StartOf
<1>3. Proper(g, 1)
  OBVIOUS
<1>4. Proper(g, 2)
  OBVIOUS
<1>5. Proper(g, 3)
  OBVIOUS
<1>6. Proper(g, 4)
  OBVIOUS
<1>. HIDE DEF Proper, Program
<1>. QED  BY <1>1, <1>3, <1>4, <1>5, <1>6

LEMMA InitBlindingPolynomialsSteps ==
  LET g == "initBlindingPolynomials" IN Last(g) = 2 /\ \A k \in 1 .. 2 : Proper(g, k)
<1>. DEFINE g == "initBlindingPolynomials"
<1>1. Last(g) = 2
  BY DEF Program, InitBlindingPolynomials, Last
<1>2. Single(All({"bpLRO", "bpZ"}, "random"))
  BY Pairs
<1>. USE <1>1, <1>2, GoroutineNames
       DEF Program, InitBlindingPolynomials, Proper, Use, MayFail, Access, Wait, Close, Start,
           Join, None, Closer, Helpers, Starter, StartOf
<1>3. Proper(g, 1)
  OBVIOUS
<1>4. Proper(g, 2)
  OBVIOUS
<1>. HIDE DEF Proper, Program
<1>. QED  BY <1>1, <1>3, <1>4

LEMMA DeriveGammaAndBetaSteps ==
  LET g == "deriveGammaAndBeta" IN Last(g) = 5 /\ \A k \in 1 .. 5 : Proper(g, k)
<1>. DEFINE g == "deriveGammaAndBeta"
<1>1. Last(g) = 5
  BY DEF Program, DeriveGammaAndBeta, Last
<1>2. Single(All({"fs"}, "public")) /\ Single(All({"fs"}, "gamma"))
  BY Pairs
<1>3. Single(All({"fs"}, "beta") \union All({"gammaBeta"}, "set"))
  BY TwoParts
<1>. USE <1>1, <1>2, <1>3, GoroutineNames
       DEF Program, DeriveGammaAndBeta, Proper, Use, MayFail, Access, Wait, Close, Start, Join,
           None, Closer, Helpers, Starter, StartOf
<1>4. Proper(g, 1)
  OBVIOUS
<1>5. Proper(g, 2)
  OBVIOUS
<1>6. Proper(g, 3)
  OBVIOUS
<1>7. Proper(g, 4)
  OBVIOUS
<1>8. Proper(g, 5)
  OBVIOUS
<1>. HIDE DEF Proper, Program
<1>. QED  BY <1>1, <1>4, <1>5, <1>6, <1>7, <1>8

LEMMA BuildRatioCopyConstraintSteps ==
  LET g == "buildRatioCopyConstraint" IN Last(g) = 3 /\ \A k \in 1 .. 3 : Proper(g, k)
<1>. DEFINE g == "buildRatioCopyConstraint"
<1>1. Last(g) = 3
  BY DEF Program, BuildRatioCopyConstraint, Last
<1>2. Single(All({"Z"}, "values")) /\ Single(All({"proof.Z"}, "set"))
  BY Pairs
<1>. USE <1>1, <1>2, GoroutineNames
       DEF Program, BuildRatioCopyConstraint, Proper, Use, MayFail, Access, Wait, Close, Start,
           Join, None, Closer, Helpers, Starter, StartOf
<1>3. Proper(g, 1)
  OBVIOUS
<1>4. Proper(g, 2)
  OBVIOUS
<1>5. Proper(g, 3)
  OBVIOUS
<1>. HIDE DEF Proper, Program
<1>. QED  BY <1>1, <1>3, <1>4, <1>5

LEMMA ComputeQuotientSteps ==
  LET g == "computeQuotient" IN Last(g) = 14 /\ \A k \in 1 .. 14 : Proper(g, k)
<1>. DEFINE g == "computeQuotient"
<1>1. Last(g) = 14
  BY DEF Program, ComputeQuotient, Last
<1>2. Single({}) /\ Single(All({"ZS"}, "shifted")) /\ Single(All({"h"}, "canonical"))
  BY Pairs
<1>3. Single(All({"proof.H"}, "set")) /\ Single(All(Trans \union {"bpLRO", "bpZ", "Qk"}, "coset"))
  BY Pairs
<1>4. Single(All({"fs"}, "alpha") \union All({"alpha"}, "set"))
  BY TwoParts
<1>5. Single(All({"fs"}, "zeta") \union All({"zeta"}, "set"))
  BY TwoParts
<1>. USE <1>1, <1>2, <1>3, <1>4, <1>5, GoroutineNames
       DEF Program, ComputeQuotient, Numerator, Proper, Use, MayFail, Access, Wait, Close, Start,
           Join, None, Closer, Helpers, Starter, StartOf
<1>6. Proper(g, 1)
  OBVIOUS
<1>7. Proper(g, 2)
  OBVIOUS
<1>8. Proper(g, 3)
  OBVIOUS
<1>9. Proper(g, 4)
  OBVIOUS
<1>10. Proper(g, 5)
  OBVIOUS
<1>11. Proper(g, 6)
  OBVIOUS
<1>12. Proper(g, 7)
  OBVIOUS
<1>13. Proper(g, 8)
  OBVIOUS
<1>14. Proper(g, 9)
  OBVIOUS
<1>15. Proper(g, 10)
  OBVIOUS
<1>16. Proper(g, 11)
  OBVIOUS
<1>17. Proper(g, 12)
  OBVIOUS
<1>18. Proper(g, 13)
  OBVIOUS
<1>19. Proper(g, 14)
  OBVIOUS
<1>. HIDE DEF Proper, Program
<1>. QED  BY <1>1, <1>6, <1>7, <1>8, <1>9, <1>10, <1>11, <1>12, <1>13, <1>14, <1>15, <1>16, <1>17,
             <1>18, <1>19

LEMMA OpenZSteps ==
  LET g == "openZ" IN Last(g) = 3 /\ \A k \in 1 .. 3 : Proper(g, k)
<1>. DEFINE g == "openZ"
<1>1. Last(g) = 3
  BY DEF Program, OpenZ, Last
<1>2. Single(All({"Z", "blindedZ"}, "blinded") \union All({"opening"}, "set"))
  BY TwoParts
<1>. USE <1>1, <1>2, GoroutineNames
       DEF Program, OpenZ, Proper, Use, MayFail, Access, Wait, Close, Start, Join, None, Closer,
           Helpers, Starter, StartOf
<1>3. Proper(g, 1)
  OBVIOUS
<1>4. Proper(g, 2)
  OBVIOUS
<1>5. Proper(g, 3)
  OBVIOUS
<1>. HIDE DEF Proper, Program
<1>. QED  BY <1>1, <1>3, <1>4, <1>5

LEMMA ComputeLinearizedPolynomialSteps ==
  LET g == "computeLinearizedPolynomial" IN Last(g) = 6 /\ \A k \in 1 .. 6 : Proper(g, k)
<1>. DEFINE g == "computeLinearizedPolynomial"
<1>1. Last(g) = 6
  BY DEF Program, ComputeLinearizedPolynomial, Last
<1>2. Single(All({"blindedZ"}, "linearized") \union All({"trace.Qk"}, "canonical")
              \union All({"linearizedPolynomial"}, "set"))
  BY ThreeParts
<1>. USE <1>1, <1>2, GoroutineNames
       DEF Program, ComputeLinearizedPolynomial, Proper, Use, MayFail, Access, Wait, Close, Start,
           Join, None, Closer, Helpers, Starter, StartOf
<1>3. Proper(g, 1)
  OBVIOUS
<1>4. Proper(g, 2)
  OBVIOUS
<1>5. Proper(g, 3)
  OBVIOUS
<1>6. Proper(g, 4)
  OBVIOUS
<1>7. Proper(g, 5)
  OBVIOUS
<1>8. Proper(g, 6)
  OBVIOUS
<1>. HIDE DEF Proper, Program
<1>. QED  BY <1>1, <1>3, <1>4, <1>5, <1>6, <1>7, <1>8

LEMMA BatchOpeningSteps ==
  LET g == "batchOpening" IN Last(g) = 2 /\ \A k \in 1 .. 2 : Proper(g, k)
<1>. DEFINE g == "batchOpening"
<1>1. Last(g) = 2
  BY DEF Program, BatchOpening, Last
<1>2. Single(All(LRO, "blinded") \union All({"proof.Batched"}, "set"))
  BY TwoParts DEF LRO
<1>. USE <1>1, <1>2, GoroutineNames
       DEF Program, BatchOpening, Proper, Use, MayFail, Access, Wait, Close, Start, Join, None,
           Closer, Helpers, Starter, StartOf
<1>3. Proper(g, 1)
  OBVIOUS
<1>4. Proper(g, 2)
  OBVIOUS
<1>. HIDE DEF Proper, Program
<1>. QED  BY <1>1, <1>3, <1>4

LEMMA RestoreSteps ==
  LET g == "restore" IN Last(g) = 2 /\ \A k \in 1 .. 2 : Proper(g, k)
<1>. DEFINE g == "restore"
<1>1. Last(g) = 2
  BY DEF Program, Restore, Last
<1>2. Single(All(Trans, "canonical") \union All({"bpLRO", "bpZ"}, "random")
              \union All({"ZS", "Qk"}, "unset"))
  BY ThreeParts DEF Trans, LRO
<1>. USE <1>1, <1>2, GoroutineNames
       DEF Program, Restore, Proper, Use, MayFail, Access, Wait, Close, Start, Join, None, Closer,
           Helpers, Starter, StartOf
<1>3. Proper(g, 1)
  OBVIOUS
<1>4. Proper(g, 2)
  OBVIOUS
<1>. HIDE DEF Proper, Program
<1>. QED  BY <1>1, <1>3, <1>4

LEMMA EvaluationsSteps ==
  LET g == "evaluations" IN Last(g) = 1 /\ \A k \in 1 .. 1 : Proper(g, k)
<1>. DEFINE g == "evaluations"
<1>1. Last(g) = 1
  BY DEF Program, Evaluations, Last
<1>2. Single({})
  BY Pairs
<1>. USE <1>1, <1>2, GoroutineNames
       DEF Program, Evaluations, Proper, Use, MayFail, Access, Wait, Close, Start, Join, None,
           Closer, Helpers, Starter, StartOf
<1>3. Proper(g, 1)
  OBVIOUS
<1>. HIDE DEF Proper, Program
<1>. QED  BY <1>1, <1>3

\* All goroutines are made of such steps.
LEMMA ProperProgram ==
  ASSUME NEW g \in Goroutines
  PROVE  Last(g) \in Nat \ {0} /\ \A k \in 1 .. Last(g) : Proper(g, k)
BY GoroutineNames, SolveConstraintsSteps, CompleteQkSteps, InitBlindingPolynomialsSteps,
   DeriveGammaAndBetaSteps, BuildRatioCopyConstraintSteps, ComputeQuotientSteps, OpenZSteps,
   ComputeLinearizedPolynomialSteps, BatchOpeningSteps, RestoreSteps, EvaluationsSteps

-----------------------------------------------------------------------------
(* The channels and the goroutines.                                          *)

AtEnd(g) == status[g] = "ended" /\ pc[g] = Last(g)

GoroutineTypes ==
  /\ status \in [Goroutines -> {"none", "running", "using", "ended"}]
  /\ pc \in [Goroutines -> Nat] /\ \A g \in Goroutines : pc[g] \in 1 .. Last(g)
  /\ ret \in [Goroutines -> {"nil", "ctx", "cause"}]
  /\ result \in {"none", "nil", "cause"}

\* A closed channel tells that the goroutine that closes it has done all it does.
ClosedAtEnd == \A c \in closed : c \in DOMAIN Closer /\ AtEnd(Closer[c])

\* What a goroutine has behind it: the channels it waited for are closed, the helpers it
\* started exist, those it joined have ended.
PassedSteps ==
  \A g \in Goroutines : \A k \in 1 .. pc[g] - 1 : LET s == Program[g][k] IN
    /\ s.op = "wait" => s.ch \in closed
    /\ s.op = "start" => status[s.go] # "none"
    /\ s.op = "join" => AtEnd(s.go)

Accessing == \A g \in Goroutines : status[g] = "using" => Step(g).op = "use"

Started ==
  /\ \A g \in Goroutines : status[g] = "none" => g \in Helpers /\ pc[g] = 1
  /\ \A h \in Helpers : status[h] # "none" => pc[Starter[h]] > StartOf[h]

\* What a goroutine returned, and what the errgroup and Prove made of it.
Returned ==
  /\ \A g \in Goroutines :
       /\ status[g] # "ended" => ret[g] = "nil"
       /\ status[g] = "ended" /\ ret[g] = "nil" => pc[g] = Last(g)
       /\ ret[g] # "nil" => g \in Group /\ err = "cause"
  /\ err \in {"none", "cause"}
  /\ err = "cause" => \E g \in Group : ret[g] = "cause"

Results ==
  /\ result # "none" => \A g \in Group : status[g] = "ended"
  /\ result = "nil" => err = "none"
  /\ result = "cause" => err = "cause"

Sync == /\ GoroutineTypes /\ ClosedAtEnd /\ PassedSteps /\ Accessing
        /\ Started /\ Returned /\ Results

\* How a goroutine's step leaves the others alone.
Others(g) ==
  \A h \in Goroutines : h # g =>
    status'[h] = status[h] /\ pc'[h] = pc[h] /\ ret'[h] = ret[h]

\* What stays when goroutine g, which has not ended, takes a step.
LEMMA EndsStay ==
  ASSUME NEW g \in Goroutines, status[g] # "ended", Others(g),
         NEW h \in Goroutines, AtEnd(h)
  PROVE  AtEnd(h)'
BY DEF Others, AtEnd, Last

LEMMA PassedStay ==
  ASSUME Sync, NEW g \in Goroutines, Others(g), pc' = pc, closed \subseteq closed',
         status[g] # "none", status'[g] # "none",
         \A h \in Goroutines : AtEnd(h) => AtEnd(h)'
  PROVE  PassedSteps'
<1>. SUFFICES ASSUME NEW h \in Goroutines, NEW k \in 1 .. pc[h] - 1
              PROVE  LET s == Program[h][k] IN
                     /\ s.op = "wait" => s.ch \in closed'
                     /\ s.op = "start" => status'[s.go] # "none"
                     /\ s.op = "join" => AtEnd(s.go)'
  BY DEF PassedSteps
<1>. DEFINE s == Program[h][k]
<1>1. s.op \in {"start", "join"} => s.go \in Goroutines
  <2>1. k \in 1 .. Last(h)
    BY ProperProgram DEF Sync, GoroutineTypes
  <2>2. Proper(h, k)
    BY <2>1, ProperProgram
  <2>. QED  BY <2>2, GoroutineNames DEF Proper
<1>2. /\ s.op = "wait" => s.ch \in closed
      /\ s.op = "start" => status[s.go] # "none"
      /\ s.op = "join" => AtEnd(s.go)
  BY DEF Sync, PassedSteps
<1>. QED  BY <1>1, <1>2 DEF Others

\* A goroutine goes on to its next step, or returns nil, after a step that is no start.
LEMMA AdvanceSync ==
  ASSUME Sync, NEW g \in Goroutines, status[g] \in {"running", "using"}, Advance(g),
         Step(g).op # "start", Step(g).op = "wait" => Step(g).ch \in closed,
         Step(g).op = "join" => AtEnd(Step(g).go),
         NEW C, closed' = closed \union C,
         \A c \in C : c \in DOMAIN Closer /\ Closer[c] = g /\ pc[g] = Last(g),
         result' = result
  PROVE  Sync'
<1>. DEFINE more == pc[g] < Last(g)
<1>1. /\ pc[g] \in 1 .. Last(g) /\ Last(g) \in Nat
      /\ \A h \in Goroutines : Last(h) \in Nat
      /\ ret[g] = "nil"
  BY ProperProgram DEF Sync, GoroutineTypes, Returned
<1>2. /\ Others(g) /\ err' = err /\ ret' = ret
      /\ pc'[g] = IF more THEN pc[g] + 1 ELSE pc[g]
      /\ status'[g] = IF more THEN "running" ELSE "ended"
  <2>1. CASE more
    BY <2>1, <1>1 DEF Advance, Sync, GoroutineTypes, Others, Last
  <2>2. CASE ~more
    <3>1. Return(g, "nil")
      BY <2>2 DEF Advance, Last
    <3>2. FirstError(g, "nil") = err
      BY DEF FirstError
    <3>. QED  BY <2>2, <3>1, <3>2, <1>1 DEF Return, Sync, GoroutineTypes, Others
  <2>. QED  BY <2>1, <2>2
<1>3. GoroutineTypes'
  <2>1. /\ status' \in [Goroutines -> {"none", "running", "using", "ended"}]
        /\ pc' \in [Goroutines -> Nat]
    <3>1. CASE more
      BY <3>1, <1>1 DEF Advance, Sync, GoroutineTypes, Last
    <3>2. CASE ~more
      BY <3>2, <1>1 DEF Advance, Return, Sync, GoroutineTypes, Last
    <3>. QED  BY <3>1, <3>2
  <2>2. \A h \in Goroutines : pc'[h] \in 1 .. Last(h)
    BY <1>1, <1>2 DEF Others, Sync, GoroutineTypes
  <2>. QED  BY <2>1, <2>2, <1>2 DEF Sync, GoroutineTypes, Last
<1>4. \A h \in Goroutines : AtEnd(h) => AtEnd(h)'
  BY <1>2, EndsStay
<1>5. ~more => AtEnd(g)'
  BY <1>1, <1>2 DEF AtEnd, Last
<1>6. ClosedAtEnd'
  <2>. SUFFICES ASSUME NEW c \in closed'  PROVE c \in DOMAIN Closer /\ AtEnd(Closer[c])'
    BY DEF ClosedAtEnd
  <2>1. CASE c \in closed
    <3>1. c \in DOMAIN Closer /\ AtEnd(Closer[c])
      BY <2>1 DEF Sync, ClosedAtEnd
    <3>. QED  BY <3>1, <1>4, CloserNames
  <2>2. CASE c \in C
    BY <2>2, <1>1, <1>5
  <2>. QED  BY <2>1, <2>2
<1>7. PassedSteps'
  <2>. SUFFICES ASSUME NEW h \in Goroutines, NEW k \in 1 .. pc'[h] - 1
                PROVE  LET s == Program[h][k] IN
                       /\ s.op = "wait" => s.ch \in closed'
                       /\ s.op = "start" => status'[s.go] # "none"
                       /\ s.op = "join" => AtEnd(s.go)'
    BY DEF PassedSteps
  <2>. DEFINE s == Program[h][k]
  <2>0. k \in 1 .. Last(h) /\ Proper(h, k)
    BY <1>3, <1>1, ProperProgram DEF GoroutineTypes
  <2>4. s.op \in {"start", "join"} => s.go \in Goroutines
    BY <2>0, GoroutineNames DEF Proper
  <2>1. CASE k \in 1 .. pc[h] - 1
    <3>1. /\ s.op = "wait" => s.ch \in closed
          /\ s.op = "start" => status[s.go] # "none"
          /\ s.op = "join" => AtEnd(s.go)
      BY <2>1 DEF Sync, PassedSteps
    <3>. QED  BY <3>1, <2>4, <1>2, <1>4 DEF Others
  <2>2. CASE h = g /\ k = pc[g]
    <3>1. s = Step(g)
      BY <2>2 DEF Step
    <3>. QED  BY <3>1, <2>4, <1>4
  <2>3. k \in 1 .. pc[h] - 1 \/ (h = g /\ k = pc[g])
    BY <1>1, <1>2 DEF Others, Sync, GoroutineTypes
  <2>. QED  BY <2>1, <2>2, <2>3
<1>8. Accessing'
  BY <1>2 DEF Sync, Accessing, Others, Step
<1>9. Started'
  <2>1. \A h \in Helpers : h \in Goroutines /\ Starter[h] \in Goroutines /\ StartOf[h] \in Nat
    BY GoroutineNames DEF Helpers, Starter, StartOf
  <2>2. \A h \in Helpers : status'[h] # "none" => pc[Starter[h]] > StartOf[h]
    BY <2>1, <1>2 DEF Sync, Started, Others
  <2>3. \A h \in Goroutines : pc'[h] >= pc[h] /\ pc'[h] \in Nat /\ pc[h] \in Nat
    BY <1>2, <1>1 DEF Others, Sync, GoroutineTypes
  <2>4. \A h \in Goroutines : status'[h] = "none" => h \in Helpers /\ pc'[h] = 1
    BY <1>2 DEF Sync, Started, Others
  <2>. QED  BY <2>1, <2>2, <2>3, <2>4 DEF Started
<1>10. Returned'
  <2>1. \A h \in Goroutines : status'[h] # "ended" => ret'[h] = "nil"
    BY <1>1, <1>2 DEF Sync, Returned, Others
  <2>2. \A h \in Goroutines : status'[h] = "ended" /\ ret'[h] = "nil" => pc'[h] = Last(h)
    BY <1>1, <1>2 DEF Sync, Returned, Others
  <2>. QED  BY <2>1, <2>2, <1>2 DEF Sync, Returned, Last
<1>11. Results'
  <2>1. \A h \in Goroutines : status[h] = "ended" => status'[h] = "ended"
    BY <1>2 DEF Others
  <2>2. Group \subseteq Goroutines
    BY GoroutineNames
  <2>. QED  BY <2>1, <2>2, <1>2 DEF Sync, Results
<1>. QED  BY <1>3, <1>6, <1>7, <1>8, <1>9, <1>10, <1>11 DEF Sync

\* A goroutine of the errgroup returns an error.
LEMMA ReturnSync ==
  ASSUME Sync, NEW g \in Group, status[g] \in {"running", "using"},
         NEW e \in {"cause", "ctx"}, Return(g, e), e = "ctx" => err # "none",
         NEW C, closed' = closed \union C,
         \A c \in C : c \in DOMAIN Closer /\ Closer[c] = g /\ pc[g] = Last(g),
         result' = result
  PROVE  Sync'
<1>1. /\ g \in Goroutines /\ Group \subseteq Goroutines /\ err \in {"none", "cause"}
      /\ \A h \in Goroutines : Last(h) \in Nat
  BY GoroutineNames, ProperProgram DEF Sync, Returned
<1>2. /\ Others(g) /\ err' = "cause" /\ pc' = pc
      /\ status'[g] = "ended" /\ ret'[g] = e
  BY <1>1 DEF Return, FirstError, Sync, GoroutineTypes, Others
<1>3. GoroutineTypes'
  BY <1>1 DEF Return, Sync, GoroutineTypes, Last
<1>4. \A h \in Goroutines : AtEnd(h) => AtEnd(h)'
  BY <1>1, <1>2, EndsStay
<1>5. pc[g] = Last(g) => AtEnd(g)'
  BY <1>1, <1>2 DEF AtEnd, Last
<1>6. ClosedAtEnd'
  <2>. SUFFICES ASSUME NEW c \in closed'  PROVE c \in DOMAIN Closer /\ AtEnd(Closer[c])'
    BY DEF ClosedAtEnd
  <2>1. CASE c \in closed
    <3>1. c \in DOMAIN Closer /\ AtEnd(Closer[c])
      BY <2>1 DEF Sync, ClosedAtEnd
    <3>. QED  BY <3>1, <1>4, CloserNames
  <2>2. CASE c \in C
    BY <2>2, <1>1, <1>5
  <2>. QED  BY <2>1, <2>2
<1>7. PassedSteps'
  BY <1>1, <1>2, <1>4, PassedStay
<1>8. Accessing'
  BY <1>2 DEF Sync, Accessing, Others, Step
<1>9. Started'
  <2>1. \A h \in Goroutines : status'[h] = "none" <=> status[h] = "none"
    BY <1>2 DEF Others
  <2>2. Helpers \subseteq Goroutines
    BY GoroutineNames
  <2>. QED  BY <2>1, <2>2, <1>2 DEF Sync, Started
<1>10. Returned'
  <2>1. \A h \in Goroutines : status'[h] # "ended" => ret'[h] = "nil"
    BY <1>1, <1>2 DEF Sync, Returned, Others
  <2>2. \A h \in Goroutines : status'[h] = "ended" /\ ret'[h] = "nil" => pc'[h] = Last(h)
    BY <1>1, <1>2 DEF Sync, Returned, Others
  <2>3. \A h \in Goroutines : ret'[h] # "nil" => h \in Group
    BY <1>1, <1>2 DEF Sync, Returned, Others
  <2>4. \E h \in Group : ret'[h] = "cause"
    <3>1. CASE e = "cause"
      BY <3>1, <1>2
    <3>2. CASE e = "ctx"
      <4>1. PICK h \in Group : ret[h] = "cause"
        BY <3>2, <1>1 DEF Sync, Returned
      <4>2. h # g
        BY <4>1, <1>1 DEF Sync, Returned
      <4>. QED  BY <4>1, <4>2, <1>1, <1>2 DEF Others
    <3>. QED  BY <3>1, <3>2
  <2>. QED  BY <2>1, <2>2, <2>3, <2>4, <1>2 DEF Returned, Last
<1>11. Results'
  <2>1. result = "none"
    BY DEF Sync, Results
  <2>. QED  BY <2>1 DEF Results
<1>. QED  BY <1>3, <1>6, <1>7, <1>8, <1>9, <1>10, <1>11 DEF Sync

LEMMA BeginSync ==
  ASSUME Sync, NEW g \in Goroutines, Begin(g)
  PROVE  Sync'
<1>1. /\ status[g] = "running" /\ Step(g).op = "use" /\ status'[g] = "using"
      /\ pc' = pc /\ ret' = ret /\ closed' = closed /\ err' = err /\ result' = result
      /\ Others(g)
  BY DEF Begin, At, Sync, GoroutineTypes, Others
<1>2. GoroutineTypes'
  BY <1>1 DEF Begin, Sync, GoroutineTypes, Last
<1>3. \A h \in Goroutines : AtEnd(h) => AtEnd(h)'
  BY <1>1, EndsStay
<1>4. ClosedAtEnd'
  BY <1>1, <1>3, CloserNames DEF Sync, ClosedAtEnd
<1>5. PassedSteps'
  BY <1>1, <1>3, PassedStay
<1>6. Accessing'
  BY <1>1 DEF Sync, Accessing, Others, Step
<1>7. Started'
  <2>1. \A h \in Goroutines : status'[h] = "none" <=> status[h] = "none"
    BY <1>1 DEF Others
  <2>2. Helpers \subseteq Goroutines
    BY GoroutineNames
  <2>. QED  BY <2>1, <2>2, <1>1 DEF Sync, Started
<1>8. Returned'
  <2>1. \A h \in Goroutines : status'[h] = "ended" <=> status[h] = "ended"
    BY <1>1 DEF Others
  <2>. QED  BY <2>1, <1>1 DEF Sync, Returned, Last
<1>9. Results'
  <2>1. \A h \in Goroutines : status'[h] = "ended" <=> status[h] = "ended"
    BY <1>1 DEF Others
  <2>. QED  BY <2>1, <1>1, GoroutineNames DEF Sync, Results
<1>. QED  BY <1>2, <1>4, <1>5, <1>6, <1>7, <1>8, <1>9 DEF Sync

LEMMA StartSync ==
  ASSUME Sync, NEW g \in Goroutines, StartGoroutine(g)
  PROVE  Sync'
<1>. DEFINE h == Step(g).go
<1>1. /\ pc[g] \in 1 .. Last(g) /\ Last(g) \in Nat /\ Proper(g, pc[g])
      /\ \A f \in Goroutines : pc[f] \in Nat
  BY ProperProgram DEF Sync, GoroutineTypes
<1>2. /\ status[g] = "running" /\ h \in Helpers /\ h \in Goroutines
      /\ Starter[h] = g /\ StartOf[h] = pc[g] /\ pc[g] < Last(g)
  <2>1. status[g] = "running" /\ Step(g).op = "start"
    BY DEF StartGoroutine, At
  <2>2. h \in Helpers /\ Starter[h] = g /\ StartOf[h] = pc[g] /\ pc[g] # Last(g)
    BY <2>1, <1>1 DEF Proper, Step
  <2>3. pc[g] < Last(g)
    BY <2>2, <1>1
  <2>4. h \in Goroutines
    BY <2>2, GoroutineNames
  <2>. QED  BY <2>1, <2>2, <2>3, <2>4
<1>3. status[h] = "none" /\ h # g
  <2>1. ~(pc[g] > pc[g])
    BY <1>1
  <2>. QED  BY <2>1, <1>2 DEF Sync, Started
<1>4. /\ \A f \in Goroutines : status'[f] = IF f = h THEN "running" ELSE status[f]
      /\ \A f \in Goroutines : pc'[f] = IF f = g THEN pc[g] + 1 ELSE pc[f]
      /\ ret' = ret /\ closed' = closed /\ err' = err /\ result' = result
  BY DEF StartGoroutine, Sync, GoroutineTypes
<1>5. GoroutineTypes'
  <2>1. /\ status' \in [Goroutines -> {"none", "running", "using", "ended"}]
        /\ pc' \in [Goroutines -> Nat]
    <3>1. status' = [status EXCEPT ![h] = "running"] /\ pc' = [pc EXCEPT ![g] = @ + 1]
      BY DEF StartGoroutine
    <3>. QED  BY <3>1, <1>1, <1>2 DEF Sync, GoroutineTypes
  <2>2. \A f \in Goroutines : pc'[f] \in 1 .. Last(f)
    BY <1>1, <1>2, <1>4 DEF Sync, GoroutineTypes
  <2>. QED  BY <2>1, <2>2, <1>4 DEF Sync, GoroutineTypes, Last
<1>6. \A f \in Goroutines : AtEnd(f) => AtEnd(f)'
  BY <1>2, <1>3, <1>4 DEF AtEnd, Last
<1>7. ClosedAtEnd'
  BY <1>4, <1>6, CloserNames DEF Sync, ClosedAtEnd
<1>8. PassedSteps'
  <2>. SUFFICES ASSUME NEW f \in Goroutines, NEW k \in 1 .. pc'[f] - 1
                PROVE  LET s == Program[f][k] IN
                       /\ s.op = "wait" => s.ch \in closed'
                       /\ s.op = "start" => status'[s.go] # "none"
                       /\ s.op = "join" => AtEnd(s.go)'
    BY DEF PassedSteps
  <2>. DEFINE s == Program[f][k]
  <2>0. k \in 1 .. Last(f)
    BY <1>5, ProperProgram DEF GoroutineTypes, Last
  <2>9. Proper(f, k)
    BY <2>0, ProperProgram
  <2>1. s.op \in {"start", "join"} => s.go \in Goroutines
    BY <2>9, GoroutineNames DEF Proper
  <2>2. CASE k \in 1 .. pc[f] - 1
    <3>1. /\ s.op = "wait" => s.ch \in closed
          /\ s.op = "start" => status[s.go] # "none"
          /\ s.op = "join" => AtEnd(s.go)
      BY <2>2 DEF Sync, PassedSteps
    <3>. QED  BY <3>1, <2>1, <1>4, <1>6
  <2>3. CASE f = g /\ k = pc[g]
    <3>1. s.op = "start" /\ s.go = h
      BY <2>3 DEF StartGoroutine, At, Step
    <3>. QED  BY <3>1, <1>2, <1>4
  <2>4. k \in 1 .. pc[f] - 1 \/ (f = g /\ k = pc[g])
    BY <1>1, <1>4
  <2>. QED  BY <2>2, <2>3, <2>4
<1>9. Accessing'
  <2>. SUFFICES ASSUME NEW f \in Goroutines, status'[f] = "using"  PROVE Step(f)'.op = "use"
    BY DEF Accessing
  <2>1. f # h /\ f # g /\ status[f] = "using"
    BY <1>2, <1>3, <1>4
  <2>. QED  BY <2>1, <1>4 DEF Sync, Accessing, Step
<1>10. Started'
  <2>1. \A f \in Helpers : f \in Goroutines /\ Starter[f] \in Goroutines /\ StartOf[f] \in Nat
    BY GoroutineNames DEF Helpers, Starter, StartOf
  <2>2. ASSUME NEW f \in Helpers, status'[f] # "none"  PROVE pc'[Starter[f]] > StartOf[f]
    <3>1. CASE f = h
      BY <3>1, <1>1, <1>2, <1>4
    <3>2. CASE f # h
      BY <3>2, <2>1, <2>2, <1>1, <1>4 DEF Sync, Started
    <3>. QED  BY <3>1, <3>2
  <2>3. ASSUME NEW f \in Goroutines, status'[f] = "none"  PROVE f \in Helpers /\ pc'[f] = 1
    BY <2>3, <1>2, <1>4 DEF Sync, Started
  <2>. QED  BY <2>2, <2>3 DEF Started
<1>11. Returned'
  <2>1. \A f \in Goroutines : status'[f] # "ended" => ret'[f] = "nil"
    BY <1>2, <1>3, <1>4 DEF Sync, Returned
  <2>2. \A f \in Goroutines : status'[f] = "ended" => status[f] = "ended" /\ f # g
    BY <1>2, <1>4
  <2>3. \A f \in Goroutines : status'[f] = "ended" /\ ret'[f] = "nil" => pc'[f] = Last(f)
    BY <2>2, <1>4 DEF Sync, Returned
  <2>. QED  BY <2>1, <2>3, <1>4 DEF Sync, Returned, Last
<1>12. Results'
  <2>1. \A f \in Goroutines : status[f] = "ended" => status'[f] = "ended"
    BY <1>3, <1>4
  <2>. QED  BY <2>1, <1>4, GoroutineNames DEF Sync, Results
<1>. QED  BY <1>5, <1>7, <1>8, <1>9, <1>10, <1>11, <1>12 DEF Sync

LEMMA WaitSync ==
  ASSUME Sync, WaitGroup
  PROVE  Sync'
<1>1. /\ UNCHANGED <<status, pc, ret, closed, err>>
      /\ \A g \in Group : status[g] = "ended"
      /\ result' = IF err = "none" THEN "nil" ELSE err
  BY DEF WaitGroup
<1>2. err \in {"none", "cause"}
  BY DEF Sync, Returned
<1>3. GoroutineTypes' /\ Results'
  BY <1>1, <1>2 DEF Sync, GoroutineTypes, Results, Last
<1>4. ClosedAtEnd' /\ PassedSteps' /\ Accessing' /\ Started' /\ Returned'
  BY <1>1 DEF Sync, ClosedAtEnd, PassedSteps, Accessing, Started, Returned, AtEnd, Step, Last
<1>. QED  BY <1>3, <1>4 DEF Sync

\* The channels, helpers and errors are as they should be at the start.
LEMMA SyncInit == ProverInit => Sync
<1>. SUFFICES ASSUME ProverInit  PROVE Sync
  OBVIOUS
<1>1. /\ \A g \in Goroutines : /\ status[g] = IF g \in Group THEN "running" ELSE "none"
                              /\ pc[g] = 1 /\ ret[g] = "nil"
                              /\ Last(g) \in Nat \ {0}
      /\ closed = {} /\ err = "none" /\ result = "none"
  BY ProperProgram DEF ProverInit
<1>2. GoroutineTypes
  BY <1>1 DEF ProverInit, GoroutineTypes
<1>3. PassedSteps
  BY <1>1 DEF PassedSteps
<1>4. ClosedAtEnd /\ Accessing /\ Started /\ Returned /\ Results
  BY <1>1, GoroutineNames DEF ClosedAtEnd, Accessing, Started, Returned, Results, AtEnd
<1>. QED  BY <1>2, <1>3, <1>4 DEF Sync

\* Each step of a goroutine is one of the above.
LEMMA GoroutineSync ==
  ASSUME Sync, NEW g \in Goroutines, Goroutine(g)
  PROVE  Sync'
<1>1. pc[g] \in 1 .. Last(g) /\ Proper(g, pc[g]) /\ Group \subseteq Goroutines
  BY ProperProgram, GoroutineNames DEF Sync, GoroutineTypes
<1>2. CASE Begin(g)
  BY <1>2, BeginSync
<1>3. CASE Succeed(g)
  <2>1. /\ status[g] = "using" /\ Advance(g) /\ result' = result
        /\ closed' = closed \union Step(g).closes
    BY <1>3 DEF Succeed
  <2>2. Step(g).op = "use"
    BY <2>1 DEF Sync, Accessing
  <2>3. \A c \in Step(g).closes : c \in DOMAIN Closer /\ Closer[c] = g /\ pc[g] = Last(g)
    BY <1>1, <2>2 DEF Proper, Step
  <2>. QED  BY <2>1, <2>2, <2>3, AdvanceSync
<1>4. CASE Fail(g)
  <2>1. /\ status[g] = "using" /\ Step(g).fails /\ Return(g, "cause") /\ result' = result
        /\ closed' = closed \union Step(g).closes
    BY <1>4 DEF Fail
  <2>2. Step(g).op = "use"
    BY <2>1 DEF Sync, Accessing
  <2>3. /\ \A c \in Step(g).closes : c \in DOMAIN Closer /\ Closer[c] = g /\ pc[g] = Last(g)
        /\ g \in Group
    BY <1>1, <2>1, <2>2 DEF Proper, Step
  <2>. QED  BY <2>1, <2>2, <2>3, ReturnSync
<1>5. CASE Receive(g)
  <2>. DEFINE C == {}
  <2>1. /\ status[g] = "running" /\ Step(g).op = "wait" /\ Step(g).ch \in closed
        /\ Advance(g) /\ closed' = closed \union C /\ result' = result
    BY <1>5 DEF Receive, At
  <2>3. \A c \in C : c \in DOMAIN Closer /\ Closer[c] = g /\ pc[g] = Last(g)
    OBVIOUS
  <2>. HIDE DEF C
  <2>. QED  BY <2>1, <2>3, AdvanceSync
<1>6. CASE ContextDone(g)
  <2>. DEFINE C == {}
  <2>1. /\ status[g] = "running" /\ Step(g).op = "wait" /\ err # "none"
        /\ Return(g, "ctx") /\ closed' = closed \union C /\ result' = result
    BY <1>6 DEF ContextDone, At
  <2>2. g \in Group
    BY <1>1, <2>1 DEF Proper, Step
  <2>3. \A c \in C : c \in DOMAIN Closer /\ Closer[c] = g /\ pc[g] = Last(g)
    OBVIOUS
  <2>. HIDE DEF C
  <2>. QED  BY <2>1, <2>2, <2>3, ReturnSync
<1>7. CASE CloseChannel(g)
  <2>. DEFINE C == {Step(g).ch}
  <2>1. /\ status[g] = "running" /\ Step(g).op = "close" /\ Advance(g)
        /\ closed' = closed \union C /\ result' = result
    BY <1>7 DEF CloseChannel, At
  <2>2. \A c \in C : c \in DOMAIN Closer /\ Closer[c] = g /\ pc[g] = Last(g)
    BY <1>1, <2>1 DEF Proper, Step
  <2>. HIDE DEF C
  <2>. QED  BY <2>1, <2>2, AdvanceSync
<1>8. CASE StartGoroutine(g)
  BY <1>8, StartSync
<1>9. CASE JoinGoroutine(g)
  <2>. DEFINE C == {}
  <2>1. /\ status[g] = "running" /\ Step(g).op = "join" /\ Advance(g)
        /\ closed' = closed \union C /\ result' = result
        /\ status[Step(g).go] = "ended"
    BY <1>9 DEF JoinGoroutine, At
  <2>2. AtEnd(Step(g).go)
    <3>1. Step(g).go \in Helpers /\ Step(g).go \in Goroutines
      BY <1>1, <2>1, GoroutineNames DEF Proper, Step
    <3>2. ret[Step(g).go] = "nil"
      BY <3>1, GoroutineNames DEF Sync, Returned
    <3>. QED  BY <3>1, <3>2, <2>1 DEF Sync, Returned, AtEnd
  <2>3. \A c \in C : c \in DOMAIN Closer /\ Closer[c] = g /\ pc[g] = Last(g)
    OBVIOUS
  <2>. HIDE DEF C
  <2>. QED  BY <2>1, <2>2, <2>3, AdvanceSync
<1>. QED  BY <1>2, <1>3, <1>4, <1>5, <1>6, <1>7, <1>8, <1>9 DEF Goroutine

\* Every step of Prove keeps them so.
LEMMA SyncNext == Sync /\ [ProverNext]_proverVars => Sync'
<1>. SUFFICES ASSUME Sync, [ProverNext]_proverVars  PROVE Sync'
  OBVIOUS
<1>1. CASE UNCHANGED proverVars
  BY <1>1 DEF proverVars, Sync, GoroutineTypes, ClosedAtEnd, PassedSteps, Accessing, Started,
     Returned, Results,
              AtEnd, Step, Last
<1>. QED  BY <1>1, GoroutineSync, WaitSync DEF ProverNext, ProverStop

-----------------------------------------------------------------------------
(* Who has ended when a goroutine is at one of its steps.                    *)

\* After a wait, the goroutine that closes the channel has done all it does.
LEMMA Waited ==
  ASSUME Sync, NEW g \in Goroutines, NEW k \in 1 .. Last(g), pc[g] > k,
         NEW c \in DOMAIN Closer, Program[g][k] = Wait(c)
  PROVE  AtEnd(Closer[c])
<1>1. k \in 1 .. pc[g] - 1
  BY ProperProgram DEF Sync, GoroutineTypes
<1>2. c \in closed
  BY <1>1 DEF Sync, PassedSteps, Wait
<1>. QED  BY <1>2 DEF Sync, ClosedAtEnd

\* Up to the numerator of the quotient.
OrderToQuotient ==
  /\ pc["solveConstraints"] > 2 => AtEnd("initBlindingPolynomials")
  /\ pc["completeQk"] > 2 => AtEnd("solveConstraints")
  /\ pc["deriveGammaAndBeta"] > 2 => AtEnd("solveConstraints")
  /\ pc["buildRatioCopyConstraint"] > 1 => AtEnd("deriveGammaAndBeta")
  /\ pc["computeQuotient"] > 2 => AtEnd("solveConstraints")
  /\ pc["computeQuotient"] > 4 => AtEnd("buildRatioCopyConstraint")
  /\ pc["computeQuotient"] > 7 => AtEnd("completeQk")

\* From there to the openings.
OrderToOpenings ==
  /\ status["restore"] # "none" => pc["computeQuotient"] > 9
  /\ pc["computeQuotient"] > 13 => AtEnd("restore")
  /\ pc["openZ"] > 1 => AtEnd("computeQuotient")
  /\ pc["computeLinearizedPolynomial"] > 1 => AtEnd("computeQuotient")
  /\ status["evaluations"] # "none" => pc["computeLinearizedPolynomial"] > 2
  /\ pc["computeLinearizedPolynomial"] > 3 => AtEnd("openZ")
  /\ pc["computeLinearizedPolynomial"] > 4 => AtEnd("evaluations")
  /\ pc["batchOpening"] > 1 => AtEnd("computeLinearizedPolynomial")

\* Waiting for a channel orders the goroutines: what closes it is at its end.
LEMMA Ordered == Sync => OrderToQuotient /\ OrderToOpenings
<1>. SUFFICES ASSUME Sync  PROVE OrderToQuotient /\ OrderToOpenings
  OBVIOUS
<1>1. pc["solveConstraints"] > 2 => AtEnd("initBlindingPolynomials")
  <2>1. Program["solveConstraints"][2] = Wait("bp")
    BY DEF Program, SolveConstraints
  <2>2. "bp" \in DOMAIN Closer /\ Closer["bp"] = "initBlindingPolynomials"
    BY DEF Closer
  <2>. QED  BY <2>1, <2>2, GoroutineNames, SolveConstraintsSteps, Waited
<1>2. pc["completeQk"] > 2 => AtEnd("solveConstraints")
  <2>1. Program["completeQk"][2] = Wait("LRO")
    BY DEF Program, CompleteQk
  <2>2. "LRO" \in DOMAIN Closer /\ Closer["LRO"] = "solveConstraints"
    BY DEF Closer
  <2>. QED  BY <2>1, <2>2, GoroutineNames, CompleteQkSteps, Waited
<1>3. pc["deriveGammaAndBeta"] > 2 => AtEnd("solveConstraints")
  <2>1. Program["deriveGammaAndBeta"][2] = Wait("LRO")
    BY DEF Program, DeriveGammaAndBeta
  <2>2. "LRO" \in DOMAIN Closer /\ Closer["LRO"] = "solveConstraints"
    BY DEF Closer
  <2>. QED  BY <2>1, <2>2, GoroutineNames, DeriveGammaAndBetaSteps, Waited
<1>4. pc["buildRatioCopyConstraint"] > 1 => AtEnd("deriveGammaAndBeta")
  <2>1. Program["buildRatioCopyConstraint"][1] = Wait("GammaBeta")
    BY DEF Program, BuildRatioCopyConstraint
  <2>2. "GammaBeta" \in DOMAIN Closer /\ Closer["GammaBeta"] = "deriveGammaAndBeta"
    BY DEF Closer
  <2>. QED  BY <2>1, <2>2, GoroutineNames, BuildRatioCopyConstraintSteps, Waited
<1>5. pc["computeQuotient"] > 2 => AtEnd("solveConstraints")
  <2>1. Program["computeQuotient"][2] = Wait("LRO")
    BY DEF Program, ComputeQuotient
  <2>2. "LRO" \in DOMAIN Closer /\ Closer["LRO"] = "solveConstraints"
    BY DEF Closer
  <2>. QED  BY <2>1, <2>2, GoroutineNames, ComputeQuotientSteps, Waited
<1>6. pc["computeQuotient"] > 4 => AtEnd("buildRatioCopyConstraint")
  <2>1. Program["computeQuotient"][4] = Wait("Z")
    BY DEF Program, ComputeQuotient
  <2>2. "Z" \in DOMAIN Closer /\ Closer["Z"] = "buildRatioCopyConstraint"
    BY DEF Closer
  <2>. QED  BY <2>1, <2>2, GoroutineNames, ComputeQuotientSteps, Waited
<1>7. pc["computeQuotient"] > 7 => AtEnd("completeQk")
  <2>1. Program["computeQuotient"][7] = Wait("Qk")
    BY DEF Program, ComputeQuotient
  <2>2. "Qk" \in DOMAIN Closer /\ Closer["Qk"] = "completeQk"
    BY DEF Closer
  <2>. QED  BY <2>1, <2>2, GoroutineNames, ComputeQuotientSteps, Waited
<1>8. pc["computeQuotient"] > 13 => AtEnd("restore")
  <2>1. Program["computeQuotient"][13] = Wait("RestoreLRO")
    BY DEF Program, ComputeQuotient
  <2>2. "RestoreLRO" \in DOMAIN Closer /\ Closer["RestoreLRO"] = "restore"
    BY DEF Closer
  <2>. QED  BY <2>1, <2>2, GoroutineNames, ComputeQuotientSteps, Waited
<1>9. pc["openZ"] > 1 => AtEnd("computeQuotient")
  <2>1. Program["openZ"][1] = Wait("H")
    BY DEF Program, OpenZ
  <2>2. "H" \in DOMAIN Closer /\ Closer["H"] = "computeQuotient"
    BY DEF Closer
  <2>. QED  BY <2>1, <2>2, GoroutineNames, OpenZSteps, Waited
<1>10. pc["computeLinearizedPolynomial"] > 1 => AtEnd("computeQuotient")
  <2>1. Program["computeLinearizedPolynomial"][1] = Wait("H")
    BY DEF Program, ComputeLinearizedPolynomial
  <2>2. "H" \in DOMAIN Closer /\ Closer["H"] = "computeQuotient"
    BY DEF Closer
  <2>. QED  BY <2>1, <2>2, GoroutineNames, ComputeLinearizedPolynomialSteps, Waited
<1>11. pc["computeLinearizedPolynomial"] > 3 => AtEnd("openZ")
  <2>1. Program["computeLinearizedPolynomial"][3] = Wait("ZOpening")
    BY DEF Program, ComputeLinearizedPolynomial
  <2>2. "ZOpening" \in DOMAIN Closer /\ Closer["ZOpening"] = "openZ"
    BY DEF Closer
  <2>. QED  BY <2>1, <2>2, GoroutineNames, ComputeLinearizedPolynomialSteps, Waited
<1>12. pc["batchOpening"] > 1 => AtEnd("computeLinearizedPolynomial")
  <2>1. Program["batchOpening"][1] = Wait("LinearizedPolynomial")
    BY DEF Program, BatchOpening
  <2>2. /\ "LinearizedPolynomial" \in DOMAIN Closer
        /\ Closer["LinearizedPolynomial"] = "computeLinearizedPolynomial"
    BY DEF Closer
  <2>. QED  BY <2>1, <2>2, GoroutineNames, BatchOpeningSteps, Waited
<1>13. /\ status["restore"] # "none" => pc["computeQuotient"] > 9
       /\ status["evaluations"] # "none" => pc["computeLinearizedPolynomial"] > 2
  BY DEF Sync, Started, Helpers, Starter, StartOf
<1>14. pc["computeLinearizedPolynomial"] > 4 => AtEnd("evaluations")
  <2>1. Program["computeLinearizedPolynomial"][4] = Join("evaluations")
    BY DEF Program, ComputeLinearizedPolynomial
  <2>2. pc["computeLinearizedPolynomial"] \in Nat
    BY GoroutineNames DEF Sync, GoroutineTypes
  <2>. QED  BY <2>1, <2>2, GoroutineNames DEF Sync, PassedSteps, Join
<1>15. OrderToQuotient
  BY <1>1, <1>2, <1>3, <1>4, <1>5, <1>6, <1>7 DEF OrderToQuotient
<1>16. /\ pc["openZ"] > 1 => AtEnd("computeQuotient")
       /\ pc["computeLinearizedPolynomial"] > 1 => AtEnd("computeQuotient")
       /\ pc["computeLinearizedPolynomial"] > 3 => AtEnd("openZ")
       /\ pc["computeLinearizedPolynomial"] > 4 => AtEnd("evaluations")
  BY <1>9, <1>10, <1>11, <1>14
<1>17. OrderToOpenings
  BY <1>8, <1>12, <1>13, <1>16 DEF OrderToOpenings
<1>. QED  BY <1>15, <1>17

-----------------------------------------------------------------------------
(* What the accesses need and touch.                                         *)

\* The objects of a step with several kinds of pairs.
LEMMA Union2 ==
  ASSUME NEW S, NEW x, NEW T, NEW y
  PROVE  ObjectsOf(All(S, x) \union All(T, y)) = S \union T
<1>. DEFINE A == All(S, x)  B == All(T, y)
<1>1. ObjectsOf(A) = S /\ ObjectsOf(B) = T
  BY Pairs
<1>. HIDE DEF A, B
<1>2. ObjectsOf(A \union B) = ObjectsOf(A) \union ObjectsOf(B)
  BY Pairs
<1>3. ObjectsOf(A \union B) = S \union T
  BY <1>1, <1>2
<1>. QED  BY <1>3 DEF A, B

LEMMA Union3 ==
  ASSUME NEW S, NEW x, NEW T, NEW y, NEW U, NEW z
  PROVE  ObjectsOf(All(S, x) \union All(T, y) \union All(U, z)) = S \union T \union U
<1>. DEFINE A == All(S, x) \union All(T, y)  B == All(U, z)
<1>1. ObjectsOf(A) = S \union T /\ ObjectsOf(B) = U
  BY Pairs, Union2
<1>. HIDE DEF A, B
<1>2. ObjectsOf(A \union B) = ObjectsOf(A) \union ObjectsOf(B)
  BY Pairs
<1>3. ObjectsOf(A \union B) = S \union T \union U
  BY <1>1, <1>2
<1>. QED  BY <1>3 DEF A, B

LEMMA Union4 ==
  ASSUME NEW S, NEW x, NEW T, NEW y, NEW U, NEW z, NEW V, NEW w
  PROVE  ObjectsOf(All(S, x) \union All(T, y) \union All(U, z) \union All(V, w))
           = S \union T \union U \union V
<1>. DEFINE A == All(S, x) \union All(T, y) \union All(U, z)  B == All(V, w)
<1>1. ObjectsOf(A) = S \union T \union U /\ ObjectsOf(B) = V
  BY Pairs, Union3
<1>. HIDE DEF A, B
<1>2. ObjectsOf(A \union B) = ObjectsOf(A) \union ObjectsOf(B)
  BY Pairs
<1>3. ObjectsOf(A \union B) = S \union T \union U \union V
  BY <1>1, <1>2
<1>. QED  BY <1>3 DEF A, B

\* The accesses of each goroutine: what they need, leave behind and touch.
LEMMA SolveConstraintsAccesses ==
  LET g == "solveConstraints" IN
  /\ \A k \in {2, 4} : Program[g][k].op # "use"
  /\ Needs(Program[g][1]) = {}
  /\ Touches(Program[g][1]) = (LRO \union {"cCommitments"}) \union {"commitmentVal", "bsb22"}
  /\ Needs(Program[g][3]) = LRO \union {"bpLRO"}
  /\ Touches(Program[g][3]) = LRO \union {"proof.LRO"}
<1>. DEFINE g == "solveConstraints"
<1>1. \A k \in {2, 4} : Program[g][k].op # "use"
  BY DEF Program, SolveConstraints, Wait, Close, Start, Join
<1>2. /\ Needs(Program[g][1]) = {}
      /\ Touches(Program[g][1]) = (LRO \union {"cCommitments"}) \union {"commitmentVal", "bsb22"}
  <2>1. /\ Program[g][1].needs = {}
        /\ Program[g][1].sets =
            All(LRO \union {"cCommitments"}, "values")
              \union All({"commitmentVal", "bsb22"}, "set")
    BY DEF Program, SolveConstraints, Use, MayFail, Access, None
  <2>. QED  BY <2>1, Pairs, Union2 DEF Needs, Touches
<1>3. /\ Needs(Program[g][3]) = LRO \union {"bpLRO"}
      /\ Touches(Program[g][3]) = LRO \union {"proof.LRO"}
  <2>1. /\ Program[g][3].needs = All(LRO, "values") \union All({"bpLRO"}, "random")
        /\ Program[g][3].sets = All(LRO, "values") \union All({"proof.LRO"}, "set")
    BY DEF Program, SolveConstraints, Use, MayFail, Access, None
  <2>. QED  BY <2>1, Union2 DEF Needs, Touches
<1>. QED  BY <1>1, <1>2, <1>3

LEMMA CompleteQkAccesses ==
  LET g == "completeQk" IN
  /\ \A k \in {2, 4} : Program[g][k].op # "use"
  /\ Needs(Program[g][1]) = {"trace.Qk"}
  /\ Touches(Program[g][1]) = {}
  /\ Needs(Program[g][3]) = {"commitmentVal"}
  /\ Touches(Program[g][3]) = {"Qk"}
<1>. DEFINE g == "completeQk"
<1>1. \A k \in {2, 4} : Program[g][k].op # "use"
  BY DEF Program, CompleteQk, Wait, Close, Start, Join
<1>2. Needs(Program[g][1]) = {"trace.Qk"} /\ Touches(Program[g][1]) = {}
  <2>1. Program[g][1].needs = All({"trace.Qk"}, "values") /\ Program[g][1].sets = {}
    BY DEF Program, CompleteQk, Use, MayFail, Access, None
  <2>. QED  BY <2>1, Pairs DEF Needs, Touches
<1>3. Needs(Program[g][3]) = {"commitmentVal"} /\ Touches(Program[g][3]) = {"Qk"}
  <2>1. /\ Program[g][3].needs = All({"commitmentVal"}, "set")
        /\ Program[g][3].sets = All({"Qk"}, "values")
    BY DEF Program, CompleteQk, Use, MayFail, Access, None
  <2>. QED  BY <2>1, Pairs DEF Needs, Touches
<1>. QED  BY <1>1, <1>2, <1>3

LEMMA InitBlindingPolynomialsAccesses ==
  LET g == "initBlindingPolynomials" IN
  /\ \A k \in {2} : Program[g][k].op # "use"
  /\ Needs(Program[g][1]) = {}
  /\ Touches(Program[g][1]) = {"bpLRO", "bpZ"}
<1>. DEFINE g == "initBlindingPolynomials"
<1>1. \A k \in {2} : Program[g][k].op # "use"
  BY DEF Program, InitBlindingPolynomials, Wait, Close, Start, Join
<1>2. Needs(Program[g][1]) = {} /\ Touches(Program[g][1]) = {"bpLRO", "bpZ"}
  <2>1. Program[g][1].needs = {} /\ Program[g][1].sets = All({"bpLRO", "bpZ"}, "random")
    BY DEF Program, InitBlindingPolynomials, Use, MayFail, Access, None
  <2>. QED  BY <2>1, Pairs DEF Needs, Touches
<1>. QED  BY <1>1, <1>2

LEMMA DeriveGammaAndBetaAccesses ==
  LET g == "deriveGammaAndBeta" IN
  /\ \A k \in {2, 5} : Program[g][k].op # "use"
  /\ Needs(Program[g][1]) = {"fs"}
  /\ Touches(Program[g][1]) = {"fs"}
  /\ Needs(Program[g][3]) = {"fs"} \union {"proof.LRO"}
  /\ Touches(Program[g][3]) = {"fs"}
  /\ Needs(Program[g][4]) = {"fs"}
  /\ Touches(Program[g][4]) = {"fs"} \union {"gammaBeta"}
<1>. DEFINE g == "deriveGammaAndBeta"
<1>1. \A k \in {2, 5} : Program[g][k].op # "use"
  BY DEF Program, DeriveGammaAndBeta, Wait, Close, Start, Join
<1>2. Needs(Program[g][1]) = {"fs"} /\ Touches(Program[g][1]) = {"fs"}
  <2>1. Program[g][1].needs = All({"fs"}, "empty") /\ Program[g][1].sets = All({"fs"}, "public")
    BY DEF Program, DeriveGammaAndBeta, Use, MayFail, Access, None
  <2>. QED  BY <2>1, Pairs DEF Needs, Touches
<1>3. Needs(Program[g][3]) = {"fs"} \union {"proof.LRO"} /\ Touches(Program[g][3]) = {"fs"}
  <2>1. /\ Program[g][3].needs = All({"fs"}, "public") \union All({"proof.LRO"}, "set")
        /\ Program[g][3].sets = All({"fs"}, "gamma")
    BY DEF Program, DeriveGammaAndBeta, Use, MayFail, Access, None
  <2>. QED  BY <2>1, Pairs, Union2 DEF Needs, Touches
<1>4. Needs(Program[g][4]) = {"fs"} /\ Touches(Program[g][4]) = {"fs"} \union {"gammaBeta"}
  <2>1. /\ Program[g][4].needs = All({"fs"}, "gamma")
        /\ Program[g][4].sets = All({"fs"}, "beta") \union All({"gammaBeta"}, "set")
    BY DEF Program, DeriveGammaAndBeta, Use, MayFail, Access, None
  <2>. QED  BY <2>1, Pairs, Union2 DEF Needs, Touches
<1>. QED  BY <1>1, <1>2, <1>3, <1>4

LEMMA BuildRatioCopyConstraintAccesses ==
  LET g == "buildRatioCopyConstraint" IN
  /\ \A k \in {1} : Program[g][k].op # "use"
  /\ Needs(Program[g][2]) = LRO \union {"gammaBeta"}
  /\ Touches(Program[g][2]) = {"Z"}
  /\ Needs(Program[g][3]) = {"Z"} \union {"bpZ"}
  /\ Touches(Program[g][3]) = {"proof.Z"}
<1>. DEFINE g == "buildRatioCopyConstraint"
<1>1. \A k \in {1} : Program[g][k].op # "use"
  BY DEF Program, BuildRatioCopyConstraint, Wait, Close, Start, Join
<1>2. Needs(Program[g][2]) = LRO \union {"gammaBeta"} /\ Touches(Program[g][2]) = {"Z"}
  <2>1. /\ Program[g][2].needs = All(LRO, "values") \union All({"gammaBeta"}, "set")
        /\ Program[g][2].sets = All({"Z"}, "values")
    BY DEF Program, BuildRatioCopyConstraint, Use, MayFail, Access, None
  <2>. QED  BY <2>1, Pairs, Union2 DEF Needs, Touches
<1>3. Needs(Program[g][3]) = {"Z"} \union {"bpZ"} /\ Touches(Program[g][3]) = {"proof.Z"}
  <2>1. /\ Program[g][3].needs = All({"Z"}, "values") \union All({"bpZ"}, "random")
        /\ Program[g][3].sets = All({"proof.Z"}, "set")
    BY DEF Program, BuildRatioCopyConstraint, Use, MayFail, Access, None
  <2>. QED  BY <2>1, Pairs, Union2 DEF Needs, Touches
<1>. QED  BY <1>1, <1>2, <1>3

LEMMA ComputeQuotientAccesses ==
  LET g == "computeQuotient" IN
  /\ \A k \in {2, 4, 7, 9, 13, 14} : Program[g][k].op # "use"
  /\ Needs(Program[g][1]) = {"trace.Q"}
  /\ Touches(Program[g][1]) = {}
  /\ Needs(Program[g][3]) = {"cCommitments"}
  /\ Touches(Program[g][3]) = {}
  /\ Needs(Program[g][5]) = {"fs"} \union {"bsb22", "proof.Z"}
  /\ Touches(Program[g][5]) = {"fs"} \union {"alpha"}
  /\ Needs(Program[g][6]) = {"Z"}
  /\ Touches(Program[g][6]) = {"ZS"}
  /\ Needs(Program[g][8]) =
      (Trans \union {"Qk"}) \union {"ZS"} \union {"alpha", "gammaBeta"} \union {"bpLRO", "bpZ"}
  /\ Touches(Program[g][8]) = Trans \union {"bpLRO", "bpZ", "Qk"}
  /\ Needs(Program[g][10]) = {}
  /\ Touches(Program[g][10]) = {"h"}
  /\ Needs(Program[g][11]) = {"h"}
  /\ Touches(Program[g][11]) = {"proof.H"}
  /\ Needs(Program[g][12]) = {"fs"} \union {"proof.H"}
  /\ Touches(Program[g][12]) = {"fs"} \union {"zeta"}
<1>. DEFINE g == "computeQuotient"
<1>1. \A k \in {2, 4, 7, 9, 13, 14} : Program[g][k].op # "use"
  BY DEF Program, ComputeQuotient, Wait, Close, Start, Join
<1>2. Needs(Program[g][1]) = {"trace.Q"} /\ Touches(Program[g][1]) = {}
  <2>1. Program[g][1].needs = All({"trace.Q"}, "values") /\ Program[g][1].sets = {}
    BY DEF Program, ComputeQuotient, Use, MayFail, Access, None
  <2>. QED  BY <2>1, Pairs DEF Needs, Touches
<1>3. Needs(Program[g][3]) = {"cCommitments"} /\ Touches(Program[g][3]) = {}
  <2>1. Program[g][3].needs = All({"cCommitments"}, "values") /\ Program[g][3].sets = {}
    BY DEF Program, ComputeQuotient, Use, MayFail, Access, None
  <2>. QED  BY <2>1, Pairs DEF Needs, Touches
<1>4. /\ Needs(Program[g][5]) = {"fs"} \union {"bsb22", "proof.Z"}
      /\ Touches(Program[g][5]) = {"fs"} \union {"alpha"}
  <2>1. /\ Program[g][5].needs = All({"fs"}, "beta") \union All({"bsb22", "proof.Z"}, "set")
        /\ Program[g][5].sets = All({"fs"}, "alpha") \union All({"alpha"}, "set")
    BY DEF Program, ComputeQuotient, Use, MayFail, Access, None
  <2>. QED  BY <2>1, Union2 DEF Needs, Touches
<1>5. Needs(Program[g][6]) = {"Z"} /\ Touches(Program[g][6]) = {"ZS"}
  <2>1. Program[g][6].needs = All({"Z"}, "values") /\ Program[g][6].sets = All({"ZS"}, "shifted")
    BY DEF Program, ComputeQuotient, Use, MayFail, Access, None
  <2>. QED  BY <2>1, Pairs DEF Needs, Touches
<1>6. /\ Needs(Program[g][8]) =
          (Trans \union {"Qk"}) \union {"ZS"} \union {"alpha", "gammaBeta"}
            \union {"bpLRO", "bpZ"}
      /\ Touches(Program[g][8]) = Trans \union {"bpLRO", "bpZ", "Qk"}
  <2>1. /\ Program[g][8].needs =
            All(Trans \union {"Qk"}, "values") \union All({"ZS"}, "shifted")
              \union All({"alpha", "gammaBeta"}, "set") \union All({"bpLRO", "bpZ"}, "random")
        /\ Program[g][8].sets = All(Trans \union {"bpLRO", "bpZ", "Qk"}, "coset")
    BY DEF Program, ComputeQuotient, Use, MayFail, Access, None, Numerator
  <2>. QED  BY <2>1, Pairs, Union4 DEF Needs, Touches
<1>7. Needs(Program[g][10]) = {} /\ Touches(Program[g][10]) = {"h"}
  <2>1. Program[g][10].needs = {} /\ Program[g][10].sets = All({"h"}, "canonical")
    BY DEF Program, ComputeQuotient, Use, MayFail, Access, None
  <2>. QED  BY <2>1, Pairs DEF Needs, Touches
<1>8. Needs(Program[g][11]) = {"h"} /\ Touches(Program[g][11]) = {"proof.H"}
  <2>1. /\ Program[g][11].needs = All({"h"}, "canonical")
        /\ Program[g][11].sets = All({"proof.H"}, "set")
    BY DEF Program, ComputeQuotient, Use, MayFail, Access, None
  <2>. QED  BY <2>1, Pairs DEF Needs, Touches
<1>9. /\ Needs(Program[g][12]) = {"fs"} \union {"proof.H"}
      /\ Touches(Program[g][12]) = {"fs"} \union {"zeta"}
  <2>1. /\ Program[g][12].needs = All({"fs"}, "alpha") \union All({"proof.H"}, "set")
        /\ Program[g][12].sets = All({"fs"}, "zeta") \union All({"zeta"}, "set")
    BY DEF Program, ComputeQuotient, Use, MayFail, Access, None
  <2>. QED  BY <2>1, Union2 DEF Needs, Touches
<1>. QED  BY <1>1, <1>2, <1>3, <1>4, <1>5, <1>6, <1>7, <1>8, <1>9

LEMMA OpenZAccesses ==
  LET g == "openZ" IN
  /\ \A k \in {1, 3} : Program[g][k].op # "use"
  /\ Needs(Program[g][2]) = {"Z"} \union {"bpZ"} \union {"zeta"}
  /\ Touches(Program[g][2]) = {"Z", "blindedZ"} \union {"opening"}
<1>. DEFINE g == "openZ"
<1>1. \A k \in {1, 3} : Program[g][k].op # "use"
  BY DEF Program, OpenZ, Wait, Close, Start, Join
<1>2. /\ Needs(Program[g][2]) = {"Z"} \union {"bpZ"} \union {"zeta"}
      /\ Touches(Program[g][2]) = {"Z", "blindedZ"} \union {"opening"}
  <2>1. /\ Program[g][2].needs =
            All({"Z"}, "canonical") \union All({"bpZ"}, "random") \union All({"zeta"}, "set")
        /\ Program[g][2].sets = All({"Z", "blindedZ"}, "blinded") \union All({"opening"}, "set")
    BY DEF Program, OpenZ, Use, MayFail, Access, None
  <2>. QED  BY <2>1, Union2, Union3 DEF Needs, Touches
<1>. QED  BY <1>1, <1>2

LEMMA ComputeLinearizedPolynomialAccesses ==
  LET g == "computeLinearizedPolynomial" IN
  /\ \A k \in {1, 2, 3, 4, 6} : Program[g][k].op # "use"
  /\ Needs(Program[g][5]) =
      {"blindedZ"} \union {"h", "trace.Q", "cCommitments"} \union {"trace.Qk"}
        \union {"opening", "alpha", "gammaBeta", "zeta"}
  /\ Touches(Program[g][5]) = {"blindedZ"} \union {"trace.Qk"} \union {"linearizedPolynomial"}
<1>. DEFINE g == "computeLinearizedPolynomial"
<1>1. \A k \in {1, 2, 3, 4, 6} : Program[g][k].op # "use"
  BY DEF Program, ComputeLinearizedPolynomial, Wait, Close, Start, Join
<1>2. /\ Needs(Program[g][5]) =
          {"blindedZ"} \union {"h", "trace.Q", "cCommitments"} \union {"trace.Qk"}
            \union {"opening", "alpha", "gammaBeta", "zeta"}
      /\ Touches(Program[g][5]) = {"blindedZ"} \union {"trace.Qk"} \union {"linearizedPolynomial"}
  <2>1. /\ Program[g][5].needs =
            All({"blindedZ"}, "blinded") \union All({"h", "trace.Q", "cCommitments"}, "canonical")
              \union All({"trace.Qk"}, "values")
              \union All({"opening", "alpha", "gammaBeta", "zeta"}, "set")
        /\ Program[g][5].sets =
            All({"blindedZ"}, "linearized") \union All({"trace.Qk"}, "canonical")
              \union All({"linearizedPolynomial"}, "set")
    BY DEF Program, ComputeLinearizedPolynomial, Use, MayFail, Access, None
  <2>2. Needs(Program[g][5]) =
            {"blindedZ"} \union {"h", "trace.Q", "cCommitments"} \union {"trace.Qk"}
              \union {"opening", "alpha", "gammaBeta", "zeta"}
    BY <2>1, Union4 DEF Needs
  <2>3. Touches(Program[g][5]) = {"blindedZ"} \union {"trace.Qk"} \union {"linearizedPolynomial"}
    BY <2>1, Union3 DEF Touches
  <2>. QED  BY <2>2, <2>3
<1>. QED  BY <1>1, <1>2

LEMMA BatchOpeningAccesses ==
  LET g == "batchOpening" IN
  /\ \A k \in {1} : Program[g][k].op # "use"
  /\ Needs(Program[g][2]) =
      {"linearizedPolynomial", "proof.LRO", "zeta", "opening"} \union (LRO \union {"trace.Q"})
        \union {"bpLRO"}
  /\ Touches(Program[g][2]) = LRO \union {"proof.Batched"}
<1>. DEFINE g == "batchOpening"
<1>1. \A k \in {1} : Program[g][k].op # "use"
  BY DEF Program, BatchOpening, Wait, Close, Start, Join
<1>2. /\ Needs(Program[g][2]) =
          {"linearizedPolynomial", "proof.LRO", "zeta", "opening"} \union (LRO \union {"trace.Q"})
            \union {"bpLRO"}
      /\ Touches(Program[g][2]) = LRO \union {"proof.Batched"}
  <2>1. /\ Program[g][2].needs =
            All({"linearizedPolynomial", "proof.LRO", "zeta", "opening"}, "set")
              \union All(LRO \union {"trace.Q"}, "canonical") \union All({"bpLRO"}, "random")
        /\ Program[g][2].sets = All(LRO, "blinded") \union All({"proof.Batched"}, "set")
    BY DEF Program, BatchOpening, Use, MayFail, Access, None
  <2>. QED  BY <2>1, Union2, Union3 DEF Needs, Touches
<1>. QED  BY <1>1, <1>2

LEMMA RestoreAccesses ==
  LET g == "restore" IN
  /\ \A k \in {2} : Program[g][k].op # "use"
  /\ Needs(Program[g][1]) = Trans \union {"bpLRO", "bpZ"}
  /\ Touches(Program[g][1]) = Trans \union {"bpLRO", "bpZ"} \union {"ZS", "Qk"}
<1>. DEFINE g == "restore"
<1>1. \A k \in {2} : Program[g][k].op # "use"
  BY DEF Program, Restore, Wait, Close, Start, Join
<1>2. /\ Needs(Program[g][1]) = Trans \union {"bpLRO", "bpZ"}
      /\ Touches(Program[g][1]) = Trans \union {"bpLRO", "bpZ"} \union {"ZS", "Qk"}
  <2>1. /\ Program[g][1].needs = All(Trans \union {"bpLRO", "bpZ"}, "coset")
        /\ Program[g][1].sets =
            All(Trans, "canonical") \union All({"bpLRO", "bpZ"}, "random")
              \union All({"ZS", "Qk"}, "unset")
    BY DEF Program, Restore, Use, MayFail, Access, None
  <2>. QED  BY <2>1, Pairs, Union3 DEF Needs, Touches
<1>. QED  BY <1>1, <1>2

LEMMA EvaluationsAccesses ==
  LET g == "evaluations" IN
  /\ Needs(Program[g][1]) = (LRO \union {"trace.Q"}) \union {"bpLRO"} \union {"zeta"}
  /\ Touches(Program[g][1]) = {}
<1>. DEFINE g == "evaluations"
<1>1. /\ Needs(Program[g][1]) = (LRO \union {"trace.Q"}) \union {"bpLRO"} \union {"zeta"}
      /\ Touches(Program[g][1]) = {}
  <2>1. /\ Program[g][1].needs =
            All(LRO \union {"trace.Q"}, "canonical") \union All({"bpLRO"}, "random")
              \union All({"zeta"}, "set")
        /\ Program[g][1].sets = {}
    BY DEF Program, Evaluations, Use, MayFail, Access, None
  <2>. QED  BY <2>1, Pairs, Union3 DEF Needs, Touches
<1>. QED  BY <1>1

-----------------------------------------------------------------------------
(* Which goroutines use the instance together.                               *)

\* The steps at which a goroutine can be using the instance.
UseSteps ==
  [solveConstraints |-> {1, 3}, completeQk |-> {1, 3}, initBlindingPolynomials |-> {1},
   deriveGammaAndBeta |-> {1, 3, 4}, buildRatioCopyConstraint |-> {2, 3},
   computeQuotient |-> {1, 3, 5, 6, 8, 10, 11, 12}, openZ |-> {2},
   computeLinearizedPolynomial |-> {5}, batchOpening |-> {2}, restore |-> {1},
   evaluations |-> {1}]

\* There are no other accesses.
LEMMA UsesOnly ==
  ASSUME NEW g \in Goroutines, NEW k \in 1 .. Last(g), Program[g][k].op = "use"
  PROVE  k \in UseSteps[g]
<1>1. CASE g = "solveConstraints"
  <2>1. k \in {1, 2, 3, 4} /\ k \notin {2, 4}
    BY <1>1, SolveConstraintsSteps, SolveConstraintsAccesses
  <2>. QED  BY <2>1, <1>1 DEF UseSteps
<1>2. CASE g = "completeQk"
  <2>1. k \in {1, 2, 3, 4} /\ k \notin {2, 4}
    BY <1>2, CompleteQkSteps, CompleteQkAccesses
  <2>. QED  BY <2>1, <1>2 DEF UseSteps
<1>3. CASE g = "initBlindingPolynomials"
  <2>1. k \in {1, 2} /\ k \notin {2}
    BY <1>3, InitBlindingPolynomialsSteps, InitBlindingPolynomialsAccesses
  <2>. QED  BY <2>1, <1>3 DEF UseSteps
<1>4. CASE g = "deriveGammaAndBeta"
  <2>1. k \in {1, 2, 3, 4, 5} /\ k \notin {2, 5}
    BY <1>4, DeriveGammaAndBetaSteps, DeriveGammaAndBetaAccesses
  <2>. QED  BY <2>1, <1>4 DEF UseSteps
<1>5. CASE g = "buildRatioCopyConstraint"
  <2>1. k \in {1, 2, 3} /\ k \notin {1}
    BY <1>5, BuildRatioCopyConstraintSteps, BuildRatioCopyConstraintAccesses
  <2>. QED  BY <2>1, <1>5 DEF UseSteps
<1>6. CASE g = "computeQuotient"
  <2>1. k \in 1 .. 14 /\ k \notin {2, 4, 7, 9, 13, 14}
    BY <1>6, ComputeQuotientSteps, ComputeQuotientAccesses
  <2>2. k \in {1, 3, 5, 6, 8, 10, 11, 12}
    BY <2>1
  <2>. QED  BY <2>2, <1>6 DEF UseSteps
<1>7. CASE g = "openZ"
  <2>1. k \in {1, 2, 3} /\ k \notin {1, 3}
    BY <1>7, OpenZSteps, OpenZAccesses
  <2>. QED  BY <2>1, <1>7 DEF UseSteps
<1>8. CASE g = "computeLinearizedPolynomial"
  <2>1. k \in {1, 2, 3, 4, 5, 6} /\ k \notin {1, 2, 3, 4, 6}
    BY <1>8, ComputeLinearizedPolynomialSteps, ComputeLinearizedPolynomialAccesses
  <2>. QED  BY <2>1, <1>8 DEF UseSteps
<1>9. CASE g = "batchOpening"
  <2>1. k \in {1, 2} /\ k \notin {1}
    BY <1>9, BatchOpeningSteps, BatchOpeningAccesses
  <2>. QED  BY <2>1, <1>9 DEF UseSteps
<1>10. CASE g = "restore"
  <2>1. k \in {1, 2} /\ k \notin {2}
    BY <1>10, RestoreSteps, RestoreAccesses
  <2>. QED  BY <2>1, <1>10 DEF UseSteps
<1>11. CASE g = "evaluations"
  <2>1. k \in {1}
    BY <1>11, EvaluationsSteps
  <2>. QED  BY <2>1, <1>11 DEF UseSteps
<1>. QED  BY <1>1, <1>2, <1>3, <1>4, <1>5, <1>6, <1>7, <1>8, <1>9, <1>10, <1>11, GoroutineNames

\* At these steps it does use it.
LEMMA AtUse ==
  ASSUME NEW g \in Goroutines, NEW k \in UseSteps[g]
  PROVE  Program[g][k].op = "use" /\ k \in 1 .. Last(g)
<1>. USE DEF Program, UseSteps, Use, MayFail, Access
<1>1. CASE g = "solveConstraints"
  BY <1>1, SolveConstraintsSteps DEF SolveConstraints
<1>2. CASE g = "completeQk"
  BY <1>2, CompleteQkSteps DEF CompleteQk
<1>3. CASE g = "initBlindingPolynomials"
  BY <1>3, InitBlindingPolynomialsSteps DEF InitBlindingPolynomials
<1>4. CASE g = "deriveGammaAndBeta"
  BY <1>4, DeriveGammaAndBetaSteps DEF DeriveGammaAndBeta
<1>5. CASE g = "buildRatioCopyConstraint"
  BY <1>5, BuildRatioCopyConstraintSteps DEF BuildRatioCopyConstraint
<1>6. CASE g = "computeQuotient"
  BY <1>6, ComputeQuotientSteps DEF ComputeQuotient, Numerator
<1>7. CASE g = "openZ"
  BY <1>7, OpenZSteps DEF OpenZ
<1>8. CASE g = "computeLinearizedPolynomial"
  BY <1>8, ComputeLinearizedPolynomialSteps DEF ComputeLinearizedPolynomial
<1>9. CASE g = "batchOpening"
  BY <1>9, BatchOpeningSteps DEF BatchOpening
<1>10. CASE g = "restore"
  BY <1>10, RestoreSteps DEF Restore
<1>11. CASE g = "evaluations"
  BY <1>11, EvaluationsSteps DEF Evaluations
<1>. QED  BY <1>1, <1>2, <1>3, <1>4, <1>5, <1>6, <1>7, <1>8, <1>9, <1>10, <1>11, GoroutineNames

\* Who has passed what when a goroutine has ended, and what waits while it has not.
LEMMA EndedBefore ==
  ASSUME Sync
  PROVE  /\ AtEnd("solveConstraints") => AtEnd("initBlindingPolynomials")
         /\ AtEnd("completeQk") => AtEnd("solveConstraints")
         /\ AtEnd("deriveGammaAndBeta") => AtEnd("solveConstraints")
         /\ AtEnd("buildRatioCopyConstraint") => AtEnd("deriveGammaAndBeta")
         /\ AtEnd("computeQuotient") =>
              AtEnd("buildRatioCopyConstraint") /\ AtEnd("completeQk") /\ AtEnd("restore")
         /\ AtEnd("openZ") => AtEnd("computeQuotient")
         /\ AtEnd("computeLinearizedPolynomial") => AtEnd("openZ") /\ AtEnd("evaluations")
<1>1. OrderToQuotient /\ OrderToOpenings
  BY Ordered
<1>2. /\ AtEnd("solveConstraints") => AtEnd("initBlindingPolynomials")
      /\ AtEnd("completeQk") => AtEnd("solveConstraints")
      /\ AtEnd("deriveGammaAndBeta") => AtEnd("solveConstraints")
      /\ AtEnd("buildRatioCopyConstraint") => AtEnd("deriveGammaAndBeta")
  BY <1>1, SolveConstraintsSteps, CompleteQkSteps, DeriveGammaAndBetaSteps,
     BuildRatioCopyConstraintSteps DEF OrderToQuotient, AtEnd
<1>3. AtEnd("computeQuotient") =>
        AtEnd("buildRatioCopyConstraint") /\ AtEnd("completeQk") /\ AtEnd("restore")
  <2>1. AtEnd("computeQuotient") => pc["computeQuotient"] = 14
    BY ComputeQuotientSteps DEF AtEnd
  <2>. QED  BY <2>1, <1>1 DEF OrderToQuotient, OrderToOpenings
<1>4. AtEnd("openZ") => AtEnd("computeQuotient")
  <2>1. AtEnd("openZ") => pc["openZ"] = 3
    BY OpenZSteps DEF AtEnd
  <2>. QED  BY <2>1, <1>1 DEF OrderToOpenings
<1>5. AtEnd("computeLinearizedPolynomial") => AtEnd("openZ") /\ AtEnd("evaluations")
  <2>1. AtEnd("computeLinearizedPolynomial") => pc["computeLinearizedPolynomial"] = 6
    BY ComputeLinearizedPolynomialSteps DEF AtEnd
  <2>. QED  BY <2>1, <1>1 DEF OrderToOpenings
<1>. QED  BY <1>2, <1>3, <1>4, <1>5

\* Where each goroutine that uses the instance is, and who has ended by then.
LEMMA UsingAt ==
  ASSUME Sync, NEW g \in Goroutines, status[g] = "using"
  PROVE  /\ pc[g] \in UseSteps[g] /\ ~AtEnd(g)
         /\ g = "solveConstraints" /\ pc[g] = 3 => AtEnd("initBlindingPolynomials")
         /\ g = "completeQk" /\ pc[g] = 3 => AtEnd("solveConstraints")
         /\ g = "deriveGammaAndBeta" /\ pc[g] > 1 => AtEnd("solveConstraints")
         /\ g = "buildRatioCopyConstraint" => AtEnd("deriveGammaAndBeta")
         /\ g = "computeQuotient" /\ pc[g] > 1 => AtEnd("solveConstraints")
         /\ g = "computeQuotient" /\ pc[g] > 4 => AtEnd("buildRatioCopyConstraint")
         /\ g = "computeQuotient" /\ pc[g] > 7 => AtEnd("completeQk")
<1>1. OrderToQuotient
  BY Ordered
<1>2. pc[g] \in UseSteps[g] /\ ~AtEnd(g)
  BY UsesOnly DEF Sync, GoroutineTypes, Accessing, Step, AtEnd
<1>3. /\ g = "solveConstraints" /\ pc[g] = 3 => AtEnd("initBlindingPolynomials")
      /\ g = "completeQk" /\ pc[g] = 3 => AtEnd("solveConstraints")
  BY <1>1 DEF OrderToQuotient
<1>4. g = "deriveGammaAndBeta" /\ pc[g] > 1 => AtEnd("solveConstraints")
  BY <1>1, <1>2 DEF OrderToQuotient, UseSteps
<1>5. g = "buildRatioCopyConstraint" => AtEnd("deriveGammaAndBeta")
  BY <1>1, <1>2 DEF OrderToQuotient, UseSteps
<1>6. /\ g = "computeQuotient" /\ pc[g] > 1 => AtEnd("solveConstraints")
      /\ g = "computeQuotient" /\ pc[g] > 4 => AtEnd("buildRatioCopyConstraint")
      /\ g = "computeQuotient" /\ pc[g] > 7 => AtEnd("completeQk")
  BY <1>1, <1>2 DEF OrderToQuotient, UseSteps
<1>. QED  BY <1>2, <1>3, <1>4, <1>5, <1>6

LEMMA UsingAfter ==
  ASSUME Sync, NEW g \in Goroutines, status[g] = "using"
  PROVE  /\ g = "restore" => pc["computeQuotient"] > 9
         /\ g \in {"openZ", "computeLinearizedPolynomial"} => AtEnd("computeQuotient")
         /\ g = "evaluations" => AtEnd("computeQuotient")
         /\ g = "computeLinearizedPolynomial" => AtEnd("openZ") /\ AtEnd("evaluations")
         /\ g = "batchOpening" => AtEnd("computeLinearizedPolynomial")
<1>1. OrderToOpenings /\ pc[g] \in UseSteps[g] /\ pc["computeLinearizedPolynomial"] \in Nat
  BY Ordered, UsingAt, GoroutineNames DEF Sync, GoroutineTypes
<1>2. g = "restore" => pc["computeQuotient"] > 9
  BY <1>1 DEF OrderToOpenings
<1>3. /\ g = "openZ" => AtEnd("computeQuotient")
      /\ g = "computeLinearizedPolynomial" => AtEnd("computeQuotient")
  BY <1>1 DEF OrderToOpenings, UseSteps
<1>4. g = "evaluations" => AtEnd("computeQuotient")
  BY <1>1 DEF OrderToOpenings
<1>5. g = "computeLinearizedPolynomial" => AtEnd("openZ") /\ AtEnd("evaluations")
  BY <1>1 DEF OrderToOpenings, UseSteps
<1>6. g = "batchOpening" => AtEnd("computeLinearizedPolynomial")
  BY <1>1 DEF OrderToOpenings, UseSteps
<1>. QED  BY <1>2, <1>3, <1>4, <1>5, <1>6

Apart(f, g) ==
  /\ Touches(Step(f)) \intersect (Needs(Step(g)) \union Touches(Step(g))) = {}
  /\ Touches(Step(g)) \intersect (Needs(Step(f)) \union Touches(Step(f))) = {}

\* The goroutines in the order in which one that follows finds the others ended, or apart.
LEMMA EarlyFootprints ==
  ASSUME Sync, NEW g \in Goroutines, status[g] = "using"
  PROVE  /\ g = "initBlindingPolynomials" =>
              Needs(Step(g)) = {} /\ Touches(Step(g)) = {"bpLRO", "bpZ"}
         /\ g = "solveConstraints" /\ pc[g] = 1 =>
              /\ Needs(Step(g)) = {}
              /\ Touches(Step(g)) = LRO \union {"cCommitments", "commitmentVal", "bsb22"}
         /\ g = "solveConstraints" /\ pc[g] = 3 =>
              /\ Needs(Step(g)) = LRO \union {"bpLRO"}
              /\ Touches(Step(g)) = LRO \union {"proof.LRO"}
         /\ g = "completeQk" /\ pc[g] = 1 =>
              Needs(Step(g)) = {"trace.Qk"} /\ Touches(Step(g)) = {}
         /\ g = "completeQk" =>
              /\ Needs(Step(g)) \subseteq {"trace.Qk", "commitmentVal"}
              /\ Touches(Step(g)) \subseteq {"Qk"}
<1>. USE DEF Step
<1>1. pc[g] \in UseSteps[g]
  BY UsingAt
<1>2. g = "initBlindingPolynomials" =>
        Needs(Step(g)) = {} /\ Touches(Step(g)) = {"bpLRO", "bpZ"}
  BY <1>1, InitBlindingPolynomialsAccesses DEF UseSteps
<1>3. /\ g = "solveConstraints" /\ pc[g] = 1 =>
           /\ Needs(Step(g)) = {}
           /\ Touches(Step(g)) = LRO \union {"cCommitments", "commitmentVal", "bsb22"}
      /\ g = "solveConstraints" /\ pc[g] = 3 =>
           /\ Needs(Step(g)) = LRO \union {"bpLRO"}
           /\ Touches(Step(g)) = LRO \union {"proof.LRO"}
  BY SolveConstraintsAccesses
<1>4. g = "completeQk" /\ pc[g] = 1 =>
        Needs(Step(g)) = {"trace.Qk"} /\ Touches(Step(g)) = {}
  BY CompleteQkAccesses
<1>5. g = "completeQk" /\ pc[g] = 3 =>
        Needs(Step(g)) = {"commitmentVal"} /\ Touches(Step(g)) = {"Qk"}
  BY CompleteQkAccesses
<1>6. g = "completeQk" => pc[g] \in {1, 3}
  BY <1>1 DEF UseSteps
<1>. HIDE DEF Step
<1>7. g = "completeQk" =>
        /\ Needs(Step(g)) \subseteq {"trace.Qk", "commitmentVal"}
        /\ Touches(Step(g)) \subseteq {"Qk"}
  BY <1>4, <1>5, <1>6
<1>. QED  BY <1>2, <1>3, <1>4, <1>7

LEMMA MiddleFootprints ==
  ASSUME Sync, NEW g \in Goroutines, status[g] = "using"
  PROVE  /\ g = "deriveGammaAndBeta" /\ pc[g] = 1 =>
              Needs(Step(g)) = {"fs"} /\ Touches(Step(g)) = {"fs"}
         /\ g = "deriveGammaAndBeta" =>
              /\ Needs(Step(g)) \subseteq {"fs", "proof.LRO"}
              /\ Touches(Step(g)) \subseteq {"fs", "gammaBeta"}
         /\ g = "buildRatioCopyConstraint" =>
              /\ Needs(Step(g)) \subseteq LRO \union {"gammaBeta", "Z", "bpZ"}
              /\ Touches(Step(g)) \subseteq {"Z", "proof.Z"}
<1>1. pc[g] \in UseSteps[g]
  BY UsingAt
<1>2. g = "deriveGammaAndBeta" /\ pc[g] = 1 =>
        Needs(Step(g)) = {"fs"} /\ Touches(Step(g)) = {"fs"}
  BY DeriveGammaAndBetaAccesses DEF Step
<1>3. /\ g = "deriveGammaAndBeta" /\ pc[g] = 3 =>
           Needs(Step(g)) = {"fs", "proof.LRO"} /\ Touches(Step(g)) = {"fs"}
      /\ g = "deriveGammaAndBeta" /\ pc[g] = 4 =>
           Needs(Step(g)) = {"fs"} /\ Touches(Step(g)) = {"fs", "gammaBeta"}
  BY DeriveGammaAndBetaAccesses DEF Step
<1>4. g = "deriveGammaAndBeta" => pc[g] \in {1, 3, 4}
  BY <1>1 DEF UseSteps
<1>5. g = "deriveGammaAndBeta" =>
        /\ Needs(Step(g)) \subseteq {"fs", "proof.LRO"}
        /\ Touches(Step(g)) \subseteq {"fs", "gammaBeta"}
  BY <1>2, <1>3, <1>4
<1>6. /\ g = "buildRatioCopyConstraint" /\ pc[g] = 2 =>
           Needs(Step(g)) = LRO \union {"gammaBeta"} /\ Touches(Step(g)) = {"Z"}
      /\ g = "buildRatioCopyConstraint" /\ pc[g] = 3 =>
           Needs(Step(g)) = {"Z", "bpZ"} /\ Touches(Step(g)) = {"proof.Z"}
  BY BuildRatioCopyConstraintAccesses DEF Step
<1>7. g = "buildRatioCopyConstraint" => pc[g] \in {2, 3}
  BY <1>1 DEF UseSteps
<1>8. g = "buildRatioCopyConstraint" =>
        /\ Needs(Step(g)) \subseteq LRO \union {"gammaBeta", "Z", "bpZ"}
        /\ Touches(Step(g)) \subseteq {"Z", "proof.Z"}
  BY <1>6, <1>7
<1>. QED  BY <1>2, <1>5, <1>8

LEMMA QuotientFootprints ==
  ASSUME Sync, status["computeQuotient"] = "using"
  PROVE  LET g == "computeQuotient" IN
         /\ pc[g] = 1 => Needs(Step(g)) = {"trace.Q"} /\ Touches(Step(g)) = {}
         /\ pc[g] = 3 => Needs(Step(g)) = {"cCommitments"} /\ Touches(Step(g)) = {}
         /\ pc[g] \in {5, 6} => /\ Needs(Step(g)) \subseteq {"fs", "bsb22", "proof.Z", "Z"}
                                /\ Touches(Step(g)) \subseteq {"fs", "alpha", "ZS"}
         /\ pc[g] > 8 => /\ Needs(Step(g)) \subseteq {"h", "fs", "proof.H"}
                         /\ Touches(Step(g)) \subseteq {"h", "proof.H", "fs", "zeta"}
         /\ pc[g] \in {1, 3, 5, 6} \/ pc[g] >= 8
<1>. DEFINE g == "computeQuotient"
<1>1. pc[g] \in UseSteps[g]
  BY UsingAt, GoroutineNames
<1>2. pc[g] \in {1, 3, 5, 6, 8, 10, 11, 12}
  BY <1>1 DEF UseSteps
<1>3. /\ pc[g] = 1 => Needs(Step(g)) = {"trace.Q"} /\ Touches(Step(g)) = {}
      /\ pc[g] = 3 => Needs(Step(g)) = {"cCommitments"} /\ Touches(Step(g)) = {}
  BY ComputeQuotientAccesses DEF Step
<1>4. /\ pc[g] = 5 => /\ Needs(Step(g)) = {"fs", "bsb22", "proof.Z"}
                      /\ Touches(Step(g)) = {"fs", "alpha"}
      /\ pc[g] = 6 => Needs(Step(g)) = {"Z"} /\ Touches(Step(g)) = {"ZS"}
  BY ComputeQuotientAccesses DEF Step
<1>5. /\ pc[g] = 10 => Needs(Step(g)) = {} /\ Touches(Step(g)) = {"h"}
      /\ pc[g] = 11 => Needs(Step(g)) = {"h"} /\ Touches(Step(g)) = {"proof.H"}
      /\ pc[g] = 12 => Needs(Step(g)) = {"fs", "proof.H"} /\ Touches(Step(g)) = {"fs", "zeta"}
  BY ComputeQuotientAccesses DEF Step
<1>6. pc[g] \in {5, 6} => /\ Needs(Step(g)) \subseteq {"fs", "bsb22", "proof.Z", "Z"}
                          /\ Touches(Step(g)) \subseteq {"fs", "alpha", "ZS"}
  BY <1>4
<1>7. pc[g] > 8 => /\ Needs(Step(g)) \subseteq {"h", "fs", "proof.H"}
                   /\ Touches(Step(g)) \subseteq {"h", "proof.H", "fs", "zeta"}
  BY <1>2, <1>5
<1>8. pc[g] \in {1, 3, 5, 6} \/ pc[g] >= 8
  BY <1>2
<1>. QED  BY <1>3, <1>6, <1>7, <1>8

LEMMA LateFootprints ==
  ASSUME Sync, NEW g \in Goroutines, status[g] = "using"
  PROVE  /\ g = "openZ" => /\ Needs(Step(g)) = {"Z", "bpZ", "zeta"}
                           /\ Touches(Step(g)) = {"Z", "blindedZ", "opening"}
         /\ g = "restore" =>
              /\ Needs(Step(g)) = Trans \union {"bpLRO", "bpZ"}
              /\ Touches(Step(g)) = Trans \union {"bpLRO", "bpZ", "ZS", "Qk"}
         /\ g = "evaluations" =>
              /\ Needs(Step(g)) = LRO \union {"trace.Q", "bpLRO", "zeta"}
              /\ Touches(Step(g)) = {}
<1>1. pc[g] \in UseSteps[g]
  BY UsingAt
<1>2. g = "openZ" => /\ Needs(Step(g)) = {"Z", "bpZ", "zeta"}
                     /\ Touches(Step(g)) = {"Z", "blindedZ", "opening"}
  BY <1>1, OpenZAccesses DEF UseSteps, Step
<1>3. g = "restore" => /\ Needs(Step(g)) = Trans \union {"bpLRO", "bpZ"}
                       /\ Touches(Step(g)) = Trans \union {"bpLRO", "bpZ", "ZS", "Qk"}
  BY <1>1, RestoreAccesses DEF UseSteps, Step
<1>4. g = "evaluations" => /\ Needs(Step(g)) = LRO \union {"trace.Q", "bpLRO", "zeta"}
                           /\ Touches(Step(g)) = {}
  BY <1>1, EvaluationsAccesses DEF UseSteps, Step
<1>. QED  BY <1>2, <1>3, <1>4

LEMMA LateApart ==
  ASSUME Sync, NEW f \in Goroutines, NEW g \in Goroutines, f # g,
         status[f] = "using", status[g] = "using",
         f \in {"batchOpening", "computeLinearizedPolynomial", "evaluations", "openZ"},
         g = "batchOpening" => f = "batchOpening",
         g = "computeLinearizedPolynomial" => f = "batchOpening",
         g = "evaluations" => f # "openZ"
  PROVE  Apart(f, g)
<1>1. ~AtEnd(g)
  BY UsingAt
<1>2. /\ f = "batchOpening" => AtEnd("computeLinearizedPolynomial")
      /\ f = "computeLinearizedPolynomial" => AtEnd("openZ") /\ AtEnd("evaluations")
      /\ AtEnd("computeQuotient")
  BY UsingAfter, EndedBefore
<1>3. g \in {"openZ", "evaluations", "computeLinearizedPolynomial", "batchOpening"}
  BY <1>1, <1>2, EndedBefore, GoroutineNames
<1>4. f = "evaluations" /\ g = "openZ"
  BY <1>1, <1>2, <1>3, EndedBefore
<1>. QED  BY <1>4, LateFootprints DEF Apart, LRO

LEMMA RestoreApart ==
  ASSUME Sync, status["restore"] = "using",
         NEW g \in Goroutines, status[g] = "using",
         g \notin {"restore", "batchOpening", "computeLinearizedPolynomial", "evaluations", "openZ"}
  PROVE  Apart("restore", g)
<1>1. ~AtEnd(g)
  BY UsingAt
<1>2. "restore" \in Goroutines /\ pc["computeQuotient"] \in Nat
  BY GoroutineNames DEF Sync, GoroutineTypes
<1>3. pc["computeQuotient"] > 9
  BY <1>2, UsingAfter
<1>4. AtEnd("buildRatioCopyConstraint") /\ AtEnd("completeQk")
  BY <1>2, <1>3, Ordered DEF OrderToQuotient
<1>5. g = "computeQuotient"
  BY <1>1, <1>4, EndedBefore, GoroutineNames
<1>6. /\ Needs(Step(g)) \subseteq {"h", "fs", "proof.H"}
      /\ Touches(Step(g)) \subseteq {"h", "proof.H", "fs", "zeta"}
  BY <1>2, <1>3, <1>5, QuotientFootprints
<1>7. /\ Needs(Step("restore")) = Trans \union {"bpLRO", "bpZ"}
      /\ Touches(Step("restore")) = Trans \union {"bpLRO", "bpZ", "ZS", "Qk"}
  BY <1>2, LateFootprints
<1>8. Trans \intersect {"h", "fs", "proof.H", "zeta"} = {}
  BY DEF Trans, LRO
<1>. QED  BY <1>6, <1>7, <1>8 DEF Apart

LEMMA QuotientApart ==
  ASSUME Sync, status["computeQuotient"] = "using",
         NEW g \in Goroutines, status[g] = "using",
         g \in {"initBlindingPolynomials", "solveConstraints", "completeQk",
                "deriveGammaAndBeta", "buildRatioCopyConstraint"}
  PROVE  Apart("computeQuotient", g)
<1>. DEFINE f == "computeQuotient"
<1>1. ~AtEnd(g)
  BY UsingAt
<1>2. f \in Goroutines /\ pc[f] \in Nat
  BY GoroutineNames DEF Sync, GoroutineTypes
<1>3. /\ pc[f] > 1 => AtEnd("solveConstraints")
      /\ pc[f] > 4 => AtEnd("buildRatioCopyConstraint")
      /\ pc[f] > 7 => AtEnd("completeQk")
  BY <1>2, UsingAt
<1>4. CASE pc[f] = 1
  <2>1. Needs(Step(f)) = {"trace.Q"} /\ Touches(Step(f)) = {}
    BY <1>4, QuotientFootprints
  <2>2. "trace.Q" \notin Touches(Step(g))
    <3>1. g = "solveConstraints" => pc[g] \in {1, 3}
      BY UsingAt DEF UseSteps
    <3>. QED  BY <3>1, EarlyFootprints, MiddleFootprints DEF LRO
  <2>. QED  BY <2>1, <2>2 DEF Apart
<1>5. CASE pc[f] = 3
  <2>1. Needs(Step(f)) = {"cCommitments"} /\ Touches(Step(f)) = {}
    BY <1>5, QuotientFootprints
  <2>2. g \in {"completeQk", "deriveGammaAndBeta", "buildRatioCopyConstraint"}
    BY <1>1, <1>3, <1>5, EndedBefore
  <2>3. "cCommitments" \notin Touches(Step(g))
    BY <2>2, EarlyFootprints, MiddleFootprints
  <2>. QED  BY <2>1, <2>3 DEF Apart
<1>6. CASE pc[f] \in {5, 6}
  <2>1. /\ Needs(Step(f)) \subseteq {"fs", "bsb22", "proof.Z", "Z"}
        /\ Touches(Step(f)) \subseteq {"fs", "alpha", "ZS"}
    BY <1>6, QuotientFootprints
  <2>2. g = "completeQk"
    BY <1>1, <1>3, <1>6, EndedBefore
  <2>3. /\ Needs(Step(g)) \subseteq {"trace.Qk", "commitmentVal"}
        /\ Touches(Step(g)) \subseteq {"Qk"}
    BY <2>2, EarlyFootprints
  <2>. QED  BY <2>1, <2>3 DEF Apart
<1>7. ~(pc[f] >= 8)
  BY <1>1, <1>2, <1>3, EndedBefore
<1>8. pc[f] \in {1, 3, 5, 6}
  BY <1>7, QuotientFootprints
<1>. QED  BY <1>4, <1>5, <1>6, <1>8

LEMMA EarlyApart ==
  ASSUME Sync, NEW f \in Goroutines, NEW g \in Goroutines, f # g,
         status[f] = "using", status[g] = "using",
         f \in {"solveConstraints", "completeQk", "deriveGammaAndBeta",
                "buildRatioCopyConstraint"},
         g \in {"initBlindingPolynomials", "solveConstraints", "completeQk",
                "deriveGammaAndBeta"},
         f = "deriveGammaAndBeta" \/ g # "deriveGammaAndBeta" \/ f = "buildRatioCopyConstraint",
         f = "solveConstraints" => g = "initBlindingPolynomials"
  PROVE  Apart(f, g)
<1>1. ~AtEnd(g)
  BY UsingAt
<1>2. g = "solveConstraints" => pc[g] \in {1, 3}
  BY UsingAt DEF UseSteps
<1>3. CASE f = "buildRatioCopyConstraint"
  <2>1. AtEnd("deriveGammaAndBeta")
    BY <1>3, UsingAt
  <2>2. g = "completeQk"
    BY <1>1, <2>1, EndedBefore
  <2>3. /\ Needs(Step(g)) \subseteq {"trace.Qk", "commitmentVal"}
        /\ Touches(Step(g)) \subseteq {"Qk"}
    BY <2>2, EarlyFootprints
  <2>4. /\ Needs(Step(f)) \subseteq LRO \union {"gammaBeta", "Z", "bpZ"}
        /\ Touches(Step(f)) \subseteq {"Z", "proof.Z"}
    BY <1>3, MiddleFootprints
  <2>. QED  BY <2>3, <2>4 DEF Apart, LRO
<1>4. CASE f = "deriveGammaAndBeta" /\ pc[f] = 1
  <2>1. Needs(Step(f)) = {"fs"} /\ Touches(Step(f)) = {"fs"}
    BY <1>4, MiddleFootprints
  <2>2. "fs" \notin Needs(Step(g)) \union Touches(Step(g))
    BY <1>2, <1>4, EarlyFootprints DEF LRO
  <2>. QED  BY <2>1, <2>2 DEF Apart
<1>5. CASE f = "deriveGammaAndBeta" /\ pc[f] # 1
  <2>1. AtEnd("solveConstraints")
    <3>1. pc[f] > 1
      BY <1>5 DEF Sync, GoroutineTypes
    <3>. QED  BY <3>1, <1>5, UsingAt
  <2>2. g = "completeQk"
    BY <1>1, <1>5, <2>1, EndedBefore
  <2>3. /\ Needs(Step(g)) \subseteq {"trace.Qk", "commitmentVal"}
        /\ Touches(Step(g)) \subseteq {"Qk"}
    BY <2>2, EarlyFootprints
  <2>4. /\ Needs(Step(f)) \subseteq {"fs", "proof.LRO"}
        /\ Touches(Step(f)) \subseteq {"fs", "gammaBeta"}
    BY <1>5, MiddleFootprints
  <2>. QED  BY <2>3, <2>4 DEF Apart
<1>6. CASE f = "completeQk"
  <2>1. pc[f] \in {1, 3}
    BY <1>6, UsingAt DEF UseSteps
  <2>2. pc[f] = 3 => AtEnd("solveConstraints")
    BY <1>6, UsingAt
  <2>3. pc[f] = 1
    BY <1>1, <1>6, <2>1, <2>2, EndedBefore
  <2>4. Needs(Step(f)) = {"trace.Qk"} /\ Touches(Step(f)) = {}
    BY <1>6, <2>3, EarlyFootprints
  <2>5. "trace.Qk" \notin Touches(Step(g))
    BY <1>2, <1>6, EarlyFootprints DEF LRO
  <2>. QED  BY <2>4, <2>5 DEF Apart
<1>7. CASE f = "solveConstraints"
  <2>1. g = "initBlindingPolynomials" /\ pc[f] \in {1, 3}
    BY <1>7, UsingAt DEF UseSteps
  <2>2. pc[f] = 1
    BY <1>1, <1>7, <2>1, UsingAt
  <2>3. /\ Needs(Step(f)) = {}
        /\ Touches(Step(f)) = LRO \union {"cCommitments", "commitmentVal", "bsb22"}
    BY <1>7, <2>2, EarlyFootprints
  <2>4. Needs(Step(g)) = {} /\ Touches(Step(g)) = {"bpLRO", "bpZ"}
    BY <2>1, EarlyFootprints
  <2>. QED  BY <2>3, <2>4 DEF Apart, LRO
<1>. QED  BY <1>3, <1>4, <1>5, <1>6, <1>7

\* Any two goroutines that use the instance at the same time work on different objects.
LEMMA AllApart ==
  ASSUME Sync, NEW f \in Goroutines, NEW g \in Goroutines, f # g,
         status[f] = "using", status[g] = "using"
  PROVE  Apart(f, g)
<1>. DEFINE late == {"batchOpening", "computeLinearizedPolynomial", "evaluations", "openZ"}
            early == {"initBlindingPolynomials", "solveConstraints", "completeQk",
                      "deriveGammaAndBeta", "buildRatioCopyConstraint"}
<1>1. /\ f \in late \union {"restore", "computeQuotient"} \union early
      /\ g \in late \union {"restore", "computeQuotient"} \union early
  BY GoroutineNames
<1>2. Apart(f, g) <=> Apart(g, f)
  BY DEF Apart
<1>3. CASE f \in late \/ g \in late
  BY <1>2, <1>3, LateApart
<1>4. CASE f \notin late /\ g \notin late /\ (f = "restore" \/ g = "restore")
  BY <1>2, <1>4, RestoreApart
<1>5. CASE f \in early \union {"computeQuotient"} /\ g \in early \union {"computeQuotient"}
           /\ (f = "computeQuotient" \/ g = "computeQuotient")
  BY <1>2, <1>5, QuotientApart
<1>6. CASE f \in early /\ g \in early
  BY <1>2, <1>6, EarlyApart
<1>. QED  BY <1>1, <1>3, <1>4, <1>5, <1>6

\* So no two accesses at the same time conflict.
LEMMA NoConflict == Sync => NoConflictingAccess
BY AllApart DEF NoConflictingAccess, Using, Apart

-----------------------------------------------------------------------------
(* What is in the instance, as long as nothing has failed.                   *)

NoCause == \A g \in Goroutines : ret[g] # "cause"

\* Goroutine w[1] has its step w[2] behind it.
Past(w) == pc[w[1]] > w[2] \/ AtEnd(w[1])

Does(w) == Program[w[1]][w[2]]

Uses == {w \in Goroutines \X Nat : w[2] \in UseSteps[w[1]]}

\* The objects stay in a state from the end of the accesses `from' to the end of those of
\* `until'.
Keeps(objects, state, from, until) ==
  (\A w \in from : Past(w)) /\ (\A w \in until : ~Past(w)) => All(objects, state) \subseteq val

\* No access changes the objects in between.
Undisturbed(objects, from, until) ==
  \A g \in Goroutines : \A x \in objects :
    status[g] = "using" /\ x \in Touches(Step(g)) =>
      \/ <<g, pc[g]>> \in from \union until
      \/ \E w \in from : ~Past(w)

\* Without an error every step is a beginning, or leads to the next step.
Forward(f) ==
  \/ pc'[f] = pc[f] + 1 /\ ~AtEnd(f)'
  \/ pc'[f] = pc[f] /\ pc[f] = Last(f) /\ AtEnd(f)'

LEMMA Moves ==
  ASSUME Sync, Sync', NEW f \in Goroutines, Goroutine(f), NoCause'
  PROVE  /\ NoCause
         /\ \A h \in Goroutines : h # f => pc'[h] = pc[h] /\ (AtEnd(h)' <=> AtEnd(h))
         /\ ~AtEnd(f) /\ pc[f] \in Nat
         /\ \/ val' = val /\ pc'[f] = pc[f] /\ ~AtEnd(f)'
            \/ Forward(f) /\ val' = val /\ Step(f).op # "use"
            \/ Forward(f) /\ Succeed(f)
<1>1. /\ pc[f] \in 1 .. Last(f) /\ Last(f) \in Nat
      /\ Proper(f, pc[f])
      /\ pc \in [Goroutines -> Nat] /\ DOMAIN status = Goroutines /\ DOMAIN ret = Goroutines
  BY ProperProgram DEF Sync, GoroutineTypes
<1>2. ASSUME Advance(f), status[f] \in {"running", "using"}
      PROVE  /\ Forward(f) /\ ~AtEnd(f) /\ NoCause
             /\ \A h \in Goroutines : h # f => pc'[h] = pc[h] /\ (AtEnd(h)' <=> AtEnd(h))
  <2>1. CASE pc[f] < Last(f)
    <3>1. pc' = [pc EXCEPT ![f] = @ + 1] /\ status' = [status EXCEPT ![f] = "running"] /\ ret' = ret
      BY <1>2, <2>1 DEF Advance, Last
    <3>. QED  BY <1>1, <1>2, <3>1 DEF Forward, AtEnd, NoCause, Last
  <2>2. CASE ~(pc[f] < Last(f))
    <3>1. /\ pc' = pc /\ status' = [status EXCEPT ![f] = "ended"]
          /\ ret' = [ret EXCEPT ![f] = "nil"]
      BY <1>2, <2>2 DEF Advance, Return, Last
    <3>2. pc[f] = Last(f)
      BY <1>1, <2>2
    <3>3. NoCause
      <4>1. ret[f] = "nil"
        BY <1>2 DEF Sync, Returned
      <4>. QED  BY <1>1, <3>1, <4>1 DEF NoCause
    <3>. QED  BY <1>1, <1>2, <3>1, <3>2, <3>3 DEF Forward, AtEnd, Last
  <2>. QED  BY <2>1, <2>2
<1>3. CASE Begin(f)
  <2>1. /\ status[f] = "running" /\ status' = [status EXCEPT ![f] = "using"]
        /\ pc' = pc /\ ret' = ret /\ val' = val
    BY <1>3 DEF Begin, At
  <2>. QED  BY <1>1, <2>1 DEF AtEnd, NoCause, Last
<1>4. CASE Succeed(f)
  BY <1>1, <1>2, <1>4 DEF Succeed
<1>5. ~Fail(f)
  BY <1>1 DEF Fail, Return, NoCause
<1>6. CASE Receive(f) \/ CloseChannel(f) \/ JoinGoroutine(f)
  <2>1. /\ status[f] = "running" /\ Step(f).op # "use" /\ Advance(f) /\ val' = val
    BY <1>6 DEF Receive, CloseChannel, JoinGoroutine, At
  <2>. QED  BY <1>1, <1>2, <2>1
<1>7. ~ContextDone(f)
  <2>. SUFFICES ASSUME ContextDone(f)  PROVE FALSE
    OBVIOUS
  <2>1. status[f] = "running" /\ err # "none" /\ ret' = [ret EXCEPT ![f] = "ctx"]
    BY DEF ContextDone, At, Return
  <2>2. PICK h \in Group : ret[h] = "cause"
    BY <2>1 DEF Sync, Returned
  <2>3. h \in Goroutines /\ ret[f] = "nil"
    BY <2>1, GoroutineNames DEF Sync, Returned
  <2>4. ret'[h] = "cause"
    BY <1>1, <2>1, <2>2, <2>3
  <2>. QED  BY <2>3, <2>4 DEF NoCause
<1>8. CASE StartGoroutine(f)
  <2>. DEFINE h == Step(f).go
  <2>1. /\ status[f] = "running" /\ Step(f).op = "start" /\ ret' = ret /\ val' = val
        /\ status' = [status EXCEPT ![h] = "running"] /\ pc' = [pc EXCEPT ![f] = @ + 1]
    BY <1>8 DEF StartGoroutine, At
  <2>2. h \in Helpers /\ Starter[h] = f /\ StartOf[h] = pc[f]
    BY <1>1, <2>1 DEF Proper, Step
  <2>3. status[h] = "none" /\ h \in Goroutines
    <3>1. ~(pc[f] > pc[f])
      BY <1>1
    <3>. QED  BY <2>2, <3>1, GoroutineNames DEF Sync, Started
  <2>. HIDE DEF h
  <2>4. \A g \in Goroutines : AtEnd(g)' <=> status'[g] = "ended" /\ pc'[g] = Last(g)
    BY DEF AtEnd, Last
  <2>5. \A g \in Goroutines : g # f => pc'[g] = pc[g] /\ (AtEnd(g)' <=> AtEnd(g))
    BY <1>1, <2>1, <2>3, <2>4 DEF AtEnd
  <2>6. Forward(f) /\ ~AtEnd(f)
    <3>1. status'[f] = "running"
      BY <1>1, <2>1, <2>3
    <3>2. pc'[f] = pc[f] + 1
      BY <1>1, <2>1
    <3>. QED  BY <2>1, <2>4, <3>1, <3>2 DEF Forward, AtEnd
  <2>. QED  BY <1>1, <2>1, <2>5, <2>6 DEF NoCause
<1>. QED  BY <1>3, <1>4, <1>5, <1>6, <1>7, <1>8 DEF Goroutine

\* An access is past only after it succeeded, and stays so.
LEMMA PastMoves ==
  ASSUME Sync, Sync', NEW f \in Goroutines, Goroutine(f), NoCause', NEW w \in Uses
  PROVE  /\ Past(w) => Past(w)'
         /\ Past(w)' => Past(w) \/ (Succeed(f) /\ w = <<f, pc[f]>>)
<1>1. w[1] \in Goroutines /\ w[2] \in Nat /\ w[2] \in UseSteps[w[1]] /\ w = <<w[1], w[2]>>
  BY DEF Uses
<1>2. Past(w)' <=> pc'[w[1]] > w[2] \/ AtEnd(w[1])'
  BY DEF Past
<1>3. CASE w[1] # f
  BY <1>1, <1>2, <1>3, Moves DEF Past
<1>4. CASE w[1] = f
  <2>1. /\ ~AtEnd(f) /\ pc[f] \in Nat
        /\ \/ val' = val /\ pc'[f] = pc[f] /\ ~AtEnd(f)'
           \/ Forward(f) /\ val' = val /\ Step(f).op # "use"
           \/ Forward(f) /\ Succeed(f)
    BY Moves
  <2>2. w[2] = pc[f] => Step(f).op = "use"
    BY <1>1, <1>4, AtUse DEF Step
  <2>3. w[2] <= Last(f) /\ Last(f) \in Nat
    BY <1>1, <1>4, AtUse, ProperProgram
  <2>. QED  BY <1>1, <1>2, <1>4, <2>1, <2>2, <2>3 DEF Past, Forward
<1>. QED  BY <1>3, <1>4

-----------------------------------------------------------------------------
(* The accesses that change something.                                       *)

ConstraintsSolved      == <<"solveConstraints", 1>>
LROCommitted == <<"solveConstraints", 3>>
QkCompleted == <<"completeQk", 3>>
Blinding    == <<"initBlindingPolynomials", 1>>
PublicBound == <<"deriveGammaAndBeta", 1>>
GammaDerived == <<"deriveGammaAndBeta", 3>>
BetaDerived == <<"deriveGammaAndBeta", 4>>
RatioBuilt  == <<"buildRatioCopyConstraint", 2>>
ZCommitted  == <<"buildRatioCopyConstraint", 3>>
AlphaDerived == <<"computeQuotient", 5>>
ZShifted    == <<"computeQuotient", 6>>
Evaluated   == <<"computeQuotient", 8>>
Divided     == <<"computeQuotient", 10>>
HCommitted  == <<"computeQuotient", 11>>
ZetaDerived == <<"computeQuotient", 12>>
Restored    == <<"restore", 1>>
ZOpened     == <<"openZ", 2>>
Linearized  == <<"computeLinearizedPolynomial", 5>>
Batched     == <<"batchOpening", 2>>

LEMMA AccessNames ==
  {ConstraintsSolved, LROCommitted, QkCompleted, Blinding, PublicBound, GammaDerived, BetaDerived,
   RatioBuilt, ZCommitted, AlphaDerived, ZShifted, Evaluated, Divided, HCommitted, ZetaDerived,
   Restored, ZOpened, Linearized, Batched} \subseteq Uses
<1>1. {ConstraintsSolved, LROCommitted, QkCompleted, Blinding} \subseteq Uses
  BY GoroutineNames DEF Uses, UseSteps, ConstraintsSolved, LROCommitted, QkCompleted, Blinding
<1>2. {PublicBound, GammaDerived, BetaDerived, RatioBuilt, ZCommitted} \subseteq Uses
  BY GoroutineNames DEF Uses, UseSteps, PublicBound, GammaDerived, BetaDerived, RatioBuilt,
     ZCommitted
<1>3. {AlphaDerived, ZShifted, Evaluated, Divided, HCommitted, ZetaDerived} \subseteq Uses
  BY GoroutineNames DEF Uses, UseSteps, AlphaDerived, ZShifted, Evaluated, Divided, HCommitted,
     ZetaDerived
<1>4. {Restored, ZOpened, Linearized, Batched} \subseteq Uses
  BY GoroutineNames DEF Uses, UseSteps, Restored, ZOpened, Linearized, Batched
<1>. QED  BY <1>1, <1>2, <1>3, <1>4

\* Which accesses touch an object.
WrittenBy(x, w) ==
  /\ x \in LRO => w \in {ConstraintsSolved, LROCommitted, Evaluated, Restored, Batched}
  /\ x = "cCommitments" => w \in {ConstraintsSolved, Evaluated, Restored}
  /\ x \in {"commitmentVal", "bsb22"} => w = ConstraintsSolved
  /\ x = "proof.LRO" => w = LROCommitted
  /\ x = "trace.Q" => w \in {Evaluated, Restored}
  /\ x = "trace.Qk" => w = Linearized
  /\ x = "Qk" => w \in {QkCompleted, Evaluated, Restored}
  /\ x \in {"bpLRO", "bpZ"} => w \in {Blinding, Evaluated, Restored}

TakenBy(x, w) ==
  /\ x = "fs" => w \in {PublicBound, GammaDerived, BetaDerived, AlphaDerived, ZetaDerived}
  /\ x = "gammaBeta" => w = BetaDerived
  /\ x = "alpha" => w = AlphaDerived
  /\ x = "zeta" => w = ZetaDerived
  /\ x = "Z" => w \in {RatioBuilt, Evaluated, Restored, ZOpened}
  /\ x = "proof.Z" => w = ZCommitted
  /\ x = "ZS" => w \in {ZShifted, Restored}

OpenedBy(x, w) ==
  /\ x = "h" => w = Divided
  /\ x = "proof.H" => w = HCommitted
  /\ x = "blindedZ" => w \in {ZOpened, Linearized}
  /\ x = "opening" => w = ZOpened
  /\ x = "linearizedPolynomial" => w = Linearized
  /\ x = "proof.Batched" => w = Batched

LEMMA Writers ==
  ASSUME NEW g \in Goroutines, NEW k \in UseSteps[g], NEW x \in Touches(Program[g][k])
  PROVE  LET w == <<g, k>> IN WrittenBy(x, w) /\ TakenBy(x, w) /\ OpenedBy(x, w)
<1>. DEFINE w == <<g, k>>
            P == WrittenBy(x, w) /\ TakenBy(x, w) /\ OpenedBy(x, w)
<1>1. CASE g = "solveConstraints"
  <2>1. \/ w = ConstraintsSolved /\ x \in LRO \union {"cCommitments", "commitmentVal", "bsb22"}
        \/ w = LROCommitted /\ x \in LRO \union {"proof.LRO"}
    BY <1>1, SolveConstraintsAccesses DEF UseSteps, ConstraintsSolved, LROCommitted
  <2>. QED  BY <2>1 DEF WrittenBy, TakenBy, OpenedBy, LRO
<1>2. CASE g = "completeQk"
  <2>1. w = QkCompleted /\ x = "Qk"
    BY <1>2, CompleteQkAccesses DEF UseSteps, QkCompleted
  <2>. QED  BY <2>1 DEF WrittenBy, TakenBy, OpenedBy, LRO
<1>3. CASE g = "initBlindingPolynomials"
  <2>1. w = Blinding /\ x \in {"bpLRO", "bpZ"}
    BY <1>3, InitBlindingPolynomialsAccesses DEF UseSteps, Blinding
  <2>. QED  BY <2>1 DEF WrittenBy, TakenBy, OpenedBy, LRO
<1>4. CASE g = "deriveGammaAndBeta"
  <2>1. \/ w = PublicBound /\ x = "fs"
        \/ w = GammaDerived /\ x = "fs"
        \/ w = BetaDerived /\ x \in {"fs", "gammaBeta"}
    BY <1>4, DeriveGammaAndBetaAccesses DEF UseSteps, PublicBound, GammaDerived, BetaDerived
  <2>. QED  BY <2>1 DEF WrittenBy, TakenBy, OpenedBy, LRO
<1>5. CASE g = "buildRatioCopyConstraint"
  <2>1. \/ w = RatioBuilt /\ x = "Z"
        \/ w = ZCommitted /\ x = "proof.Z"
    BY <1>5, BuildRatioCopyConstraintAccesses DEF UseSteps, RatioBuilt, ZCommitted
  <2>. QED  BY <2>1 DEF WrittenBy, TakenBy, OpenedBy, LRO
<1>6. CASE g = "computeQuotient"
  <2>1. k \in {1, 3, 5, 6, 8, 10, 11, 12}
    BY <1>6 DEF UseSteps
  <2>2. CASE k \in {1, 3}
    BY <1>6, <2>2, ComputeQuotientAccesses
  <2>3. CASE k \in {5, 6}
    <3>1. \/ w = AlphaDerived /\ x \in {"fs", "alpha"}
          \/ w = ZShifted /\ x = "ZS"
      BY <1>6, <2>3, ComputeQuotientAccesses DEF AlphaDerived, ZShifted
    <3>. QED  BY <3>1 DEF WrittenBy, TakenBy, OpenedBy, LRO
  <2>4. CASE k = 8
    <3>1. w = Evaluated /\ x \in Trans \union {"bpLRO", "bpZ", "Qk"}
      BY <1>6, <2>4, ComputeQuotientAccesses DEF Evaluated
    <3>. QED  BY <3>1 DEF WrittenBy, TakenBy, OpenedBy, Trans, LRO
  <2>5. CASE k \in {10, 11, 12}
    <3>1. \/ w = Divided /\ x = "h"
          \/ w = HCommitted /\ x = "proof.H"
          \/ w = ZetaDerived /\ x \in {"fs", "zeta"}
      BY <1>6, <2>5, ComputeQuotientAccesses DEF Divided, HCommitted, ZetaDerived
    <3>. QED  BY <3>1 DEF WrittenBy, TakenBy, OpenedBy, LRO
  <2>. QED  BY <2>1, <2>2, <2>3, <2>4, <2>5
<1>7. CASE g = "openZ"
  <2>1. w = ZOpened /\ x \in {"Z", "blindedZ", "opening"}
    BY <1>7, OpenZAccesses DEF UseSteps, ZOpened
  <2>. QED  BY <2>1 DEF WrittenBy, TakenBy, OpenedBy, LRO
<1>8. CASE g = "computeLinearizedPolynomial"
  <2>1. w = Linearized /\ x \in {"blindedZ", "trace.Qk", "linearizedPolynomial"}
    BY <1>8, ComputeLinearizedPolynomialAccesses DEF UseSteps, Linearized
  <2>. QED  BY <2>1 DEF WrittenBy, TakenBy, OpenedBy, LRO
<1>9. CASE g = "batchOpening"
  <2>1. w = Batched /\ x \in LRO \union {"proof.Batched"}
    BY <1>9, BatchOpeningAccesses DEF UseSteps, Batched
  <2>. QED  BY <2>1 DEF WrittenBy, TakenBy, OpenedBy, LRO
<1>10. CASE g = "restore"
  <2>1. w = Restored /\ x \in Trans \union {"bpLRO", "bpZ", "ZS", "Qk"}
    BY <1>10, RestoreAccesses DEF UseSteps, Restored
  <2>. QED  BY <2>1 DEF WrittenBy, TakenBy, OpenedBy, Trans, LRO
<1>11. CASE g = "evaluations"
  BY <1>11, EvaluationsAccesses DEF UseSteps
<1>. QED  BY <1>1, <1>2, <1>3, <1>4, <1>5, <1>6, <1>7, <1>8, <1>9, <1>10, <1>11, GoroutineNames

\* Which accesses are past when others are.
LEMMA PastOrder ==
  ASSUME Sync
  PROVE  /\ Past(LROCommitted) => AtEnd("initBlindingPolynomials")
         /\ Past(QkCompleted) => AtEnd("solveConstraints")
         /\ Past(GammaDerived) => AtEnd("solveConstraints")
         /\ Past(RatioBuilt) => AtEnd("deriveGammaAndBeta")
         /\ Past(AlphaDerived) => AtEnd("buildRatioCopyConstraint")
         /\ Past(Evaluated) => AtEnd("completeQk") /\ AtEnd("buildRatioCopyConstraint")
         /\ Past(Restored) => pc["computeQuotient"] > 9
         /\ Past(ZOpened) => AtEnd("computeQuotient")
         /\ Past(Linearized) => AtEnd("openZ") /\ AtEnd("evaluations")
         /\ Past(Batched) => AtEnd("computeLinearizedPolynomial")
<1>0. pc \in [Goroutines -> Nat]
  BY DEF Sync, GoroutineTypes
<1>1. Past(LROCommitted) => AtEnd("initBlindingPolynomials")
  BY <1>0, GoroutineNames, Ordered, EndedBefore DEF Past, LROCommitted, OrderToQuotient
<1>2. Past(QkCompleted) => AtEnd("solveConstraints")
  BY <1>0, GoroutineNames, Ordered, EndedBefore DEF Past, QkCompleted, OrderToQuotient
<1>3. Past(GammaDerived) => AtEnd("solveConstraints")
  BY <1>0, GoroutineNames, Ordered, EndedBefore DEF Past, GammaDerived, OrderToQuotient
<1>4. Past(RatioBuilt) => AtEnd("deriveGammaAndBeta")
  BY <1>0, GoroutineNames, Ordered, EndedBefore DEF Past, RatioBuilt, OrderToQuotient
<1>5. Past(AlphaDerived) => AtEnd("buildRatioCopyConstraint")
  BY <1>0, GoroutineNames, Ordered, EndedBefore DEF Past, AlphaDerived, OrderToQuotient
<1>6. Past(Evaluated) => AtEnd("completeQk") /\ AtEnd("buildRatioCopyConstraint")
  BY <1>0, GoroutineNames, Ordered, EndedBefore DEF Past, Evaluated, OrderToQuotient
<1>7. Past(Restored) => pc["computeQuotient"] > 9
  <2>1. Past(Restored) => status["restore"] # "none"
    <3>1. status["restore"] = "none" => pc["restore"] = 1
      BY GoroutineNames DEF Sync, Started
    <3>. QED  BY <3>1 DEF Past, Restored, AtEnd
  <2>. QED  BY <2>1, Ordered DEF OrderToOpenings
<1>8. Past(ZOpened) => AtEnd("computeQuotient")
  BY <1>0, GoroutineNames, Ordered, EndedBefore DEF Past, ZOpened, OrderToOpenings
<1>9. Past(Linearized) => AtEnd("openZ") /\ AtEnd("evaluations")
  BY <1>0, GoroutineNames, Ordered, EndedBefore DEF Past, Linearized, OrderToOpenings
<1>10. Past(Batched) => AtEnd("computeLinearizedPolynomial")
  BY <1>0, GoroutineNames, Ordered, BatchOpeningSteps DEF Past, AtEnd, Batched, OrderToOpenings
<1>11. /\ Past(LROCommitted) => AtEnd("initBlindingPolynomials")
       /\ Past(QkCompleted) => AtEnd("solveConstraints")
       /\ Past(GammaDerived) => AtEnd("solveConstraints")
       /\ Past(RatioBuilt) => AtEnd("deriveGammaAndBeta")
       /\ Past(AlphaDerived) => AtEnd("buildRatioCopyConstraint")
  BY <1>1, <1>2, <1>3, <1>4, <1>5
<1>. QED  BY <1>6, <1>7, <1>8, <1>9, <1>10, <1>11

\* A step forward leaves the step behind.
LEMMA ForwardPast ==
  ASSUME Sync, NEW f \in Goroutines, Succeed(f)
  PROVE  pc'[f] > pc[f] \/ AtEnd(f)'
<1>1. /\ pc[f] \in 1 .. Last(f) /\ Last(f) \in Nat
      /\ pc \in [Goroutines -> Nat] /\ DOMAIN status = Goroutines
  BY ProperProgram DEF Sync, GoroutineTypes
<1>2. CASE pc[f] < Last(f)
  <2>1. pc' = [pc EXCEPT ![f] = @ + 1]
    BY <1>2 DEF Succeed, Advance, Last
  <2>. QED  BY <1>1, <2>1
<1>3. CASE ~(pc[f] < Last(f))
  <2>1. pc' = pc /\ status' = [status EXCEPT ![f] = "ended"]
    BY <1>3 DEF Succeed, Advance, Return, Last
  <2>. QED  BY <1>1, <1>3, <2>1 DEF AtEnd, Last
<1>. QED  BY <1>2, <1>3

\* What no access disturbs stays.
LEMMA KeepsStays ==
  ASSUME Sync, Sync', NEW f \in Goroutines, Goroutine(f), NoCause',
         NEW objects, NEW state, NEW from \in SUBSET Uses, NEW until \in SUBSET Uses,
         \A w \in from : All(objects, state) \subseteq Does(w).sets,
         Undisturbed(objects, from, until),
         Keeps(objects, state, from, until)
  PROVE  Keeps(objects, state, from, until)'
<1>. DEFINE A == All(objects, state)
            u == <<f, pc[f]>>
<1>1. Keeps(objects, state, from, until)' <=>
        ((\A w \in from : Past(w)') /\ (\A w \in until : ~Past(w)') => A \subseteq val')
  BY DEF Keeps
<1>. SUFFICES ASSUME \A w \in from : Past(w)', \A w \in until : ~Past(w)'  PROVE A \subseteq val'
  BY <1>1
<1>2. \A w \in until : ~Past(w)
  BY PastMoves
<1>3. CASE Succeed(f) /\ u \in from
  <2>1. A \subseteq Step(f).sets
    BY <1>3 DEF Step, Does
  <2>. QED  BY <1>3, <2>1 DEF Succeed
<1>4. CASE Succeed(f) /\ u \notin from
  <2>1. \A w \in from : Past(w)
    BY <1>4, PastMoves
  <2>2. A \subseteq val
    BY <1>2, <2>1 DEF Keeps
  <2>3. u \notin until
    <3>1. ASSUME NEW w \in until, w = u  PROVE FALSE
      <4>1. ~(pc'[f] > pc[f]) /\ ~AtEnd(f)'
        BY <3>1 DEF Past
      <4>. QED  BY <1>4, <4>1, ForwardPast
    <3>. QED  BY <3>1
  <2>4. \A x \in objects : x \notin Touches(Step(f))
    BY <1>4, <2>1, <2>3 DEF Undisturbed, Succeed
  <2>5. \A p \in A : p[1] \in objects
    BY DEF All
  <2>. QED  BY <1>4, <2>2, <2>4, <2>5 DEF Succeed
<1>5. CASE ~Succeed(f)
  <2>1. \A w \in from : Past(w)
    BY <1>5, PastMoves
  <2>2. val' = val
    BY <1>5, Moves
  <2>. QED  BY <1>2, <2>1, <2>2 DEF Keeps
<1>. QED  BY <1>3, <1>4, <1>5

-----------------------------------------------------------------------------
(* From which access to which the objects stay in a state.                   *)

\* What is there before the quotient is computed.
ValuesHold ==
  /\ Keeps(LRO, "values", {ConstraintsSolved}, {LROCommitted, Evaluated, Restored, Batched})
  /\ Keeps(LRO, "values", {LROCommitted}, {Evaluated, Restored, Batched})
  /\ Keeps({"cCommitments"}, "values", {ConstraintsSolved}, {Evaluated, Restored})
  /\ Keeps({"commitmentVal", "bsb22"}, "set", {ConstraintsSolved}, {})
  /\ Keeps({"proof.LRO"}, "set", {LROCommitted}, {})
  /\ Keeps({"trace.Q"}, "values", {}, {Evaluated, Restored})
  /\ Keeps({"trace.Qk"}, "values", {}, {Linearized})
  /\ Keeps({"Qk"}, "values", {QkCompleted}, {Evaluated, Restored})
  /\ Keeps({"bpLRO", "bpZ"}, "random", {Blinding}, {Evaluated, Restored})

\* The transcript and the challenges.
ChallengesHold ==
  /\ Keeps({"fs"}, "empty", {}, {PublicBound, GammaDerived, BetaDerived, AlphaDerived, ZetaDerived})
  /\ Keeps({"fs"}, "public", {PublicBound}, {GammaDerived, BetaDerived, AlphaDerived, ZetaDerived})
  /\ Keeps({"fs"}, "gamma", {GammaDerived}, {BetaDerived, AlphaDerived, ZetaDerived})
  /\ Keeps({"fs"}, "beta", {BetaDerived}, {AlphaDerived, ZetaDerived})
  /\ Keeps({"fs"}, "alpha", {AlphaDerived}, {ZetaDerived})
  /\ Keeps({"gammaBeta"}, "set", {BetaDerived}, {})
  /\ Keeps({"alpha"}, "set", {AlphaDerived}, {})
  /\ Keeps({"zeta"}, "set", {ZetaDerived}, {})

\* The permutation polynomial and the quotient.
QuotientHolds ==
  /\ Keeps({"Z"}, "values", {RatioBuilt}, {Evaluated, Restored, ZOpened})
  /\ Keeps({"proof.Z"}, "set", {ZCommitted}, {})
  /\ Keeps({"ZS"}, "shifted", {ZShifted}, {Restored})
  /\ Keeps(Trans \union {"bpLRO", "bpZ"}, "coset", {Evaluated}, {Restored, ZOpened, Batched})
  /\ Keeps({"h"}, "canonical", {Divided}, {})
  /\ Keeps({"proof.H"}, "set", {HCommitted}, {})

\* What the openings use and give.
OpeningsHold ==
  /\ Keeps(LRO, "canonical", {Restored}, {Batched})
  /\ Keeps({"cCommitments", "trace.Q"}, "canonical", {Restored}, {})
  /\ Keeps({"Z"}, "canonical", {Restored}, {ZOpened})
  /\ Keeps({"bpLRO", "bpZ"}, "random", {Restored}, {})
  /\ Keeps({"blindedZ"}, "blinded", {ZOpened}, {Linearized})
  /\ Keeps({"opening"}, "set", {ZOpened}, {})
  /\ Keeps({"linearizedPolynomial"}, "set", {Linearized}, {})
  /\ Keeps({"proof.Batched"}, "set", {Batched}, {})

LEMMA Parts ==
  ASSUME NEW S, NEW T, S \subseteq T, NEW x
  PROVE  All(S, x) \subseteq All(T, x)
BY DEF All

\* What the accesses leave.
LEMMA EarlySets ==
  /\ All(LRO, "values") \subseteq Does(ConstraintsSolved).sets
  /\ All({"cCommitments"}, "values") \subseteq Does(ConstraintsSolved).sets
  /\ All({"commitmentVal", "bsb22"}, "set") \subseteq Does(ConstraintsSolved).sets
  /\ All(LRO, "values") \subseteq Does(LROCommitted).sets
  /\ All({"proof.LRO"}, "set") \subseteq Does(LROCommitted).sets
  /\ All({"Qk"}, "values") \subseteq Does(QkCompleted).sets
  /\ All({"bpLRO", "bpZ"}, "random") \subseteq Does(Blinding).sets
  /\ All({"fs"}, "public") \subseteq Does(PublicBound).sets
  /\ All({"fs"}, "gamma") \subseteq Does(GammaDerived).sets
  /\ All({"fs"}, "beta") \subseteq Does(BetaDerived).sets
  /\ All({"gammaBeta"}, "set") \subseteq Does(BetaDerived).sets
<1>1. /\ All(LRO, "values") \subseteq Does(ConstraintsSolved).sets
      /\ All({"cCommitments"}, "values") \subseteq Does(ConstraintsSolved).sets
      /\ All({"commitmentVal", "bsb22"}, "set") \subseteq Does(ConstraintsSolved).sets
  <2>1. Does(ConstraintsSolved).sets =
            All(LRO \union {"cCommitments"}, "values")
              \union All({"commitmentVal", "bsb22"}, "set")
    BY DEF Does, ConstraintsSolved, Program, SolveConstraints, Use, MayFail, Access, None
  <2>2. All(LRO, "values") \subseteq All(LRO \union {"cCommitments"}, "values")
    BY Parts DEF Trans, LRO
  <2>3. All({"cCommitments"}, "values") \subseteq All(LRO \union {"cCommitments"}, "values")
    BY Parts DEF Trans, LRO
  <2>. QED  BY <2>1, <2>2, <2>3
<1>2. /\ All(LRO, "values") \subseteq Does(LROCommitted).sets
      /\ All({"proof.LRO"}, "set") \subseteq Does(LROCommitted).sets
  <2>1. Does(LROCommitted).sets = All(LRO, "values") \union All({"proof.LRO"}, "set")
    BY DEF Does, LROCommitted, Program, SolveConstraints, Use, MayFail, Access, None
  <2>. QED  BY <2>1
<1>3. All({"Qk"}, "values") \subseteq Does(QkCompleted).sets
  <2>1. Does(QkCompleted).sets = All({"Qk"}, "values")
    BY DEF Does, QkCompleted, Program, CompleteQk, Use, MayFail, Access, None
  <2>. QED  BY <2>1
<1>4. All({"bpLRO", "bpZ"}, "random") \subseteq Does(Blinding).sets
  <2>1. Does(Blinding).sets = All({"bpLRO", "bpZ"}, "random")
    BY DEF Does, Blinding, Program, InitBlindingPolynomials, Use, MayFail, Access, None
  <2>. QED  BY <2>1
<1>5. All({"fs"}, "public") \subseteq Does(PublicBound).sets
  <2>1. Does(PublicBound).sets = All({"fs"}, "public")
    BY DEF Does, PublicBound, Program, DeriveGammaAndBeta, Use, MayFail, Access, None
  <2>. QED  BY <2>1
<1>6. All({"fs"}, "gamma") \subseteq Does(GammaDerived).sets
  <2>1. Does(GammaDerived).sets = All({"fs"}, "gamma")
    BY DEF Does, GammaDerived, Program, DeriveGammaAndBeta, Use, MayFail, Access, None
  <2>. QED  BY <2>1
<1>7. /\ All({"fs"}, "beta") \subseteq Does(BetaDerived).sets
      /\ All({"gammaBeta"}, "set") \subseteq Does(BetaDerived).sets
  <2>1. Does(BetaDerived).sets = All({"fs"}, "beta") \union All({"gammaBeta"}, "set")
    BY DEF Does, BetaDerived, Program, DeriveGammaAndBeta, Use, MayFail, Access, None
  <2>. QED  BY <2>1
<1>. QED  BY <1>1, <1>2, <1>3, <1>4, <1>5, <1>6, <1>7

LEMMA QuotientSets ==
  /\ All({"Z"}, "values") \subseteq Does(RatioBuilt).sets
  /\ All({"proof.Z"}, "set") \subseteq Does(ZCommitted).sets
  /\ All({"fs"}, "alpha") \subseteq Does(AlphaDerived).sets
  /\ All({"alpha"}, "set") \subseteq Does(AlphaDerived).sets
  /\ All({"ZS"}, "shifted") \subseteq Does(ZShifted).sets
  /\ All(Trans \union {"bpLRO", "bpZ"}, "coset") \subseteq Does(Evaluated).sets
  /\ All({"h"}, "canonical") \subseteq Does(Divided).sets
  /\ All({"proof.H"}, "set") \subseteq Does(HCommitted).sets
  /\ All({"zeta"}, "set") \subseteq Does(ZetaDerived).sets
<1>1. All({"Z"}, "values") \subseteq Does(RatioBuilt).sets
  <2>1. Does(RatioBuilt).sets = All({"Z"}, "values")
    BY DEF Does, RatioBuilt, Program, BuildRatioCopyConstraint, Use, MayFail, Access, None
  <2>. QED  BY <2>1
<1>2. All({"proof.Z"}, "set") \subseteq Does(ZCommitted).sets
  <2>1. Does(ZCommitted).sets = All({"proof.Z"}, "set")
    BY DEF Does, ZCommitted, Program, BuildRatioCopyConstraint, Use, MayFail, Access, None
  <2>. QED  BY <2>1
<1>3. /\ All({"fs"}, "alpha") \subseteq Does(AlphaDerived).sets
      /\ All({"alpha"}, "set") \subseteq Does(AlphaDerived).sets
  <2>1. Does(AlphaDerived).sets = All({"fs"}, "alpha") \union All({"alpha"}, "set")
    BY DEF Does, AlphaDerived, Program, ComputeQuotient, Use, MayFail, Access, None
  <2>. QED  BY <2>1
<1>4. All({"ZS"}, "shifted") \subseteq Does(ZShifted).sets
  <2>1. Does(ZShifted).sets = All({"ZS"}, "shifted")
    BY DEF Does, ZShifted, Program, ComputeQuotient, Use, MayFail, Access, None
  <2>. QED  BY <2>1
<1>5. All(Trans \union {"bpLRO", "bpZ"}, "coset") \subseteq Does(Evaluated).sets
  <2>1. Does(Evaluated).sets = All(Trans \union {"bpLRO", "bpZ", "Qk"}, "coset")
    BY DEF Does, Evaluated, Program, ComputeQuotient, Use, MayFail, Access, None, Numerator
  <2>2. All(Trans \union {"bpLRO", "bpZ"}, "coset") \subseteq
            All(Trans \union {"bpLRO", "bpZ", "Qk"}, "coset")
    BY Parts DEF Trans, LRO
  <2>. QED  BY <2>1, <2>2
<1>6. All({"h"}, "canonical") \subseteq Does(Divided).sets
  <2>1. Does(Divided).sets = All({"h"}, "canonical")
    BY DEF Does, Divided, Program, ComputeQuotient, Use, MayFail, Access, None
  <2>. QED  BY <2>1
<1>7. All({"proof.H"}, "set") \subseteq Does(HCommitted).sets
  <2>1. Does(HCommitted).sets = All({"proof.H"}, "set")
    BY DEF Does, HCommitted, Program, ComputeQuotient, Use, MayFail, Access, None
  <2>. QED  BY <2>1
<1>8. All({"zeta"}, "set") \subseteq Does(ZetaDerived).sets
  <2>1. Does(ZetaDerived).sets = All({"fs"}, "zeta") \union All({"zeta"}, "set")
    BY DEF Does, ZetaDerived, Program, ComputeQuotient, Use, MayFail, Access, None
  <2>. QED  BY <2>1
<1>. QED  BY <1>1, <1>2, <1>3, <1>4, <1>5, <1>6, <1>7, <1>8

LEMMA LateSets ==
  /\ All(LRO, "canonical") \subseteq Does(Restored).sets
  /\ All({"cCommitments", "trace.Q"}, "canonical") \subseteq Does(Restored).sets
  /\ All({"Z"}, "canonical") \subseteq Does(Restored).sets
  /\ All({"bpLRO", "bpZ"}, "random") \subseteq Does(Restored).sets
  /\ All({"blindedZ"}, "blinded") \subseteq Does(ZOpened).sets
  /\ All({"opening"}, "set") \subseteq Does(ZOpened).sets
  /\ All({"linearizedPolynomial"}, "set") \subseteq Does(Linearized).sets
  /\ All({"proof.Batched"}, "set") \subseteq Does(Batched).sets
<1>1. /\ All(LRO, "canonical") \subseteq Does(Restored).sets
      /\ All({"cCommitments", "trace.Q"}, "canonical") \subseteq Does(Restored).sets
      /\ All({"Z"}, "canonical") \subseteq Does(Restored).sets
      /\ All({"bpLRO", "bpZ"}, "random") \subseteq Does(Restored).sets
  <2>1. Does(Restored).sets =
            All(Trans, "canonical") \union All({"bpLRO", "bpZ"}, "random")
              \union All({"ZS", "Qk"}, "unset")
    BY DEF Does, Restored, Program, Restore, Use, MayFail, Access, None
  <2>2. All(LRO, "canonical") \subseteq All(Trans, "canonical")
    BY Parts DEF Trans, LRO
  <2>3. All({"cCommitments", "trace.Q"}, "canonical") \subseteq All(Trans, "canonical")
    BY Parts DEF Trans, LRO
  <2>4. All({"Z"}, "canonical") \subseteq All(Trans, "canonical")
    BY Parts DEF Trans, LRO
  <2>. QED  BY <2>1, <2>2, <2>3, <2>4
<1>2. /\ All({"blindedZ"}, "blinded") \subseteq Does(ZOpened).sets
      /\ All({"opening"}, "set") \subseteq Does(ZOpened).sets
  <2>1. Does(ZOpened).sets = All({"Z", "blindedZ"}, "blinded") \union All({"opening"}, "set")
    BY DEF Does, ZOpened, Program, OpenZ, Use, MayFail, Access, None
  <2>2. All({"blindedZ"}, "blinded") \subseteq All({"Z", "blindedZ"}, "blinded")
    BY Parts DEF Trans, LRO
  <2>. QED  BY <2>1, <2>2
<1>3. All({"linearizedPolynomial"}, "set") \subseteq Does(Linearized).sets
  <2>1. Does(Linearized).sets =
            All({"blindedZ"}, "linearized") \union All({"trace.Qk"}, "canonical")
              \union All({"linearizedPolynomial"}, "set")
    BY DEF Does, Linearized, Program, ComputeLinearizedPolynomial, Use, MayFail, Access, None
  <2>. QED  BY <2>1
<1>4. All({"proof.Batched"}, "set") \subseteq Does(Batched).sets
  <2>1. Does(Batched).sets = All(LRO, "blinded") \union All({"proof.Batched"}, "set")
    BY DEF Does, Batched, Program, BatchOpening, Use, MayFail, Access, None
  <2>. QED  BY <2>1
<1>. QED  BY <1>1, <1>2, <1>3, <1>4

\* An access that is not over comes before others.
LEMMA NotYet ==
  ASSUME Sync, NEW g \in Goroutines, status[g] = "using"
  PROVE  LET w == <<g, pc[g]>> IN
         /\ w = ConstraintsSolved => ~Past(LROCommitted) /\ ~Past(Evaluated) /\ ~Past(Restored)
         /\ w = LROCommitted => ~Past(Evaluated) /\ ~Past(Restored)
         /\ w = Blinding => ~Past(Evaluated) /\ ~Past(Restored)
         /\ w = RatioBuilt => ~Past(Evaluated) /\ ~Past(Restored)
         /\ w = Evaluated => ~Past(Restored)
<1>. DEFINE w == <<g, pc[g]>>
<1>1. ~AtEnd(g) /\ pc["computeQuotient"] \in Nat
  BY UsingAt, GoroutineNames DEF Sync, GoroutineTypes
<1>2. Past(Restored) => Past(Evaluated)
  BY <1>1, PastOrder DEF Past, Evaluated
<1>3. w = ConstraintsSolved => ~Past(LROCommitted)
  BY <1>1 DEF Past, ConstraintsSolved, LROCommitted
<1>4. g \in {"solveConstraints", "initBlindingPolynomials", "buildRatioCopyConstraint"} =>
        ~Past(Evaluated)
  BY <1>1, PastOrder, EndedBefore
<1>5. w = Evaluated => ~Past(Restored)
  BY <1>1, PastOrder DEF Evaluated
<1>6. /\ w \in {ConstraintsSolved, LROCommitted} => g = "solveConstraints"
      /\ w = Blinding => g = "initBlindingPolynomials"
      /\ w = RatioBuilt => g = "buildRatioCopyConstraint"
  BY DEF ConstraintsSolved, LROCommitted, Blinding, RatioBuilt
<1>. QED  BY <1>2, <1>3, <1>4, <1>5, <1>6

LEMMA NotDerived ==
  ASSUME Sync, NEW g \in Goroutines, status[g] = "using"
  PROVE  LET w == <<g, pc[g]>> IN
         /\ w = PublicBound => ~Past(GammaDerived)
         /\ w \in {PublicBound, GammaDerived} => ~Past(BetaDerived)
         /\ w \in {PublicBound, GammaDerived, BetaDerived} => ~Past(AlphaDerived)
         /\ w \in {PublicBound, GammaDerived, BetaDerived, AlphaDerived} => ~Past(ZetaDerived)
<1>. DEFINE w == <<g, pc[g]>>
<1>1. ~AtEnd(g) /\ pc["computeQuotient"] \in Nat
  BY UsingAt, GoroutineNames DEF Sync, GoroutineTypes
<1>2. Past(ZetaDerived) => Past(AlphaDerived)
  BY <1>1 DEF Past, AlphaDerived, ZetaDerived
<1>3. Past(AlphaDerived) => AtEnd("deriveGammaAndBeta")
  BY PastOrder, EndedBefore
<1>4. w \in {PublicBound, GammaDerived, BetaDerived} => g = "deriveGammaAndBeta"
  BY DEF PublicBound, GammaDerived, BetaDerived
<1>5. /\ w = PublicBound => ~Past(GammaDerived)
      /\ w \in {PublicBound, GammaDerived} => ~Past(BetaDerived)
  BY <1>1 DEF Past, PublicBound, GammaDerived, BetaDerived
<1>6. w = AlphaDerived => ~Past(ZetaDerived)
  BY <1>1 DEF Past, AlphaDerived, ZetaDerived
<1>. QED  BY <1>1, <1>2, <1>3, <1>4, <1>5, <1>6

LEMMA Touching ==
  ASSUME Sync, NEW g \in Goroutines, status[g] = "using", NEW x \in Touches(Step(g))
  PROVE  LET w == <<g, pc[g]>> IN WrittenBy(x, w) /\ TakenBy(x, w) /\ OpenedBy(x, w)
BY UsingAt, Writers DEF Step

\* Once such an access is over, and until one that ends the state, no access in progress
\* touches the objects.
LEMMA ValuesHoldUndisturbed ==
  ASSUME Sync
  PROVE  /\ Undisturbed(LRO, {ConstraintsSolved}, {LROCommitted, Evaluated, Restored, Batched})
         /\ Undisturbed(LRO, {LROCommitted}, {Evaluated, Restored, Batched})
         /\ Undisturbed({"cCommitments"}, {ConstraintsSolved}, {Evaluated, Restored})
         /\ Undisturbed({"commitmentVal", "bsb22"}, {ConstraintsSolved}, {})
         /\ Undisturbed({"proof.LRO"}, {LROCommitted}, {})
         /\ Undisturbed({"trace.Q"}, {}, {Evaluated, Restored})
         /\ Undisturbed({"trace.Qk"}, {}, {Linearized})
         /\ Undisturbed({"Qk"}, {QkCompleted}, {Evaluated, Restored})
         /\ Undisturbed({"bpLRO", "bpZ"}, {Blinding}, {Evaluated, Restored})
<1>1. Undisturbed(LRO, {ConstraintsSolved}, {LROCommitted, Evaluated, Restored, Batched})
  BY Touching, NotYet, NotDerived DEF Undisturbed, WrittenBy
<1>2. Undisturbed(LRO, {LROCommitted}, {Evaluated, Restored, Batched})
  BY Touching, NotYet, NotDerived DEF Undisturbed, WrittenBy
<1>3. Undisturbed({"cCommitments"}, {ConstraintsSolved}, {Evaluated, Restored})
  BY Touching, NotYet, NotDerived DEF Undisturbed, WrittenBy
<1>4. Undisturbed({"commitmentVal", "bsb22"}, {ConstraintsSolved}, {})
  BY Touching, NotYet, NotDerived DEF Undisturbed, WrittenBy
<1>5. Undisturbed({"proof.LRO"}, {LROCommitted}, {})
  BY Touching, NotYet, NotDerived DEF Undisturbed, WrittenBy
<1>6. Undisturbed({"trace.Q"}, {}, {Evaluated, Restored})
  BY Touching, NotYet, NotDerived DEF Undisturbed, WrittenBy
<1>7. Undisturbed({"trace.Qk"}, {}, {Linearized})
  BY Touching, NotYet, NotDerived DEF Undisturbed, WrittenBy
<1>8. Undisturbed({"Qk"}, {QkCompleted}, {Evaluated, Restored})
  BY Touching, NotYet, NotDerived DEF Undisturbed, WrittenBy
<1>9. Undisturbed({"bpLRO", "bpZ"}, {Blinding}, {Evaluated, Restored})
  BY Touching, NotYet, NotDerived DEF Undisturbed, WrittenBy
<1>. QED  BY <1>1, <1>2, <1>3, <1>4, <1>5, <1>6, <1>7, <1>8, <1>9

LEMMA ChallengesHoldUndisturbed ==
  ASSUME Sync
  PROVE  /\ Undisturbed({"fs"}, {},
                        {PublicBound, GammaDerived, BetaDerived, AlphaDerived, ZetaDerived})
         /\ Undisturbed({"fs"}, {PublicBound},
                        {GammaDerived, BetaDerived, AlphaDerived, ZetaDerived})
         /\ Undisturbed({"fs"}, {GammaDerived}, {BetaDerived, AlphaDerived, ZetaDerived})
         /\ Undisturbed({"fs"}, {BetaDerived}, {AlphaDerived, ZetaDerived})
         /\ Undisturbed({"fs"}, {AlphaDerived}, {ZetaDerived})
         /\ Undisturbed({"gammaBeta"}, {BetaDerived}, {})
         /\ Undisturbed({"alpha"}, {AlphaDerived}, {})
         /\ Undisturbed({"zeta"}, {ZetaDerived}, {})
<1>1. Undisturbed({"fs"}, {}, {PublicBound, GammaDerived, BetaDerived, AlphaDerived, ZetaDerived})
  BY Touching, NotYet, NotDerived DEF Undisturbed, TakenBy
<1>2. Undisturbed({"fs"}, {PublicBound}, {GammaDerived, BetaDerived, AlphaDerived, ZetaDerived})
  BY Touching, NotYet, NotDerived DEF Undisturbed, TakenBy
<1>3. Undisturbed({"fs"}, {GammaDerived}, {BetaDerived, AlphaDerived, ZetaDerived})
  BY Touching, NotYet, NotDerived DEF Undisturbed, TakenBy
<1>4. Undisturbed({"fs"}, {BetaDerived}, {AlphaDerived, ZetaDerived})
  BY Touching, NotYet, NotDerived DEF Undisturbed, TakenBy
<1>5. Undisturbed({"fs"}, {AlphaDerived}, {ZetaDerived})
  BY Touching, NotYet, NotDerived DEF Undisturbed, TakenBy
<1>6. Undisturbed({"gammaBeta"}, {BetaDerived}, {})
  BY Touching, NotYet, NotDerived DEF Undisturbed, TakenBy
<1>7. Undisturbed({"alpha"}, {AlphaDerived}, {})
  BY Touching, NotYet, NotDerived DEF Undisturbed, TakenBy
<1>8. Undisturbed({"zeta"}, {ZetaDerived}, {})
  BY Touching, NotYet, NotDerived DEF Undisturbed, TakenBy
<1>. QED  BY <1>1, <1>2, <1>3, <1>4, <1>5, <1>6, <1>7, <1>8

LEMMA QuotientHoldsUndisturbed ==
  ASSUME Sync
  PROVE  /\ Undisturbed({"Z"}, {RatioBuilt}, {Evaluated, Restored, ZOpened})
         /\ Undisturbed({"proof.Z"}, {ZCommitted}, {})
         /\ Undisturbed({"ZS"}, {ZShifted}, {Restored})
         /\ Undisturbed(Trans \union {"bpLRO", "bpZ"}, {Evaluated}, {Restored, ZOpened, Batched})
         /\ Undisturbed({"h"}, {Divided}, {})
         /\ Undisturbed({"proof.H"}, {HCommitted}, {})
<1>1. Undisturbed({"Z"}, {RatioBuilt}, {Evaluated, Restored, ZOpened})
  BY Touching, NotYet, NotDerived DEF Undisturbed, TakenBy, WrittenBy, OpenedBy
<1>2. Undisturbed({"proof.Z"}, {ZCommitted}, {})
  BY Touching, NotYet, NotDerived DEF Undisturbed, TakenBy, WrittenBy, OpenedBy
<1>3. Undisturbed({"ZS"}, {ZShifted}, {Restored})
  BY Touching, NotYet, NotDerived DEF Undisturbed, TakenBy, WrittenBy, OpenedBy
<1>4. Undisturbed(Trans \union {"bpLRO", "bpZ"}, {Evaluated}, {Restored, ZOpened, Batched})
  BY Touching, NotYet, NotDerived DEF Undisturbed, TakenBy, WrittenBy, OpenedBy, Trans
<1>5. Undisturbed({"h"}, {Divided}, {})
  BY Touching, NotYet, NotDerived DEF Undisturbed, TakenBy, WrittenBy, OpenedBy
<1>6. Undisturbed({"proof.H"}, {HCommitted}, {})
  BY Touching, NotYet, NotDerived DEF Undisturbed, TakenBy, WrittenBy, OpenedBy
<1>. QED  BY <1>1, <1>2, <1>3, <1>4, <1>5, <1>6

LEMMA OpeningsHoldUndisturbed ==
  ASSUME Sync
  PROVE  /\ Undisturbed(LRO, {Restored}, {Batched})
         /\ Undisturbed({"cCommitments", "trace.Q"}, {Restored}, {})
         /\ Undisturbed({"Z"}, {Restored}, {ZOpened})
         /\ Undisturbed({"bpLRO", "bpZ"}, {Restored}, {})
         /\ Undisturbed({"blindedZ"}, {ZOpened}, {Linearized})
         /\ Undisturbed({"opening"}, {ZOpened}, {})
         /\ Undisturbed({"linearizedPolynomial"}, {Linearized}, {})
         /\ Undisturbed({"proof.Batched"}, {Batched}, {})
<1>1. Undisturbed(LRO, {Restored}, {Batched})
  BY Touching, NotYet, NotDerived DEF Undisturbed, WrittenBy, TakenBy, OpenedBy
<1>2. Undisturbed({"cCommitments", "trace.Q"}, {Restored}, {})
  BY Touching, NotYet, NotDerived DEF Undisturbed, WrittenBy, TakenBy, OpenedBy
<1>3. Undisturbed({"Z"}, {Restored}, {ZOpened})
  BY Touching, NotYet, NotDerived DEF Undisturbed, WrittenBy, TakenBy, OpenedBy
<1>4. Undisturbed({"bpLRO", "bpZ"}, {Restored}, {})
  BY Touching, NotYet, NotDerived DEF Undisturbed, WrittenBy, TakenBy, OpenedBy
<1>5. Undisturbed({"blindedZ"}, {ZOpened}, {Linearized})
  BY Touching, NotYet, NotDerived DEF Undisturbed, WrittenBy, TakenBy, OpenedBy
<1>6. Undisturbed({"opening"}, {ZOpened}, {})
  BY Touching, NotYet, NotDerived DEF Undisturbed, WrittenBy, TakenBy, OpenedBy
<1>7. Undisturbed({"linearizedPolynomial"}, {Linearized}, {})
  BY Touching, NotYet, NotDerived DEF Undisturbed, WrittenBy, TakenBy, OpenedBy
<1>8. Undisturbed({"proof.Batched"}, {Batched}, {})
  BY Touching, NotYet, NotDerived DEF Undisturbed, WrittenBy, TakenBy, OpenedBy
<1>. QED  BY <1>1, <1>2, <1>3, <1>4, <1>5, <1>6, <1>7, <1>8

\* Hence each group of states survives every step.
LEMMA ValuesHoldStays ==
  ASSUME Sync, Sync', NEW f \in Goroutines, Goroutine(f), NoCause', ValuesHold
  PROVE  ValuesHold'
<1>. USE KeepsStays, AccessNames, ValuesHoldUndisturbed, EarlySets DEF ValuesHold
<1>1. Keeps(LRO, "values", {ConstraintsSolved}, {LROCommitted, Evaluated, Restored, Batched})'
  OBVIOUS
<1>2. Keeps(LRO, "values", {LROCommitted}, {Evaluated, Restored, Batched})'
  OBVIOUS
<1>3. Keeps({"cCommitments"}, "values", {ConstraintsSolved}, {Evaluated, Restored})'
  OBVIOUS
<1>4. Keeps({"commitmentVal", "bsb22"}, "set", {ConstraintsSolved}, {})'
  OBVIOUS
<1>5. Keeps({"proof.LRO"}, "set", {LROCommitted}, {})'
  OBVIOUS
<1>6. Keeps({"trace.Q"}, "values", {}, {Evaluated, Restored})'
  OBVIOUS
<1>7. Keeps({"trace.Qk"}, "values", {}, {Linearized})'
  OBVIOUS
<1>8. Keeps({"Qk"}, "values", {QkCompleted}, {Evaluated, Restored})'
  OBVIOUS
<1>9. Keeps({"bpLRO", "bpZ"}, "random", {Blinding}, {Evaluated, Restored})'
  OBVIOUS
<1>. QED  BY <1>1, <1>2, <1>3, <1>4, <1>5, <1>6, <1>7, <1>8, <1>9

LEMMA ChallengesHoldStays ==
  ASSUME Sync, Sync', NEW f \in Goroutines, Goroutine(f), NoCause', ChallengesHold
  PROVE  ChallengesHold'
<1>. USE KeepsStays, AccessNames, ChallengesHoldUndisturbed, EarlySets,
         QuotientSets DEF ChallengesHold
<1>1. Keeps({"fs"}, "empty", {},
            {PublicBound, GammaDerived, BetaDerived, AlphaDerived, ZetaDerived})'
  OBVIOUS
<1>2. Keeps({"fs"}, "public", {PublicBound},
            {GammaDerived, BetaDerived, AlphaDerived, ZetaDerived})'
  OBVIOUS
<1>3. Keeps({"fs"}, "gamma", {GammaDerived}, {BetaDerived, AlphaDerived, ZetaDerived})'
  OBVIOUS
<1>4. Keeps({"fs"}, "beta", {BetaDerived}, {AlphaDerived, ZetaDerived})'
  OBVIOUS
<1>5. Keeps({"fs"}, "alpha", {AlphaDerived}, {ZetaDerived})'
  OBVIOUS
<1>6. Keeps({"gammaBeta"}, "set", {BetaDerived}, {})'
  OBVIOUS
<1>7. Keeps({"alpha"}, "set", {AlphaDerived}, {})'
  OBVIOUS
<1>8. Keeps({"zeta"}, "set", {ZetaDerived}, {})'
  OBVIOUS
<1>. QED  BY <1>1, <1>2, <1>3, <1>4, <1>5, <1>6, <1>7, <1>8

LEMMA QuotientHoldsStays ==
  ASSUME Sync, Sync', NEW f \in Goroutines, Goroutine(f), NoCause', QuotientHolds
  PROVE  QuotientHolds'
<1>. USE KeepsStays, AccessNames, QuotientHoldsUndisturbed, QuotientSets DEF QuotientHolds
<1>1. Keeps({"Z"}, "values", {RatioBuilt}, {Evaluated, Restored, ZOpened})'
  OBVIOUS
<1>2. Keeps({"proof.Z"}, "set", {ZCommitted}, {})'
  OBVIOUS
<1>3. Keeps({"ZS"}, "shifted", {ZShifted}, {Restored})'
  OBVIOUS
<1>4. Keeps(Trans \union {"bpLRO", "bpZ"}, "coset", {Evaluated}, {Restored, ZOpened, Batched})'
  OBVIOUS
<1>5. Keeps({"h"}, "canonical", {Divided}, {})'
  OBVIOUS
<1>6. Keeps({"proof.H"}, "set", {HCommitted}, {})'
  OBVIOUS
<1>. QED  BY <1>1, <1>2, <1>3, <1>4, <1>5, <1>6

LEMMA OpeningsHoldStays ==
  ASSUME Sync, Sync', NEW f \in Goroutines, Goroutine(f), NoCause', OpeningsHold
  PROVE  OpeningsHold'
<1>. USE KeepsStays, AccessNames, OpeningsHoldUndisturbed, LateSets DEF OpeningsHold
<1>1. Keeps(LRO, "canonical", {Restored}, {Batched})'
  OBVIOUS
<1>2. Keeps({"cCommitments", "trace.Q"}, "canonical", {Restored}, {})'
  OBVIOUS
<1>3. Keeps({"Z"}, "canonical", {Restored}, {ZOpened})'
  OBVIOUS
<1>4. Keeps({"bpLRO", "bpZ"}, "random", {Restored}, {})'
  OBVIOUS
<1>5. Keeps({"blindedZ"}, "blinded", {ZOpened}, {Linearized})'
  OBVIOUS
<1>6. Keeps({"opening"}, "set", {ZOpened}, {})'
  OBVIOUS
<1>7. Keeps({"linearizedPolynomial"}, "set", {Linearized}, {})'
  OBVIOUS
<1>8. Keeps({"proof.Batched"}, "set", {Batched}, {})'
  OBVIOUS
<1>. QED  BY <1>1, <1>2, <1>3, <1>4, <1>5, <1>6, <1>7, <1>8

Contents == ValuesHold /\ ChallengesHold /\ QuotientHolds /\ OpeningsHold

Facts == NoCause => Contents

LEMMA FactsInit == ProverInit => Facts
<1>. SUFFICES ASSUME ProverInit  PROVE Contents
  BY DEF Facts
<1>1. \A w \in Uses : ~Past(w)
  <2>. SUFFICES ASSUME NEW w \in Uses  PROVE ~Past(w)
    OBVIOUS
  <2>1. w[1] \in Goroutines /\ w[2] \in 1 .. Last(w[1])
    BY AtUse DEF Uses
  <2>2. pc[w[1]] = 1 /\ status[w[1]] # "ended"
    BY <2>1 DEF ProverInit
  <2>3. Last(w[1]) \in Nat
    BY <2>1, ProperProgram
  <2>. QED  BY <2>1, <2>2, <2>3 DEF Past, AtEnd
<1>2. /\ All({"trace.Q"}, "values") \subseteq val /\ All({"trace.Qk"}, "values") \subseteq val
      /\ All({"fs"}, "empty") \subseteq val
  BY DEF ProverInit, All
<1>. HIDE DEF ProverInit
<1>3. ValuesHold
  BY <1>1, <1>2, AccessNames DEF ValuesHold, Keeps
<1>4. ChallengesHold
  BY <1>1, <1>2, AccessNames DEF ChallengesHold, Keeps
<1>5. QuotientHolds
  BY <1>1, AccessNames DEF QuotientHolds, Keeps
<1>6. OpeningsHold
  BY <1>1, AccessNames DEF OpeningsHold, Keeps
<1>. QED  BY <1>3, <1>4, <1>5, <1>6 DEF Contents

LEMMA KeepsSame ==
  ASSUME NEW objects, NEW state, NEW from, NEW until, Keeps(objects, state, from, until),
         UNCHANGED <<status, pc, ret, val>>
  PROVE  Keeps(objects, state, from, until)'
BY DEF Keeps, Past, AtEnd, Last

\* What the accesses left is there after every step, as long as nothing failed.
LEMMA FactsNext == Sync /\ Facts /\ [ProverNext]_proverVars => Facts'
<1>. SUFFICES ASSUME Sync, Facts, [ProverNext]_proverVars, NoCause'  PROVE Contents'
  BY DEF Facts
<1>1. Sync'
  BY SyncNext
<1>2. CASE UNCHANGED <<status, pc, ret, val>>
  <2>1. NoCause
    BY <1>2 DEF NoCause
  <2>2. Contents
    BY <2>1 DEF Facts
  <2>3. ValuesHold' /\ ChallengesHold'
    BY <1>2, <2>2, KeepsSame DEF Contents, ValuesHold, ChallengesHold
  <2>4. QuotientHolds' /\ OpeningsHold'
    BY <1>2, <2>2, KeepsSame DEF Contents, QuotientHolds, OpeningsHold
  <2>. QED  BY <2>3, <2>4 DEF Contents
<1>3. ASSUME NEW f \in Goroutines, Goroutine(f)  PROVE Contents'
  <2>1. Contents
    BY <1>1, <1>3, Moves DEF Facts
  <2>. QED  BY <1>1, <1>3, <2>1, ValuesHoldStays, ChallengesHoldStays, QuotientHoldsStays,
               OpeningsHoldStays DEF Contents
<1>. QED  BY <1>2, <1>3 DEF ProverNext, ProverStop, WaitGroup, proverVars

-----------------------------------------------------------------------------
(* What an access needs is there.                                            *)

LEMMA AllOfBoth ==
  ASSUME NEW A, NEW B, NEW x, All(A, x) \subseteq val, All(B, x) \subseteq val
  PROVE  All(A \union B, x) \subseteq val
BY DEF All

LEMMA AllOfPart ==
  ASSUME NEW A, NEW B, A \subseteq B, NEW x, All(B, x) \subseteq val
  PROVE  All(A, x) \subseteq val
BY DEF All

\* Each goroutine in turn, at each of its accesses.
LEMMA SolveConstraintsReady ==
  ASSUME Sync, Contents, status["solveConstraints"] = "using"
  PROVE  Step("solveConstraints").needs \subseteq val
<1>. DEFINE g == "solveConstraints"
<1>1. g \in Goroutines /\ pc[g] \in UseSteps[g] /\ ~AtEnd(g) /\ pc["computeQuotient"] \in Nat
  BY UsingAt, GoroutineNames DEF Sync, GoroutineTypes
<1>2. CASE pc[g] = 1
  <2>1. Step(g).needs = {}
    BY <1>2 DEF Step, Program, SolveConstraints, Use, MayFail, Access, None
  <2>. QED  BY <2>1
<1>3. CASE pc[g] = 3
  <2>1. Step(g).needs = All(LRO, "values") \union All({"bpLRO"}, "random")
    BY <1>3 DEF Step, Program, SolveConstraints, Use, MayFail, Access, None
  <2>2. AtEnd("initBlindingPolynomials")
    BY <1>1, <1>3, UsingAt, UsingAfter, EndedBefore
  <2>3. Past(ConstraintsSolved) /\ Past(Blinding)
    BY <1>1, <1>3, <2>2 DEF Past, ConstraintsSolved, Blinding
  <2>4. ~Past(LROCommitted) /\ ~Past(Evaluated) /\ ~Past(Restored) /\ ~Past(Batched)
    BY <1>1, <1>3, PastOrder, EndedBefore DEF Past, LROCommitted, Evaluated, Restored, Batched
  <2>5. All(LRO, "values") \subseteq val
    BY <2>3, <2>4 DEF Contents, ValuesHold, Keeps
  <2>6. /\ All({"bpLRO", "bpZ"}, "random") \subseteq val
    BY <2>3, <2>4 DEF Contents, ValuesHold, Keeps
  <2>7. All({"bpLRO"}, "random") \subseteq val
    BY <2>6, AllOfBoth, AllOfPart DEF All, Trans, LRO
  <2>. QED  BY <2>1, <2>5, <2>7
<1>. QED  BY <1>1, <1>2, <1>3 DEF UseSteps

LEMMA CompleteQkReady ==
  ASSUME Sync, Contents, status["completeQk"] = "using"
  PROVE  Step("completeQk").needs \subseteq val
<1>. DEFINE g == "completeQk"
<1>1. g \in Goroutines /\ pc[g] \in UseSteps[g] /\ ~AtEnd(g) /\ pc["computeQuotient"] \in Nat
  BY UsingAt, GoroutineNames DEF Sync, GoroutineTypes
<1>2. CASE pc[g] = 1
  <2>1. Step(g).needs = All({"trace.Qk"}, "values")
    BY <1>2 DEF Step, Program, CompleteQk, Use, MayFail, Access, None
  <2>2. ~Past(Linearized)
    BY <1>1, <1>2, PastOrder, EndedBefore DEF Past, Linearized
  <2>3. All({"trace.Qk"}, "values") \subseteq val
    BY <2>2 DEF Contents, ValuesHold, Keeps
  <2>. QED  BY <2>1, <2>3
<1>3. CASE pc[g] = 3
  <2>1. Step(g).needs = All({"commitmentVal"}, "set")
    BY <1>3 DEF Step, Program, CompleteQk, Use, MayFail, Access, None
  <2>2. AtEnd("solveConstraints")
    BY <1>1, <1>3, UsingAt, UsingAfter, EndedBefore
  <2>3. Past(ConstraintsSolved)
    BY <1>1, <1>3, <2>2 DEF Past, ConstraintsSolved
  <2>4. /\ All({"commitmentVal", "bsb22"}, "set") \subseteq val
    BY <2>3 DEF Contents, ValuesHold, Keeps
  <2>5. All({"commitmentVal"}, "set") \subseteq val
    BY <2>4, AllOfBoth, AllOfPart DEF All, Trans, LRO
  <2>. QED  BY <2>1, <2>5
<1>. QED  BY <1>1, <1>2, <1>3 DEF UseSteps

LEMMA InitBlindingPolynomialsReady ==
  ASSUME Sync, Contents, status["initBlindingPolynomials"] = "using"
  PROVE  Step("initBlindingPolynomials").needs \subseteq val
<1>. DEFINE g == "initBlindingPolynomials"
<1>1. g \in Goroutines /\ pc[g] \in UseSteps[g] /\ ~AtEnd(g) /\ pc["computeQuotient"] \in Nat
  BY UsingAt, GoroutineNames DEF Sync, GoroutineTypes
<1>2. CASE pc[g] = 1
  <2>1. Step(g).needs = {}
    BY <1>2 DEF Step, Program, InitBlindingPolynomials, Use, MayFail, Access, None
  <2>. QED  BY <2>1
<1>. QED  BY <1>1, <1>2 DEF UseSteps

LEMMA DeriveGammaAndBetaReady ==
  ASSUME Sync, Contents, status["deriveGammaAndBeta"] = "using"
  PROVE  Step("deriveGammaAndBeta").needs \subseteq val
<1>. DEFINE g == "deriveGammaAndBeta"
<1>1. g \in Goroutines /\ pc[g] \in UseSteps[g] /\ ~AtEnd(g) /\ pc["computeQuotient"] \in Nat
  BY UsingAt, GoroutineNames DEF Sync, GoroutineTypes
<1>2. CASE pc[g] = 1
  <2>1. Step(g).needs = All({"fs"}, "empty")
    BY <1>2 DEF Step, Program, DeriveGammaAndBeta, Use, MayFail, Access, None
  <2>2. /\ ~Past(PublicBound) /\ ~Past(GammaDerived) /\ ~Past(BetaDerived)
        /\ ~Past(AlphaDerived) /\ ~Past(ZetaDerived)
    BY <1>1, <1>2, PastOrder, EndedBefore DEF Past, PublicBound, GammaDerived, BetaDerived,
       AlphaDerived, ZetaDerived
  <2>3. All({"fs"}, "empty") \subseteq val
    BY <2>2 DEF Contents, ChallengesHold, Keeps
  <2>. QED  BY <2>1, <2>3
<1>3. CASE pc[g] = 3
  <2>1. Step(g).needs = All({"fs"}, "public") \union All({"proof.LRO"}, "set")
    BY <1>3 DEF Step, Program, DeriveGammaAndBeta, Use, MayFail, Access, None
  <2>2. AtEnd("solveConstraints")
    BY <1>1, <1>3, UsingAt, UsingAfter, EndedBefore
  <2>3. Past(LROCommitted) /\ Past(PublicBound)
    BY <1>1, <1>3, <2>2 DEF Past, LROCommitted, PublicBound
  <2>4. ~Past(GammaDerived) /\ ~Past(BetaDerived) /\ ~Past(AlphaDerived) /\ ~Past(ZetaDerived)
    BY <1>1, <1>3, PastOrder, EndedBefore DEF Past, GammaDerived, BetaDerived, AlphaDerived,
       ZetaDerived
  <2>5. All({"fs"}, "public") \subseteq val
    BY <2>3, <2>4 DEF Contents, ChallengesHold, Keeps
  <2>6. All({"proof.LRO"}, "set") \subseteq val
    BY <2>3, <2>4 DEF Contents, ValuesHold, Keeps
  <2>. QED  BY <2>1, <2>5, <2>6
<1>4. CASE pc[g] = 4
  <2>1. Step(g).needs = All({"fs"}, "gamma")
    BY <1>4 DEF Step, Program, DeriveGammaAndBeta, Use, MayFail, Access, None
  <2>2. Past(GammaDerived)
    BY <1>1, <1>4 DEF Past, GammaDerived
  <2>3. ~Past(BetaDerived) /\ ~Past(AlphaDerived) /\ ~Past(ZetaDerived)
    BY <1>1, <1>4, PastOrder, EndedBefore DEF Past, BetaDerived, AlphaDerived, ZetaDerived
  <2>4. All({"fs"}, "gamma") \subseteq val
    BY <2>2, <2>3 DEF Contents, ChallengesHold, Keeps
  <2>. QED  BY <2>1, <2>4
<1>. QED  BY <1>1, <1>2, <1>3, <1>4 DEF UseSteps

LEMMA BuildRatioCopyConstraintReady ==
  ASSUME Sync, Contents, status["buildRatioCopyConstraint"] = "using"
  PROVE  Step("buildRatioCopyConstraint").needs \subseteq val
<1>. DEFINE g == "buildRatioCopyConstraint"
<1>1. g \in Goroutines /\ pc[g] \in UseSteps[g] /\ ~AtEnd(g) /\ pc["computeQuotient"] \in Nat
  BY UsingAt, GoroutineNames DEF Sync, GoroutineTypes
<1>2. CASE pc[g] = 2
  <2>1. Step(g).needs = All(LRO, "values") \union All({"gammaBeta"}, "set")
    BY <1>2 DEF Step, Program, BuildRatioCopyConstraint, Use, MayFail, Access, None
  <2>2. AtEnd("deriveGammaAndBeta") /\ AtEnd("solveConstraints")
    BY <1>1, <1>2, UsingAt, UsingAfter, EndedBefore
  <2>3. Past(LROCommitted) /\ Past(BetaDerived)
    BY <1>1, <1>2, <2>2 DEF Past, LROCommitted, BetaDerived
  <2>4. ~Past(Evaluated) /\ ~Past(Restored) /\ ~Past(Batched)
    BY <1>1, <1>2, PastOrder, EndedBefore DEF Past, Evaluated, Restored, Batched
  <2>5. All(LRO, "values") \subseteq val
    BY <2>3, <2>4 DEF Contents, ValuesHold, Keeps
  <2>6. All({"gammaBeta"}, "set") \subseteq val
    BY <2>3, <2>4 DEF Contents, ChallengesHold, Keeps
  <2>. QED  BY <2>1, <2>5, <2>6
<1>3. CASE pc[g] = 3
  <2>1. Step(g).needs = All({"Z"}, "values") \union All({"bpZ"}, "random")
    BY <1>3 DEF Step, Program, BuildRatioCopyConstraint, Use, MayFail, Access, None
  <2>2. AtEnd("initBlindingPolynomials")
    BY <1>1, <1>3, UsingAt, UsingAfter, EndedBefore
  <2>3. Past(Blinding) /\ Past(RatioBuilt)
    BY <1>1, <1>3, <2>2 DEF Past, Blinding, RatioBuilt
  <2>4. ~Past(Evaluated) /\ ~Past(Restored) /\ ~Past(ZOpened)
    BY <1>1, <1>3, PastOrder, EndedBefore DEF Past, Evaluated, Restored, ZOpened
  <2>5. All({"Z"}, "values") \subseteq val
    BY <2>3, <2>4 DEF Contents, QuotientHolds, Keeps
  <2>6. /\ All({"bpLRO", "bpZ"}, "random") \subseteq val
    BY <2>3, <2>4 DEF Contents, ValuesHold, Keeps
  <2>7. All({"bpZ"}, "random") \subseteq val
    BY <2>6, AllOfBoth, AllOfPart DEF All, Trans, LRO
  <2>. QED  BY <2>1, <2>5, <2>7
<1>. QED  BY <1>1, <1>2, <1>3 DEF UseSteps

LEMMA ComputeQuotientReady ==
  ASSUME Sync, Contents, status["computeQuotient"] = "using"
  PROVE  Step("computeQuotient").needs \subseteq val
<1>. DEFINE g == "computeQuotient"
<1>1. g \in Goroutines /\ pc[g] \in UseSteps[g] /\ ~AtEnd(g) /\ pc["computeQuotient"] \in Nat
  BY UsingAt, GoroutineNames DEF Sync, GoroutineTypes
<1>2. CASE pc[g] = 1
  <2>1. Step(g).needs = All({"trace.Q"}, "values")
    BY <1>2 DEF Step, Program, ComputeQuotient, Use, MayFail, Access, None
  <2>2. ~Past(Evaluated) /\ ~Past(Restored)
    BY <1>1, <1>2, PastOrder, EndedBefore DEF Past, Evaluated, Restored
  <2>3. All({"trace.Q"}, "values") \subseteq val
    BY <2>2 DEF Contents, ValuesHold, Keeps
  <2>. QED  BY <2>1, <2>3
<1>3. CASE pc[g] = 3
  <2>1. Step(g).needs = All({"cCommitments"}, "values")
    BY <1>3 DEF Step, Program, ComputeQuotient, Use, MayFail, Access, None
  <2>2. AtEnd("solveConstraints")
    BY <1>1, <1>3, UsingAt, UsingAfter, EndedBefore
  <2>3. Past(ConstraintsSolved)
    BY <1>1, <1>3, <2>2 DEF Past, ConstraintsSolved
  <2>4. ~Past(Evaluated) /\ ~Past(Restored)
    BY <1>1, <1>3, PastOrder, EndedBefore DEF Past, Evaluated, Restored
  <2>5. All({"cCommitments"}, "values") \subseteq val
    BY <2>3, <2>4 DEF Contents, ValuesHold, Keeps
  <2>. QED  BY <2>1, <2>5
<1>4. CASE pc[g] = 5
  <2>1. Step(g).needs = All({"fs"}, "beta") \union All({"bsb22", "proof.Z"}, "set")
    BY <1>4 DEF Step, Program, ComputeQuotient, Use, MayFail, Access, None
  <2>2. /\ AtEnd("buildRatioCopyConstraint") /\ AtEnd("deriveGammaAndBeta")
        /\ AtEnd("solveConstraints")
    BY <1>1, <1>4, UsingAt, UsingAfter, EndedBefore
  <2>3. Past(ConstraintsSolved) /\ Past(BetaDerived) /\ Past(ZCommitted)
    BY <1>1, <1>4, <2>2 DEF Past, ConstraintsSolved, BetaDerived, ZCommitted
  <2>4. ~Past(AlphaDerived) /\ ~Past(ZetaDerived)
    BY <1>1, <1>4, PastOrder, EndedBefore DEF Past, AlphaDerived, ZetaDerived
  <2>5. All({"fs"}, "beta") \subseteq val
    BY <2>3, <2>4 DEF Contents, ChallengesHold, Keeps
  <2>6. /\ All({"commitmentVal", "bsb22"}, "set") \subseteq val
       /\ All({"proof.Z"}, "set") \subseteq val
    BY <2>3, <2>4 DEF Contents, QuotientHolds, ValuesHold, Keeps
  <2>7. All({"bsb22", "proof.Z"}, "set") \subseteq val
    BY <2>6, AllOfBoth, AllOfPart DEF All, Trans, LRO
  <2>. QED  BY <2>1, <2>5, <2>7
<1>5. CASE pc[g] = 6
  <2>1. Step(g).needs = All({"Z"}, "values")
    BY <1>5 DEF Step, Program, ComputeQuotient, Use, MayFail, Access, None
  <2>2. AtEnd("buildRatioCopyConstraint")
    BY <1>1, <1>5, UsingAt, UsingAfter, EndedBefore
  <2>3. Past(RatioBuilt)
    BY <1>1, <1>5, <2>2 DEF Past, RatioBuilt
  <2>4. ~Past(Evaluated) /\ ~Past(Restored) /\ ~Past(ZOpened)
    BY <1>1, <1>5, PastOrder, EndedBefore DEF Past, Evaluated, Restored, ZOpened
  <2>5. All({"Z"}, "values") \subseteq val
    BY <2>3, <2>4 DEF Contents, QuotientHolds, Keeps
  <2>. QED  BY <2>1, <2>5
<1>6. CASE pc[g] = 8
  <2>1. Step(g).needs =
            All(Trans \union {"Qk"}, "values") \union All({"ZS"}, "shifted")
              \union All({"alpha", "gammaBeta"}, "set") \union All({"bpLRO", "bpZ"}, "random")
    BY <1>6 DEF Step, Program, ComputeQuotient, Use, MayFail, Access, None, Numerator
  <2>2. /\ AtEnd("buildRatioCopyConstraint") /\ AtEnd("completeQk")
        /\ AtEnd("deriveGammaAndBeta") /\ AtEnd("initBlindingPolynomials")
        /\ AtEnd("solveConstraints")
    BY <1>1, <1>6, UsingAt, UsingAfter, EndedBefore
  <2>3. /\ Past(ConstraintsSolved) /\ Past(LROCommitted) /\ Past(QkCompleted)
        /\ Past(Blinding) /\ Past(BetaDerived) /\ Past(RatioBuilt) /\ Past(AlphaDerived)
        /\ Past(ZShifted)
    BY <1>1, <1>6, <2>2 DEF Past, ConstraintsSolved, LROCommitted, QkCompleted, Blinding,
       BetaDerived, RatioBuilt, AlphaDerived, ZShifted
  <2>4. ~Past(Evaluated) /\ ~Past(Restored) /\ ~Past(ZOpened) /\ ~Past(Batched)
    BY <1>1, <1>6, PastOrder, EndedBefore DEF Past, Evaluated, Restored, ZOpened, Batched
  <2>5. /\ All(LRO, "values") \subseteq val
       /\ All({"cCommitments"}, "values") \subseteq val
       /\ All({"Z"}, "values") \subseteq val
       /\ All({"trace.Q"}, "values") \subseteq val
       /\ All({"Qk"}, "values") \subseteq val
    BY <2>3, <2>4 DEF Contents, QuotientHolds, ValuesHold, Keeps
  <2>6. All(Trans \union {"Qk"}, "values") \subseteq val
    BY <2>5, AllOfBoth, AllOfPart DEF All, Trans, LRO
  <2>7. All({"ZS"}, "shifted") \subseteq val
    BY <2>3, <2>4 DEF Contents, QuotientHolds, Keeps
  <2>8. /\ All({"alpha"}, "set") \subseteq val
       /\ All({"gammaBeta"}, "set") \subseteq val
    BY <2>3, <2>4 DEF Contents, ChallengesHold, Keeps
  <2>9. All({"alpha", "gammaBeta"}, "set") \subseteq val
    BY <2>8, AllOfBoth, AllOfPart DEF All, Trans, LRO
  <2>10. All({"bpLRO", "bpZ"}, "random") \subseteq val
    BY <2>3, <2>4 DEF Contents, ValuesHold, Keeps
  <2>. QED  BY <2>1, <2>6, <2>7, <2>9, <2>10
<1>7. CASE pc[g] = 10
  <2>1. Step(g).needs = {}
    BY <1>7 DEF Step, Program, ComputeQuotient, Use, MayFail, Access, None
  <2>. QED  BY <2>1
<1>8. CASE pc[g] = 11
  <2>1. Step(g).needs = All({"h"}, "canonical")
    BY <1>8 DEF Step, Program, ComputeQuotient, Use, MayFail, Access, None
  <2>2. Past(Divided)
    BY <1>1, <1>8 DEF Past, Divided
  <2>3. All({"h"}, "canonical") \subseteq val
    BY <2>2 DEF Contents, QuotientHolds, Keeps
  <2>. QED  BY <2>1, <2>3
<1>9. CASE pc[g] = 12
  <2>1. Step(g).needs = All({"fs"}, "alpha") \union All({"proof.H"}, "set")
    BY <1>9 DEF Step, Program, ComputeQuotient, Use, MayFail, Access, None
  <2>2. Past(AlphaDerived) /\ Past(HCommitted)
    BY <1>1, <1>9 DEF Past, AlphaDerived, HCommitted
  <2>3. ~Past(ZetaDerived)
    BY <1>1, <1>9, PastOrder, EndedBefore DEF Past, ZetaDerived
  <2>4. All({"fs"}, "alpha") \subseteq val
    BY <2>2, <2>3 DEF Contents, ChallengesHold, Keeps
  <2>5. All({"proof.H"}, "set") \subseteq val
    BY <2>2, <2>3 DEF Contents, QuotientHolds, Keeps
  <2>. QED  BY <2>1, <2>4, <2>5
<1>. QED  BY <1>1, <1>2, <1>3, <1>4, <1>5, <1>6, <1>7, <1>8, <1>9 DEF UseSteps

LEMMA OpenZReady ==
  ASSUME Sync, Contents, status["openZ"] = "using"
  PROVE  Step("openZ").needs \subseteq val
<1>. DEFINE g == "openZ"
<1>1. g \in Goroutines /\ pc[g] \in UseSteps[g] /\ ~AtEnd(g) /\ pc["computeQuotient"] \in Nat
  BY UsingAt, GoroutineNames DEF Sync, GoroutineTypes
<1>2. CASE pc[g] = 2
  <2>1. Step(g).needs =
            All({"Z"}, "canonical") \union All({"bpZ"}, "random") \union All({"zeta"}, "set")
    BY <1>2 DEF Step, Program, OpenZ, Use, MayFail, Access, None
  <2>2. AtEnd("computeQuotient") /\ AtEnd("restore")
    BY <1>1, <1>2, UsingAt, UsingAfter, EndedBefore
  <2>3. Past(ZetaDerived) /\ Past(Restored)
    BY <1>1, <1>2, <2>2 DEF Past, ZetaDerived, Restored
  <2>4. ~Past(ZOpened)
    BY <1>1, <1>2, PastOrder, EndedBefore DEF Past, ZOpened
  <2>5. All({"Z"}, "canonical") \subseteq val
    BY <2>3, <2>4 DEF Contents, OpeningsHold, Keeps
  <2>6. /\ All({"bpLRO", "bpZ"}, "random") \subseteq val
    BY <2>3, <2>4 DEF Contents, OpeningsHold, Keeps
  <2>7. All({"bpZ"}, "random") \subseteq val
    BY <2>6, AllOfBoth, AllOfPart DEF All, Trans, LRO
  <2>8. All({"zeta"}, "set") \subseteq val
    BY <2>3, <2>4 DEF Contents, ChallengesHold, Keeps
  <2>. QED  BY <2>1, <2>5, <2>7, <2>8
<1>. QED  BY <1>1, <1>2 DEF UseSteps

LEMMA ComputeLinearizedPolynomialReady ==
  ASSUME Sync, Contents, status["computeLinearizedPolynomial"] = "using"
  PROVE  Step("computeLinearizedPolynomial").needs \subseteq val
<1>. DEFINE g == "computeLinearizedPolynomial"
<1>1. g \in Goroutines /\ pc[g] \in UseSteps[g] /\ ~AtEnd(g) /\ pc["computeQuotient"] \in Nat
  BY UsingAt, GoroutineNames DEF Sync, GoroutineTypes
<1>2. CASE pc[g] = 5
  <2>1. Step(g).needs =
            All({"blindedZ"}, "blinded") \union All({"h", "trace.Q", "cCommitments"}, "canonical")
              \union All({"trace.Qk"}, "values")
              \union All({"opening", "alpha", "gammaBeta", "zeta"}, "set")
    BY <1>2 DEF Step, Program, ComputeLinearizedPolynomial, Use, MayFail, Access, None
  <2>2. /\ AtEnd("computeQuotient") /\ AtEnd("deriveGammaAndBeta") /\ AtEnd("openZ")
        /\ AtEnd("restore")
    BY <1>1, <1>2, UsingAt, UsingAfter, EndedBefore
  <2>3. /\ Past(BetaDerived) /\ Past(AlphaDerived) /\ Past(Divided) /\ Past(ZetaDerived)
        /\ Past(Restored) /\ Past(ZOpened)
    BY <1>1, <1>2, <2>2 DEF Past, BetaDerived, AlphaDerived, Divided, ZetaDerived, Restored, ZOpened
  <2>4. ~Past(Linearized)
    BY <1>1, <1>2, PastOrder, EndedBefore DEF Past, Linearized
  <2>5. All({"blindedZ"}, "blinded") \subseteq val
    BY <2>3, <2>4 DEF Contents, OpeningsHold, Keeps
  <2>6. /\ All({"h"}, "canonical") \subseteq val
       /\ All({"cCommitments", "trace.Q"}, "canonical") \subseteq val
    BY <2>3, <2>4 DEF Contents, OpeningsHold, QuotientHolds, Keeps
  <2>7. All({"h", "trace.Q", "cCommitments"}, "canonical") \subseteq val
    BY <2>6, AllOfBoth, AllOfPart DEF All, Trans, LRO
  <2>8. All({"trace.Qk"}, "values") \subseteq val
    BY <2>3, <2>4 DEF Contents, ValuesHold, Keeps
  <2>9. /\ All({"opening"}, "set") \subseteq val
       /\ All({"alpha"}, "set") \subseteq val
       /\ All({"gammaBeta"}, "set") \subseteq val
       /\ All({"zeta"}, "set") \subseteq val
    BY <2>3, <2>4 DEF Contents, ChallengesHold, OpeningsHold, Keeps
  <2>10. All({"opening", "alpha", "gammaBeta", "zeta"}, "set") \subseteq val
    BY <2>9, AllOfBoth, AllOfPart DEF All, Trans, LRO
  <2>. QED  BY <2>1, <2>5, <2>7, <2>8, <2>10
<1>. QED  BY <1>1, <1>2 DEF UseSteps

LEMMA BatchOpeningReady ==
  ASSUME Sync, Contents, status["batchOpening"] = "using"
  PROVE  Step("batchOpening").needs \subseteq val
<1>. DEFINE g == "batchOpening"
<1>1. g \in Goroutines /\ pc[g] \in UseSteps[g] /\ ~AtEnd(g) /\ pc["computeQuotient"] \in Nat
  BY UsingAt, GoroutineNames DEF Sync, GoroutineTypes
<1>2. CASE pc[g] = 2
  <2>1. Step(g).needs =
            All({"linearizedPolynomial", "proof.LRO", "zeta", "opening"}, "set")
              \union All(LRO \union {"trace.Q"}, "canonical") \union All({"bpLRO"}, "random")
    BY <1>2 DEF Step, Program, BatchOpening, Use, MayFail, Access, None
  <2>2. /\ AtEnd("computeLinearizedPolynomial") /\ AtEnd("computeQuotient")
        /\ AtEnd("openZ") /\ AtEnd("restore") /\ AtEnd("solveConstraints")
    BY <1>1, <1>2, UsingAt, UsingAfter, EndedBefore
  <2>3. /\ Past(LROCommitted) /\ Past(ZetaDerived) /\ Past(Restored) /\ Past(ZOpened)
        /\ Past(Linearized)
    BY <1>1, <1>2, <2>2 DEF Past, LROCommitted, ZetaDerived, Restored, ZOpened, Linearized
  <2>4. ~Past(Batched)
    BY <1>1, <1>2, PastOrder, EndedBefore DEF Past, Batched
  <2>5. /\ All({"linearizedPolynomial"}, "set") \subseteq val
       /\ All({"proof.LRO"}, "set") \subseteq val
       /\ All({"zeta"}, "set") \subseteq val
       /\ All({"opening"}, "set") \subseteq val
    BY <2>3, <2>4 DEF Contents, ChallengesHold, OpeningsHold, ValuesHold, Keeps
  <2>6. All({"linearizedPolynomial", "proof.LRO", "zeta", "opening"}, "set") \subseteq val
    BY <2>5, AllOfBoth, AllOfPart DEF All, Trans, LRO
  <2>7. /\ All(LRO, "canonical") \subseteq val
       /\ All({"cCommitments", "trace.Q"}, "canonical") \subseteq val
    BY <2>3, <2>4 DEF Contents, OpeningsHold, Keeps
  <2>8. All(LRO \union {"trace.Q"}, "canonical") \subseteq val
    BY <2>7, AllOfBoth, AllOfPart DEF All, Trans, LRO
  <2>9. /\ All({"bpLRO", "bpZ"}, "random") \subseteq val
    BY <2>3, <2>4 DEF Contents, OpeningsHold, Keeps
  <2>10. All({"bpLRO"}, "random") \subseteq val
    BY <2>9, AllOfBoth, AllOfPart DEF All, Trans, LRO
  <2>. QED  BY <2>1, <2>6, <2>8, <2>10
<1>. QED  BY <1>1, <1>2 DEF UseSteps

LEMMA RestoreReady ==
  ASSUME Sync, Contents, status["restore"] = "using"
  PROVE  Step("restore").needs \subseteq val
<1>. DEFINE g == "restore"
<1>1. g \in Goroutines /\ pc[g] \in UseSteps[g] /\ ~AtEnd(g) /\ pc["computeQuotient"] \in Nat
  BY UsingAt, GoroutineNames DEF Sync, GoroutineTypes
<1>2. CASE pc[g] = 1
  <2>1. Step(g).needs = All(Trans \union {"bpLRO", "bpZ"}, "coset")
    BY <1>2 DEF Step, Program, Restore, Use, MayFail, Access, None
  <2>2. pc["computeQuotient"] > 9
    BY <1>1, UsingAfter
  <2>3. Past(Evaluated)
    BY <1>1, <1>2, <2>2 DEF Past, Evaluated
  <2>4. ~Past(Restored) /\ ~Past(ZOpened) /\ ~Past(Batched)
    BY <1>1, <1>2, PastOrder, EndedBefore DEF Past, Restored, ZOpened, Batched
  <2>5. All(Trans \union {"bpLRO", "bpZ"}, "coset") \subseteq val
    BY <2>3, <2>4 DEF Contents, QuotientHolds, Keeps
  <2>. QED  BY <2>1, <2>5
<1>. QED  BY <1>1, <1>2 DEF UseSteps

LEMMA EvaluationsReady ==
  ASSUME Sync, Contents, status["evaluations"] = "using"
  PROVE  Step("evaluations").needs \subseteq val
<1>. DEFINE g == "evaluations"
<1>1. g \in Goroutines /\ pc[g] \in UseSteps[g] /\ ~AtEnd(g) /\ pc["computeQuotient"] \in Nat
  BY UsingAt, GoroutineNames DEF Sync, GoroutineTypes
<1>2. CASE pc[g] = 1
  <2>1. Step(g).needs =
            All(LRO \union {"trace.Q"}, "canonical") \union All({"bpLRO"}, "random")
              \union All({"zeta"}, "set")
    BY <1>2 DEF Step, Program, Evaluations, Use, MayFail, Access, None
  <2>2. AtEnd("computeQuotient") /\ AtEnd("restore")
    BY <1>1, <1>2, UsingAt, UsingAfter, EndedBefore
  <2>3. Past(ZetaDerived) /\ Past(Restored)
    BY <1>1, <1>2, <2>2 DEF Past, ZetaDerived, Restored
  <2>4. ~Past(Batched)
    BY <1>1, <1>2, PastOrder, EndedBefore DEF Past, Batched
  <2>5. /\ All(LRO, "canonical") \subseteq val
       /\ All({"cCommitments", "trace.Q"}, "canonical") \subseteq val
    BY <2>3, <2>4 DEF Contents, OpeningsHold, Keeps
  <2>6. All(LRO \union {"trace.Q"}, "canonical") \subseteq val
    BY <2>5, AllOfBoth, AllOfPart DEF All, Trans, LRO
  <2>7. /\ All({"bpLRO", "bpZ"}, "random") \subseteq val
    BY <2>3, <2>4 DEF Contents, OpeningsHold, Keeps
  <2>8. All({"bpLRO"}, "random") \subseteq val
    BY <2>7, AllOfBoth, AllOfPart DEF All, Trans, LRO
  <2>9. All({"zeta"}, "set") \subseteq val
    BY <2>3, <2>4 DEF Contents, ChallengesHold, Keeps
  <2>. QED  BY <2>1, <2>6, <2>8, <2>9
<1>. QED  BY <1>1, <1>2 DEF UseSteps

\* Whoever uses the instance finds what it needs, as long as nothing has failed.
LEMMA Ready == Sync /\ Facts => InputsReady
<1>. SUFFICES ASSUME Sync, Facts, NoCause, NEW g \in Goroutines, status[g] = "using"
              PROVE  Step(g).needs \subseteq val
  BY DEF InputsReady, Using, NoCause
<1>1. Contents
  BY DEF Facts
<1>. QED  BY <1>1, GoroutineNames, SolveConstraintsReady, CompleteQkReady,
             InitBlindingPolynomialsReady, DeriveGammaAndBetaReady, BuildRatioCopyConstraintReady,
             ComputeQuotientReady, OpenZReady, ComputeLinearizedPolynomialReady,
             BatchOpeningReady, RestoreReady, EvaluationsReady

-----------------------------------------------------------------------------
(* The invariant and the theorems.                                           *)

\* The inductive invariant.
ProverInv == Sync /\ Facts /\ Single(val)

LEMMA SingleInit == ProverInit => Single(val)
<1>. SUFFICES ASSUME ProverInit  PROVE Single(val)
  OBVIOUS
<1>1. val = All({"trace.Q", "trace.Qk"}, "values") \union All({"fs"}, "empty")
  BY DEF ProverInit
<1>. QED  BY <1>1, TwoParts

\* A step sets an object to one state, in place of the one it had.
LEMMA SingleNext == Sync /\ Single(val) /\ [ProverNext]_proverVars => Single(val')
<1>. SUFFICES ASSUME Sync, Single(val), [ProverNext]_proverVars  PROVE Single(val')
  OBVIOUS
<1>1. ASSUME NEW f \in Goroutines, Succeed(f)  PROVE Single(val')
  <2>. DEFINE A == {p \in val : p[1] \notin Touches(Step(f))}
              B == Step(f).sets
  <2>1. Single(B)
    <3>1. Proper(f, pc[f]) /\ Step(f).op = "use"
      BY <1>1, ProperProgram DEF Sync, GoroutineTypes, Accessing, Succeed
    <3>. QED  BY <3>1 DEF Proper, Step
  <2>2. Single(A)
    BY DEF Single
  <2>3. ObjectsOf(A) \intersect ObjectsOf(B) = {}
    BY DEF ObjectsOf, Touches
  <2>4. val' = A \union B
    BY <1>1 DEF Succeed
  <2>. HIDE DEF A, B
  <2>. QED  BY <2>1, <2>2, <2>3, <2>4, DisjointPairs
<1>2. ASSUME NEW f \in Goroutines, Goroutine(f), ~Succeed(f)  PROVE val' = val
  BY <1>2 DEF Goroutine, Begin, Fail, Receive, ContextDone, CloseChannel, StartGoroutine,
              JoinGoroutine
<1>3. CASE WaitGroup \/ UNCHANGED proverVars
  BY <1>3 DEF WaitGroup, proverVars
<1>. QED  BY <1>1, <1>2, <1>3 DEF ProverNext, ProverStop

LEMMA ProverInvInit == ProverInit => ProverInv
BY SyncInit, FactsInit, SingleInit DEF ProverInv

LEMMA ProverInvNext == ProverInv /\ [ProverNext]_proverVars => ProverInv'
<1>. SUFFICES ASSUME ProverInv, [ProverNext]_proverVars  PROVE ProverInv'
  OBVIOUS
<1>1. Sync' /\ Facts'
  BY SyncNext, FactsNext DEF ProverInv
<1>2. Single(val)'
  BY SingleNext DEF ProverInv, Single
<1>. QED  BY <1>1, <1>2 DEF ProverInv

LEMMA ProverInvTypes == ProverInv => ProverTypes
<1>. SUFFICES ASSUME ProverInv  PROVE ProverTypes
  OBVIOUS
<1>1. /\ status \in [Goroutines -> {"none", "running", "using", "ended"}]
      /\ \A g \in Goroutines : pc[g] \in 1 .. Len(Program[g])
      /\ ret \in [Goroutines -> {"nil", "ctx", "cause"}]
      /\ err \in {"none", "ctx", "cause"} /\ result \in {"none", "nil", "ctx", "cause"}
  BY DEF ProverInv, Sync, GoroutineTypes, Returned, Last
<1>2. closed \subseteq {"bp", "LRO", "Qk", "GammaBeta", "Z", "RestoreLRO", "H", "ZOpening",
                        "LinearizedPolynomial"}
  BY DEF ProverInv, Sync, ClosedAtEnd, Closer
<1>3. \A p, q \in val : p[1] = q[1] => p = q
  BY DEF ProverInv, Single
<1>. QED  BY <1>1, <1>2, <1>3 DEF ProverTypes

\* Without an error all goroutines have done all they do when Prove returns.
LEMMA InvProof ==
  ASSUME ProverInv, result = "nil"
  PROVE  /\ All({"proof.LRO", "proof.Z", "proof.H", "bsb22", "opening", "proof.Batched"}, "set")
              \subseteq val
         /\ AllEnded
<1>1. Sync /\ Facts
  BY DEF ProverInv
<1>2. err = "none" /\ \A g \in Group : status[g] = "ended"
  BY <1>1 DEF Sync, Results
<1>3. \A g \in Goroutines : ret[g] = "nil"
  BY <1>1, <1>2 DEF Sync, Returned
<1>4. Contents
  BY <1>1, <1>3 DEF Facts, NoCause
<1>5. \A g \in Group : AtEnd(g)
  BY <1>1, <1>2, <1>3, GoroutineNames DEF Sync, Returned, AtEnd
<1>6. AtEnd("restore") /\ AtEnd("evaluations")
  BY <1>1, <1>5, GoroutineNames, EndedBefore DEF Helpers
<1>7. \A g \in Goroutines : AtEnd(g)
  BY <1>5, <1>6, GoroutineNames DEF Helpers
<1>8. /\ Past(ConstraintsSolved) /\ Past(LROCommitted) /\ Past(ZCommitted) /\ Past(HCommitted)
      /\ Past(ZOpened) /\ Past(Batched)
  BY <1>7, AccessNames DEF Past, Uses
<1>9. /\ All({"proof.LRO"}, "set") \subseteq val /\ All({"proof.Z"}, "set") \subseteq val
      /\ All({"proof.H"}, "set") \subseteq val
      /\ All({"commitmentVal", "bsb22"}, "set") \subseteq val
      /\ All({"opening"}, "set") \subseteq val /\ All({"proof.Batched"}, "set") \subseteq val
  BY <1>4, <1>8 DEF Contents, ValuesHold, QuotientHolds, OpeningsHold, Keeps
<1>10. All({"proof.LRO", "proof.Z", "proof.H", "bsb22", "opening", "proof.Batched"}, "set")
         \subseteq val
  BY <1>9 DEF All
<1>11. AllEnded
  BY <1>7 DEF AllEnded, AtEnd
<1>. QED  BY <1>10, <1>11

LEMMA InvProofOrCause == ProverInv => ProofOrCause
<1>. SUFFICES ASSUME ProverInv  PROVE ProofOrCause
  OBVIOUS
<1>1. result \in {"none", "nil", "cause"}
  BY DEF ProverInv, Sync, GoroutineTypes
<1>2. result = "cause" => \E g \in Group : ret[g] = "cause"
  BY DEF ProverInv, Sync, Results, Returned
<1>. QED  BY <1>1, <1>2, InvProof DEF ProofOrCause

LEMMA ProverInvariant == ProverSpec => []ProverInv
BY ProverInvInit, ProverInvNext, PTL DEF ProverSpec

\* The variables of the PLONK prover have their types in every state, and every object of
\* the instance has one state.
THEOREM ProverTypesAlways == ProverSpec => []ProverTypes
BY ProverInvariant, ProverInvTypes, PTL

\* Whatever fails and when, the channels keep two goroutines of Prove from using an object
\* of the instance at the same time when one of them changes it.
THEOREM NeverConflicting == ProverSpec => []NoConflictingAccess
<1>1. ProverInv => NoConflictingAccess
  BY NoConflict DEF ProverInv
<1>. QED  BY <1>1, ProverInvariant, PTL

\* Until something fails every goroutine of Prove finds the polynomials in the form and the
\* transcript at the challenge it counts on.
THEOREM InputsAlwaysReady == ProverSpec => []InputsReady
<1>1. ProverInv => InputsReady
  BY Ready DEF ProverInv
<1>. QED  BY <1>1, ProverInvariant, PTL

\* Prove returns nil only with a complete proof and after all its goroutines have ended,
\* and otherwise the error of one of them, never errContextDone.
THEOREM ProofOrItsCause == ProverSpec => []ProofOrCause
BY ProverInvariant, InvProofOrCause, PTL
================================================================================

------------------------------- MODULE MCSolver -------------------------------
(* Constraint systems for Solver: levels of several sizes around the bounds of *)
(* the cutting loop, whose instructions read wires of earlier levels.          *)
EXTENDS Solver, TLC

\* An instruction i sets the wire i, and 3, a lookup of two, also the wire 8; the
\* inputs are the wires 10 and 11.
System(levels, reads, more) ==
  [instructions |-> DOMAIN reads,
   levels |-> levels,
   reads  |-> reads,
   writes |-> [i \in DOMAIN reads |-> IF i = 3 THEN {3, 8} ELSE {i}],
   inputs |-> {10, 11},
   wires  |-> DOMAIN reads \union {8, 10, 11} \union more]

Wide == System(<<<<1, 2, 3>>, <<4, 5>>>>,
               (1 :> {10} @@ 2 :> {11} @@ 3 :> {10, 11} @@ 4 :> {1, 3} @@ 5 :> {2, 8}), {})

Narrow == System(<<<<1>>, <<2, 3, 4, 5>>>>,
               (1 :> {} @@ 2 :> {1} @@ 3 :> {1} @@ 4 :> {10} @@ 5 :> {1, 11}), {})

\* Nothing sets the wire 9.
Dangling == System(<<<<1, 2>>, <<3>>>>, (1 :> {} @@ 2 :> {10} @@ 3 :> {1, 2}), {9})

MCSystems == {Wide, Narrow, Dangling}
==============================================================================

---------------------------- MODULE MCSparseSolution ----------------------------
(* Circuits as the scs frontend builds them.                                     *)
EXTENDS SparseSolution

C(kind, xa, xb, xc, inserted) ==
  [kind |-> kind, xa |-> xa, xb |-> xb, xc |-> xc, inserted |-> inserted]

\* Public x0, secret x1: products and sums of them, a division solved for its first
\* wire, an assertion, two bits from a hint, constrained to be booleans.
Arithmetic ==
  [nbPublic |-> 1, nbSecret |-> 1, nbInternal |-> 5, hints |-> <<{5, 6}>>,
   constraints |-> <<C("mul", 0, 1, 2, {2}), C("add", 2, 0, 3, {3}),
                     C("generic", 4, 1, 0, {4}), C("generic", 2, 3, 1, {}),
                     C("bool", 5, 0, 0, {}), C("bool", 6, 0, 0, {})>>]

\* Two public inputs and a commitment: the committed value and the commitment, set
\* by a hint, have rows whose constraints are not solved.
Committed ==
  [nbPublic |-> 2, nbSecret |-> 0, nbInternal |-> 3, hints |-> <<{4}>>,
   constraints |-> <<C("add", 0, 1, 2, {2}), C("generic", 2, 0, 3, {3}),
                     C("commitment", 3, 0, 0, {}), C("commitment", 4, 0, 0, {})>>]

\* As many rows as the domain has, and two constraints that do not wait for each other.
Tight ==
  [nbPublic |-> 1, nbSecret |-> 2, nbInternal |-> 4, hints |-> <<{6}>>,
   constraints |-> <<C("mul", 1, 2, 3, {3}), C("add", 0, 1, 4, {4}),
                     C("generic", 2, 5, 1, {5}), C("bool", 6, 0, 0, {}),
                     C("generic", 3, 4, 0, {}), C("generic", 5, 0, 6, {}),
                     C("bool", 1, 0, 0, {})>>]

WithInputs == {Arithmetic, Committed, Tight}

\* No input at all: a hint on constants, whose result is squared.
WithoutInputs ==
  {[nbPublic |-> 0, nbSecret |-> 0, nbInternal |-> 2, hints |-> <<{0}>>,
    constraints |-> <<C("mul", 0, 0, 1, {1}), C("generic", 1, 0, 0, {}),
                      C("generic", 0, 0, 0, {})>>]}
==============================================================================

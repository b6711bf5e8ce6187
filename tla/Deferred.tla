------------------------------- MODULE Deferred -------------------------------
(* Compiling a circuit that uses gadgets which need randomness                 *)
(* (frontend/compile.go, internal/circuitdefer, std/multicommit,               *)
(* std/rangecheck, std/lookup/logderivlookup, std/math/emulated,               *)
(* std/algebra/native/fields_bls12377/sz.go).  While Define runs, a gadget     *)
(* collects queries; the function it deferred turns them into one argument,    *)
(* whose callback asserts it at a challenge once the multicommitter committed  *)
(* to everything the arguments are about.                                      *)
(*                                                                            *)
(* Queries of a gadget are numbered in the order they are made and every list  *)
(* of them is a prefix, so that a number stands for it.  The circuit's code    *)
(* runs in Define, in functions it deferred itself and in its own commitment   *)
(* callbacks; these last two are all called "own".                             *)
EXTENDS Integers, Sequences, FiniteSets, Functions

CONSTANTS
  Tables,       \* lookup tables (logderivlookup.New)
  LargeFields,  \* emulated fields checked limb by limb
  SmallFields,  \* emulated fields in small field mode (useSmallFieldOptimization)
  MaxQueries,   \* bounds of a run of the checker: queries of all gadgets,
  MaxOwn        \* functions the circuit defers and callbacks it registers

Fields == LargeFields \union SmallFields

\* The checkers of which a builder has one each, cached in its key-value store.
Singletons == {"rangecheck", "sz"}

Gadgets == Singletons \union Tables \union Fields

ASSUME GadgetsAssumption ==
  /\ Singletons \intersect (Tables \union Fields) = {}
  /\ Tables \intersect Fields = {} /\ LargeFields \intersect SmallFields = {}
  /\ {"own", "multicommit"} \intersect Gadgets = {}
ASSUME BoundsAssumption == MaxQueries \in Nat /\ MaxOwn \in Nat

NotBuilt == -1   \* no argument yet

VARIABLES
  smallNative, \* the circuit is compiled over a small field: challenges are wide
  pc,          \* what runs: "define", "loop" of callDeferred, an "own" function,
               \* the "challenges" loop of commitAndCall, an own "callback"
  deferred,    \* the list of circuitdefer
  i,           \* callDeferred's index into it
  queries,     \* of each gadget: collected, results, checks, deferredChecks
  zeros,       \* of each small field: zero checks, which need no range check
  filled,      \* tables with an entry
  closed,      \* commitChecker.closed
  argued,      \* queries in the argument of each gadget, or NotBuilt
  mc,          \* the multicommitter [closed, cbs], and its loop's index [next]
  committed,   \* queries of each gadget the root commitment binds
  checked,     \* queries, and zero checks, of each gadget that are asserted
  zerosChecked,
  author       \* what the circuit's author did apart from using gadgets in Define

gadgets == <<queries, zeros, filled, closed>>
proofs  == <<argued, mc, committed, checked, zerosChecked>>
vars == <<smallNative, pc, deferred, i, gadgets, proofs, author>>

Deferreds == {deferred[k] : k \in 1 .. Len(deferred)}

\* circuitdefer.Put, of a gadget that is created when it is first needed.
PutNew(list, g) == IF g \in {list[k] : k \in 1 .. Len(list)} THEN list ELSE Append(list, g)

Running == pc \in {"define", "own", "callback"}

Budget == FoldFunction(+, 0, queries) + FoldFunction(+, 0, zeros) < MaxQueries

\* Mutant: the function that defers another skips it.
Skipping == i + 2

\* The loop's next index.
Following == i + 1

OwnBudget ==
  Cardinality({k \in 1 .. Len(deferred) : deferred[k] = "own"})
    + Cardinality({k \in 1 .. Len(mc.cbs) : mc.cbs[k].of = "own"}) < MaxOwn

\* A panic, or an error that callDeferred and parseCircuit hand on: Compile fails.
Fail == pc' = "failed" /\ UNCHANGED <<smallNative, deferred, i, gadgets, proofs, author>>

-----------------------------------------------------------------------------
(* Operations of the circuit's code.                                          *)

\* It is remembered whether anything but gadgets in Define was used.
Use == author' = (author \/ pc # "define")

\* commitChecker.Check; up to one bit is constrained at once and not collected.
Check(collect) ==
  /\ Running /\ Budget
  /\ IF closed THEN pc' = "failed" /\ UNCHANGED <<deferred, queries>>
     ELSE /\ deferred' = PutNew(deferred, "rangecheck")
          /\ queries' = [queries EXCEPT !["rangecheck"] = @ + collect]
          /\ UNCHANGED pc
  /\ Use /\ UNCHANGED <<smallNative, i, zeros, filled, closed, proofs>>

NewTable(t) ==
  /\ Running /\ t \notin Deferreds
  /\ deferred' = Append(deferred, t)
  /\ Use /\ UNCHANGED <<smallNative, pc, i, gadgets, proofs>>

Insert(t) ==
  /\ Running /\ t \in Deferreds
  /\ filled' = filled \union {t}
  /\ Use /\ UNCHANGED <<smallNative, pc, deferred, i, queries, zeros, closed, proofs>>

\* table.Lookup.  Its test of "immutable" never fires: nothing sets that field.
Lookup(t) ==
  /\ Running /\ t \in Deferreds /\ Budget
  /\ IF t \in filled THEN queries' = [queries EXCEPT ![t] = @ + 1] /\ UNCHANGED pc
                     ELSE pc' = "failed" /\ UNCHANGED queries
  /\ Use /\ UNCHANGED <<smallNative, deferred, i, zeros, filled, closed, proofs>>

\* addSZCheck
AddCheck ==
  /\ Running /\ Budget
  /\ deferred' = PutNew(deferred, "sz")
  /\ queries' = [queries EXCEPT !["sz"] = @ + 1]
  /\ Use /\ UNCHANGED <<smallNative, pc, i, zeros, filled, closed, proofs>>

\* Mutant: a field gets the multicommitter when it is created.
CommitterFirst(f) == Append(PutNew(PutNew(deferred, "rangecheck"), "multicommit"), f)

CheckerFirst(f) == Append(PutNew(deferred, "rangecheck"), f)

\* Over a small native field no emulated field is in small field mode.  With parameters
\* it refuses there is no field, but the range checker is there already.
NewField(f) ==
  /\ Running /\ f \notin Deferreds
  /\ smallNative => f \notin SmallFields
  /\ \/ deferred' = CheckerFirst(f)
     \/ deferred' = PutNew(deferred, "rangecheck")
  /\ Use /\ UNCHANGED <<smallNative, pc, i, gadgets, proofs>>

\* Mutant: the multiplication goes on.
NeverTooLate == FALSE

\* The range checks of a multiplication's result panic once the checker is closed.
NoMoreChecks == closed

\* mulMod, and checkZero of a large field: hinted limbs are range checked, and the
\* check of the product is left to performDeferredChecks.
Multiply(f) ==
  /\ Running /\ f \in Deferreds /\ Budget
  /\ IF NoMoreChecks THEN pc' = "failed" /\ UNCHANGED queries
     ELSE /\ queries' = [queries EXCEPT ![f] = @ + 1, !["rangecheck"] = @ + 1]
          /\ UNCHANGED pc
  /\ Use /\ UNCHANGED <<smallNative, deferred, i, zeros, filled, closed, proofs>>

\* smallCheckZero: the quotient's range is left to the batched check.
AssertZero(f) ==
  /\ Running /\ f \in Deferreds /\ Budget
  /\ zeros' = [zeros EXCEPT ![f] = @ + 1]
  /\ Use /\ UNCHANGED <<smallNative, pc, deferred, i, queries, filled, closed, proofs>>

\* A function the circuit defers with the compiler's Defer.
DeferOwn ==
  /\ Running /\ OwnBudget
  /\ deferred' = Append(deferred, "own")
  /\ UNCHANGED <<smallNative, pc, i, gadgets, proofs, author>>

\* Mutant: a late call is ignored.
LateIgnored(g, wide) ==
  /\ deferred' = PutNew(deferred, "multicommit")
  /\ mc' = IF mc.closed THEN mc ELSE [mc EXCEPT !.cbs = Append(@, [of |-> g, wide |-> wide])]
  /\ UNCHANGED pc

\* WithCommitment and WithWideCommitment: getCached defers a new multicommitter;
\* one that has committed panics.
WithCommitment(g, wide) ==
  /\ deferred' = PutNew(deferred, "multicommit")
  /\ IF mc.closed THEN pc' = "failed" /\ UNCHANGED mc
     ELSE /\ mc' = [mc EXCEPT !.cbs = Append(@, [of |-> g, wide |-> wide])]
          /\ UNCHANGED pc

CommitOwn ==
  /\ Running /\ OwnBudget
  /\ \E wide \in BOOLEAN : WithCommitment("own", wide)
  /\ author' = TRUE
  /\ UNCHANGED <<smallNative, i, gadgets, argued, committed, checked, zerosChecked>>

\* Define, a deferred function or a callback of the circuit returns.
Return ==
  /\ Running
  /\ \/ pc = "define" /\ pc' = "loop" /\ UNCHANGED <<i, mc>>
     \/ pc = "own" /\ pc' = "loop" /\ i' = Following /\ UNCHANGED mc
     \/ pc = "callback" /\ pc' = "challenges" /\ mc' = [mc EXCEPT !.next = @ + 1] /\ UNCHANGED i
  /\ UNCHANGED <<smallNative, deferred, gadgets, argued, committed, checked, zerosChecked, author>>

ReturnError ==
  /\ Running /\ pc' = "failed" /\ author' = TRUE
  /\ UNCHANGED <<smallNative, deferred, i, gadgets, proofs>>

-----------------------------------------------------------------------------
(* The deferred functions, called by callDeferred one after the other.         *)

Calls(g) == pc = "loop" /\ i <= Len(deferred) /\ deferred[i] = g

\* The gadget's function builds the argument for the queries it has, if it has any.
Argue(g, some, wide) ==
  /\ argued' = [argued EXCEPT ![g] = queries[g]]
  /\ IF some THEN WithCommitment(g, wide) ELSE UNCHANGED <<pc, deferred, mc>>
  /\ i' = Following
  /\ UNCHANGED <<smallNative, queries, zeros, filled, committed, checked, zerosChecked, author>>

\* commitChecker.commit, which Build's result does not keep from closing.
CommitChecker ==
  /\ Calls("rangecheck")
  /\ Argue("rangecheck", queries["rangecheck"] > 0, smallNative)
  /\ closed' = TRUE

\* table.commit; Build refuses an empty table.
CommitTable(t) ==
  /\ Calls(t)
  /\ IF t \in filled THEN Argue(t, TRUE, smallNative) /\ UNCHANGED closed ELSE Fail

\* szChecker.resolve knows no wide challenges.
Resolve ==
  /\ Calls("sz")
  /\ Argue("sz", queries["sz"] > 0, FALSE) /\ UNCHANGED closed

PerformDeferredChecks(f) ==
  /\ Calls(f)
  /\ Argue(f, queries[f] > 0 \/ (f \in SmallFields /\ zeros[f] > 0), smallNative)
  /\ UNCHANGED closed

CallOwn ==
  /\ Calls("own") /\ pc' = "own"
  /\ UNCHANGED <<smallNative, deferred, i, gadgets, proofs, author>>

\* commitAndCall up to its loop: callbacks must expect the width of the challenge.
CommitAndCall ==
  /\ Calls("multicommit")
  /\ IF mc.cbs = <<>> \/ \E k \in 1 .. Len(mc.cbs) : mc.cbs[k].wide # smallNative
     THEN Fail
     ELSE /\ mc' = [mc EXCEPT !.closed = TRUE]
          /\ committed' = [g \in Gadgets |->
               IF \E k \in 1 .. Len(mc.cbs) : mc.cbs[k].of = g THEN argued[g] ELSE 0]
          /\ pc' = "challenges"
          /\ UNCHANGED <<smallNative, deferred, i, gadgets, argued, checked, zerosChecked, author>>

\* Callbacks that walk the gadget's list as it is when they are called; the others
\* have the table and the queries Build was given.
WalksList(g) == g = "sz" \/ g \in Fields

\* One iteration of the loop.
CallBack ==
  /\ pc = "challenges" /\ mc.next <= Len(mc.cbs)
  /\ LET g == mc.cbs[mc.next].of IN
     IF g = "own" THEN pc' = "callback" /\ UNCHANGED <<mc, checked, zerosChecked>>
     ELSE /\ checked' = [checked EXCEPT ![g] = IF WalksList(g) THEN queries[g] ELSE argued[g]]
          /\ zerosChecked' = [f \in SmallFields |-> IF f = g THEN zeros[f] ELSE zerosChecked[f]]
          /\ mc' = [mc EXCEPT !.next = @ + 1]
          /\ UNCHANGED pc
  /\ UNCHANGED <<smallNative, deferred, i, gadgets, argued, committed, author>>

CommitterReturns ==
  /\ pc = "challenges" /\ mc.next > Len(mc.cbs)
  /\ pc' = "loop" /\ i' = Following
  /\ UNCHANGED <<smallNative, deferred, gadgets, proofs, author>>

\* Mutant: the last function is not called.
LastForgotten == i >= Len(deferred)

\* The list is read anew in every iteration.
AllCalled == i > Len(deferred)

\* builder.Compile is called next.
EndLoop ==
  /\ pc = "loop" /\ AllCalled
  /\ pc' = "compiled"
  /\ UNCHANGED <<smallNative, deferred, i, gadgets, proofs, author>>

-----------------------------------------------------------------------------
Init ==
  /\ smallNative \in BOOLEAN
  /\ pc = "define" /\ deferred = <<>> /\ i = 1
  /\ queries = [g \in Gadgets |-> 0] /\ zeros = [f \in SmallFields |-> 0]
  /\ filled = {} /\ closed = FALSE
  /\ argued = [g \in Gadgets |-> NotBuilt]
  /\ mc = [closed |-> FALSE, cbs |-> <<>>, next |-> 1]
  /\ committed = [g \in Gadgets |-> 0] /\ checked = [g \in Gadgets |-> 0]
  /\ zerosChecked = [f \in SmallFields |-> 0]
  /\ author = FALSE

Circuit ==
  \/ \E collect \in {0, 1} : Check(collect)
  \/ \E t \in Tables : NewTable(t) \/ Insert(t) \/ Lookup(t)
  \/ AddCheck
  \/ \E f \in Fields : NewField(f) \/ Multiply(f)
  \/ \E f \in SmallFields : AssertZero(f)
  \/ DeferOwn \/ CommitOwn \/ Return \/ ReturnError

CallDeferred ==
  \/ CommitChecker \/ Resolve
  \/ \E t \in Tables : CommitTable(t)
  \/ \E f \in Fields : PerformDeferredChecks(f)
  \/ CallOwn \/ CommitAndCall \/ CallBack \/ CommitterReturns \/ EndLoop

Next == Circuit \/ CallDeferred

Spec == Init /\ [][Next]_vars
-----------------------------------------------------------------------------
TypeOK ==
  /\ smallNative \in BOOLEAN /\ author \in BOOLEAN /\ closed \in BOOLEAN
  /\ pc \in {"define", "loop", "own", "challenges", "callback", "compiled", "failed"}
  /\ deferred \in Seq(Gadgets \union {"own", "multicommit"})
  /\ i \in 1 .. Len(deferred) + 1
  /\ queries \in [Gadgets -> Nat]
  /\ zeros \in [SmallFields -> Nat]
  /\ filled \in SUBSET Tables
  /\ argued \in [Gadgets -> Nat \union {NotBuilt}]
  /\ mc \in [closed : BOOLEAN, next : Nat \ {0},
             cbs : Seq([of : Gadgets \union {"own"}, wide : BOOLEAN])]
  /\ committed \in [Gadgets -> Nat \union {NotBuilt}]
  /\ checked \in [Gadgets -> Nat \union {NotBuilt}]
  /\ zerosChecked \in [SmallFields -> Nat]

\* A circuit that compiles has every range check and every emulated multiplication,
\* wherever its code asked for it, bound by the commitment and asserted: a callback
\* that comes too late for one panics.  Nothing panics when it is too late for the
\* quotient of a small field's zero check, but none is left out of the batched check
\* as long as gadgets are used in Define alone.  (A field's function does not close it; its
\* range checker does, deferred no later than the field: field.go:97 and 143,
\* field_mul.go:382-488, rangecheck_commit.go:68-150.)
NothingUnproved ==
  pc = "compiled" =>
    \A g \in Fields \union {"rangecheck"} :
      /\ committed[g] = queries[g] /\ checked[g] = queries[g]
      /\ ~author /\ g \in SmallFields => zerosChecked[g] = zeros[g]

\* A circuit that compiles called every deferred function, whichever function deferred
\* it, and no argument is lost: each is committed to and asserted at a challenge.
\* (callDeferred, compile.go:174-189; commitAndCall, nativecommit.go:68-129.)
ArgumentsAreProved ==
  pc = "compiled" =>
    \A g \in Gadgets \intersect Deferreds :
      /\ argued[g] # NotBuilt
      /\ committed[g] = argued[g] /\ checked[g] >= argued[g]

\* A challenge is used on values fixed before it was drawn.  Not so for the
\* Schwartz-Zippel checks of fields_bls12377, which may still be added between
\* resolve and its callback.  (field_mul.go:404-440 walks the list it has by then.)
ChallengeComesLast ==
  \A g \in Gadgets \ {"sz"} : checked[g] <= committed[g]

\* Using gadgets in Define alone, in any order, compiles: no gadget reaches a
\* multicommitter that has committed, nor a closed range checker.  What is excepted
\* panics by design: empty tables, and checks without an extension field variant.
\* (nativecommit.go:151, rangecheck_commit.go:69.)
DefineOnlyCompiles ==
  pc = "failed" =>
    \/ author
    \/ \E t \in Tables \intersect Deferreds : t \notin filled
    \/ smallNative /\ queries["sz"] > 0
=============================================================================

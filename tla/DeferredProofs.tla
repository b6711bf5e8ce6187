---------------------------- MODULE DeferredProofs ----------------------------
(* What holds of every circuit that uses the gadgets of Deferred, whatever the *)
(* number of tables, fields and queries.                                      *)
EXTENDS Deferred, TLAPS

Names == Gadgets \union {"own", "multicommit"}

\* The functions in a list, and those before its n-th place.
In(list) == {list[k] : k \in 1 .. Len(list)}
Before(list, n) == {list[k] : k \in 1 .. n - 1}

Called == Before(deferred, i)

Extends(list, longer) ==
  /\ Len(list) <= Len(longer)
  /\ \A k \in 1 .. Len(list) : longer[k] = list[k]

\* A function is in the list once, unless it is the circuit's, and the range
\* checker's is in it before that of any field.
InOrder(list) ==
  /\ \A j, k \in 1 .. Len(list) : list[j] = list[k] /\ list[j] # "own" => j = k
  /\ \A k \in 1 .. Len(list) : list[k] \in Fields => "rangecheck" \in Before(list, k)

\* Nothing but the circuit's own functions come after the multicommitter.
OwnAfter(list) ==
  \A j, k \in 1 .. Len(list) : j < k /\ list[j] = "multicommit" => list[k] = "own"

-----------------------------------------------------------------------------
(* Lists.                                                                     *)

\* Append puts one function at the end of what is there.
LEMMA AppendOne ==
  ASSUME NEW list \in Seq(Names), NEW g \in Names
  PROVE  /\ Append(list, g) \in Seq(Names) /\ Len(Append(list, g)) = Len(list) + 1
         /\ Extends(list, Append(list, g))
         /\ In(Append(list, g)) = In(list) \union {g}
  BY DEF Extends, In

\* What was called stays what was called when the list grows.
LEMMA CalledStays ==
  ASSUME NEW list \in Seq(Names), NEW longer \in Seq(Names), Extends(list, longer),
         NEW n \in 1 .. Len(list) + 1
  PROVE  Before(longer, n) = Before(list, n)
  BY DEF Extends, Before

\* Going one place further calls the function there.
LEMMA CalledNext ==
  ASSUME NEW list \in Seq(Names), NEW n \in 1 .. Len(list)
  PROVE  Before(list, n + 1) = Before(list, n) \union {list[n]}
<1>1. 1 .. (n + 1) - 1 = (1 .. n - 1) \union {n}
  OBVIOUS
<1> QED BY <1>1 DEF Before

\* When the loop has passed the end every function was called.
LEMMA CalledAll ==
  ASSUME NEW list \in Seq(Names)
  PROVE  Before(list, Len(list) + 1) = In(list)
<1>1. 1 .. (Len(list) + 1) - 1 = 1 .. Len(list)
  OBVIOUS
<1> QED BY <1>1 DEF Before, In

\* No function but one of the circuit is called twice.
LEMMA CalledOnce ==
  ASSUME NEW list \in Seq(Names), InOrder(list), NEW n \in 1 .. Len(list), list[n] # "own"
  PROVE  list[n] \notin Before(list, n)
  BY DEF InOrder, Before

\* A field is called after the range checker, and is in a list with it.
LEMMA CheckerCalled ==
  ASSUME NEW list \in Seq(Names), InOrder(list), NEW n \in 1 .. Len(list) + 1,
         NEW f \in Fields, f \in Before(list, n)
  PROVE  "rangecheck" \in Before(list, n)
  BY DEF InOrder, Before

LEMMA CheckerInList ==
  ASSUME NEW list \in Seq(Names), InOrder(list), NEW f \in Fields, f \in In(list)
  PROVE  "rangecheck" \in In(list)
  BY CheckerCalled, CalledAll

\* A function that is new, and has its range checker if it is a field's, can follow.
LEMMA AppendInOrder ==
  ASSUME NEW list \in Seq(Names), InOrder(list), NEW g \in Names,
         g = "own" \/ g \notin In(list),
         g \in Fields => "rangecheck" \in In(list)
  PROVE  InOrder(Append(list, g))
<1> DEFINE longer == Append(list, g)
<1>1. /\ longer \in Seq(Names) /\ Len(longer) = Len(list) + 1
      /\ \A k \in 1 .. Len(list) : longer[k] = list[k]
      /\ longer[Len(list) + 1] = g
  OBVIOUS
<1>2. ASSUME NEW j \in 1 .. Len(longer), NEW k \in 1 .. Len(longer),
             longer[j] = longer[k], longer[j] # "own"
      PROVE  j = k
  <2>1. CASE j <= Len(list) /\ k <= Len(list)
    BY <1>1, <1>2, <2>1 DEF InOrder
  <2>2. CASE j = Len(list) + 1 /\ k <= Len(list)
    BY <1>1, <1>2, <2>2 DEF In
  <2>3. CASE j <= Len(list) /\ k = Len(list) + 1
    BY <1>1, <1>2, <2>3 DEF In
  <2>4. CASE j = Len(list) + 1 /\ k = Len(list) + 1
    BY <2>4
  <2> QED BY <1>1, <2>1, <2>2, <2>3, <2>4
<1>3. ASSUME NEW k \in 1 .. Len(longer), longer[k] \in Fields
      PROVE  "rangecheck" \in Before(longer, k)
  <2>1. Before(longer, k) = Before(list, k)
    BY <1>1, CalledStays, AppendOne
  <2>2. CASE k <= Len(list)
    BY <1>1, <1>3, <2>1, <2>2 DEF InOrder
  <2>3. CASE k = Len(list) + 1
    BY <1>1, <1>3, <2>1, <2>3, CalledAll
  <2> QED BY <1>1, <2>2, <2>3
<1> QED BY <1>2, <1>3 DEF InOrder

\* A list without multicommitter has nothing after it.
LEMMA NothingAfter ==
  ASSUME NEW list \in Seq(Names), "multicommit" \notin In(list)
  PROVE  OwnAfter(list)
  BY DEF OwnAfter, In

LEMMA AppendOwnAfter ==
  ASSUME NEW list \in Seq(Names), OwnAfter(list), NEW g \in Names,
         g = "own" \/ "multicommit" \notin In(list)
  PROVE  OwnAfter(Append(list, g))
<1>1. /\ Append(list, g) \in Seq(Names) /\ Len(Append(list, g)) = Len(list) + 1
      /\ \A k \in 1 .. Len(list) : Append(list, g)[k] = list[k]
      /\ Append(list, g)[Len(list) + 1] = g
  OBVIOUS
<1> QED BY <1>1 DEF OwnAfter, In

\* Put, of a function that is in the list already or follows it.
LEMMA PutOne ==
  ASSUME NEW list \in Seq(Names), InOrder(list), NEW g \in Names \ Fields
  PROVE  /\ PutNew(list, g) \in Seq(Names) /\ InOrder(PutNew(list, g))
         /\ Extends(list, PutNew(list, g))
         /\ In(PutNew(list, g)) = In(list) \union {g}
         /\ g = "multicommit" /\ OwnAfter(list) => OwnAfter(PutNew(list, g))
<1>1. CASE g \in In(list)
  BY <1>1 DEF PutNew, In, Extends
<1>2. CASE g \notin In(list)
  <2>1. PutNew(list, g) = Append(list, g)
    BY <1>2 DEF PutNew, In
  <2> QED BY <1>2, <2>1, AppendOne, AppendInOrder, AppendOwnAfter
<1> QED BY <1>1, <1>2

-----------------------------------------------------------------------------
(* The invariant.                                                             *)

CbsOf == {mc.cbs[k].of : k \in 1 .. Len(mc.cbs)}

CalledBack == {mc.cbs[k].of : k \in 1 .. mc.next - 1}

\* What runs is what the loop's index says.
Position ==
  /\ pc = "define" => i = 1
  /\ pc = "own" => i <= Len(deferred) /\ deferred[i] = "own"
  /\ pc \in {"challenges", "callback"} => i <= Len(deferred) /\ deferred[i] = "multicommit"
  /\ pc = "callback" => mc.next <= Len(mc.cbs) /\ mc.cbs[mc.next].of = "own"
  /\ pc = "compiled" => i = Len(deferred) + 1

\* A gadget has its argument when its function was called, and that of a field or of
\* the range checker is never short of a query.
Arguments ==
  /\ \A g \in Gadgets : argued[g] # NotBuilt <=> g \in Called
  /\ closed <=> "rangecheck" \in Called
  /\ \A g \in Gadgets : argued[g] <= queries[g]
  /\ \A g \in Fields \union {"rangecheck"} :
       /\ g \in Called => argued[g] = queries[g]
       /\ queries[g] > 0 => g \in Deferreds

\* Arguments are registered with the multicommitter while it is open, and it is in the
\* list as soon as one is.
Callbacks ==
  /\ \A g \in Gadgets : g \in CbsOf => g \in Called
  /\ \A g \in Gadgets : argued[g] > 0 => g \in CbsOf
  /\ CbsOf # {} <=> "multicommit" \in Deferreds
  /\ mc.closed <=> "multicommit" \in Called \/ pc \in {"challenges", "callback"}
  /\ mc.next \in 1 .. Len(mc.cbs) + 1
  /\ ~ mc.closed => mc.next = 1
  /\ mc.closed /\ pc \notin {"challenges", "callback"} => mc.next = Len(mc.cbs) + 1

\* What is committed to is what was argued, and so is what is checked.
Challenges ==
  \A g \in Gadgets :
    /\ committed[g] = IF mc.closed /\ g \in CbsOf THEN argued[g] ELSE 0
    /\ checked[g] >= IF g \in CalledBack THEN argued[g] ELSE 0
    /\ g # "sz" => checked[g] = IF g \in CalledBack THEN argued[g] ELSE 0

\* While nothing but gadgets in Define was used.
GadgetsOnly ==
  ~ author =>
    /\ OwnAfter(deferred)
    /\ pc = "define" => CbsOf = {}
    /\ \A k \in 1 .. Len(mc.cbs) :
         /\ mc.cbs[k].of # "own"
         /\ \/ mc.cbs[k].wide = smallNative
            \/ mc.cbs[k].of = "sz" /\ ~ mc.cbs[k].wide /\ queries["sz"] > 0

Live == InOrder(deferred) /\ Position /\ Arguments /\ Callbacks /\ Challenges /\ GadgetsOnly

IInv ==
  /\ TypeOK /\ ChallengeComesLast /\ DefineOnlyCompiles
  /\ pc # "failed" => Live

-----------------------------------------------------------------------------
(* What it implies.                                                           *)

LEMMA Strings ==
  /\ "rangecheck" \in Gadgets /\ "sz" \in Gadgets
  /\ "rangecheck" \notin Fields /\ "sz" \notin Fields
  /\ Fields \subseteq Gadgets /\ Tables \subseteq Gadgets /\ Fields \intersect Tables = {}
  /\ "rangecheck" \notin Tables /\ "sz" \notin Tables
  /\ "own" \notin Gadgets /\ "multicommit" \notin Gadgets
  /\ SmallFields \subseteq Fields
  /\ Gadgets \subseteq Names /\ "own" \in Names /\ "multicommit" \in Names
  BY GadgetsAssumption DEF Gadgets, Singletons, Fields, Names

Committers == [closed : BOOLEAN, next : Nat \ {0},
               cbs : Seq([of : Gadgets \union {"own"}, wide : BOOLEAN])]

\* The loop of a multicommitter goes on to the next callback.
LEMMA NextCallback ==
  ASSUME NEW m \in Committers
  PROVE  LET n == [m EXCEPT !.next = @ + 1] IN
         n \in Committers /\ n.next = m.next + 1 /\ n.cbs = m.cbs /\ n.closed = m.closed
<1>1. m.next \in Nat \ {0} /\ m.next + 1 \in Nat \ {0}
  BY DEF Committers
<1> QED BY <1>1 DEF Committers

LEMMA ElementOf ==
  ASSUME NEW S, NEW list \in Seq(S), NEW k \in 1 .. Len(list)
  PROVE  list[k] \in S
  OBVIOUS

LEMMA CallbackFacts ==
  ASSUME TypeOK
  PROVE  /\ mc \in Committers /\ mc.closed \in BOOLEAN /\ Len(mc.cbs) \in Nat
         /\ \A k \in 1 .. Len(mc.cbs) :
              mc.cbs[k].of \in Gadgets \union {"own"} /\ mc.cbs[k].wide \in BOOLEAN
<1>1. mc \in Committers
  BY DEF TypeOK, Committers
<1>2. mc.cbs \in Seq([of : Gadgets \union {"own"}, wide : BOOLEAN]) /\ mc.closed \in BOOLEAN
  BY <1>1 DEF Committers
<1>3. \A k \in 1 .. Len(mc.cbs) : mc.cbs[k] \in [of : Gadgets \union {"own"}, wide : BOOLEAN]
  BY <1>2, ElementOf
<1>4. Len(mc.cbs) \in Nat
  BY <1>2
<1> QED BY <1>1, <1>2, <1>3, <1>4

LEMMA Lists ==
  ASSUME TypeOK
  PROVE  /\ deferred \in Seq(Names) /\ Deferreds = In(deferred)
         /\ i \in 1 .. Len(deferred) + 1
  BY DEF TypeOK, Names, Deferreds, In

\* All that was called is in the list, and a field with its range checker.
LEMMA CalledFacts ==
  ASSUME TypeOK, InOrder(deferred)
  PROVE  /\ Called \subseteq Deferreds
         /\ \A f \in Fields : f \in Called => "rangecheck" \in Called
         /\ \A f \in Fields : f \in Deferreds => "rangecheck" \in Deferreds
  <1>1. Called \subseteq Deferreds
    BY Lists DEF Called, Before, In
  <1> QED BY <1>1, Lists, CheckerCalled, CheckerInList DEF Called

\* No argument is checked for more than was committed to.
LEMMA LiveCommitted ==
  ASSUME TypeOK, Live
  PROVE  ChallengeComesLast
<1> SUFFICES ASSUME NEW g \in Gadgets, g # "sz"
             PROVE  checked[g] <= committed[g]
  BY DEF ChallengeComesLast
<1>1. /\ committed[g] = IF mc.closed /\ g \in CbsOf THEN argued[g] ELSE 0
      /\ checked[g] = IF g \in CalledBack THEN argued[g] ELSE 0
  BY DEF Live, Challenges
<1>2. argued[g] \in Int
  BY DEF TypeOK, NotBuilt
<1>3. g \in CalledBack => mc.closed /\ g \in CbsOf
  BY DEF Live, Callbacks, CalledBack, CbsOf
<1>4. g \in CbsOf => argued[g] # NotBuilt
  BY DEF Live, Callbacks, Arguments
<1>5. argued[g] # NotBuilt => argued[g] >= 0
  BY DEF TypeOK, NotBuilt
<1> QED BY <1>1, <1>2, <1>3, <1>4, <1>5

\* A circuit that compiled has all its arguments committed to and asserted.
LEMMA CompiledFacts ==
  ASSUME TypeOK, Live, pc = "compiled", NEW g \in Gadgets, g \in Deferreds
  PROVE  argued[g] # NotBuilt /\ committed[g] = argued[g] /\ checked[g] >= argued[g]
<1>1. Called = Deferreds
  BY Lists, CalledAll DEF Live, Position, Called
<1>2. argued[g] # NotBuilt /\ argued[g] \in Int /\ argued[g] >= 0
  BY <1>1 DEF Live, Arguments, TypeOK, NotBuilt
<1>3. CASE g \in CbsOf
  <2>1. mc.closed /\ mc.next = Len(mc.cbs) + 1
    BY <1>1, <1>3 DEF Live, Callbacks
  <2>2. g \in CalledBack
    BY <1>3, <2>1 DEF CalledBack, CbsOf, TypeOK
  <2> QED BY <1>2, <1>3, <2>1, <2>2 DEF Live, Challenges
<1>4. CASE g \notin CbsOf
  <2>1. argued[g] = 0
    BY <1>2, <1>4 DEF Live, Callbacks
  <2>2. g \notin CalledBack
    BY <1>4 DEF Live, Callbacks, CalledBack, CbsOf, TypeOK
  <2> QED BY <1>2, <1>4, <2>1, <2>2 DEF Live, Challenges
<1> QED BY <1>3, <1>4

LEMMA IInvImplies == IInv => TypeOK /\ ArgumentsAreProved /\ ChallengeComesLast
                              /\ DefineOnlyCompiles
<1>1. ASSUME IInv, pc = "compiled" PROVE TypeOK /\ Live
  BY <1>1 DEF IInv
<1> QED BY <1>1, CompiledFacts DEF IInv, ArgumentsAreProved

\* Queries of the range checker and of fields are committed to and checked.
LEMMA QueriesProved ==
  ASSUME IInv, pc = "compiled"
  PROVE  \A g \in Fields \union {"rangecheck"} :
           committed[g] = queries[g] /\ checked[g] = queries[g]
<1>1. TypeOK /\ Live
  BY DEF IInv
<1>2. ASSUME NEW g \in Fields \union {"rangecheck"}
      PROVE  committed[g] = queries[g] /\ checked[g] = queries[g]
  <2>1. g \in Gadgets /\ g # "sz" /\ queries[g] \in Nat /\ argued[g] \in Int
    BY <1>1, Strings DEF TypeOK, NotBuilt
  <2>2. Called = Deferreds
    BY <1>1, Lists, CalledAll DEF Live, Position, Called
  <2>3. CASE g \in Deferreds
    <3>1. argued[g] = queries[g]
      BY <1>1, <2>2, <2>3 DEF Live, Arguments
    <3>2. argued[g] # NotBuilt /\ committed[g] = argued[g] /\ checked[g] >= argued[g]
      BY <1>1, <2>1, <2>3, CompiledFacts
    <3>3. checked[g] <= committed[g]
      BY <2>1 DEF IInv, ChallengeComesLast
    <3>4. checked[g] \in Int
      BY <1>1, <2>1 DEF TypeOK, NotBuilt
    <3> QED BY <2>1, <3>1, <3>2, <3>3, <3>4
  <2>4. CASE g \notin Deferreds
    <3>1. queries[g] = 0
      BY <1>1, <2>1, <2>4 DEF Live, Arguments
    <3>2. g \notin CbsOf /\ g \notin CalledBack
      <4>1. g \notin CbsOf
        BY <1>1, <2>1, <2>2, <2>4 DEF Live, Callbacks
      <4> QED BY <1>1, <4>1 DEF Live, Callbacks, CalledBack, CbsOf, TypeOK
    <3> QED BY <1>1, <2>1, <3>1, <3>2 DEF Live, Challenges
  <2> QED BY <2>3, <2>4
<1> QED BY <1>2

LEMMA InitIInv == Init => IInv
<1> SUFFICES ASSUME Init PROVE IInv
  OBVIOUS
<1>1. TypeOK
  <2>1. /\ deferred \in Seq(Gadgets \union {"own", "multicommit"}) /\ i \in 1 .. Len(deferred) + 1
        /\ mc.cbs \in Seq([of : Gadgets \union {"own"}, wide : BOOLEAN])
    BY DEF Init
  <2>2. mc \in [closed : BOOLEAN, next : Nat \ {0},
                cbs : Seq([of : Gadgets \union {"own"}, wide : BOOLEAN])]
    BY <2>1 DEF Init
  <2> QED BY <2>1, <2>2 DEF Init, TypeOK, NotBuilt
<1>2. Called = {} /\ Deferreds = {} /\ CbsOf = {} /\ CalledBack = {}
  BY DEF Init, Called, Before, Deferreds, CbsOf, CalledBack
<1>3. InOrder(deferred) /\ OwnAfter(deferred)
  BY DEF Init, InOrder, OwnAfter
<1>4. Live
  BY <1>1, <1>2, <1>3, Strings
     DEF Init, Live, Position, Arguments, Callbacks, Challenges, GadgetsOnly, NotBuilt
<1> QED BY <1>1, <1>4, LiveCommitted DEF IInv, DefineOnlyCompiles, Init

-----------------------------------------------------------------------------
(* Steps of the circuit's code.                                               *)

\* A step that fails the compilation for a reason that excuses it.
LEMMA FailKeeps ==
  ASSUME IInv, TypeOK', pc' = "failed", UNCHANGED <<committed, checked>>, DefineOnlyCompiles'
  PROVE  IInv'
  BY DEF IInv, ChallengeComesLast

\* A step after which all is well has nothing to excuse.
LEMMA LiveKeeps ==
  ASSUME TypeOK', Live', pc' # "failed"
  PROVE  IInv'
<1>1. ChallengeComesLast'
  BY LiveCommitted, PTL
<1> QED BY <1>1 DEF IInv, DefineOnlyCompiles

\* Code may add functions to the end of the list, and queries to gadgets that have no
\* argument yet or need not have all of them.
LEMMA CodeKeeps ==
  ASSUME IInv, Running, TypeOK', InOrder(deferred'), Extends(deferred, deferred'),
         UNCHANGED <<smallNative, pc, i, closed, proofs>>,
         \A g \in Gadgets : queries'[g] >= queries[g],
         \A g \in Fields \union {"rangecheck"} :
           queries'[g] # queries[g] => g \notin Called /\ g \in Deferreds',
         "multicommit" \in Deferreds' => "multicommit" \in Deferreds,
         author => author',
         ~ author' => OwnAfter(deferred')
  PROVE  IInv'
<1>1. TypeOK /\ Live /\ pc # "failed"
  BY DEF IInv, Running
<1>2. /\ deferred \in Seq(Names) /\ Deferreds = In(deferred) /\ i \in 1 .. Len(deferred) + 1
      /\ deferred' \in Seq(Names) /\ Deferreds' = In(deferred') /\ Len(deferred) <= Len(deferred')
      /\ \A k \in 1 .. Len(deferred) : deferred'[k] = deferred[k]
  BY <1>1, Lists DEF TypeOK, Names, Deferreds, In, Extends
<1>3. Called' = Called /\ Deferreds \subseteq Deferreds'
  <2>1. Called' = Called
    BY <1>2, CalledStays DEF Called
  <2> QED BY <1>2, <2>1 DEF In
<1>4. CbsOf' = CbsOf /\ CalledBack' = CalledBack
  BY DEF proofs, CbsOf, CalledBack
<1>5. Position'
  <2>1. pc # "compiled"
    BY DEF Running
  <2> QED BY <1>1, <1>2, <2>1 DEF Live, Position, proofs
<1>6. Arguments'
  <2>1. \A g \in Gadgets : argued[g] <= queries'[g]
    <3> TAKE g \in Gadgets
    <3>1. argued[g] \in Int /\ queries[g] \in Int /\ queries'[g] \in Int
      BY <1>1 DEF TypeOK, NotBuilt
    <3> QED BY <1>1, <3>1 DEF Live, Arguments
  <2>2. \A g \in Fields \union {"rangecheck"} :
          /\ g \in Called => argued[g] = queries'[g]
          /\ queries'[g] > 0 => g \in Deferreds'
    BY <1>1, <1>3 DEF Live, Arguments
  <2>3. (\A g \in Gadgets : argued[g] # NotBuilt <=> g \in Called)
          /\ (closed <=> "rangecheck" \in Called)
    BY <1>1 DEF Live, Arguments
  <2> QED BY <1>3, <2>1, <2>2, <2>3 DEF Arguments, proofs
<1>7. Callbacks'
  BY <1>1, <1>3, <1>4 DEF Live, Callbacks, proofs
<1>8. Challenges'
  BY <1>1, <1>4 DEF Live, Challenges, proofs
<1>9. GadgetsOnly'
  <2>1. queries["sz"] > 0 => queries'["sz"] > 0
    BY <1>1, Strings DEF TypeOK
  <2> QED BY <1>1, <1>4, <2>1 DEF Live, GadgetsOnly, proofs
<1>10. Live'
  BY <1>5, <1>6, <1>7, <1>8, <1>9 DEF Live
<1> QED BY <1>1, <1>10, LiveKeeps

\* A gadget used by anything but Define is remembered; in Define there is no
\* multicommitter yet.
LEMMA UseFacts ==
  ASSUME IInv, Running, Use
  PROVE  /\ author => author'
         /\ ~ author' => pc = "define" /\ "multicommit" \notin Deferreds /\ ~ closed
         /\ author' \in BOOLEAN
<1>1. TypeOK /\ Live
  BY DEF IInv, Running
<1>2. ASSUME ~ author' PROVE pc = "define" /\ "multicommit" \notin Deferreds /\ ~ closed
  <2>1. ~ author /\ pc = "define"
    BY <1>2 DEF Use
  <2>2. Called = {}
    BY <1>1, <2>1 DEF Live, Position, Called, Before
  <2> QED BY <1>1, <2>1, <2>2 DEF Live, GadgetsOnly, Callbacks, Arguments
<1> QED BY <1>1, <1>2 DEF Use, TypeOK

\* What closes the range checker has not happened while it is open.
LEMMA OpenChecker ==
  ASSUME IInv, Running, ~ closed
  PROVE  "rangecheck" \notin Called /\ \A f \in Fields : f \notin Called
<1>1. TypeOK /\ Live
  BY DEF IInv, Running
<1> QED BY <1>1, CalledFacts DEF Live, Arguments

\* A longer list in which the multicommitter is not new has nothing after it either.
LEMMA NoneAfter ==
  ASSUME TypeOK, NEW list \in Seq(Names), "multicommit" \in In(list) => "multicommit" \in Deferreds,
         "multicommit" \notin Deferreds
  PROVE  OwnAfter(list)
  BY NothingAfter

LEMMA CheckKeeps == ASSUME IInv, NEW collect \in {0, 1}, Check(collect) PROVE IInv'
<1>1. TypeOK /\ Live /\ Running /\ Use
  BY DEF IInv, Check, Running
<1>2. author' \in BOOLEAN /\ (author => author')
        /\ (~ author' => "multicommit" \notin Deferreds /\ ~ closed)
  BY <1>1, UseFacts
<1>3. deferred \in Seq(Names) /\ Deferreds = In(deferred) /\ InOrder(deferred)
  BY <1>1, Lists DEF Live
<1>4. CASE closed
  <2>1. TypeOK'
    BY <1>1, <1>2, <1>4 DEF Check, TypeOK, proofs
  <2> QED BY <1>2, <1>4, <2>1, FailKeeps DEF Check, DefineOnlyCompiles, proofs
<1>5. CASE ~ closed
  <2>1. /\ deferred' = PutNew(deferred, "rangecheck")
        /\ queries' = [queries EXCEPT !["rangecheck"] = @ + collect]
        /\ UNCHANGED <<smallNative, pc, i, zeros, filled, closed, proofs>>
    BY <1>5 DEF Check
  <2>2. /\ deferred' \in Seq(Names) /\ InOrder(deferred') /\ Extends(deferred, deferred')
        /\ Deferreds' = Deferreds \union {"rangecheck"} /\ Deferreds' = In(deferred')
    <3>1. Deferreds' = In(deferred')
      BY DEF Deferreds, In
    <3>2. "rangecheck" \in Names \ Fields
      BY Strings
    <3> QED BY <1>3, <2>1, <3>1, <3>2, PutOne
  <2>3. TypeOK'
    BY <1>1, <1>2, <2>1, <2>2, Strings DEF TypeOK, proofs, Names, Extends
  <2>4. ~ author' => OwnAfter(deferred')
    BY <1>2, <2>2, NothingAfter
  <2>5. "rangecheck" \notin Called
    BY <1>1, <1>5, OpenChecker
  <2>6. \A g \in Gadgets : queries'[g] >= queries[g]
    BY <1>1, <2>1 DEF TypeOK
  <2>7. \A g \in Fields \union {"rangecheck"} :
          queries'[g] # queries[g] => g \notin Called /\ g \in Deferreds'
    BY <1>1, <2>1, <2>2, <2>5, Strings DEF TypeOK
  <2> QED BY <1>1, <1>2, <2>1, <2>2, <2>3, <2>4, <2>6, <2>7, CodeKeeps
<1> QED BY <1>4, <1>5

LEMMA NewTableKeeps == ASSUME IInv, NEW t \in Tables, NewTable(t) PROVE IInv'
<1>1. TypeOK /\ Live /\ Running /\ Use
  BY DEF IInv, NewTable, Running
<1>2. author' \in BOOLEAN /\ (author => author') /\ (~ author' => "multicommit" \notin Deferreds)
  BY <1>1, UseFacts
<1>3. deferred \in Seq(Names) /\ Deferreds = In(deferred) /\ InOrder(deferred)
  BY <1>1, Lists DEF Live
<1>4. deferred' = Append(deferred, t) /\ t \notin Deferreds
        /\ UNCHANGED <<smallNative, pc, i, gadgets, proofs>>
  BY DEF NewTable
<1>5. t \in Names /\ t \notin Fields /\ t # "multicommit"
  BY Strings
<1>6. /\ deferred' \in Seq(Names) /\ InOrder(deferred') /\ Extends(deferred, deferred')
      /\ Deferreds' = Deferreds \union {t} /\ Deferreds' = In(deferred')
  BY <1>3, <1>4, <1>5, AppendOne, AppendInOrder DEF Deferreds, In
<1>7. TypeOK'
  BY <1>1, <1>2, <1>4, <1>6, Strings DEF TypeOK, gadgets, proofs, Names, Extends
<1>8. ~ author' => OwnAfter(deferred')
  BY <1>2, <1>5, <1>6, NothingAfter
<1> QED BY <1>1, <1>2, <1>4, <1>5, <1>6, <1>7, <1>8, CodeKeeps DEF gadgets, TypeOK

\* Steps that leave the list of deferred functions alone.
LEMMA SameListKeeps ==
  ASSUME IInv, Running, Use, TypeOK',
         UNCHANGED <<smallNative, pc, deferred, i, closed, proofs>>,
         \A g \in Gadgets : queries'[g] >= queries[g],
         \A g \in Fields \union {"rangecheck"} :
           queries'[g] # queries[g] => g \notin Called /\ g \in Deferreds
  PROVE  IInv'
<1>1. TypeOK /\ Live
  BY DEF IInv, Running
<1>2. (author => author') /\ (~ author' => "multicommit" \notin Deferreds)
  BY UseFacts
<1>3. deferred \in Seq(Names) /\ Deferreds = In(deferred) /\ InOrder(deferred)
  BY <1>1, Lists DEF Live
<1>4. Deferreds' = Deferreds /\ Extends(deferred, deferred')
  BY <1>3 DEF Deferreds, Extends
<1>5. ~ author' => OwnAfter(deferred')
  BY <1>2, <1>3, NothingAfter
<1> QED BY <1>2, <1>3, <1>4, <1>5, CodeKeeps

LEMMA InsertKeeps == ASSUME IInv, NEW t \in Tables, Insert(t) PROVE IInv'
<1>1. TypeOK /\ Running /\ Use /\ author' \in BOOLEAN
  BY UseFacts DEF IInv, Insert
<1>2. TypeOK'
  BY <1>1 DEF Insert, TypeOK, proofs
<1> QED BY <1>1, <1>2, SameListKeeps DEF Insert, TypeOK

LEMMA LookupKeeps == ASSUME IInv, NEW t \in Tables, Lookup(t) PROVE IInv'
<1>1. TypeOK /\ Running /\ Use /\ author' \in BOOLEAN /\ t \in Gadgets /\ t \notin Fields
        /\ t # "rangecheck"
  BY UseFacts, Strings DEF IInv, Lookup
<1>2. /\ queries' \in [Gadgets -> Nat]
      /\ pc' \in {"define", "loop", "own", "challenges", "callback", "compiled", "failed"}
  <2>1. queries \in [Gadgets -> Nat]
          /\ pc \in {"define", "loop", "own", "challenges", "callback", "compiled", "failed"}
    BY <1>1 DEF TypeOK
  <2>2. \/ queries' = [queries EXCEPT ![t] = @ + 1] /\ pc' = pc
        \/ queries' = queries /\ pc' = "failed"
    BY DEF Lookup
  <2> QED BY <1>1, <2>1, <2>2
<1>3. TypeOK'
  BY <1>1, <1>2 DEF Lookup, TypeOK, proofs
<1>4. CASE t \in filled
  <2>1. queries' = [queries EXCEPT ![t] = @ + 1] /\ UNCHANGED pc
    BY <1>4 DEF Lookup
  <2>2. \A g \in Gadgets : queries'[g] >= queries[g]
    BY <1>1, <2>1 DEF TypeOK
  <2>3. \A g \in Fields \union {"rangecheck"} : queries'[g] = queries[g]
    BY <1>1, <2>1, Strings DEF TypeOK
  <2> QED BY <1>1, <1>3, <2>1, <2>2, <2>3, SameListKeeps DEF Lookup
<1>5. CASE t \notin filled
  <2>1. t \in Tables \intersect Deferreds' /\ t \notin filled'
    BY <1>5 DEF Lookup, Deferreds
  <2> QED BY <1>3, <1>5, <2>1, FailKeeps DEF Lookup, DefineOnlyCompiles, proofs
<1> QED BY <1>4, <1>5

LEMMA AddCheckKeeps == ASSUME IInv, AddCheck PROVE IInv'
<1>1. TypeOK /\ Live /\ Running /\ Use
  BY DEF IInv, AddCheck, Running
<1>2. author' \in BOOLEAN /\ (author => author') /\ (~ author' => "multicommit" \notin Deferreds)
  BY <1>1, UseFacts
<1>3. deferred \in Seq(Names) /\ Deferreds = In(deferred) /\ InOrder(deferred)
  BY <1>1, Lists DEF Live
<1>4. /\ deferred' = PutNew(deferred, "sz") /\ queries' = [queries EXCEPT !["sz"] = @ + 1]
      /\ UNCHANGED <<smallNative, pc, i, zeros, filled, closed, proofs>>
  BY DEF AddCheck
<1>5. /\ deferred' \in Seq(Names) /\ InOrder(deferred') /\ Extends(deferred, deferred')
      /\ Deferreds' = Deferreds \union {"sz"} /\ Deferreds' = In(deferred')
  <2>1. Deferreds' = In(deferred') /\ "sz" \in Names \ Fields
    BY Strings DEF Deferreds, In
  <2> QED BY <1>3, <1>4, <2>1, PutOne
<1>6. TypeOK'
  BY <1>1, <1>2, <1>4, <1>5, Strings DEF TypeOK, proofs, Names, Extends
<1>7. ~ author' => OwnAfter(deferred')
  BY <1>2, <1>5, NothingAfter
<1>8. /\ \A g \in Gadgets : queries'[g] >= queries[g]
      /\ \A g \in Fields \union {"rangecheck"} : queries'[g] = queries[g]
  BY <1>1, <1>4, Strings DEF TypeOK
<1> QED BY <1>1, <1>2, <1>4, <1>5, <1>6, <1>7, <1>8, CodeKeeps

LEMMA NewFieldKeeps == ASSUME IInv, NEW f \in Fields, NewField(f) PROVE IInv'
<1> DEFINE list == PutNew(deferred, "rangecheck")
<1>1. TypeOK /\ Live /\ Running /\ Use
  BY DEF IInv, NewField, Running
<1>2. author' \in BOOLEAN /\ (author => author') /\ (~ author' => "multicommit" \notin Deferreds)
  BY <1>1, UseFacts
<1>3. deferred \in Seq(Names) /\ Deferreds = In(deferred) /\ InOrder(deferred)
  BY <1>1, Lists DEF Live
<1>4. f \notin Deferreds /\ UNCHANGED <<smallNative, pc, i, gadgets, proofs>>
        /\ (deferred' = Append(list, f) \/ deferred' = list)
  BY DEF NewField, CheckerFirst
<1>5. /\ list \in Seq(Names) /\ InOrder(list) /\ Extends(deferred, list)
      /\ In(list) = Deferreds \union {"rangecheck"}
  BY <1>3, PutOne, Strings
<1>6. f \in Names /\ f # "multicommit" /\ f # "rangecheck"
  BY Strings
<1>7. /\ deferred' \in Seq(Names) /\ InOrder(deferred') /\ Extends(list, deferred')
      /\ In(deferred') \subseteq Deferreds \union {"rangecheck", f}
  <2> HIDE DEF list
  <2>1. CASE deferred' = Append(list, f)
    BY <1>4, <1>5, <1>6, <2>1, AppendOne, AppendInOrder
  <2>2. CASE deferred' = list
    BY <1>5, <2>2 DEF Extends
  <2> QED BY <1>4, <2>1, <2>2
<1>8. Deferreds' = In(deferred') /\ Extends(deferred, deferred')
  <2> HIDE DEF list
  <2> QED BY <1>3, <1>5, <1>7 DEF Deferreds, In, Extends
<1>9. TypeOK'
  BY <1>1, <1>2, <1>3, <1>4, <1>7, <1>8 DEF TypeOK, gadgets, proofs, Names, Extends
<1>10. "multicommit" \in Deferreds' => "multicommit" \in Deferreds
  BY <1>6, <1>7, <1>8
<1>11. ~ author' => OwnAfter(deferred')
  BY <1>2, <1>7, <1>8, <1>10, NothingAfter
<1> QED BY <1>1, <1>2, <1>4, <1>7, <1>8, <1>9, <1>10, <1>11, CodeKeeps DEF gadgets, TypeOK

LEMMA MultiplyKeeps == ASSUME IInv, NEW f \in Fields, Multiply(f) PROVE IInv'
<1>1. TypeOK /\ Live /\ Running /\ Use /\ f \in Deferreds /\ author' \in BOOLEAN
        /\ (~ author' => ~ closed) /\ f \in Gadgets /\ f # "rangecheck"
  BY UseFacts, Strings DEF IInv, Multiply, Running
<1>2. CASE closed
  <2>1. pc' = "failed" /\ UNCHANGED queries
    BY <1>2 DEF Multiply, NoMoreChecks
  <2>2. TypeOK'
    BY <1>1, <2>1 DEF Multiply, TypeOK, proofs
  <2> QED BY <1>1, <1>2, <2>1, <2>2, FailKeeps DEF Multiply, DefineOnlyCompiles, proofs
<1>3. CASE ~ closed
  <2>1. /\ queries' = [queries EXCEPT ![f] = @ + 1, !["rangecheck"] = @ + 1]
        /\ UNCHANGED <<smallNative, pc, deferred, i, zeros, filled, closed, proofs>>
    BY <1>3 DEF Multiply, NoMoreChecks
  <2>2. "rangecheck" \notin Called /\ f \notin Called
    BY <1>1, <1>3, OpenChecker
  <2>3. "rangecheck" \in Deferreds
    BY <1>1, CalledFacts DEF Live
  <2>4. queries' \in [Gadgets -> Nat]
    <3>1. queries \in [Gadgets -> Nat] /\ f \in Gadgets /\ "rangecheck" \in Gadgets
      BY <1>1, Strings DEF TypeOK
    <3> QED BY <2>1, <3>1
  <2>5. TypeOK'
    BY <1>1, <2>1, <2>4 DEF TypeOK, proofs
  <2>6. \A g \in Gadgets : queries'[g] >= queries[g] /\ (queries'[g] # queries[g] => g \in {f, "rangecheck"})
    BY <1>1, <2>1, Strings DEF TypeOK
  <2> QED BY <1>1, <2>1, <2>2, <2>3, <2>5, <2>6, Strings, SameListKeeps
<1> QED BY <1>2, <1>3

LEMMA AssertZeroKeeps == ASSUME IInv, NEW f \in SmallFields, AssertZero(f) PROVE IInv'
<1>1. TypeOK /\ Running /\ Use /\ author' \in BOOLEAN
  BY UseFacts DEF IInv, AssertZero
<1>2. TypeOK'
  BY <1>1 DEF AssertZero, TypeOK, proofs
<1>3. /\ UNCHANGED <<smallNative, pc, deferred, i, closed, proofs>>
      /\ \A g \in Gadgets : queries'[g] = queries[g] /\ queries[g] \in Nat
      /\ \A g \in Fields \union {"rangecheck"} : queries'[g] = queries[g]
  BY <1>1, Strings DEF AssertZero, TypeOK
<1>4. \A g \in Gadgets : queries'[g] >= queries[g]
  BY <1>3
<1> QED BY <1>1, <1>2, <1>3, <1>4, SameListKeeps

LEMMA DeferOwnKeeps == ASSUME IInv, DeferOwn PROVE IInv'
<1>1. TypeOK /\ Live /\ Running
  BY DEF IInv, DeferOwn, Running
<1>2. deferred \in Seq(Names) /\ Deferreds = In(deferred) /\ InOrder(deferred)
  BY <1>1, Lists DEF Live
<1>3. deferred' = Append(deferred, "own") /\ UNCHANGED <<smallNative, pc, i, gadgets, proofs, author>>
  BY DEF DeferOwn
<1>4. "own" \in Names /\ "own" \notin Fields
  BY Strings
<1>5. /\ deferred' \in Seq(Names) /\ InOrder(deferred') /\ Extends(deferred, deferred')
      /\ Deferreds' = Deferreds \union {"own"} /\ Deferreds' = In(deferred')
  <2>1. Deferreds' = In(deferred')
    BY DEF Deferreds, In
  <2> QED BY <1>2, <1>3, <1>4, <2>1, AppendOne, AppendInOrder
<1>6. TypeOK'
  BY <1>1, <1>3, <1>5 DEF TypeOK, gadgets, proofs, Names, Extends
<1>7. ~ author' => OwnAfter(deferred')
  BY <1>1, <1>2, <1>3, <1>4, AppendOwnAfter DEF Live, GadgetsOnly
<1> QED BY <1>1, <1>3, <1>5, <1>6, <1>7, CodeKeeps DEF gadgets, TypeOK

-----------------------------------------------------------------------------
(* The multicommitter.                                                        *)

\* A callback is registered with an open multicommitter, which is in the list then.
LEMMA Registered ==
  ASSUME TypeOK, Live, NEW g \in Gadgets \union {"own"}, NEW wide \in BOOLEAN,
         WithCommitment(g, wide), pc' # "failed"
  PROVE  /\ ~ mc.closed /\ UNCHANGED pc
         /\ mc' = [mc EXCEPT !.cbs = Append(@, [of |-> g, wide |-> wide])]
         /\ Len(mc'.cbs) = Len(mc.cbs) + 1
         /\ mc'.cbs[Len(mc.cbs) + 1] = [of |-> g, wide |-> wide]
         /\ \A k \in 1 .. Len(mc.cbs) : mc'.cbs[k] = mc.cbs[k]
         /\ CbsOf' = CbsOf \union {g} /\ mc'.next = 1 /\ mc.next = 1 /\ ~ mc'.closed
         /\ mc' \in [closed : BOOLEAN, next : Nat \ {0},
                     cbs : Seq([of : Gadgets \union {"own"}, wide : BOOLEAN])]
<1>1. ~ mc.closed /\ mc' = [mc EXCEPT !.cbs = Append(@, [of |-> g, wide |-> wide])] /\ UNCHANGED pc
  BY DEF WithCommitment
<1>2. mc.cbs \in Seq([of : Gadgets \union {"own"}, wide : BOOLEAN]) /\ mc.next = 1
  BY <1>1 DEF TypeOK, Live, Callbacks
<1>3. mc \in [closed : BOOLEAN, next : Nat \ {0},
              cbs : Seq([of : Gadgets \union {"own"}, wide : BOOLEAN])]
  BY DEF TypeOK
<1>4. /\ mc'.cbs = Append(mc.cbs, [of |-> g, wide |-> wide])
      /\ mc'.next = mc.next /\ mc'.closed = mc.closed
  BY <1>1, <1>3
<1>5. /\ Len(mc'.cbs) = Len(mc.cbs) + 1
      /\ mc'.cbs[Len(mc.cbs) + 1] = [of |-> g, wide |-> wide]
      /\ \A k \in 1 .. Len(mc.cbs) : mc'.cbs[k] = mc.cbs[k]
      /\ mc'.cbs \in Seq([of : Gadgets \union {"own"}, wide : BOOLEAN])
  BY <1>2, <1>4
<1>6. CbsOf' = CbsOf \union {g}
  <2>1. 1 .. Len(mc.cbs) + 1 = (1 .. Len(mc.cbs)) \union {Len(mc.cbs) + 1}
    BY <1>2
  <2>2. CbsOf' = {mc'.cbs[k].of : k \in (1 .. Len(mc.cbs)) \union {Len(mc.cbs) + 1}}
    BY <1>5, <2>1 DEF CbsOf
  <2> QED BY <1>5, <2>2 DEF CbsOf
<1> QED BY <1>1, <1>2, <1>3, <1>4, <1>5, <1>6

\* It is the last of the list, or one already there.
LEMMA CommitterPut ==
  ASSUME TypeOK, Live, deferred' = PutNew(deferred, "multicommit")
  PROVE  /\ deferred' \in Seq(Names) /\ InOrder(deferred') /\ Extends(deferred, deferred')
         /\ Deferreds' = Deferreds \union {"multicommit"}
         /\ OwnAfter(deferred) => OwnAfter(deferred')
         /\ Len(deferred) <= Len(deferred')
         /\ \A k \in 1 .. Len(deferred) : deferred'[k] = deferred[k]
<1>1. deferred \in Seq(Names) /\ Deferreds = In(deferred) /\ InOrder(deferred)
  BY Lists DEF Live
<1>2. "multicommit" \in Names \ Fields /\ Deferreds' = In(deferred')
  BY Strings DEF Deferreds, In
<1> QED BY <1>1, <1>2, PutOne DEF Extends

LEMMA CommitOwnKeeps == ASSUME IInv, CommitOwn PROVE IInv'
<1>1. TypeOK /\ Live /\ Running /\ pc # "failed"
  BY DEF IInv, CommitOwn, Running
<1>2. PICK wide \in BOOLEAN : WithCommitment("own", wide)
  BY DEF CommitOwn
<1>3. /\ deferred' = PutNew(deferred, "multicommit") /\ author' = TRUE
      /\ UNCHANGED <<smallNative, i, gadgets, argued, committed, checked, zerosChecked>>
  BY <1>2 DEF CommitOwn, WithCommitment
<1>4. /\ deferred' \in Seq(Names) /\ InOrder(deferred') /\ Extends(deferred, deferred')
      /\ Deferreds' = Deferreds \union {"multicommit"} /\ Len(deferred) <= Len(deferred')
      /\ \A k \in 1 .. Len(deferred) : deferred'[k] = deferred[k]
  BY <1>1, <1>3, CommitterPut
<1>5. CASE pc' = "failed"
  <2>1. mc' = mc
    BY <1>1, <1>2, <1>5 DEF WithCommitment
  <2>2. TypeOK'
    BY <1>1, <1>3, <1>4, <1>5, <2>1 DEF TypeOK, gadgets, Names
  <2> QED BY <1>3, <1>5, <2>2, FailKeeps DEF DefineOnlyCompiles
<1>6. CASE pc' # "failed"
  <2>1. /\ ~ mc.closed /\ pc' = pc
        /\ Len(mc'.cbs) = Len(mc.cbs) + 1
        /\ \A k \in 1 .. Len(mc.cbs) : mc'.cbs[k] = mc.cbs[k]
        /\ CbsOf' = CbsOf \union {"own"} /\ mc'.next = 1 /\ mc.next = 1 /\ ~ mc'.closed
        /\ mc' \in [closed : BOOLEAN, next : Nat \ {0},
                    cbs : Seq([of : Gadgets \union {"own"}, wide : BOOLEAN])]
    BY <1>1, <1>2, <1>6, Registered
  <2>2. Called' = Called /\ CalledBack = {} /\ CalledBack' = {}
    <3>1. Called' = Called
      BY <1>1, <1>3, <1>4, CalledStays, Lists DEF Called
    <3> QED BY <2>1, <3>1 DEF CalledBack
  <2>3. TypeOK'
    BY <1>1, <1>3, <1>4, <2>1 DEF TypeOK, gadgets, Names
  <2>4. Position'
    <3>1. pc # "challenges" /\ pc # "callback" /\ pc # "compiled"
      BY <1>1, <2>1 DEF Running, Live, Callbacks
    <3>2. i \in 1 .. Len(deferred) + 1 /\ Len(deferred) \in Nat /\ Len(deferred') \in Nat
      BY <1>1, <1>4, Lists
    <3> QED BY <1>1, <1>3, <1>4, <2>1, <3>1, <3>2 DEF Live, Position
  <2>5. Arguments'
    BY <1>1, <1>3, <1>4, <2>2 DEF Live, Arguments, gadgets
  <2>6. Callbacks'
    BY <1>1, <1>3, <1>4, <2>1, <2>2, Strings DEF Live, Callbacks, TypeOK
  <2>7. Challenges'
    BY <1>1, <1>3, <2>1, <2>2 DEF Live, Challenges
  <2>8. Live'
    BY <1>3, <1>4, <2>4, <2>5, <2>6, <2>7 DEF Live, GadgetsOnly
  <2> QED BY <1>6, <2>3, <2>8, LiveKeeps
<1> QED BY <1>5, <1>6

LEMMA ReturnKeeps == ASSUME IInv, Return PROVE IInv'
<1>1. TypeOK /\ Live /\ Running
  BY DEF IInv, Return, Running
<1>2. UNCHANGED <<smallNative, deferred, queries, zeros, filled, closed, argued, committed,
                  checked, zerosChecked, author>>
  BY DEF Return, gadgets
<1>3. deferred \in Seq(Names) /\ i \in 1 .. Len(deferred) + 1 /\ Deferreds' = Deferreds
  BY <1>1, <1>2, Lists DEF Deferreds
<1>4. CASE pc = "define"
  <2>1. pc' = "loop" /\ UNCHANGED <<i, mc>>
    BY <1>4 DEF Return
  <2>2. Called' = Called /\ CbsOf' = CbsOf /\ CalledBack' = CalledBack
    BY <1>2, <2>1 DEF Called, CbsOf, CalledBack
  <2>3. TypeOK'
    BY <1>1, <1>2, <2>1 DEF TypeOK
  <2>4. Live'
    BY <1>1, <1>2, <1>3, <1>4, <2>1, <2>2
       DEF Live, Position, Arguments, Callbacks, Challenges, GadgetsOnly
  <2> QED BY <2>1, <2>3, <2>4, LiveKeeps
<1>5. CASE pc = "own"
  <2>1. pc' = "loop" /\ i' = i + 1 /\ UNCHANGED mc
    BY <1>5 DEF Return, Following
  <2>2. i \in 1 .. Len(deferred) /\ deferred[i] = "own"
    BY <1>1, <1>3, <1>5 DEF Live, Position
  <2>3. Called' = Called \union {"own"} /\ CbsOf' = CbsOf /\ CalledBack' = CalledBack
    <3>1. Called' = Called \union {"own"}
      BY <1>2, <1>3, <2>1, <2>2, CalledNext DEF Called
    <3> QED BY <2>1, <3>1 DEF CbsOf, CalledBack
  <2>4. TypeOK'
    BY <1>1, <1>2, <2>1, <2>2 DEF TypeOK
  <2>5. Position' /\ GadgetsOnly'
    BY <1>1, <1>2, <2>1 DEF Live, Position, GadgetsOnly
  <2>6. Arguments'
    BY <1>1, <1>2, <1>3, <2>3, Strings DEF Live, Arguments
  <2>7. Callbacks' /\ Challenges'
    BY <1>1, <1>2, <1>3, <1>5, <2>1, <2>3, Strings DEF Live, Callbacks, Challenges
  <2> QED BY <1>1, <1>2, <2>1, <2>4, <2>5, <2>6, <2>7, LiveKeeps DEF Live
<1>6. CASE pc = "callback"
  <2>1. pc' = "challenges" /\ mc' = [mc EXCEPT !.next = @ + 1] /\ UNCHANGED i
    BY <1>6 DEF Return
  <2>2. mc.next \in 1 .. Len(mc.cbs) /\ mc.cbs[mc.next].of = "own"
    BY <1>1, <1>6 DEF Live, Position, Callbacks
  <2>3. mc'.next = mc.next + 1 /\ mc'.cbs = mc.cbs /\ mc'.closed = mc.closed
    BY <1>1, <2>1 DEF TypeOK
  <2>4. Called' = Called /\ CbsOf' = CbsOf /\ CalledBack' = CalledBack \union {"own"}
    <3>1. 1 .. mc'.next - 1 = (1 .. mc.next - 1) \union {mc.next}
      BY <2>2, <2>3
    <3> QED BY <1>2, <2>1, <2>2, <2>3, <3>1 DEF Called, CbsOf, CalledBack
  <2>5. TypeOK'
    <3>1. mc' \in Committers
      BY <1>1, <2>1, CallbackFacts, NextCallback
    <3> QED BY <1>1, <1>2, <2>1, <3>1 DEF TypeOK, Committers
  <2>6. Position' /\ Arguments' /\ GadgetsOnly'
    BY <1>1, <1>2, <1>3, <1>6, <2>1, <2>3, <2>4 DEF Live, Position, Arguments, GadgetsOnly
  <2>7. Callbacks' /\ Challenges'
    BY <1>1, <1>2, <1>3, <1>6, <2>1, <2>2, <2>3, <2>4, Strings DEF Live, Callbacks, Challenges, TypeOK
  <2> QED BY <1>1, <1>2, <2>1, <2>5, <2>6, <2>7, LiveKeeps DEF Live
<1> QED BY <1>1, <1>4, <1>5, <1>6 DEF Running

LEMMA ReturnErrorKeeps == ASSUME IInv, ReturnError PROVE IInv'
<1>1. TypeOK'
  BY DEF IInv, TypeOK, ReturnError, gadgets, proofs
<1> QED BY <1>1, FailKeeps DEF ReturnError, DefineOnlyCompiles, proofs

-----------------------------------------------------------------------------
(* Steps of callDeferred.                                                     *)

\* The function that is called was not called before.
LEMMA CallFacts ==
  ASSUME IInv, NEW g \in Gadgets \union {"own", "multicommit"}, Calls(g)
  PROVE  /\ TypeOK /\ Live /\ pc = "loop"
         /\ deferred \in Seq(Names) /\ Deferreds = In(deferred)
         /\ i \in 1 .. Len(deferred) /\ deferred[i] = g /\ g \in Deferreds
         /\ g # "own" => g \notin Called
<1>1. TypeOK /\ Live /\ pc = "loop"
  BY DEF IInv, Calls
<1>2. /\ deferred \in Seq(Names) /\ Deferreds = In(deferred)
      /\ i \in 1 .. Len(deferred) /\ deferred[i] = g /\ g \in Deferreds
  BY <1>1, Lists DEF Calls, In
<1>3. g # "own" => g \notin Called
  BY <1>1, <1>2, CalledOnce DEF Live, Called
<1> QED BY <1>1, <1>2, <1>3

\* Building an argument, when it is registered if the gadget has queries.
LEMMA ArgueKeeps ==
  ASSUME IInv, NEW g \in Gadgets, NEW some \in BOOLEAN, NEW wide \in BOOLEAN,
         Calls(g), Argue(g, some, wide),
         queries[g] > 0 => some,
         some => wide = smallNative \/ (g = "sz" /\ ~ wide /\ queries["sz"] > 0),
         closed' \in BOOLEAN, closed' <=> closed \/ g = "rangecheck"
  PROVE  IInv'
<1>1. /\ TypeOK /\ Live /\ pc = "loop"
      /\ deferred \in Seq(Names) /\ Deferreds = In(deferred)
      /\ i \in 1 .. Len(deferred) /\ deferred[i] = g /\ g \in Deferreds /\ g \notin Called
      /\ g # "own" /\ g # "multicommit"
  BY CallFacts, Strings
<1>2. /\ argued' = [argued EXCEPT ![g] = queries[g]] /\ i' = i + 1
      /\ UNCHANGED <<smallNative, queries, zeros, filled, committed, checked, zerosChecked, author>>
  BY DEF Argue, Following
<1>3. queries[g] \in Nat /\ argued \in [Gadgets -> Nat \union {NotBuilt}]
        /\ argued' \in [Gadgets -> Nat \union {NotBuilt}]
        /\ queries \in [Gadgets -> Nat]
  BY <1>1, <1>2 DEF TypeOK
<1>4. some => WithCommitment(g, wide)
  BY DEF Argue
<1>5. ~ some => UNCHANGED <<pc, deferred, mc>>
  BY DEF Argue
<1>6. /\ deferred' \in Seq(Names) /\ InOrder(deferred') /\ Extends(deferred, deferred')
      /\ OwnAfter(deferred) => OwnAfter(deferred')
      /\ Len(deferred) <= Len(deferred')
      /\ \A k \in 1 .. Len(deferred) : deferred'[k] = deferred[k]
      /\ some => Deferreds' = Deferreds \union {"multicommit"}
      /\ ~ some => Deferreds' = Deferreds
  <2>1. CASE some
    BY <1>1, <1>4, <2>1, CommitterPut DEF WithCommitment
  <2>2. CASE ~ some
    BY <1>1, <1>5, <2>2 DEF Extends, Live, Deferreds
  <2> QED BY <2>1, <2>2
<1>7. Called' = Called \union {g} /\ i' \in 1 .. Len(deferred') + 1
  <2>1. Before(deferred', i + 1) = Before(deferred, i + 1)
    BY <1>1, <1>6, CalledStays
  <2> QED BY <1>1, <1>2, <1>6, <2>1, CalledNext DEF Called
<1>8. CASE pc' = "failed"
  <2>1. mc' = mc /\ mc.closed
    BY <1>1, <1>4, <1>5, <1>8 DEF WithCommitment
  <2>2. TypeOK'
    BY <1>1, <1>2, <1>3, <1>6, <1>7, <1>8, <2>1 DEF TypeOK, Names
  <2>3. author
    <3> SUFFICES ASSUME ~ author PROVE FALSE
      OBVIOUS
    <3>1. "multicommit" \in Called
      BY <1>1, <2>1 DEF Live, Callbacks
    <3>2. OwnAfter(deferred)
      BY <1>1 DEF Live, GadgetsOnly
    <3> QED BY <1>1, <3>1, <3>2 DEF Called, Before, OwnAfter
  <2> QED BY <1>2, <1>8, <2>2, <2>3, FailKeeps DEF DefineOnlyCompiles
<1>9. CASE pc' # "failed"
  <2>1. /\ mc' \in [closed : BOOLEAN, next : Nat \ {0},
                    cbs : Seq([of : Gadgets \union {"own"}, wide : BOOLEAN])]
        /\ pc' = pc /\ mc'.closed = mc.closed /\ mc'.next = mc.next
        /\ CbsOf' = IF some THEN CbsOf \union {g} ELSE CbsOf
        /\ some => ~ mc.closed /\ mc.next = 1
        /\ ~ some => mc' = mc
    <3>1. CASE some
      BY <1>1, <1>4, <1>9, <3>1, Registered
    <3>2. CASE ~ some
      BY <1>1, <1>5, <3>2 DEF TypeOK, CbsOf
    <3> QED BY <3>1, <3>2
  <2>2. CalledBack' = CalledBack /\ g \notin CalledBack /\ (some => CalledBack = {})
    <3>1. CASE some
      BY <2>1, <3>1 DEF CalledBack
    <3>2. CASE ~ some
      <4>1. g \notin CbsOf
        BY <1>1 DEF Live, Callbacks
      <4> QED BY <1>1, <2>1, <3>2, <4>1 DEF CalledBack, CbsOf, Live, Callbacks, TypeOK
    <3> QED BY <3>1, <3>2
  <2>3. TypeOK'
    BY <1>1, <1>2, <1>3, <1>6, <1>7, <2>1 DEF TypeOK, Names
  <2>4. Position'
    BY <1>1, <2>1 DEF Position
  <2>5. Arguments'
    <3>1. \A h \in Gadgets : argued'[h] = IF h = g THEN queries[g] ELSE argued[h]
      BY <1>2, <1>3
    <3>2. queries[g] # NotBuilt /\ argued'[g] # NotBuilt
      BY <1>3, <3>1 DEF NotBuilt
    <3>3. \A h \in Gadgets : argued'[h] # NotBuilt <=> h \in Called'
      BY <1>1, <1>7, <3>1, <3>2 DEF Live, Arguments
    <3>4. closed' <=> "rangecheck" \in Called'
      BY <1>1, <1>7 DEF Live, Arguments
    <3>5. \A h \in Gadgets : argued'[h] <= queries[h]
      BY <1>1, <1>3, <3>1 DEF Live, Arguments
    <3>6. \A h \in Fields \union {"rangecheck"} :
            /\ h \in Called' => argued'[h] = queries[h]
            /\ queries[h] > 0 => h \in Deferreds'
      BY <1>1, <1>6, <1>7, <3>1, Strings DEF Live, Arguments
    <3> QED BY <1>2, <3>3, <3>4, <3>5, <3>6 DEF Arguments
  <2>6. Callbacks'
    <3>1. \A h \in Gadgets : h \in CbsOf' => h \in Called'
      BY <1>1, <1>7, <2>1 DEF Live, Callbacks
    <3>2. \A h \in Gadgets : argued'[h] > 0 => h \in CbsOf'
      BY <1>1, <1>2, <1>3, <2>1 DEF Live, Callbacks
    <3>3. CbsOf' # {} <=> "multicommit" \in Deferreds'
      BY <1>1, <1>6, <2>1 DEF Live, Callbacks
    <3>4. mc'.closed <=> "multicommit" \in Called' \/ pc' \in {"challenges", "callback"}
      BY <1>1, <1>7, <2>1 DEF Live, Callbacks
    <3>5. /\ mc'.next \in 1 .. Len(mc'.cbs) + 1
          /\ ~ mc'.closed => mc'.next = 1
          /\ mc'.closed /\ pc' \notin {"challenges", "callback"} => mc'.next = Len(mc'.cbs) + 1
      <4>1. Len(mc'.cbs) \in Nat
        BY <2>1
      <4> QED BY <1>1, <2>1, <4>1 DEF Live, Callbacks
    <3> QED BY <3>1, <3>2, <3>3, <3>4, <3>5 DEF Callbacks
  <2>7. Challenges'
    <3>1. g \notin CbsOf
      BY <1>1 DEF Live, Callbacks
    <3>2. ~ some => queries[g] = 0
      BY <1>3
    <3>3. \A h \in Gadgets : argued'[h] = IF h = g THEN queries[g] ELSE argued[h]
      BY <1>2, <1>3
    <3> QED BY <1>1, <1>2, <2>1, <2>2, <3>1, <3>2, <3>3 DEF Live, Challenges
  <2>8. GadgetsOnly'
    <3> SUFFICES ASSUME ~ author'
                 PROVE  /\ OwnAfter(deferred')
                        /\ \A k \in 1 .. Len(mc'.cbs) :
                             /\ mc'.cbs[k].of # "own"
                             /\ \/ mc'.cbs[k].wide = smallNative
                                \/ mc'.cbs[k].of = "sz" /\ ~ mc'.cbs[k].wide /\ queries["sz"] > 0
      BY <1>1, <1>2, <2>1 DEF GadgetsOnly
    <3>1. /\ OwnAfter(deferred)
          /\ \A k \in 1 .. Len(mc.cbs) :
               /\ mc.cbs[k].of # "own"
               /\ \/ mc.cbs[k].wide = smallNative
                  \/ mc.cbs[k].of = "sz" /\ ~ mc.cbs[k].wide /\ queries["sz"] > 0
      BY <1>1, <1>2 DEF Live, GadgetsOnly
    <3>2. CASE some
      <4>1. /\ Len(mc'.cbs) = Len(mc.cbs) + 1
            /\ mc'.cbs[Len(mc.cbs) + 1] = [of |-> g, wide |-> wide]
            /\ \A k \in 1 .. Len(mc.cbs) : mc'.cbs[k] = mc.cbs[k]
        BY <1>1, <1>4, <1>9, <3>2, Registered
      <4>2. Len(mc.cbs) \in Nat
        BY <1>1 DEF TypeOK
      <4>3. ASSUME NEW k \in 1 .. Len(mc'.cbs)
            PROVE  /\ mc'.cbs[k].of # "own"
                   /\ \/ mc'.cbs[k].wide = smallNative
                      \/ mc'.cbs[k].of = "sz" /\ ~ mc'.cbs[k].wide /\ queries["sz"] > 0
        <5>1. CASE k \in 1 .. Len(mc.cbs)
          BY <3>1, <4>1, <5>1
        <5>2. CASE k = Len(mc.cbs) + 1
          BY <1>1, <3>2, <4>1, <5>2
        <5> QED BY <4>1, <4>2, <5>1, <5>2
      <4> QED BY <1>6, <3>1, <4>3
    <3>3. CASE ~ some
      BY <1>6, <2>1, <3>1, <3>3
    <3> QED BY <3>2, <3>3
  <2>9. Live'
    BY <1>6, <2>4, <2>5, <2>6, <2>7, <2>8 DEF Live
  <2> QED BY <1>9, <2>3, <2>9, LiveKeeps
<1> QED BY <1>8, <1>9

LEMMA CommitCheckerKeeps == ASSUME IInv, CommitChecker PROVE IInv'
<1> DEFINE some == queries["rangecheck"] > 0
<1>1. Calls("rangecheck") /\ Argue("rangecheck", some, smallNative) /\ closed' = TRUE
  BY DEF CommitChecker
<1>2. smallNative \in BOOLEAN /\ some \in BOOLEAN /\ (queries["rangecheck"] > 0 => some)
  BY DEF IInv, TypeOK
<1> HIDE DEF some
<1> QED BY <1>1, <1>2, Strings, ArgueKeeps

LEMMA CommitTableKeeps == ASSUME IInv, NEW t \in Tables, CommitTable(t) PROVE IInv'
<1>1. Calls(t) /\ t \in Gadgets /\ t # "rangecheck"
  BY Strings DEF CommitTable
<1>2. CASE t \in filled
  <2>1. Argue(t, TRUE, smallNative) /\ closed' = closed /\ smallNative \in BOOLEAN /\ closed \in BOOLEAN
    BY <1>2 DEF CommitTable, IInv, TypeOK
  <2> QED BY <1>1, <2>1, ArgueKeeps
<1>3. CASE t \notin filled
  <2>1. Fail /\ t \in Deferreds
    BY <1>1, <1>3, CallFacts DEF CommitTable
  <2>2. TypeOK' /\ t \in Tables \intersect Deferreds' /\ t \notin filled'
    BY <1>3, <2>1 DEF Fail, IInv, TypeOK, gadgets, proofs, Deferreds
  <2> QED BY <2>1, <2>2, FailKeeps DEF Fail, DefineOnlyCompiles, proofs
<1> QED BY <1>2, <1>3

LEMMA ResolveKeeps == ASSUME IInv, Resolve PROVE IInv'
<1> DEFINE some == queries["sz"] > 0
<1>1. Calls("sz") /\ Argue("sz", some, FALSE) /\ closed' = closed
  BY DEF Resolve
<1>2. closed \in BOOLEAN /\ some \in BOOLEAN /\ (queries["sz"] > 0 <=> some)
  BY DEF IInv, TypeOK
<1> HIDE DEF some
<1> QED BY <1>1, <1>2, Strings, ArgueKeeps

LEMMA PerformKeeps == ASSUME IInv, NEW f \in Fields, PerformDeferredChecks(f) PROVE IInv'
<1> DEFINE some == queries[f] > 0 \/ (f \in SmallFields /\ zeros[f] > 0)
<1>1. Calls(f) /\ Argue(f, some, smallNative) /\ closed' = closed
  BY DEF PerformDeferredChecks
<1>2. closed \in BOOLEAN /\ smallNative \in BOOLEAN /\ f \in Gadgets /\ f # "rangecheck"
  BY Strings DEF IInv, TypeOK
<1>3. some \in BOOLEAN /\ (queries[f] > 0 => some)
  OBVIOUS
<1> HIDE DEF some
<1> QED BY <1>1, <1>2, <1>3, ArgueKeeps

LEMMA CallOwnKeeps == ASSUME IInv, CallOwn PROVE IInv'
<1>1. /\ TypeOK /\ Live /\ pc = "loop" /\ i \in 1 .. Len(deferred) /\ deferred[i] = "own"
      /\ pc' = "own" /\ UNCHANGED <<smallNative, deferred, i, gadgets, proofs, author>>
  BY CallFacts DEF CallOwn
<1>2. TypeOK'
  BY <1>1 DEF TypeOK, gadgets, proofs
<1>3. /\ Called' = Called /\ CbsOf' = CbsOf /\ CalledBack' = CalledBack /\ Deferreds' = Deferreds
      /\ UNCHANGED <<queries, closed, argued, mc, committed, checked>>
  BY <1>1 DEF Called, CbsOf, CalledBack, Deferreds, gadgets, proofs
<1>4. Live'
  BY <1>1, <1>3 DEF Live, Position, Arguments, Callbacks, Challenges, GadgetsOnly
<1> QED BY <1>1, <1>2, <1>4, LiveKeeps

LEMMA CommitAndCallKeeps == ASSUME IInv, CommitAndCall PROVE IInv'
<1>1. /\ TypeOK /\ Live /\ pc = "loop" /\ deferred \in Seq(Names)
      /\ i \in 1 .. Len(deferred) /\ deferred[i] = "multicommit"
      /\ "multicommit" \in Deferreds /\ "multicommit" \notin Called
  BY CallFacts DEF CommitAndCall
<1>2. ~ mc.closed /\ mc.next = 1 /\ CbsOf # {}
  BY <1>1 DEF Live, Callbacks
<1>3. CASE \E k \in 1 .. Len(mc.cbs) : mc.cbs[k].wide # smallNative
  <2>1. Fail
    BY <1>3 DEF CommitAndCall
  <2>2. TypeOK'
    BY <1>1, <2>1 DEF Fail, TypeOK, gadgets, proofs
  <2>3. author \/ (smallNative /\ queries["sz"] > 0)
    <3>1. PICK k \in 1 .. Len(mc.cbs) : mc.cbs[k].wide # smallNative
      BY <1>3
    <3>2. mc.cbs[k].wide \in BOOLEAN /\ smallNative \in BOOLEAN
      BY <1>1, CallbackFacts DEF TypeOK
    <3>3. ~ author => ~ mc.cbs[k].wide /\ queries["sz"] > 0
      BY <1>1, <3>1 DEF Live, GadgetsOnly
    <3>4. ~ mc.cbs[k].wide => smallNative
      BY <3>1, <3>2, Zenon
    <3> QED BY <3>3, <3>4
  <2> QED BY <2>1, <2>2, <2>3, FailKeeps DEF Fail, DefineOnlyCompiles, gadgets, proofs
<1>4. CASE ~ \E k \in 1 .. Len(mc.cbs) : mc.cbs[k].wide # smallNative
  <2>1. mc.cbs # <<>>
    BY <1>2 DEF CbsOf
  <2>2. /\ mc' = [mc EXCEPT !.closed = TRUE]
        /\ committed' = [g \in Gadgets |->
             IF \E k \in 1 .. Len(mc.cbs) : mc.cbs[k].of = g THEN argued[g] ELSE 0]
        /\ pc' = "challenges"
        /\ UNCHANGED <<smallNative, deferred, i, queries, zeros, filled, closed, argued, checked,
                       zerosChecked, author>>
    BY <1>4, <2>1 DEF CommitAndCall, gadgets
  <2>3. mc'.closed /\ mc'.next = 1 /\ mc'.cbs = mc.cbs
    BY <1>1, <1>2, <2>2 DEF TypeOK
  <2>4. /\ Called' = Called /\ CbsOf' = CbsOf /\ CalledBack' = {} /\ CalledBack = {}
        /\ Deferreds' = Deferreds
    BY <1>2, <2>2, <2>3 DEF Called, CbsOf, CalledBack, Deferreds
  <2>5. \A g \in Gadgets : committed'[g] = IF g \in CbsOf THEN argued[g] ELSE 0
    BY <2>2 DEF CbsOf
  <2>6. TypeOK'
    <3>1. committed' \in [Gadgets -> Nat \union {NotBuilt}]
      BY <1>1, <2>2 DEF TypeOK
    <3>2. mc' \in [closed : BOOLEAN, next : Nat \ {0},
                   cbs : Seq([of : Gadgets \union {"own"}, wide : BOOLEAN])]
      BY <1>1, <2>2 DEF TypeOK
    <3> QED BY <1>1, <2>2, <3>1, <3>2 DEF TypeOK
  <2>7. Position' /\ Arguments' /\ GadgetsOnly'
    BY <1>1, <2>2, <2>3, <2>4 DEF Live, Position, Arguments, GadgetsOnly
  <2>8. Callbacks'
    BY <1>1, <1>2, <2>2, <2>3, <2>4 DEF Live, Callbacks, TypeOK
  <2>9. Challenges'
    BY <1>1, <2>2, <2>3, <2>4, <2>5 DEF Live, Challenges
  <2> QED BY <1>1, <2>2, <2>6, <2>7, <2>8, <2>9, LiveKeeps DEF Live
<1> QED BY <1>3, <1>4

LEMMA CallBackKeeps == ASSUME IInv, CallBack PROVE IInv'
<1> DEFINE g == mc.cbs[mc.next].of
<1>1. /\ TypeOK /\ Live /\ pc = "challenges" /\ mc.next <= Len(mc.cbs) /\ mc.next \in 1 .. Len(mc.cbs)
      /\ UNCHANGED <<smallNative, deferred, i, queries, zeros, filled, closed, argued, committed, author>>
  BY DEF IInv, CallBack, gadgets, Live, Callbacks
<1>2. Called' = Called /\ Deferreds' = Deferreds
  BY <1>1 DEF Called, Deferreds
<1>3. CASE g = "own"
  <2>1. pc' = "callback" /\ UNCHANGED <<mc, checked, zerosChecked>>
    BY <1>3 DEF CallBack
  <2>2. CbsOf' = CbsOf /\ CalledBack' = CalledBack
    BY <2>1 DEF CbsOf, CalledBack
  <2>3. TypeOK'
    BY <1>1, <2>1 DEF TypeOK
  <2>4. Live'
    BY <1>1, <1>2, <1>3, <2>1, <2>2
       DEF Live, Position, Arguments, Callbacks, Challenges, GadgetsOnly
  <2> QED BY <2>1, <2>3, <2>4, LiveKeeps
<1>4. CASE g # "own"
  <2>1. /\ checked' = [checked EXCEPT ![g] = IF WalksList(g) THEN queries[g] ELSE argued[g]]
        /\ zerosChecked' = [f \in SmallFields |-> IF f = g THEN zeros[f] ELSE zerosChecked[f]]
        /\ mc' = [mc EXCEPT !.next = @ + 1] /\ pc' = pc
    BY <1>4 DEF CallBack
  <2>2. g \in Gadgets /\ g \in CbsOf /\ mc.closed
    <3>1. g \in Gadgets /\ g \in CbsOf
      BY <1>1, <1>4, CallbackFacts DEF CbsOf
    <3> QED BY <1>1, <3>1 DEF Live, Callbacks
  <2>3. mc'.next = mc.next + 1 /\ mc'.cbs = mc.cbs /\ mc'.closed = mc.closed
    BY <1>1, <2>1 DEF TypeOK
  <2>4. CbsOf' = CbsOf /\ CalledBack' = CalledBack \union {g}
    <3>1. 1 .. mc'.next - 1 = (1 .. mc.next - 1) \union {mc.next}
      BY <1>1, <2>3
    <3> QED BY <2>3, <3>1 DEF CbsOf, CalledBack
  <2>5. g \in Called /\ argued[g] # NotBuilt /\ argued[g] <= queries[g]
    BY <1>1, <2>2 DEF Live, Callbacks, Arguments
  <2>6. checked'[g] >= argued[g] /\ (g # "sz" => checked'[g] = argued[g])
    <3>1. checked'[g] = IF WalksList(g) THEN queries[g] ELSE argued[g]
      BY <1>1, <2>1, <2>2 DEF TypeOK
    <3>2. g \in Fields => argued[g] = queries[g]
      BY <1>1, <2>5 DEF Live, Arguments
    <3>3. argued[g] \in Int
      BY <1>1, <2>2 DEF TypeOK, NotBuilt
    <3> QED BY <2>5, <3>1, <3>2, <3>3 DEF WalksList
  <2>7. \A h \in Gadgets : h # g => checked'[h] = checked[h]
    BY <1>1, <2>1 DEF TypeOK
  <2>8. TypeOK'
    <3>1. checked' \in [Gadgets -> Nat \union {NotBuilt}]
      BY <1>1, <2>1, <2>2 DEF TypeOK
    <3>2. zerosChecked' \in [SmallFields -> Nat]
      BY <1>1, <2>1 DEF TypeOK
    <3>3. mc' \in Committers
      BY <1>1, <2>1, CallbackFacts, NextCallback
    <3> QED BY <1>1, <2>1, <3>1, <3>2, <3>3 DEF TypeOK, Committers
  <2> HIDE DEF g
  <2>9. Position' /\ Arguments' /\ GadgetsOnly'
    BY <1>1, <1>2, <2>1, <2>3, <2>4 DEF Live, Position, Arguments, GadgetsOnly
  <2>10. Callbacks'
    BY <1>1, <1>2, <2>1, <2>2, <2>3, <2>4 DEF Live, Callbacks, TypeOK
  <2>11. Challenges'
    BY <1>1, <2>3, <2>4, <2>6, <2>7 DEF Live, Challenges
  <2> QED BY <1>1, <2>1, <2>8, <2>9, <2>10, <2>11, LiveKeeps DEF Live
<1> QED BY <1>3, <1>4

LEMMA CommitterReturnsKeeps == ASSUME IInv, CommitterReturns PROVE IInv'
<1>1. /\ TypeOK /\ Live /\ pc = "challenges" /\ mc.next > Len(mc.cbs) /\ mc.next = Len(mc.cbs) + 1
      /\ pc' = "loop" /\ i' = i + 1
      /\ UNCHANGED <<smallNative, deferred, queries, zeros, filled, closed, proofs, author>>
  BY DEF IInv, CommitterReturns, gadgets, Following, Live, Callbacks, TypeOK
<1>2. /\ deferred \in Seq(Names) /\ i \in 1 .. Len(deferred) /\ deferred[i] = "multicommit"
      /\ mc.closed
  BY <1>1, Lists DEF Live, Position, Callbacks
<1>3. Called' = Called \union {"multicommit"}
  BY <1>1, <1>2, CalledNext DEF Called
<1>4. CbsOf' = CbsOf /\ CalledBack' = CalledBack /\ Deferreds' = Deferreds
        /\ UNCHANGED <<argued, mc, committed, checked, zerosChecked>>
  BY <1>1 DEF CbsOf, CalledBack, Deferreds, proofs
<1>5. TypeOK'
  BY <1>1, <1>2, <1>4 DEF TypeOK
<1>6. Position' /\ GadgetsOnly'
  BY <1>1, <1>4 DEF Live, Position, GadgetsOnly
<1>7. Arguments'
  BY <1>1, <1>3, <1>4, Strings DEF Live, Arguments
<1>8. Callbacks' /\ Challenges'
  BY <1>1, <1>2, <1>3, <1>4, Strings DEF Live, Callbacks, Challenges
<1> QED BY <1>1, <1>5, <1>6, <1>7, <1>8, LiveKeeps DEF Live

LEMMA EndLoopKeeps == ASSUME IInv, EndLoop PROVE IInv'
<1>1. /\ TypeOK /\ Live /\ pc = "loop" /\ i > Len(deferred) /\ pc' = "compiled"
      /\ UNCHANGED <<smallNative, deferred, i, gadgets, proofs, author>>
  BY DEF IInv, EndLoop, AllCalled
<1>2. i = Len(deferred) + 1
  BY <1>1, Lists
<1>3. TypeOK'
  BY <1>1 DEF TypeOK, gadgets, proofs
<1>4. /\ Called' = Called /\ CbsOf' = CbsOf /\ CalledBack' = CalledBack /\ Deferreds' = Deferreds
      /\ UNCHANGED <<queries, closed, argued, mc, committed, checked>>
  BY <1>1 DEF Called, CbsOf, CalledBack, Deferreds, gadgets, proofs
<1>5. Live'
  BY <1>1, <1>2, <1>4 DEF Live, Position, Arguments, Callbacks, Challenges, GadgetsOnly
<1> QED BY <1>1, <1>3, <1>5, LiveKeeps

-----------------------------------------------------------------------------
\* Every step keeps the invariant.
LEMMA NextIInv == IInv /\ [Next]_vars => IInv'
<1> SUFFICES ASSUME IInv, [Next]_vars PROVE IInv'
  OBVIOUS
<1>1. CASE UNCHANGED vars
  <2>1. UNCHANGED <<smallNative, pc, deferred, i, queries, zeros, filled, closed, argued, mc,
                    committed, checked, zerosChecked, author>>
    BY <1>1 DEF vars, gadgets, proofs
  <2>2. Called' = Called /\ CbsOf' = CbsOf /\ CalledBack' = CalledBack /\ Deferreds' = Deferreds
    BY <2>1 DEF Called, CbsOf, CalledBack, Deferreds
  <2>3. TypeOK' /\ ChallengeComesLast' /\ DefineOnlyCompiles'
    BY <2>1, <2>2 DEF IInv, TypeOK, ChallengeComesLast, DefineOnlyCompiles
  <2>4. ASSUME pc # "failed" PROVE Live'
    <3>1. Live
      BY <2>4 DEF IInv
    <3>2. Position' /\ Arguments' /\ GadgetsOnly'
      BY <2>1, <2>2, <3>1 DEF Live, Position, Arguments, GadgetsOnly
    <3>3. Callbacks' /\ Challenges'
      BY <2>1, <2>2, <3>1 DEF Live, Callbacks, Challenges
    <3> QED BY <2>1, <3>1, <3>2, <3>3 DEF Live
  <2> QED BY <2>1, <2>3, <2>4 DEF IInv
<1>2. CASE Circuit
  BY <1>2, CheckKeeps, NewTableKeeps, InsertKeeps, LookupKeeps, AddCheckKeeps, NewFieldKeeps,
     MultiplyKeeps, AssertZeroKeeps, DeferOwnKeeps, CommitOwnKeeps, ReturnKeeps, ReturnErrorKeeps
     DEF Circuit
<1>3. CASE CallDeferred
  BY <1>3, CommitCheckerKeeps, ResolveKeeps, CommitTableKeeps, PerformKeeps, CallOwnKeeps,
     CommitAndCallKeeps, CallBackKeeps, CommitterReturnsKeeps, EndLoopKeeps
     DEF CallDeferred
<1> QED BY <1>1, <1>2, <1>3 DEF Next

-----------------------------------------------------------------------------
(* Zero checks of small fields, while gadgets are used in Define alone.        *)

\* A field with zero checks is in the list, registers its argument when it is called,
\* and its callback finds them all.
ZeroChecks ==
  ~ author /\ pc # "failed" =>
    \A f \in SmallFields :
      /\ zeros[f] > 0 => f \in Deferreds
      /\ zeros[f] > 0 /\ argued[f] # NotBuilt => f \in CbsOf
      /\ zerosChecked[f] = IF f \in CalledBack THEN zeros[f] ELSE 0

LEMMA InitZeros == Init => ZeroChecks
  BY DEF Init, ZeroChecks, CalledBack

\* When a circuit has compiled every callback was called.
LEMMA ZerosProved ==
  ASSUME IInv, ZeroChecks, pc = "compiled", ~ author, NEW f \in SmallFields
  PROVE  zerosChecked[f] = zeros[f]
<1>1. TypeOK /\ Live /\ f \in Gadgets /\ zeros[f] \in Nat
  BY Strings DEF IInv, TypeOK
<1>2. Called = Deferreds
  BY <1>1, Lists, CalledAll DEF Live, Position, Called
<1>3. /\ zeros[f] > 0 => f \in Deferreds
      /\ zeros[f] > 0 /\ argued[f] # NotBuilt => f \in CbsOf
      /\ zerosChecked[f] = IF f \in CalledBack THEN zeros[f] ELSE 0
  BY DEF ZeroChecks
<1>4. CASE zeros[f] = 0
  BY <1>3, <1>4
<1>5. CASE zeros[f] > 0
  <2>1. f \in CbsOf
    BY <1>1, <1>2, <1>3, <1>5 DEF Live, Arguments
  <2>2. mc.closed /\ mc.next = Len(mc.cbs) + 1
    BY <1>1, <1>2, <2>1 DEF Live, Callbacks
  <2>3. f \in CalledBack
    BY <1>1, <2>1, <2>2 DEF CalledBack, CbsOf, TypeOK
  <2> QED BY <1>3, <2>3
<1> QED BY <1>1, <1>4, <1>5

\* The list of deferred functions only grows.
LEMMA Grows ==
  ASSUME IInv, pc # "failed", Next
  PROVE  Deferreds \subseteq Deferreds'
<1>1. TypeOK /\ Live /\ deferred \in Seq(Names) /\ Deferreds = In(deferred) /\ InOrder(deferred)
        /\ Deferreds' = In(deferred')
  BY Lists DEF IInv, Live, Deferreds, In
<1>2. \A g \in Names \ Fields : LET list == PutNew(deferred, g) IN
        list \in Seq(Names) /\ In(deferred) \subseteq In(list)
  BY <1>1, PutOne
<1>3. \A list \in Seq(Names) : \A g \in Names : In(list) \subseteq In(Append(list, g))
  BY AppendOne
<1>4. CASE deferred' = deferred
  BY <1>4 DEF Deferreds
<1>5. CASE \E g \in {"rangecheck", "sz", "multicommit"} : deferred' = PutNew(deferred, g)
  BY <1>1, <1>2, <1>5, Strings
<1>6. CASE \E g \in Tables \union {"own"} : deferred' = Append(deferred, g)
  BY <1>1, <1>3, <1>6, Strings
<1>7. CASE \E f \in Fields : deferred' = Append(PutNew(deferred, "rangecheck"), f)
  <2>1. "rangecheck" \in Names \ Fields /\ Fields \subseteq Names
    BY Strings
  <2> QED BY <1>1, <1>2, <1>3, <1>7, <2>1
<1>8. CASE Circuit
  <2>1. CASE \E collect \in {0, 1} : Check(collect)
    BY <1>4, <1>5, <2>1 DEF Check
  <2>2. CASE \E t \in Tables : NewTable(t) \/ Insert(t) \/ Lookup(t)
    BY <1>4, <1>6, <2>2 DEF NewTable, Insert, Lookup
  <2>3. CASE AddCheck
    BY <1>5, <2>3 DEF AddCheck
  <2>4. CASE \E f \in Fields : NewField(f) \/ Multiply(f)
    BY <1>4, <1>5, <1>7, <2>4 DEF NewField, CheckerFirst, Multiply
  <2>5. CASE \E f \in SmallFields : AssertZero(f)
    BY <1>4, <2>5 DEF AssertZero
  <2>6. CASE DeferOwn \/ CommitOwn \/ Return \/ ReturnError
    BY <1>4, <1>5, <1>6, <2>6 DEF DeferOwn, CommitOwn, WithCommitment, Return, ReturnError
  <2> QED BY <1>8, <2>1, <2>2, <2>3, <2>4, <2>5, <2>6 DEF Circuit
<1>9. CASE CallDeferred
  <2>1. ASSUME NEW g, NEW some, NEW wide, Argue(g, some, wide) PROVE Deferreds \subseteq Deferreds'
    BY <1>4, <1>5, <2>1 DEF Argue, WithCommitment
  <2>2. ASSUME Fail PROVE Deferreds \subseteq Deferreds'
    BY <1>4, <2>2 DEF Fail
  <2>3. CASE CommitChecker \/ Resolve \/ (\E t \in Tables : CommitTable(t))
               \/ (\E f \in Fields : PerformDeferredChecks(f))
    BY <2>1, <2>2, <2>3 DEF CommitChecker, Resolve, CommitTable, PerformDeferredChecks
  <2>4. CASE CallOwn \/ CommitAndCall \/ CallBack \/ CommitterReturns \/ EndLoop
    BY <1>4, <2>2, <2>4 DEF CallOwn, CommitAndCall, CallBack, CommitterReturns, EndLoop
  <2> QED BY <1>9, <2>3, <2>4 DEF CallDeferred
<1> QED BY <1>8, <1>9 DEF Next

\* A zero check in Define comes before every argument and every callback.
LEMMA AssertZeroZeros ==
  ASSUME IInv, ZeroChecks, NEW g \in SmallFields, AssertZero(g), ~ author', pc' # "failed"
  PROVE  ZeroChecks'
<1>1. TypeOK /\ Live /\ ~ author /\ pc = "define"
  BY DEF IInv, AssertZero, Running, Use
<1>2. /\ g \in Deferreds /\ zeros' = [zeros EXCEPT ![g] = @ + 1]
      /\ UNCHANGED <<deferred, proofs>>
  BY DEF AssertZero
<1>3. Called = {}
  BY <1>1 DEF Live, Position, Called, Before
<1>4. mc.next = 1 /\ \A f \in Gadgets : argued[f] = NotBuilt
  BY <1>1, <1>3 DEF Live, Callbacks, Arguments
<1>5. /\ Deferreds' = Deferreds /\ CalledBack = {} /\ CalledBack' = {} /\ argued' = argued
      /\ zerosChecked' = zerosChecked
  BY <1>2, <1>4 DEF Deferreds, CalledBack, proofs
<1>6. \A f \in SmallFields : f # g => zeros'[f] = zeros[f]
  BY <1>1, <1>2 DEF TypeOK
<1>7. SmallFields \subseteq Gadgets
  BY Strings
<1> QED BY <1>1, <1>2, <1>4, <1>5, <1>6, <1>7 DEF ZeroChecks

\* A field registers its argument if it has zero checks, and none is called back yet.
LEMMA ArgueZeros ==
  ASSUME IInv, ZeroChecks, NEW g \in Gadgets, NEW some \in BOOLEAN, NEW wide \in BOOLEAN,
         Calls(g), Argue(g, some, wide), ~ author', pc' # "failed",
         g \in SmallFields /\ zeros[g] > 0 => some,
         Deferreds \subseteq Deferreds'
  PROVE  ZeroChecks'
<1>1. TypeOK /\ Live /\ pc # "failed" /\ ~ author
  BY DEF IInv, Calls, Argue
<1>2. argued' = [argued EXCEPT ![g] = queries[g]] /\ UNCHANGED <<zeros, zerosChecked>>
  BY DEF Argue
<1>3. CbsOf \subseteq CbsOf' /\ (some => g \in CbsOf') /\ CalledBack' = CalledBack
  <2>1. CASE some
    <3>1. WithCommitment(g, wide)
      BY <2>1 DEF Argue
    <3>2. CbsOf' = CbsOf \union {g} /\ mc'.next = 1 /\ mc.next = 1
      BY <1>1, <3>1, Registered
    <3> QED BY <3>2 DEF CalledBack
  <2>2. CASE ~ some
    BY <2>2 DEF Argue, CbsOf, CalledBack
  <2> QED BY <2>1, <2>2
<1>4. \A f \in SmallFields : f # g => argued'[f] = argued[f]
  BY <1>1, <1>2, Strings DEF TypeOK
<1> QED BY <1>1, <1>2, <1>3, <1>4 DEF ZeroChecks

\* A callback finds the zero checks the field has.
LEMMA CallBackZeros ==
  ASSUME IInv, ZeroChecks, CallBack, ~ author', pc' # "failed"
  PROVE  ZeroChecks'
<1> DEFINE g == mc.cbs[mc.next].of
<1>1. /\ TypeOK /\ Live /\ pc # "failed" /\ ~ author /\ mc.next \in 1 .. Len(mc.cbs)
      /\ UNCHANGED <<deferred, zeros, argued>>
  BY DEF IInv, CallBack, gadgets, Live, Callbacks
<1>2. g # "own"
  BY <1>1 DEF Live, GadgetsOnly
<1>3. /\ zerosChecked' = [f \in SmallFields |-> IF f = g THEN zeros[f] ELSE zerosChecked[f]]
      /\ mc' = [mc EXCEPT !.next = @ + 1]
  BY <1>2 DEF CallBack
<1>4. mc'.next = mc.next + 1 /\ mc'.cbs = mc.cbs
  BY <1>1, <1>3 DEF TypeOK
<1>5. CbsOf' = CbsOf /\ CalledBack' = CalledBack \union {g} /\ Deferreds' = Deferreds
  <2>1. 1 .. mc'.next - 1 = (1 .. mc.next - 1) \union {mc.next}
    BY <1>1, <1>4
  <2> QED BY <1>1, <1>4, <2>1 DEF CbsOf, CalledBack, Deferreds
<1> HIDE DEF g
<1> QED BY <1>1, <1>3, <1>5 DEF ZeroChecks

LEMMA NextZeros == IInv /\ ZeroChecks /\ [Next]_vars => ZeroChecks'
<1> SUFFICES ASSUME IInv, ZeroChecks, [Next]_vars, ~ author', pc' # "failed" PROVE ZeroChecks'
  BY DEF ZeroChecks
\* Most steps touch neither zero checks nor arguments nor callbacks.
<1>1. ASSUME pc # "failed", ~ author, Deferreds \subseteq Deferreds',
             UNCHANGED <<zeros, argued, zerosChecked>>, mc'.cbs = mc.cbs, mc'.next = mc.next
      PROVE  ZeroChecks'
  BY <1>1 DEF ZeroChecks, CbsOf, CalledBack
<1>2. CASE UNCHANGED vars
  BY <1>1, <1>2 DEF vars, gadgets, proofs, Deferreds
<1>3. CASE Circuit
  <2>1. pc # "failed" /\ Deferreds \subseteq Deferreds'
    <3>1. pc # "failed"
      BY <1>3 DEF Circuit, Running, Check, NewTable, Insert, Lookup, AddCheck, NewField, Multiply,
                  AssertZero, DeferOwn, CommitOwn, Return, ReturnError
    <3> QED BY <1>3, <3>1, Grows DEF Next
  <2>2. CASE \E f \in SmallFields : AssertZero(f)
    BY <2>2, AssertZeroZeros
  <2>3. CASE Return
    <3>1. pc # "callback"
      BY <2>1, <2>3 DEF IInv, Return, Live, Position, GadgetsOnly, Callbacks
    <3> QED BY <1>1, <2>1, <2>3, <3>1 DEF Return, gadgets
  <2>4. CASE CommitOwn \/ ReturnError
    BY <2>4 DEF CommitOwn, ReturnError
  <2>5. CASE (\E collect \in {0, 1} : Check(collect)) \/ AddCheck \/ DeferOwn
    BY <1>1, <2>1, <2>5 DEF Check, AddCheck, DeferOwn, Use, proofs, gadgets
  <2>6. CASE \E t \in Tables : NewTable(t) \/ Insert(t) \/ Lookup(t)
    BY <1>1, <2>1, <2>6 DEF NewTable, Insert, Lookup, Use, proofs, gadgets
  <2>7. CASE \E f \in Fields : NewField(f) \/ Multiply(f)
    BY <1>1, <2>1, <2>7 DEF NewField, Multiply, Use, proofs, gadgets
  <2> QED BY <1>3, <2>2, <2>3, <2>4, <2>5, <2>6, <2>7 DEF Circuit
<1>4. CASE CallDeferred
  <2>1. pc # "failed" /\ Deferreds \subseteq Deferreds'
    <3>1. pc # "failed"
      BY <1>4 DEF CallDeferred, Calls, CommitChecker, Resolve, CommitTable, PerformDeferredChecks,
                  CallOwn, CommitAndCall, CallBack, CommitterReturns, EndLoop
    <3> QED BY <1>4, <3>1, Grows DEF Next
  <2>2. smallNative \in BOOLEAN /\ queries \in [Gadgets -> Nat]
    BY DEF IInv, TypeOK
  <2>3. CASE CommitChecker
    <3>1. Argue("rangecheck", queries["rangecheck"] > 0, smallNative) /\ Calls("rangecheck")
      BY <2>3 DEF CommitChecker
    <3>2. (queries["rangecheck"] > 0) \in BOOLEAN
      OBVIOUS
    <3> QED BY <2>1, <2>2, <3>1, <3>2, Strings, ArgueZeros
  <2>4. CASE Resolve
    <3>1. Argue("sz", queries["sz"] > 0, FALSE) /\ Calls("sz")
      BY <2>4 DEF Resolve
    <3>2. (queries["sz"] > 0) \in BOOLEAN
      OBVIOUS
    <3> QED BY <2>1, <2>2, <3>1, <3>2, Strings, ArgueZeros
  <2>5. ASSUME NEW t \in Tables, CommitTable(t) PROVE ZeroChecks'
    <3>1. Argue(t, TRUE, smallNative) /\ Calls(t)
      BY <2>5 DEF CommitTable, Fail
    <3> QED BY <2>1, <2>2, <3>1, Strings, ArgueZeros
  <2>6. ASSUME NEW f \in Fields, PerformDeferredChecks(f) PROVE ZeroChecks'
    <3> DEFINE some == queries[f] > 0 \/ (f \in SmallFields /\ zeros[f] > 0)
    <3>1. Argue(f, some, smallNative) /\ Calls(f)
      BY <2>6 DEF PerformDeferredChecks
    <3>2. some \in BOOLEAN /\ (f \in SmallFields /\ zeros[f] > 0 => some)
      OBVIOUS
    <3> HIDE DEF some
    <3> QED BY <2>1, <2>2, <3>1, <3>2, Strings, ArgueZeros
  <2>7. CASE CallBack
    BY <2>7, CallBackZeros
  <2>8. CASE CommitAndCall
    <3>1. mc' = [mc EXCEPT !.closed = TRUE] /\ UNCHANGED <<gadgets, argued, zerosChecked, author>>
      BY <2>8 DEF CommitAndCall, Fail
    <3>2. mc'.cbs = mc.cbs /\ mc'.next = mc.next
      BY <3>1 DEF IInv, TypeOK
    <3> QED BY <1>1, <2>1, <3>1, <3>2 DEF gadgets
  <2>9. CASE CallOwn \/ CommitterReturns \/ EndLoop
    BY <1>1, <2>1, <2>9 DEF CallOwn, CommitterReturns, EndLoop, gadgets, proofs
  <2> QED BY <1>4, <2>3, <2>4, <2>5, <2>6, <2>7, <2>8, <2>9 DEF CallDeferred
<1> QED BY <1>2, <1>3, <1>4 DEF Next

LEMMA ImpliesNothingUnproved == IInv /\ ZeroChecks => NothingUnproved
  BY QueriesProved, ZerosProved DEF NothingUnproved

-----------------------------------------------------------------------------
LEMMA Invariance == Spec => []IInv
  BY InitIInv, NextIInv, PTL DEF Spec

LEMMA ZerosInvariance == Spec => [](IInv /\ ZeroChecks)
  BY InitIInv, NextIInv, InitZeros, NextZeros, PTL DEF Spec

\* Types are kept: indices stay inside the list of deferred functions.
THEOREM TypeCorrect == Spec => []TypeOK
  BY Invariance, IInvImplies, PTL

\* A circuit that compiles has every range check and every emulated multiplication bound
\* by the commitment and asserted, for any gadgets used anywhere, and every zero check of
\* a small field asserted if gadgets are used in Define alone (NothingUnproved).
THEOREM AllChecksProved == Spec => []NothingUnproved
  BY ZerosInvariance, ImpliesNothingUnproved, PTL

\* A circuit that compiles called every deferred function, and every argument is
\* committed to and asserted (ArgumentsAreProved).
THEOREM AllArgumentsProved == Spec => []ArgumentsAreProved
  BY Invariance, IInvImplies, PTL

\* No argument but that of fields_bls12377 covers queries that were not committed to
\* when the challenge was drawn (ChallengeComesLast).
THEOREM Commitment == Spec => []ChallengeComesLast
  BY Invariance, IInvImplies, PTL

\* Circuits that use gadgets in Define only fail for the reasons DefineOnlyCompiles names.
THEOREM DefineIsSafe == Spec => []DefineOnlyCompiles
  BY Invariance, IInvImplies, PTL
=============================================================================

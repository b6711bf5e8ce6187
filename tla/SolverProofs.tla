---------------------------- MODULE SolverProofs ----------------------------
(* Proofs about the worker pool of Solver, for every constraint system, every  *)
(* size of the pool and every minimum of work per task.                        *)
EXTENDS Solver, FiniteSetTheorems, SequenceTheorems, TLAPS

States == {"idle", "running", "busy", "reporting", "reported", "exited"}

\* A worker holds a task, is free, or has sent its error.
HoldsTask == {"running", "busy", "reporting", "reported"}
Free      == {"idle"}
SentError == {"reported", "exited"}

-----------------------------------------------------------------------------
(* Arithmetic of the cutting loop.                                            *)

LEMMA Division ==
  ASSUME NEW n \in Nat, NEW d \in Nat \ {0}
  PROVE  /\ n \div d \in Nat
         /\ d * (n \div d) \in Nat
         /\ d * (n \div d) <= n
         /\ n < d * (n \div d) + d
<1>1. n \div d \in Nat BY SMT
<1>2. n = d * (n \div d) + (n % d) /\ n % d \in 0 .. d - 1 BY SMT
<1>3. d * (n \div d) \in Int BY <1>1, SMT
<1>4. d * (n \div d) >= 0 BY <1>1, SMT
<1>5. QED BY <1>1, <1>2, <1>3, <1>4, SMT

LEMMA NextMultiple ==
  ASSUME NEW i \in Nat, NEW per \in Nat
  PROVE  /\ i * per \in Nat
         /\ (i + 1) * per = i * per + per
<1>1. QED BY SMT

\* A task of per instructions, and one more while there are extra ones, leaves
\* exactly what the tasks to come need.
LEMMA OneTaskMore ==
  ASSUME NEW start \in Nat, NEW per \in Nat, NEW more \in Nat, NEW pending \in Nat,
         NEW extra \in Nat, NEW length \in Nat,
         more <= extra, start + (pending + per) + extra = length
  PROVE  /\ start + per + more + pending + (extra - more) = length
         /\ start + per + more <= length
OBVIOUS

\* Cut: the tasks are no more than the pool, none is empty, and the instructions
\* left over are fewer than the tasks that can take one each.
LEMMA CutIsExact ==
  ASSUME NEW n \in Nat, ~Sequential(n)
  PROVE  LET c == Cut(n) IN
         /\ c \in [nbTasks : Nat, per : Nat, i : Nat, extra : Nat, offset : Nat]
         /\ c.i = 0 /\ c.offset = 0
         /\ c.nbTasks \in 1 .. NbTasks
         /\ c.per > 0
         /\ c.nbTasks * c.per + c.extra = n
         /\ c.extra <= c.nbTasks
<1> DEFINE wanted == Smaller(NbTasks, CeilDiv(n, MinWork))
<1>1. n > 0 /\ NbTasks \in Nat /\ NbTasks > 1 /\ MinWork \in Nat /\ MinWork > 0
  BY NbTasksAssumption, MinWorkAssumption DEF Sequential
<1>2. CeilDiv(n, MinWork) \in Nat /\ CeilDiv(n, MinWork) > 0
  <2>1. n + MinWork - 1 \in Nat /\ n + MinWork - 1 >= MinWork BY <1>1
  <2>2. /\ (n + MinWork - 1) \div MinWork \in Nat
        /\ n + MinWork - 1 < MinWork * ((n + MinWork - 1) \div MinWork) + MinWork
    BY <1>1, <2>1, Division
  <2>3. (n + MinWork - 1) \div MinWork # 0
    <3> SUFFICES ASSUME (n + MinWork - 1) \div MinWork = 0 PROVE FALSE OBVIOUS
    <3>1. MinWork * ((n + MinWork - 1) \div MinWork) = 0 BY <1>1
    <3>2. QED BY <1>1, <2>1, <2>2, <3>1
  <2>4. QED BY <2>2, <2>3 DEF CeilDiv
<1>3. wanted \in Nat /\ wanted > 0 /\ wanted <= NbTasks
  BY <1>1, <1>2 DEF Smaller
<1>4. /\ n \div wanted \in Nat
      /\ wanted * (n \div wanted) \in Nat
      /\ wanted * (n \div wanted) <= n
      /\ n < wanted * (n \div wanted) + wanted
  BY <1>3, Division
<1>5. CASE n \div wanted < 1
  <2>1. n \div wanted = 0 BY <1>4, <1>5
  <2>2. wanted * (n \div wanted) = 0 BY <1>3, <2>1
  <2>3. n < wanted BY <1>3, <1>4, <2>2
  <2>4. Cut(n) = [nbTasks |-> n, per |-> 1, i |-> 0, extra |-> n - n * 1, offset |-> 0]
    BY <1>5 DEF Cut
  <2>5. QED BY <1>1, <1>3, <2>3, <2>4
<1>6. CASE ~(n \div wanted < 1)
  <2>1. Cut(n) = [nbTasks |-> wanted, per |-> n \div wanted, i |-> 0,
                  extra |-> n - wanted * (n \div wanted), offset |-> 0]
    BY <1>6 DEF Cut
  <2>2. n - wanted * (n \div wanted) \in Nat /\ n - wanted * (n \div wanted) <= wanted
    BY <1>3, <1>4
  <2> HIDE DEF wanted
  <2>3. wanted * (n \div wanted) + (n - wanted * (n \div wanted)) = n
    BY <1>4
  <2>4. QED BY <1>1, <1>3, <1>4, <1>6, <2>1, <2>2, <2>3
<1>7. QED BY <1>5, <1>6

-----------------------------------------------------------------------------
(* Counting workers.                                                          *)

LEMMA PoolIsFinite ==
  /\ IsFiniteSet(Workers)
  /\ Cardinality(Workers) = NbTasks
<1>1. NbTasks \in Nat BY NbTasksAssumption
<1>2. QED BY <1>1, FS_Interval DEF Workers

LEMMA CountType ==
  ASSUME NEW f, NEW S
  PROVE  LET T == {v \in Workers : f[v] \in S} IN
         IsFiniteSet(T) /\ Cardinality(T) \in 0 .. NbTasks
<1> DEFINE T == {v \in Workers : f[v] \in S}
<1>1. T \in SUBSET Workers OBVIOUS
<1> HIDE DEF T
<1>2. IsFiniteSet(T) /\ Cardinality(T) <= NbTasks
  BY <1>1, PoolIsFinite, FS_Subset
<1>3. Cardinality(T) \in Nat BY <1>2, FS_CardinalityType
<1>4. IsFiniteSet(T) /\ Cardinality(T) \in 0 .. NbTasks
  BY <1>2, <1>3, NbTasksAssumption
<1>5. QED BY <1>4 DEF T

\* How a count changes when one worker moves.
LEMMA CountMove ==
  ASSUME NEW f \in [Workers -> States], NEW w \in Workers, NEW s \in States,
         NEW S
  PROVE  Cardinality({v \in Workers : [f EXCEPT ![w] = s][v] \in S}) =
           Cardinality({v \in Workers : f[v] \in S})
             + (IF s \in S THEN 1 ELSE 0) - (IF f[w] \in S THEN 1 ELSE 0)
<1> DEFINE Before == {v \in Workers : f[v] \in S}
           After  == {v \in Workers : [f EXCEPT ![w] = s][v] \in S}
<1>1. IsFiniteSet(Before) /\ Cardinality(Before) \in 0 .. NbTasks BY CountType
<1>2. CASE s \in S
  <2>1. After = Before \union {w} BY <1>2
  <2>2. w \in Before <=> f[w] \in S OBVIOUS
  <2> HIDE DEF Before, After
  <2>3. Cardinality(After) = IF w \in Before THEN Cardinality(Before)
                                             ELSE Cardinality(Before) + 1
    BY <1>1, <2>1, FS_AddElement
  <2>4. Cardinality(After) = Cardinality(Before) + 1 - (IF f[w] \in S THEN 1 ELSE 0)
    BY <1>1, <2>2, <2>3
  <2>5. QED BY <1>2, <2>4 DEF Before, After
<1>3. CASE s \notin S
  <2>1. After = Before \ {w} BY <1>3
  <2>2. w \in Before <=> f[w] \in S OBVIOUS
  <2> HIDE DEF Before, After
  <2>3. Cardinality(After) = IF w \in Before THEN Cardinality(Before) - 1
                                             ELSE Cardinality(Before)
    BY <1>1, <2>1, FS_RemoveElement
  <2>4. Cardinality(After) = Cardinality(Before) + 0 - (IF f[w] \in S THEN 1 ELSE 0)
    BY <1>1, <2>2, <2>3
  <2>5. QED BY <1>3, <2>4 DEF Before, After
<1>4. QED BY <1>2, <1>3
-----------------------------------------------------------------------------
(* The inductive invariant.                                                   *)

Count(S) == Cardinality(InState(S))

\* The caller's goroutine is at an existing level and instruction of it.
MainInRange ==
  /\ main \in {"seq", "failed", "push", "wait"} => lvl <= Len(cs.levels)
  /\ main = "seq" => split.i <= Len(Level)
  /\ main = "failed" => split.i < Len(Level)

\* What was cut and what is still to be cut make up the level.
CutInvariant ==
  main \in {"push", "wait"} =>
    /\ split.nbTasks <= NbTasks /\ split.i <= split.nbTasks
    /\ split.per > 0
    /\ split.extra <= split.nbTasks - split.i
    /\ Start + (split.nbTasks - split.i) * split.per + split.extra = Len(Level)
    /\ main = "wait" => split.i = split.nbTasks

\* A task in the channel is part of the current level and was cut already; what a
\* worker holds is part of a level.
TasksInRange ==
  /\ \A k \in 1 .. Len(chTasks) :
       /\ chTasks[k].level = lvl
       /\ chTasks[k].from <= chTasks[k].to /\ chTasks[k].to <= Start
       /\ chTasks[k].to <= Len(Level)
  /\ \A w \in Workers :
       wpc[w] \in HoldsTask =>
         /\ task[w].level \in 1 .. Len(cs.levels)
         /\ task[w].from <= task[w].to
         /\ task[w].to <= Len(cs.levels[task[w].level])
         /\ wpc[w] # "running" => task[w].from < task[w].to

\* The WaitGroup counts the tasks that are not over, chError the workers that gave
\* up, and there is an idle worker for every task that nobody has taken yet.
Counting ==
  /\ wg = Len(chTasks) + Count(HoldsTask)
  /\ main \notin {"push", "wait"} => wg = 0
  /\ main \notin {"cleanup", "returned"} => Len(chError) = Count(SentError)
  /\ main \in {"level", "seq", "failed"} => chError = <<>>
  /\ main \in {"push", "wait"} =>
       Len(chTasks) + split.nbTasks - split.i <= Count(Free)
  /\ chTasksClosed <=> main = "returned"
  /\ chErrorClosed <=> main = "returned"

IInv == TypeOK /\ MainInRange /\ CutInvariant /\ TasksInRange /\ Counting

-----------------------------------------------------------------------------
(* What the steps need again and again.                                       *)

LEMMA LevelTypes ==
  ASSUME TypeOK
  PROVE  /\ Len(cs.levels) \in Nat
         /\ \A l \in 1 .. Len(cs.levels) :
              /\ Len(cs.levels[l]) \in Nat
              /\ \A k \in 1 .. Len(cs.levels[l]) : cs.levels[l][k] \in cs.instructions
<1>1. cs.levels \in Seq(Seq(cs.instructions))
  BY SystemsAssumption DEF TypeOK, WellTyped
<1>2. Len(cs.levels) \in Nat BY <1>1, LenProperties
<1>3. ASSUME NEW l \in 1 .. Len(cs.levels)
      PROVE  /\ Len(cs.levels[l]) \in Nat
             /\ \A k \in 1 .. Len(cs.levels[l]) : cs.levels[l][k] \in cs.instructions
  <2>1. cs.levels[l] \in Seq(cs.instructions) BY <1>1, <1>3, ElementOfSeq
  <2>2. QED BY <2>1, LenProperties, ElementOfSeq
<1>4. QED BY <1>2, <1>3

LEMMA LocalTypes ==
  ASSUME TypeOK
  PROVE  /\ split.nbTasks \in Nat /\ split.per \in Nat /\ split.i \in Nat
         /\ split.extra \in Nat /\ split.offset \in Nat
         /\ Len(chTasks) \in Nat /\ Len(chError) \in Nat
<1>1. split \in [nbTasks : Nat, per : Nat, i : Nat, extra : Nat, offset : Nat]
  BY DEF TypeOK
<1>2. chTasks \in Seq(Tasks) /\ chError \in Seq(cs.instructions) BY DEF TypeOK
<1>3. Len(chTasks) \in Nat /\ Len(chError) \in Nat BY <1>2, LenProperties
<1>4. QED BY <1>1, <1>3

LEMMA CurrentLevel ==
  ASSUME TypeOK, MainInRange, main \in {"seq", "failed", "push", "wait"}
  PROVE  lvl \in 1 .. Len(cs.levels) /\ Len(Level) \in Nat
<1>1. Len(cs.levels) \in Nat BY LevelTypes
<1>2. lvl \in 1 .. Len(cs.levels) + 1 BY DEF TypeOK
<1>3. lvl <= Len(cs.levels) BY DEF MainInRange
<1>4. lvl \in 1 .. Len(cs.levels) BY <1>1, <1>2, <1>3
<1>5. QED BY <1>4, LevelTypes DEF Level

\* The caller's goroutine evaluates an instruction of the current level.
LEMMA NextInstruction ==
  ASSUME TypeOK, lvl <= Len(cs.levels), split.i < Len(Level)
  PROVE  Level[split.i + 1] \in cs.instructions
<1>1. lvl \in 1 .. Len(cs.levels) BY LevelTypes DEF TypeOK
<1>2. Len(Level) \in Nat BY <1>1, LevelTypes DEF Level
<1>3. split.i + 1 \in 1 .. Len(Level) BY <1>2 DEF TypeOK
<1>4. QED BY <1>1, <1>3, LevelTypes DEF Level

LEMMA CountTypes ==
  \A S : Count(S) \in 0 .. NbTasks
BY CountType DEF Count, InState

LEMMA CountsAreNat == \A S : Count(S) \in Nat
BY CountTypes, NbTasksAssumption

LEMMA CountOfOne ==
  ASSUME NEW S, NEW w \in InState(S)
  PROVE  Count(S) # 0
<1>1. IsFiniteSet(InState(S)) BY CountType DEF InState
<1>2. InState(S) # {} OBVIOUS
<1>3. QED BY <1>1, <1>2, FS_EmptySet DEF Count

LEMMA NothingMoved ==
  ASSUME UNCHANGED wpc
  PROVE  \A S : Count(S)' = Count(S)
BY DEF Count, InState

LEMMA OneMoved ==
  ASSUME TypeOK, NEW w \in Workers, NEW s \in States, wpc' = [wpc EXCEPT ![w] = s]
  PROVE  \A S : Count(S)' = Count(S) + (IF s \in S THEN 1 ELSE 0)
                                     - (IF wpc[w] \in S THEN 1 ELSE 0)
<1>1. wpc \in [Workers -> States] BY DEF TypeOK, States
<1>2. QED BY <1>1, CountMove DEF Count, InState

-----------------------------------------------------------------------------
(* The invariant holds initially, and every step of the caller's goroutine    *)
(* keeps it.                                                                  *)

LEMMA InitIInv == Init => IInv
<1> SUFFICES ASSUME Init PROVE IInv OBVIOUS
<1>1. TypeOK
  <2>1. cs.inputs \subseteq cs.wires BY SystemsAssumption DEF Init, WellTyped
  <2>2. lvl \in 1 .. Len(cs.levels) + 1
    <3>1. cs.levels \in Seq(Seq(cs.instructions))
      BY SystemsAssumption DEF Init, WellTyped
    <3>2. Len(cs.levels) \in Nat BY <3>1, LenProperties
    <3>3. QED BY <3>2 DEF Init
  <2>3. split \in [nbTasks : Nat, per : Nat, i : Nat, extra : Nat, offset : Nat]
    BY DEF Init, NoSplit
  <2>4. task \in [Workers -> Tasks] BY DEF Init, Tasks, NoTask
  <2>5. chTasks \in Seq(Tasks) /\ chError \in Seq(cs.instructions)
    BY EmptySeq DEF Init
  <2>6. wpc \in [Workers -> {"idle", "running", "busy", "reporting", "reported", "exited"}]
    BY DEF Init
  <2>7. QED BY <2>1, <2>2, <2>3, <2>4, <2>5, <2>6 DEF Init, TypeOK
<1>2. MainInRange /\ CutInvariant BY DEF Init, MainInRange, CutInvariant
<1>3. TasksInRange BY DEF Init, TasksInRange, HoldsTask
<1>4. Counting
  <2>1. InState(HoldsTask) = {} /\ InState(SentError) = {}
    BY DEF Init, InState, HoldsTask, SentError
  <2>2. Count(HoldsTask) = 0 /\ Count(SentError) = 0
    BY <2>1, FS_EmptySet DEF Count
  <2>3. Len(<<>>) = 0 OBVIOUS
  <2>4. wg = Len(chTasks) + Count(HoldsTask) BY <2>2, <2>3 DEF Init
  <2>5. Len(chError) = Count(SentError) BY <2>2, <2>3 DEF Init
  <2>6. QED BY <2>4, <2>5 DEF Init, Counting
<1>5. QED BY <1>1, <1>2, <1>3, <1>4 DEF IInv

LEMMA RunSequentiallyKeeps ==
  ASSUME IInv, RunSequentially
  PROVE  IInv'
<1> USE DEF RunSequentially, workerVars, closed
<1>1. TypeOK' BY DEF IInv, TypeOK, NoSplit, Tasks
<1>2. MainInRange'
  BY LevelTypes DEF IInv, TypeOK, MainInRange, NoSplit, Level
<1>3. CutInvariant' BY DEF CutInvariant
<1>4. Counting' BY NothingMoved DEF IInv, Counting
<1>5. TasksInRange'
  <2>1. Len(chTasks) = 0
    BY CountTypes, NbTasksAssumption, LenProperties DEF IInv, TypeOK, Counting
  <2>2. QED BY <2>1 DEF IInv, TasksInRange
<1>6. QED BY <1>1, <1>2, <1>3, <1>4, <1>5 DEF IInv

LEMMA ProcessHereKeeps ==
  ASSUME IInv, ProcessHere
  PROVE  IInv'
<1> USE DEF ProcessHere, workerVars, closed
<1>1. TypeOK'
  <2>1. Level[split.i + 1] \in cs.instructions
    BY NextInstruction DEF IInv, MainInRange
  <2>2. split' \in [nbTasks : Nat, per : Nat, i : Nat, extra : Nat, offset : Nat]
    BY DEF IInv, TypeOK
  <2>3. solved' \subseteq cs.wires BY DEF IInv, TypeOK
  <2>4. QED BY <2>1, <2>2, <2>3 DEF IInv, TypeOK, Tasks
<1>2. MainInRange'
  <2>1. split.i < Len(Level) /\ split.i \in Nat /\ Len(Level) \in Nat
    BY CurrentLevel, LocalTypes DEF IInv
  <2>2. split' \in {split, [split EXCEPT !.i = @ + 1]}
    BY DEF IInv
  <2>3. split'.i \in {split.i, split.i + 1} BY <2>2 DEF IInv, TypeOK
  <2>4. split'.i <= Len(Level) BY <2>1, <2>3
  <2>5. main' = "failed" => split' = split OBVIOUS
  <2>6. lvl <= Len(cs.levels) BY DEF IInv, MainInRange
  <2>7. main' \in {"seq", "failed"} /\ Level' = Level /\ cs' = cs /\ lvl' = lvl
    BY DEF Level
  <2>8. QED BY <2>1, <2>4, <2>5, <2>6, <2>7 DEF MainInRange
<1>3. CutInvariant' BY DEF CutInvariant
<1>4. Counting' BY NothingMoved DEF IInv, Counting
<1>5. TasksInRange'
  <2>1. Len(chTasks) = 0
    BY CountTypes, NbTasksAssumption, LenProperties DEF IInv, TypeOK, Counting
  <2>2. QED BY <2>1 DEF IInv, TasksInRange
<1>6. QED BY <1>1, <1>2, <1>3, <1>4, <1>5 DEF IInv

LEMMA ReturnErrorKeeps ==
  ASSUME IInv, ReturnError
  PROVE  IInv'
<1> USE DEF ReturnError, workerVars, closed
<1>1. TypeOK'
  <2>1. Level[split.i + 1] \in cs.instructions
    BY NextInstruction DEF IInv, MainInRange
  <2>2. QED BY <2>1 DEF IInv, TypeOK, Tasks
<1>2. MainInRange' /\ CutInvariant' BY DEF MainInRange, CutInvariant
<1>3. Counting' BY NothingMoved DEF IInv, Counting
<1>4. TasksInRange' BY DEF IInv, TasksInRange, Start, Level
<1>5. QED BY <1>1, <1>2, <1>3, <1>4 DEF IInv

LEMMA EndSequentialKeeps ==
  ASSUME IInv, EndSequential
  PROVE  IInv'
<1> USE DEF EndSequential, workerVars, closed
<1>1. TypeOK'
  <2>1. lvl + 1 \in 1 .. Len(cs.levels) + 1
    BY LevelTypes DEF IInv, TypeOK, MainInRange
  <2>2. QED BY <2>1 DEF IInv, TypeOK, Tasks
<1>2. MainInRange' /\ CutInvariant' BY DEF MainInRange, CutInvariant
<1>3. Counting' BY NothingMoved DEF IInv, Counting
<1>4. TasksInRange'
  <2>1. Len(chTasks) = 0
    BY CountTypes, NbTasksAssumption, LenProperties DEF IInv, TypeOK, Counting
  <2>2. QED BY <2>1 DEF IInv, TasksInRange
<1>5. QED BY <1>1, <1>2, <1>3, <1>4 DEF IInv

\* No task is under way and no worker has given up: the whole pool is idle.
LEMMA PoolIsIdle ==
  ASSUME IInv, main = "level"
  PROVE  Len(chTasks) = 0 /\ Count(Free) = NbTasks
<1>1. Len(chTasks) = 0 /\ Count(HoldsTask) = 0
  BY CountTypes, NbTasksAssumption, LenProperties DEF IInv, TypeOK, Counting
<1>2. Count(SentError) = 0
  <2>1. Len(<<>>) = 0 OBVIOUS
  <2>2. QED BY <2>1 DEF IInv, Counting
<1>3. IsFiniteSet(InState(HoldsTask)) /\ IsFiniteSet(InState(SentError))
  BY CountType DEF InState
<1>4. InState(HoldsTask) = {} /\ InState(SentError) = {}
  BY <1>1, <1>2, <1>3, FS_EmptySet DEF Count
<1>5. InState(Free) = Workers
  BY <1>4 DEF InState, HoldsTask, SentError, Free, IInv, TypeOK
<1>6. QED BY <1>1, <1>5, PoolIsFinite DEF Count

LEMMA CutLevelKeeps ==
  ASSUME IInv, CutLevel
  PROVE  IInv'
<1> USE DEF CutLevel, workerVars, closed
<1>1. lvl \in 1 .. Len(cs.levels) /\ Len(Level) \in Nat
  BY LevelTypes DEF IInv, TypeOK, Level
<1>2. /\ split' \in [nbTasks : Nat, per : Nat, i : Nat, extra : Nat, offset : Nat]
      /\ split'.i = 0 /\ split'.offset = 0
      /\ split'.nbTasks \in 1 .. NbTasks
      /\ split'.per > 0
      /\ split'.nbTasks * split'.per + split'.extra = Len(Level)
      /\ split'.extra <= split'.nbTasks
  BY <1>1, CutIsExact
<1>3. TypeOK' BY <1>2 DEF IInv, TypeOK, Tasks
<1>4. MainInRange' BY <1>1 DEF MainInRange
<1>5. CutInvariant'
  <2>1. Start' = 0 BY <1>2 DEF Start
  <2>2. split'.nbTasks - split'.i = split'.nbTasks BY <1>2
  <2>3. Level' = Level BY DEF Level
  <2>4. split'.nbTasks * split'.per \in Nat BY <1>2, NextMultiple
  <2>5. Start' + (split'.nbTasks - split'.i) * split'.per + split'.extra = Len(Level)'
    BY <1>2, <2>1, <2>2, <2>3, <2>4
  <2>6. QED BY <1>2, <2>5, NbTasksAssumption DEF CutInvariant
<1>6. Counting'
  <2>1. split'.nbTasks - split'.i <= NbTasks BY <1>2, NbTasksAssumption
  <2>2. Len(chTasks)' + split'.nbTasks - split'.i <= Count(Free)'
    BY <1>2, <2>1, PoolIsIdle, NothingMoved, NbTasksAssumption
  <2>3. QED BY <2>2, NothingMoved DEF IInv, Counting
<1>7. TasksInRange' BY PoolIsIdle DEF IInv, TasksInRange
<1>8. QED BY <1>3, <1>4, <1>5, <1>6, <1>7 DEF IInv

LEMMA AllPushedKeeps ==
  ASSUME IInv, AllPushed
  PROVE  IInv'
<1> USE DEF AllPushed, workerVars, closed
<1>1. TypeOK' BY DEF IInv, TypeOK, Tasks
<1>2. MainInRange' /\ CutInvariant'
  BY DEF IInv, MainInRange, CutInvariant, Start, Level
<1>3. Counting' BY NothingMoved DEF IInv, Counting
<1>4. TasksInRange' BY DEF IInv, TasksInRange, Start, Level
<1>5. QED BY <1>1, <1>2, <1>3, <1>4 DEF IInv

LEMMA LevelDoneKeeps ==
  ASSUME IInv, LevelDone
  PROVE  IInv'
<1> USE DEF LevelDone, TasksDone, workerVars, closed
<1>1. Len(chTasks) = 0
  BY CountTypes, NbTasksAssumption, LenProperties DEF IInv, TypeOK, Counting
<1>2. TypeOK'
  <2>1. CASE chError # <<>>
    <3>1. Head(chError) \in cs.instructions /\ Tail(chError) \in Seq(cs.instructions)
      BY <2>1, HeadTailProperties DEF IInv, TypeOK
    <3>2. QED BY <2>1, <3>1 DEF IInv, TypeOK, Tasks
  <2>2. CASE chError = <<>>
    <3>1. lvl + 1 \in 1 .. Len(cs.levels) + 1
      BY LevelTypes DEF IInv, TypeOK, MainInRange
    <3>2. QED BY <2>2, <3>1 DEF IInv, TypeOK, Tasks
  <2>3. QED BY <2>1, <2>2
<1>3. MainInRange' /\ CutInvariant' BY DEF MainInRange, CutInvariant
<1>4. Counting' BY NothingMoved DEF IInv, Counting
<1>5. TasksInRange' BY <1>1 DEF IInv, TasksInRange
<1>6. QED BY <1>2, <1>3, <1>4, <1>5 DEF IInv

LEMMA CheckAllSolvedKeeps ==
  ASSUME IInv, CheckAllSolved
  PROVE  IInv'
<1> USE DEF CheckAllSolved, workerVars, closed
<1>1. TypeOK' BY DEF IInv, TypeOK, Tasks
<1>2. MainInRange' /\ CutInvariant' BY DEF MainInRange, CutInvariant
<1>3. Counting' BY NothingMoved DEF IInv, Counting
<1>4. TasksInRange' BY DEF IInv, TasksInRange, Start, Level
<1>5. QED BY <1>1, <1>2, <1>3, <1>4 DEF IInv

LEMMA CloseChannelsKeeps ==
  ASSUME IInv, CloseChannels
  PROVE  IInv'
<1> USE DEF CloseChannels, workerVars
<1>1. TypeOK' BY DEF IInv, TypeOK, Tasks
<1>2. MainInRange' /\ CutInvariant' BY DEF MainInRange, CutInvariant
<1>3. Counting' BY NothingMoved DEF IInv, Counting
<1>4. TasksInRange' BY DEF IInv, TasksInRange, Start, Level
<1>5. QED BY <1>1, <1>2, <1>3, <1>4 DEF IInv

\* The task cut next is not empty, it ends within the level, and what is left for
\* the tasks after it is what they need.
LEMMA NextTask ==
  ASSUME TypeOK, MainInRange, CutInvariant, main = "push", split.i < split.nbTasks
  PROVE  LET left == split.nbTasks - (split.i + 1)
             more == IF split.extra > 0 THEN 1 ELSE 0
         IN  /\ Start \in Nat /\ End \in Nat /\ Start < End /\ End <= Len(Level)
             /\ End = (split.i + 1) * split.per + (split.offset + more)
             /\ End + left * split.per + (split.extra - more) = Len(Level)
             /\ split.extra - more \in Nat /\ split.extra - more <= left
<1> DEFINE left    == split.nbTasks - (split.i + 1)
           whole   == split.i * split.per
           pending == left * split.per
           more    == IF split.extra > 0 THEN 1 ELSE 0
<1>1. /\ split.nbTasks \in Nat /\ split.per \in Nat /\ split.i \in Nat
      /\ split.extra \in Nat /\ split.offset \in Nat /\ left \in Nat
      /\ lvl \in 1 .. Len(cs.levels) /\ Len(Level) \in Nat
  <2>1. split.nbTasks \in Nat /\ split.i \in Nat BY LocalTypes
  <2>2. left \in Nat BY <2>1
  <2>3. QED BY <2>2, CurrentLevel, LocalTypes
<1>2. whole \in Nat /\ pending \in Nat
  <2> HIDE DEF left
  <2>1. QED BY <1>1, NextMultiple
<1>3. /\ (split.i + 1) * split.per = whole + split.per
      /\ (split.nbTasks - split.i) * split.per = pending + split.per
  <2>1. split.nbTasks - split.i = left + 1 BY <1>1
  <2> HIDE DEF left
  <2>2. QED BY <1>1, <2>1, NextMultiple
<1> HIDE DEF whole, pending, left
<1>4. more \in Nat /\ more <= 1 /\ more <= split.extra BY <1>1
<1>5. /\ Start = whole + split.offset
      /\ End = Start + split.per + more
  BY DEF Start, End, whole
<1> HIDE DEF more
<1>6. End = (split.i + 1) * split.per + (split.offset + more)
  <2>1. End = (whole + split.offset) + split.per + more BY <1>5
  <2>2. End = (whole + split.per) + (split.offset + more) BY <1>1, <1>2, <1>4, <2>1
  <2>3. QED BY <1>3, <2>2
<1>7. Start \in Nat BY <1>1, <1>2, <1>5
<1>8. split.per > 0 BY DEF CutInvariant
<1>9. End \in Nat /\ Start < End
  <2> HIDE DEF Start, End
  <2>1. split.per \in Nat BY <1>1
  <2>2. End = Start + split.per + more BY <1>5
  <2>3. QED BY <1>4, <1>7, <1>8, <2>1, <2>2
<1>10. End + pending + (split.extra - more) = Len(Level) /\ End <= Len(Level)
  <2>1. Start + (split.nbTasks - split.i) * split.per + split.extra = Len(Level)
    BY DEF CutInvariant
  <2>2. Start + (pending + split.per) + split.extra = Len(Level) BY <1>3, <2>1
  <2>3. /\ Start + split.per + more + pending + (split.extra - more) = Len(Level)
        /\ Start + split.per + more <= Len(Level)
    <3>1. /\ split.per \in Nat /\ split.extra \in Nat /\ Len(Level) \in Nat
          /\ more \in Nat /\ more <= split.extra /\ pending \in Nat /\ Start \in Nat
      BY <1>1, <1>2, <1>4, <1>7
    <3> DEFINE start == Start
               per == split.per
               extra == split.extra
               length == Len(Level)
    <3>2. /\ start \in Nat /\ per \in Nat /\ more \in Nat /\ pending \in Nat
          /\ extra \in Nat /\ length \in Nat
          /\ more <= extra /\ start + (pending + per) + extra = length
      BY <3>1, <2>2
    <3> HIDE DEF start, per, extra, length
    <3>3. /\ start + per + more + pending + (extra - more) = length
          /\ start + per + more <= length
      BY <3>2, OneTaskMore
    <3>4. QED BY <3>3 DEF start, per, extra, length
  <2>4. End = Start + split.per + more BY <1>5
  <2>5. QED BY <2>3, <2>4
<1>11. split.extra - more \in Nat /\ split.extra - more <= left
  <2>1. split.extra <= left + 1 BY <1>1 DEF CutInvariant, left
  <2>2. QED BY <1>1, <1>4, <2>1 DEF more
<1>12. QED BY <1>6, <1>7, <1>9, <1>10, <1>11 DEF left, pending, more

\* The locals of the cutting loop after an iteration.
LEMMA SplitAfterPush ==
  ASSUME IInv, Push
  PROVE  LET more == IF split.extra > 0 THEN 1 ELSE 0 IN
         /\ split' \in [nbTasks : Nat, per : Nat, i : Nat, extra : Nat, offset : Nat]
         /\ split'.nbTasks = split.nbTasks /\ split'.per = split.per
         /\ split'.i = split.i + 1
         /\ split'.extra = split.extra - more
         /\ Start' = End
<1> DEFINE left == split.nbTasks - (split.i + 1)
           more == IF split.extra > 0 THEN 1 ELSE 0
<1>1. /\ split.i \in Nat /\ split.extra \in Nat /\ split.offset \in Nat
      /\ split \in [nbTasks : Nat, per : Nat, i : Nat, extra : Nat, offset : Nat]
  BY DEF IInv, TypeOK
<1>2. /\ End = (split.i + 1) * split.per + (split.offset + more)
      /\ split.extra - more \in Nat
  BY NextTask DEF IInv, Push
<1>3. more \in Nat BY <1>1
<1>4. split' = [split EXCEPT !.i = @ + 1, !.extra = @ - more, !.offset = @ + more]
  <2>1. CASE split.extra > 0 BY <2>1 DEF Push
  <2>2. CASE ~(split.extra > 0)
    <3>1. split' = [split EXCEPT !.i = @ + 1] BY <2>2 DEF Push
    <3>2. split.extra - more = split.extra /\ split.offset + more = split.offset
      BY <1>1, <2>2
    <3>3. QED BY <1>1, <3>1, <3>2
  <2>3. QED BY <2>1, <2>2
<1> HIDE DEF more
<1>5. /\ split'.nbTasks = split.nbTasks /\ split'.per = split.per
      /\ split'.i = split.i + 1
      /\ split'.extra = split.extra - more
      /\ split'.offset = split.offset + more
  BY <1>1, <1>4
<1>6. split' \in [nbTasks : Nat, per : Nat, i : Nat, extra : Nat, offset : Nat]
  <2>1. split.offset + more \in Nat /\ split.i + 1 \in Nat BY <1>1, <1>3
  <2>2. split.extra - more \in Nat BY <1>2
  <2>3. QED BY <1>1, <1>4, <2>1, <2>2
<1>7. Start' = End
  <2>1. Start' = split'.i * split'.per + split'.offset BY DEF Start
  <2>2. QED BY <1>2, <1>5, <2>1
<1>8. QED BY <1>5, <1>6, <1>7 DEF more

LEMMA PushKeeps ==
  ASSUME IInv, Push
  PROVE  IInv'
<1> USE DEF Push, workerVars, closed
<1> DEFINE t    == [level |-> lvl, from |-> Start, to |-> End]
           left == split.nbTasks - (split.i + 1)
           more == IF split.extra > 0 THEN 1 ELSE 0
<1>1. /\ split.nbTasks \in Nat /\ split.per \in Nat /\ split.i \in Nat
      /\ split.extra \in Nat /\ split.offset \in Nat /\ left \in Nat
      /\ lvl \in 1 .. Len(cs.levels) /\ Len(Level) \in Nat
  <2>1. split.nbTasks \in Nat /\ split.i \in Nat BY LocalTypes DEF IInv
  <2>2. left \in Nat BY <2>1
  <2>3. QED BY <2>2, CurrentLevel, LocalTypes DEF IInv
<1>2. /\ Start \in Nat /\ End \in Nat /\ Start < End /\ End <= Len(Level)
      /\ End + left * split.per + (split.extra - more) = Len(Level)
      /\ split.extra - more \in Nat /\ split.extra - more <= left
  BY NextTask DEF IInv
<1>3. /\ split' \in [nbTasks : Nat, per : Nat, i : Nat, extra : Nat, offset : Nat]
      /\ split'.nbTasks = split.nbTasks /\ split'.per = split.per
      /\ split'.i = split.i + 1
      /\ split'.extra = split.extra - more
      /\ Start' = End
  BY SplitAfterPush
<1> HIDE DEF left, more
<1>4. t \in Tasks /\ chTasks \in Seq(Tasks)
  BY <1>1, <1>2 DEF IInv, TypeOK, Tasks
<1> HIDE DEF t
<1>5. /\ chTasks' \in Seq(Tasks)
       /\ Len(chTasks') = Len(chTasks) + 1
       /\ \A k \in 1 .. Len(chTasks) : chTasks'[k] = chTasks[k]
       /\ chTasks'[Len(chTasks) + 1] = t
       /\ Len(chTasks) \in Nat
  <2>1. chTasks' = Append(chTasks, t) BY DEF t
  <2>2. QED BY <1>4, <2>1, AppendProperties, LenProperties
<1>6. TypeOK'
  <2>1. wg' \in Nat BY DEF IInv, TypeOK
  <2>2. QED BY <1>3, <1>5, <2>1 DEF IInv, TypeOK, Tasks
<1>7. MainInRange' BY <1>1 DEF MainInRange
<1>8. CutInvariant'
  <2>1. Level' = Level BY DEF Level
  <2>2. split'.nbTasks - split'.i = left BY <1>1, <1>3 DEF left
  <2>3. split'.i <= split'.nbTasks BY <1>1, <1>3
  <2>4. Start' + (split'.nbTasks - split'.i) * split'.per + split'.extra = Len(Level)'
    BY <1>2, <1>3, <2>1, <2>2
  <2>5. split'.nbTasks <= NbTasks /\ split'.per > 0
    BY <1>3 DEF IInv, CutInvariant
  <2>6. split'.extra <= split'.nbTasks - split'.i BY <1>2, <1>3, <2>2
  <2>7. QED BY <2>3, <2>4, <2>5, <2>6 DEF CutInvariant
<1>9. Counting'
  <2>1. wg' = Len(chTasks') + Count(HoldsTask)'
    BY <1>5, CountTypes, NothingMoved, NbTasksAssumption DEF IInv, Counting
  <2>2. Len(chTasks') + split'.nbTasks - split'.i
          = Len(chTasks) + split.nbTasks - split.i
    <3>1. Len(chTasks') = Len(chTasks) + 1 /\ Len(chTasks) \in Nat BY <1>5
    <3>2. split'.nbTasks = split.nbTasks /\ split'.i = split.i + 1 BY <1>3
    <3>3. split.nbTasks \in Nat /\ split.i \in Nat BY <1>1
    <3>4. QED BY <3>1, <3>2, <3>3
  <2>3. Len(chTasks') + split'.nbTasks - split'.i <= Count(Free)'
    BY <2>2, NothingMoved DEF IInv, Counting
  <2>4. QED BY <2>1, <2>3, NothingMoved DEF IInv, Counting
<1>10. TasksInRange'
  <2>1. ASSUME NEW k \in 1 .. Len(chTasks')
        PROVE  /\ chTasks'[k].level = lvl'
               /\ chTasks'[k].from <= chTasks'[k].to /\ chTasks'[k].to <= Start'
               /\ chTasks'[k].to <= Len(Level)'
    <3>1. CASE k = Len(chTasks) + 1
      <4>1. t.level = lvl /\ t.from = Start /\ t.to = End BY DEF t
      <4>2. QED BY <1>3, <1>2, <1>5, <3>1, <4>1 DEF Level
    <3>2. CASE k \in 1 .. Len(chTasks)
      <4>1. chTasks[k] \in Tasks BY <1>4, <3>2, ElementOfSeq
      <4>2. chTasks'[k] = chTasks[k] BY <1>5, <3>2
      <4>3. chTasks[k].to \in Nat BY <4>1 DEF Tasks
      <4>4. chTasks[k].to <= Start' BY <1>3, <1>2, <3>2, <4>3 DEF IInv, TasksInRange
      <4>5. QED BY <3>2, <4>2, <4>4 DEF IInv, TasksInRange, Level
    <3>3. QED BY <1>5, <2>1, <3>1, <3>2
  <2>2. QED BY <2>1 DEF IInv, TasksInRange
<1>11. QED BY <1>6, <1>7, <1>8, <1>9, <1>10 DEF IInv

-----------------------------------------------------------------------------
(* Every step of a worker keeps the invariant.                                *)

\* The instruction at hand belongs to the system.
LEMMA CurrentType ==
  ASSUME IInv, NEW w \in Workers, wpc[w] \in {"busy", "reporting", "reported"}
  PROVE  Current(w) \in cs.instructions
<1>1. /\ task[w].level \in 1 .. Len(cs.levels)
      /\ task[w].from < task[w].to /\ task[w].to <= Len(cs.levels[task[w].level])
  BY DEF IInv, TasksInRange, HoldsTask
<1>2. task[w].from \in Nat /\ task[w].to \in Nat BY DEF IInv, TypeOK, Tasks
<1>3. Len(cs.levels[task[w].level]) \in Nat BY <1>1, LevelTypes DEF IInv
<1>4. task[w].from + 1 \in 1 .. Len(cs.levels[task[w].level]) BY <1>1, <1>2, <1>3
<1>5. QED BY <1>1, <1>4, LevelTypes DEF IInv, Current

LEMMA ReceiveTaskKeeps ==
  ASSUME IInv, NEW w \in Workers, ReceiveTask(w)
  PROVE  IInv'
<1> USE DEF ReceiveTask, mainVars, closed
<1>1. /\ Head(chTasks) \in Tasks /\ Tail(chTasks) \in Seq(Tasks)
      /\ Len(chTasks') = Len(chTasks) - 1
      /\ \A k \in 1 .. Len(chTasks') : chTasks'[k] = chTasks[k + 1]
      /\ Head(chTasks) = chTasks[1]
      /\ Len(chTasks) \in Nat /\ Len(chTasks) > 0
  BY HeadTailProperties, EmptySeq, LenProperties DEF IInv, TypeOK
<1>2. TypeOK' BY <1>1 DEF IInv, TypeOK, Tasks
<1>3. MainInRange' /\ CutInvariant'
  BY DEF IInv, MainInRange, CutInvariant, Start, Level
<1>4. /\ Count(HoldsTask)' = Count(HoldsTask) + 1
      /\ Count(Free)' = Count(Free) - 1
      /\ Count(SentError)' = Count(SentError)
  <2>1. "running" \in States BY DEF States
  <2>2. \A S : Count(S)' = Count(S) + (IF "running" \in S THEN 1 ELSE 0)
                                    - (IF "idle" \in S THEN 1 ELSE 0)
    BY <2>1, OneMoved DEF IInv
  <2>3. /\ Count(HoldsTask) \in Nat /\ Count(Free) \in Nat /\ Count(SentError) \in Nat
    BY CountsAreNat
  <2>4. QED BY <2>2, <2>3 DEF HoldsTask, Free, SentError
<1>5. Counting'
  <2>1. wg' = Len(chTasks') + Count(HoldsTask)'
    BY <1>1, <1>4, CountTypes, NbTasksAssumption DEF IInv, Counting
  <2>2. main' \in {"push", "wait"} =>
          Len(chTasks') + split'.nbTasks - split'.i <= Count(Free)'
    <3>1. main' = main /\ split' = split OBVIOUS
    <3>2. /\ split.nbTasks \in Nat /\ split.i \in Nat /\ Count(Free) \in Nat
          /\ Len(chTasks) \in Nat
      BY LocalTypes, CountsAreNat DEF IInv
    <3>3. main \in {"push", "wait"} =>
            Len(chTasks) + split.nbTasks - split.i <= Count(Free)
      BY DEF IInv, Counting
    <3>4. Len(chTasks') = Len(chTasks) - 1 /\ Count(Free)' = Count(Free) - 1
      BY <1>1, <1>4
    <3>5. QED BY <3>1, <3>2, <3>3, <3>4
  <2>3. QED BY <1>4, <2>1, <2>2 DEF IInv, Counting
<1>6. TasksInRange'
  <2>1. main \in {"push", "wait"} /\ lvl \in 1 .. Len(cs.levels)
    BY <1>1, CountTypes, NbTasksAssumption, LevelTypes
    DEF IInv, TypeOK, Counting, MainInRange
  <2>2. ASSUME NEW k \in 1 .. Len(chTasks')
        PROVE  /\ chTasks'[k].level = lvl'
               /\ chTasks'[k].from <= chTasks'[k].to /\ chTasks'[k].to <= Start'
               /\ chTasks'[k].to <= Len(Level)'
    <3>1. k + 1 \in 1 .. Len(chTasks) BY <1>1
    <3>2. chTasks'[k] = chTasks[k + 1] BY <1>1
    <3>3. QED BY <3>1, <3>2 DEF IInv, TasksInRange, Start, Level
  <2>3. /\ chTasks[1].level = lvl
        /\ chTasks[1].from <= chTasks[1].to /\ chTasks[1].to <= Len(Level)
    BY <1>1 DEF IInv, TasksInRange
  <2>4. ASSUME NEW v \in Workers, wpc'[v] \in HoldsTask
        PROVE  /\ task'[v].level \in 1 .. Len(cs.levels)
               /\ task'[v].from <= task'[v].to
               /\ task'[v].to <= Len(cs.levels[task'[v].level])
               /\ wpc'[v] # "running" => task'[v].from < task'[v].to
    <3>1. CASE v = w
      <4>1. task'[v] = chTasks[1] /\ wpc'[v] = "running"
        BY <1>1, <3>1 DEF IInv, TypeOK
      <4>2. QED BY <2>1, <2>3, <4>1 DEF Level
    <3>2. CASE v # w
      <4>1. task'[v] = task[v] /\ wpc'[v] = wpc[v] BY <3>2 DEF IInv, TypeOK
      <4>2. QED BY <2>4, <4>1 DEF IInv, TasksInRange
    <3>3. QED BY <3>1, <3>2
  <2>5. QED BY <2>2, <2>4 DEF TasksInRange
<1>7. QED BY <1>2, <1>3, <1>5, <1>6 DEF IInv

LEMMA ExitKeeps ==
  ASSUME IInv, NEW w \in Workers, Exit(w)
  PROVE  IInv'
<1> USE DEF Exit, mainVars, closed
<1>1. TypeOK' BY DEF IInv, TypeOK, Tasks
<1>2. MainInRange' /\ CutInvariant'
  BY DEF IInv, MainInRange, CutInvariant, Start, Level
<1>3. Count(HoldsTask)' = Count(HoldsTask)
  <2>1. "exited" \in States BY DEF States
  <2>2. \A S : Count(S)' = Count(S) + (IF "exited" \in S THEN 1 ELSE 0)
                                    - (IF "idle" \in S THEN 1 ELSE 0)
    BY <2>1, OneMoved DEF IInv
  <2>3. QED BY <2>2, CountTypes, NbTasksAssumption DEF HoldsTask
<1>4. Counting' BY <1>3 DEF IInv, Counting
<1>5. TasksInRange'
  <2>1. ASSUME NEW v \in Workers, wpc'[v] \in HoldsTask
        PROVE  wpc[v] = wpc'[v]
    BY <2>1 DEF IInv, TypeOK, HoldsTask
  <2>2. QED BY <2>1 DEF IInv, TasksInRange, Start, Level
<1>6. QED BY <1>1, <1>2, <1>4, <1>5 DEF IInv

LEMMA BeginKeeps ==
  ASSUME IInv, NEW w \in Workers, Begin(w)
  PROVE  IInv'
<1> USE DEF Begin, mainVars, closed
<1>1. TypeOK' BY DEF IInv, TypeOK, Tasks
<1>2. MainInRange' /\ CutInvariant'
  BY DEF IInv, MainInRange, CutInvariant, Start, Level
<1>3. /\ Count(HoldsTask)' = Count(HoldsTask) /\ Count(Free)' = Count(Free)
      /\ Count(SentError)' = Count(SentError)
  <2>1. "busy" \in States BY DEF States
  <2>2. \A S : Count(S)' = Count(S) + (IF "busy" \in S THEN 1 ELSE 0)
                                    - (IF "running" \in S THEN 1 ELSE 0)
    BY <2>1, OneMoved DEF IInv
  <2>3. /\ Count(HoldsTask) \in Nat /\ Count(Free) \in Nat /\ Count(SentError) \in Nat
    BY CountsAreNat
  <2>4. QED BY <2>2, <2>3 DEF HoldsTask, Free, SentError
<1>4. Counting' BY <1>3 DEF IInv, Counting
<1>5. TasksInRange'
  <2>1. ASSUME NEW v \in Workers, wpc'[v] \in HoldsTask
        PROVE  /\ task[v].level \in 1 .. Len(cs.levels)
               /\ task[v].from <= task[v].to
               /\ task[v].to <= Len(cs.levels[task[v].level])
               /\ wpc'[v] # "running" => task[v].from < task[v].to
    <3>1. CASE v = w BY <3>1 DEF IInv, TasksInRange, HoldsTask
    <3>2. CASE v # w
      <4>1. wpc'[v] = wpc[v] BY <3>2 DEF IInv, TypeOK
      <4>2. QED BY <2>1, <4>1 DEF IInv, TasksInRange
    <3>3. QED BY <3>1, <3>2
  <2>2. QED BY <2>1 DEF IInv, TasksInRange, Start, Level
<1>6. QED BY <1>1, <1>2, <1>4, <1>5 DEF IInv

LEMMA FinishKeeps ==
  ASSUME IInv, NEW w \in Workers, Finish(w)
  PROVE  IInv'
<1> USE DEF Finish, mainVars, closed
<1> DEFINE next == IF Current(w) \in failing THEN "reporting" ELSE "running"
<1>1. /\ Current(w) \in cs.instructions
      /\ task[w] \in Tasks /\ task[w].level \in 1 .. Len(cs.levels)
      /\ task[w].from < task[w].to /\ task[w].to <= Len(cs.levels[task[w].level])
  BY CurrentType DEF IInv, TypeOK, TasksInRange, HoldsTask
<1>2. wpc' = [wpc EXCEPT ![w] = next] /\ next \in States /\ next \in HoldsTask
  BY DEF States, HoldsTask
<1>3. task' = IF next = "reporting" THEN task ELSE [task EXCEPT ![w].from = @ + 1]
  OBVIOUS
<1>4. [task[w] EXCEPT !.from = @ + 1] \in Tasks BY <1>1 DEF Tasks
<1> HIDE DEF next
<1>5. TypeOK'
  <2>1. task' \in [Workers -> Tasks] BY <1>3, <1>4 DEF IInv, TypeOK
  <2>2. solved' \subseteq cs.wires BY DEF IInv, TypeOK
  <2>3. wpc' \in [Workers -> States] BY <1>2 DEF IInv, TypeOK, States
  <2>4. QED BY <1>1, <2>1, <2>2, <2>3 DEF IInv, TypeOK, States, Tasks
<1>6. MainInRange' /\ CutInvariant'
  BY DEF IInv, MainInRange, CutInvariant, Start, Level
<1>7. Counting'
  <2>1. \A S : Count(S)' = Count(S) + (IF next \in S THEN 1 ELSE 0)
                                    - (IF "busy" \in S THEN 1 ELSE 0)
    <3>1. CASE next = "reporting"
      <4>1. wpc' = [wpc EXCEPT ![w] = "reporting"] BY <1>2, <3>1
      <4>2. "reporting" \in States BY DEF States
      <4>3. TypeOK BY DEF IInv
      <4> HIDE DEF Finish
      <4>4. \A S : Count(S)' = Count(S) + (IF "reporting" \in S THEN 1 ELSE 0)
                                        - (IF wpc[w] \in S THEN 1 ELSE 0)
        BY <4>1, <4>2, <4>3, OneMoved
      <4>5. wpc[w] = "busy" BY DEF Finish
      <4>6. QED BY <3>1, <4>4, <4>5
    <3>2. CASE next = "running"
      <4>1. wpc' = [wpc EXCEPT ![w] = "running"] BY <1>2, <3>2
      <4>2. "running" \in States BY DEF States
      <4>3. TypeOK BY DEF IInv
      <4> HIDE DEF Finish
      <4>4. \A S : Count(S)' = Count(S) + (IF "running" \in S THEN 1 ELSE 0)
                                        - (IF wpc[w] \in S THEN 1 ELSE 0)
        BY <4>1, <4>2, <4>3, OneMoved
      <4>5. wpc[w] = "busy" BY DEF Finish
      <4>6. QED BY <3>2, <4>4, <4>5
    <3>3. QED BY <3>1, <3>2 DEF next
  <2>2. next \notin Free /\ next \notin SentError
    BY <1>2 DEF next, Free, SentError
  <2>3. /\ Count(HoldsTask)' = Count(HoldsTask) /\ Count(Free)' = Count(Free)
        /\ Count(SentError)' = Count(SentError)
    BY <1>2, <2>1, <2>2, CountTypes, NbTasksAssumption DEF HoldsTask, Free, SentError
  <2>4. QED BY <2>3 DEF IInv, Counting
<1>8. TasksInRange'
  <2>1. ASSUME NEW v \in Workers, wpc'[v] \in HoldsTask
        PROVE  /\ task'[v].level \in 1 .. Len(cs.levels)
               /\ task'[v].from <= task'[v].to
               /\ task'[v].to <= Len(cs.levels[task'[v].level])
               /\ wpc'[v] # "running" => task'[v].from < task'[v].to
    <3>1. CASE v = w /\ next = "reporting" BY <1>1, <1>3, <3>1 DEF Tasks
    <3>2. CASE v = w /\ next # "reporting"
      <4>1. task'[v] = [task[w] EXCEPT !.from = @ + 1] BY <1>3, <3>2 DEF IInv, TypeOK
      <4>2. /\ task'[v].from = task[w].from + 1
            /\ task'[v].to = task[w].to /\ task'[v].level = task[w].level
        BY <1>1, <4>1 DEF Tasks
      <4>3. wpc'[v] = "running" BY <1>2, <3>2 DEF next, IInv, TypeOK
      <4>4. task[w].from \in Nat /\ task[w].to \in Nat BY <1>1 DEF Tasks
      <4>5. QED BY <1>1, <4>2, <4>3, <4>4
    <3>3. CASE v # w
      <4>1. task'[v] = task[v] /\ wpc'[v] = wpc[v]
        BY <1>2, <1>3, <3>3 DEF IInv, TypeOK
      <4>2. QED BY <2>1, <4>1 DEF IInv, TasksInRange
    <3>4. QED BY <3>1, <3>2, <3>3
  <2>2. QED BY <2>1 DEF IInv, TasksInRange, Start, Level
<1>9. QED BY <1>5, <1>6, <1>7, <1>8 DEF IInv

LEMMA ReportErrorKeeps ==
  ASSUME IInv, NEW w \in Workers, ReportError(w)
  PROVE  IInv'
<1> USE DEF ReportError, mainVars, closed
<1>1. /\ chError' \in Seq(cs.instructions)
      /\ Len(chError') = Len(chError) + 1 /\ Len(chError) \in Nat
  <2>1. Current(w) \in cs.instructions BY CurrentType
  <2>2. QED BY <2>1, AppendProperties, LenProperties DEF IInv, TypeOK
<1>2. TypeOK' BY <1>1 DEF IInv, TypeOK, Tasks
<1>3. MainInRange' /\ CutInvariant'
  BY DEF IInv, MainInRange, CutInvariant, Start, Level
<1>4. /\ Count(HoldsTask)' = Count(HoldsTask) /\ Count(Free)' = Count(Free)
      /\ Count(SentError)' = Count(SentError) + 1
  <2>1. "reported" \in States BY DEF States
  <2>2. \A S : Count(S)' = Count(S) + (IF "reported" \in S THEN 1 ELSE 0)
                                    - (IF "reporting" \in S THEN 1 ELSE 0)
    BY <2>1, OneMoved DEF IInv
  <2>3. /\ Count(HoldsTask) \in Nat /\ Count(Free) \in Nat /\ Count(SentError) \in Nat
    BY CountsAreNat
  <2>4. QED BY <2>2, <2>3 DEF HoldsTask, Free, SentError
<1>5. Counting'
  <2>1. w \in InState(HoldsTask) BY DEF InState, HoldsTask
  <2>2. Count(HoldsTask) # 0 BY <2>1, CountOfOne
  <2>3. main \in {"push", "wait"}
    BY <2>2, CountsAreNat, LocalTypes DEF IInv, Counting
  <2>4. QED BY <1>1, <1>4, <2>3 DEF IInv, Counting
<1>6. TasksInRange'
  <2>1. ASSUME NEW v \in Workers, wpc'[v] \in HoldsTask
        PROVE  wpc[v] \in HoldsTask /\ (wpc'[v] # "running" => wpc[v] # "running")
    BY <2>1 DEF IInv, TypeOK, HoldsTask
  <2>2. QED BY <2>1 DEF IInv, TasksInRange, Start, Level
<1>7. QED BY <1>2, <1>3, <1>5, <1>6 DEF IInv

LEMMA DieKeeps ==
  ASSUME IInv, NEW w \in Workers, Die(w)
  PROVE  IInv'
<1> USE DEF Die, mainVars, closed
<1>1. /\ Count(HoldsTask)' = Count(HoldsTask) - 1 /\ Count(Free)' = Count(Free)
      /\ Count(SentError)' = Count(SentError)
  <2>1. "exited" \in States BY DEF States
  <2>2. \A S : Count(S)' = Count(S) + (IF "exited" \in S THEN 1 ELSE 0)
                                    - (IF "reported" \in S THEN 1 ELSE 0)
    BY <2>1, OneMoved DEF IInv
  <2>3. /\ Count(HoldsTask) \in Nat /\ Count(Free) \in Nat /\ Count(SentError) \in Nat
    BY CountsAreNat
  <2>4. QED BY <2>2, <2>3 DEF HoldsTask, Free, SentError
<1>2. wg' = Len(chTasks) + Count(HoldsTask)'
  BY <1>1, CountsAreNat, LocalTypes DEF IInv, Counting
<1>3. wg' \in Nat /\ wg > 0
  <2>1. Count(HoldsTask)' \in 0 .. NbTasks
    BY CountType DEF Count, InState
  <2>2. QED BY <1>2, <2>1, NbTasksAssumption, LenProperties DEF IInv, TypeOK
<1>4. TypeOK' BY <1>3 DEF IInv, TypeOK, Tasks
<1>5. MainInRange' /\ CutInvariant'
  BY DEF IInv, MainInRange, CutInvariant, Start, Level
<1>6. Counting' BY <1>1, <1>2, <1>3 DEF IInv, Counting
<1>7. TasksInRange'
  <2>1. ASSUME NEW v \in Workers, wpc'[v] \in HoldsTask
        PROVE  wpc[v] = wpc'[v]
    BY <2>1 DEF IInv, TypeOK, HoldsTask
  <2>2. QED BY <2>1 DEF IInv, TasksInRange, Start, Level
<1>8. QED BY <1>4, <1>5, <1>6, <1>7 DEF IInv

LEMMA TaskDoneKeeps ==
  ASSUME IInv, NEW w \in Workers, TaskDone(w)
  PROVE  IInv'
<1> USE DEF TaskDone, mainVars, closed
<1>1. /\ Count(HoldsTask)' = Count(HoldsTask) - 1 /\ Count(Free)' = Count(Free) + 1
      /\ Count(SentError)' = Count(SentError)
  <2> HIDE DEF TaskDone
  <2>1. "idle" \in States BY DEF States
  <2>2. \A S : Count(S)' = Count(S) + (IF "idle" \in S THEN 1 ELSE 0)
                                    - (IF "running" \in S THEN 1 ELSE 0)
    <3>1. wpc[w] = "running" /\ wpc' = [wpc EXCEPT ![w] = "idle"] BY DEF TaskDone
    <3>2. QED BY <2>1, <3>1, OneMoved DEF IInv
  <2>3. /\ Count(HoldsTask) \in Nat /\ Count(Free) \in Nat /\ Count(SentError) \in Nat
    BY CountsAreNat
  <2>4. QED BY <2>2, <2>3 DEF HoldsTask, Free, SentError
<1>2. wg' = Len(chTasks) + Count(HoldsTask)'
  BY <1>1, CountsAreNat, LocalTypes DEF IInv, Counting
<1>3. wg' \in Nat /\ wg > 0
  <2>1. Count(HoldsTask)' \in 0 .. NbTasks
    BY CountType DEF Count, InState
  <2>2. QED BY <1>2, <2>1, NbTasksAssumption, LenProperties DEF IInv, TypeOK
<1>4. TypeOK' BY <1>3 DEF IInv, TypeOK, Tasks, NoTask
<1>5. MainInRange' /\ CutInvariant'
  BY DEF IInv, MainInRange, CutInvariant, Start, Level
<1>6. Counting'
  <2>1. main' \in {"push", "wait"} =>
          Len(chTasks') + split'.nbTasks - split'.i <= Count(Free)'
    <3>1. main' = main /\ split' = split /\ chTasks' = chTasks OBVIOUS
    <3>2. /\ split.nbTasks \in Nat /\ split.i \in Nat /\ Count(Free) \in Nat
          /\ Len(chTasks) \in Nat
      BY LocalTypes, CountsAreNat DEF IInv
    <3>3. main \in {"push", "wait"} =>
            Len(chTasks) + split.nbTasks - split.i <= Count(Free)
      BY DEF IInv, Counting
    <3>4. Count(Free)' = Count(Free) + 1 BY <1>1
    <3>5. QED BY <3>1, <3>2, <3>3, <3>4
  <2>2. QED BY <1>1, <1>2, <1>3, <2>1 DEF IInv, Counting
<1>7. TasksInRange'
  <2>1. ASSUME NEW v \in Workers, wpc'[v] \in HoldsTask
        PROVE  wpc[v] = wpc'[v] /\ task[v] = task'[v]
    BY <2>1 DEF IInv, TypeOK, HoldsTask
  <2>2. QED BY <2>1 DEF IInv, TasksInRange, Start, Level
<1>8. QED BY <1>4, <1>5, <1>6, <1>7 DEF IInv

-----------------------------------------------------------------------------
(* The theorems.                                                              *)

LEMMA NextKeepsIInv == IInv /\ [Next]_vars => IInv'
<1> SUFFICES ASSUME IInv, [Next]_vars PROVE IInv' OBVIOUS
<1>1. CASE Main
  BY <1>1, RunSequentiallyKeeps, ProcessHereKeeps, ReturnErrorKeeps,
     EndSequentialKeeps, CutLevelKeeps, PushKeeps, AllPushedKeeps, LevelDoneKeeps,
     CheckAllSolvedKeeps, CloseChannelsKeeps DEF Main
<1>2. ASSUME NEW w \in Workers, Worker(w) PROVE IInv'
  BY <1>2, ReceiveTaskKeeps, ExitKeeps, BeginKeeps, FinishKeeps, ReportErrorKeeps,
     DieKeeps, TaskDoneKeeps DEF Worker
<1>3. CASE UNCHANGED vars
  <2> USE <1>3 DEF vars, mainVars, workerVars, closed
  <2>1. TypeOK' BY DEF IInv, TypeOK, Tasks
  <2>2. MainInRange' /\ CutInvariant'
    BY DEF IInv, MainInRange, CutInvariant, Start, Level
  <2>3. TasksInRange' BY DEF IInv, TasksInRange, Start, Level
  <2>4. Counting' BY NothingMoved DEF IInv, Counting
  <2>5. QED BY <2>1, <2>2, <2>3, <2>4 DEF IInv
<1>4. QED BY <1>1, <1>2, <1>3 DEF Next, Terminated

THEOREM Invariance == Spec => []IInv
BY InitIInv, NextKeepsIInv, PTL DEF Spec

\* The state of a run stays within its types, whatever the system, the witness, the
\* size of the pool and the schedule: in particular the WaitGroup never goes
\* negative (it would panic) and no task names an instruction that is not there.
THEOREM TypeCorrect == Spec => []TypeOK
<1>1. IInv => TypeOK BY DEF IInv
<1>2. QED BY Invariance, <1>1, PTL

\* What TasksCoverLevel says of the tasks that wait in the channel.
Consecutive ==
  \A k \in 1 .. Len(chTasks) :
    chTasks[k].to = IF k = Len(chTasks) THEN Start ELSE chTasks[k + 1].from

\* Only Push and ReceiveTask change the channel, only Push, while there are tasks in
\* it, the place where the next task begins.
LEMMA NextKeepsConsecutive ==
  ASSUME IInv, Consecutive, [Next]_vars
  PROVE  Consecutive'
<1>1. chTasks \in Seq(Tasks) /\ Len(chTasks) \in Nat
  BY LenProperties DEF IInv, TypeOK
<1>2. CASE Push
  <2> DEFINE t == [level |-> lvl, from |-> Start, to |-> End]
  <2>1. Start' = End BY <1>2, SplitAfterPush
  <2>2. t \in Tasks /\ t.from = Start /\ t.to = End
    <3>1. Start \in Nat /\ End \in Nat BY <1>2, NextTask DEF IInv, Push
    <3>2. lvl \in Nat BY <1>2, CurrentLevel DEF IInv, Push
    <3>3. QED BY <3>1, <3>2 DEF Tasks
  <2>3. chTasks' = Append(chTasks, t) BY <1>2 DEF Push
  <2> HIDE DEF t
  <2>4. /\ Len(chTasks') = Len(chTasks) + 1
        /\ \A k \in 1 .. Len(chTasks) : chTasks'[k] = chTasks[k]
        /\ chTasks'[Len(chTasks) + 1] = t
    BY <1>1, <2>2, <2>3, AppendProperties
  <2>5. ASSUME NEW k \in 1 .. Len(chTasks')
        PROVE  chTasks'[k].to = IF k = Len(chTasks') THEN Start' ELSE chTasks'[k + 1].from
    <3>1. CASE k = Len(chTasks) + 1 BY <2>1, <2>2, <2>4, <3>1
    <3>2. CASE k = Len(chTasks) /\ k > 0
      BY <1>1, <2>2, <2>4, <3>2 DEF Consecutive
    <3>3. CASE k \in 1 .. Len(chTasks) - 1
      <4>1. k \in 1 .. Len(chTasks) /\ k + 1 \in 1 .. Len(chTasks) /\ k # Len(chTasks)
        BY <1>1, <3>3
      <4>2. k # Len(chTasks') BY <1>1, <2>4, <3>3
      <4>3. QED BY <2>4, <4>1, <4>2 DEF Consecutive
    <3>4. QED BY <1>1, <2>4, <3>1, <3>2, <3>3
  <2>6. QED BY <2>5 DEF Consecutive
<1>3. ASSUME NEW w \in Workers, ReceiveTask(w) PROVE Consecutive'
  <2>1. /\ Len(chTasks') = Len(chTasks) - 1
        /\ \A k \in 1 .. Len(chTasks') : chTasks'[k] = chTasks[k + 1]
    BY <1>1, <1>3, HeadTailProperties, EmptySeq DEF ReceiveTask
  <2>2. Start' = Start BY <1>3 DEF ReceiveTask, mainVars, Start
  <2>3. ASSUME NEW k \in 1 .. Len(chTasks')
        PROVE  chTasks'[k].to = IF k = Len(chTasks') THEN Start' ELSE chTasks'[k + 1].from
    <3>1. k + 1 \in 1 .. Len(chTasks) /\ (k = Len(chTasks') <=> k + 1 = Len(chTasks))
      BY <1>1, <2>1
    <3>2. k # Len(chTasks') => k + 1 \in 1 .. Len(chTasks') BY <1>1, <2>1
    <3>3. QED BY <2>1, <2>2, <3>1, <3>2 DEF Consecutive
  <2>4. QED BY <2>3 DEF Consecutive
<1>4. ASSUME main \notin {"push", "wait"}, UNCHANGED chTasks PROVE Consecutive'
  <2>1. Len(chTasks) = 0
    BY <1>1, <1>4, CountTypes, NbTasksAssumption DEF IInv, Counting
  <2>2. Len(chTasks') = 0 BY <1>4, <2>1
  <2>3. QED BY <2>2 DEF Consecutive
<1>5. ASSUME UNCHANGED <<chTasks, split>> PROVE Consecutive'
  BY <1>5 DEF Consecutive, Start
<1>6. CASE RunSequentially \/ ProcessHere \/ CutLevel
  BY <1>4, <1>6 DEF RunSequentially, ProcessHere, CutLevel
<1>7. CASE ReturnError \/ EndSequential \/ AllPushed \/ LevelDone \/ CheckAllSolved
           \/ CloseChannels
  BY <1>5, <1>7
  DEF ReturnError, EndSequential, AllPushed, LevelDone, CheckAllSolved, CloseChannels
<1>8. ASSUME NEW w \in Workers,
             Exit(w) \/ Begin(w) \/ Finish(w) \/ ReportError(w) \/ Die(w) \/ TaskDone(w)
      PROVE  Consecutive'
  BY <1>5, <1>8 DEF Exit, Begin, Finish, ReportError, Die, TaskDone, mainVars
<1>9. CASE UNCHANGED vars BY <1>5, <1>9 DEF vars, mainVars
<1>10. QED BY <1>2, <1>3, <1>6, <1>7, <1>8, <1>9 DEF Next, Main, Worker, Terminated

\* The tasks of a level follow one another without gap or overlap, none is empty, and
\* together they are the whole level.
THEOREM LevelsAreCovered == Spec => []TasksCoverLevel
<1>1. ASSUME IInv, Consecutive PROVE TasksCoverLevel
  <2>1. ASSUME main = "push", split.i < split.nbTasks
        PROVE  Start < End /\ End <= Len(Level)
    BY <1>1, <2>1, NextTask DEF IInv
  <2>2. ASSUME main = "wait" PROVE Start = Len(Level)
    <3>1. /\ split.nbTasks \in Nat /\ split.per \in Nat /\ split.i \in Nat
          /\ split.extra \in Nat /\ split.offset \in Nat
      BY <1>1 DEF IInv, TypeOK
    <3>2. split.nbTasks - split.i = 0 /\ split.extra = 0
      BY <1>1, <2>2, <3>1 DEF IInv, CutInvariant
    <3>3. Start \in Nat BY <3>1, NextMultiple DEF Start
    <3>4. (split.nbTasks - split.i) * split.per = 0 BY <3>1, <3>2
    <3>5. Start + (split.nbTasks - split.i) * split.per + split.extra = Len(Level)
      BY <1>1, <2>2 DEF IInv, CutInvariant
    <3>6. QED BY <3>2, <3>3, <3>4, <3>5
  <2>3. ASSUME NEW k \in DOMAIN chTasks
        PROVE  /\ chTasks[k].level = lvl
               /\ chTasks[k].to = IF k = Len(chTasks) THEN Start ELSE chTasks[k + 1].from
    <3>1. k \in 1 .. Len(chTasks) BY <1>1, LenProperties DEF IInv, TypeOK
    <3>2. QED BY <1>1, <3>1 DEF IInv, TasksInRange, Consecutive
  <2>4. QED BY <2>1, <2>2, <2>3 DEF TasksCoverLevel
<1>2. Init => Consecutive
  <2>1. Len(<<>>) = 0 OBVIOUS
  <2>2. QED BY <2>1 DEF Init, Consecutive
<1>3. IInv /\ Consecutive /\ [Next]_vars => Consecutive' BY NextKeepsConsecutive
<1>4. Spec => []Consecutive BY Invariance, <1>2, <1>3, PTL DEF Spec
<1>5. QED BY Invariance, <1>1, <1>4, PTL

\* Pushing never blocks for good: although a worker that failed is gone, an idle
\* one is left for every task of the level that nobody has taken yet.
THEOREM EnoughWorkers == Spec => []WorkersSuffice
<1>1. IInv => WorkersSuffice
  BY CountTypes, NbTasksAssumption, LenProperties
  DEF IInv, TypeOK, Counting, WorkersSuffice, Count, Free
<1>2. QED BY Invariance, <1>1, PTL

\* The error of a worker is never sent on a closed channel, and never waits for
\* room in chError: each worker sends one error in its life.
THEOREM ErrorsCanBeSent == Spec => []ErrorChannelOpen
<1>1. ASSUME IInv, NEW w \in InState({"reporting"})
      PROVE  ~chErrorClosed /\ Len(chError) < NbTasks
  <2>1. w \in InState(HoldsTask) /\ w \notin InState(SentError)
    BY <1>1 DEF InState, HoldsTask, SentError
  <2>2. Count(HoldsTask) # 0 BY <2>1, CountOfOne
  <2>3. main \in {"push", "wait"}
    BY <1>1, <2>2, CountsAreNat, LocalTypes DEF IInv, Counting
  <2>4. Count(SentError) < NbTasks
    <3>1. InState(SentError) \in SUBSET Workers BY DEF InState
    <3>2. InState(SentError) # Workers BY <1>1, <2>1 DEF InState
    <3>3. Cardinality(InState(SentError)) # Cardinality(Workers)
      BY <3>1, <3>2, PoolIsFinite, FS_Subset
    <3>4. QED BY <3>3, CountTypes, PoolIsFinite, NbTasksAssumption DEF Count
  <2>5. QED BY <1>1, <2>3, <2>4 DEF IInv, Counting
<1>2. IInv => ErrorChannelOpen BY <1>1 DEF ErrorChannelOpen
<1>3. QED BY Invariance, <1>2, PTL

-----------------------------------------------------------------------------
(* The worker pool of Solver is free of data races on every system that keeps *)
(* the compiler's promises (SoundSystem): two chunks of a level never overlap, *)
(* an instruction is evaluated once, and what a level's instructions set is    *)
(* neither set nor read by another instruction of the level.                   *)

\* Two tasks of one level have no instruction in common.
Apart(s, t) == s.to <= t.from \/ t.to <= s.from

\* Whoever holds a task holds part of what was cut from the current level, and
\* nobody else does.
Exclusive ==
  /\ \A w \in Workers :
       wpc[w] \in HoldsTask => task[w].level = lvl /\ task[w].to <= Start
  /\ \A v, w \in Workers :
       v # w /\ wpc[v] \in HoldsTask /\ wpc[w] \in HoldsTask => Apart(task[v], task[w])
  /\ \A k, n \in 1 .. Len(chTasks) : k # n => Apart(chTasks[k], chTasks[n])
  /\ \A w \in Workers : \A k \in 1 .. Len(chTasks) :
       wpc[w] \in HoldsTask => Apart(task[w], chTasks[k])

\* The k-th instruction of level l is still to be evaluated.
Covers(t, k) == t.from < k /\ k <= t.to

AheadOfCaller(l, k) ==
  \/ l > lvl
  \/ l = lvl /\ main = "level"
  \/ l = lvl /\ main = "seq" /\ k > split.i
  \/ l = lvl /\ main = "push" /\ k > Start

Ahead(l, k) ==
  \/ AheadOfCaller(l, k)
  \/ l = lvl /\ \E j \in 1 .. Len(chTasks) : Covers(chTasks[j], k)
  \/ l = lvl /\ \E w \in Workers : wpc[w] \in {"running", "busy"} /\ Covers(task[w], k)

Unprocessed ==
  \A l \in 1 .. Len(cs.levels) : \A k \in 1 .. Len(cs.levels[l]) :
    Ahead(l, k) => cs.levels[l][k] \notin processed

\* Only instructions give wires their values.
SolvedByProcessed ==
  solved \subseteq cs.inputs \union UNION {cs.writes[i] : i \in processed}

RInv == IInv /\ Exclusive /\ Unprocessed /\ SolvedByProcessed

-----------------------------------------------------------------------------
(* Facts about systems and about the pool.                                    *)

LEMMA LevelDomains ==
  ASSUME TypeOK
  PROVE  /\ DOMAIN cs.levels = 1 .. Len(cs.levels)
         /\ \A l \in 1 .. Len(cs.levels) : DOMAIN cs.levels[l] = 1 .. Len(cs.levels[l])
<1>1. cs.levels \in Seq(Seq(cs.instructions))
  BY SystemsAssumption DEF TypeOK, WellTyped
<1>2. \A l \in 1 .. Len(cs.levels) : cs.levels[l] \in Seq(cs.instructions)
  BY <1>1, ElementOfSeq
<1>3. QED BY <1>1, <1>2, LenProperties

LEMMA OnePlace ==
  ASSUME TypeOK
  PROVE  \A l, m \in 1 .. Len(cs.levels) :
           \A k \in 1 .. Len(cs.levels[l]) : \A n \in 1 .. Len(cs.levels[m]) :
             cs.levels[l][k] = cs.levels[m][n] => l = m /\ k = n
<1>1. EachOnce(cs) BY SystemsAssumption DEF TypeOK, SoundSystem
<1>2. ASSUME NEW l \in 1 .. Len(cs.levels), NEW m \in 1 .. Len(cs.levels),
             NEW k \in 1 .. Len(cs.levels[l]), NEW n \in 1 .. Len(cs.levels[m]),
             cs.levels[l][k] = cs.levels[m][n]
      PROVE  l = m /\ k = n
  <2>1. /\ l \in DOMAIN cs.levels /\ m \in DOMAIN cs.levels
        /\ k \in DOMAIN cs.levels[l] /\ n \in DOMAIN cs.levels[m]
    BY LevelDomains
  <2>2. QED BY <1>1, <1>2, <2>1, Zenon DEF EachOnce
<1>3. QED BY <1>2

\* While the WaitGroup is at zero nobody holds a task.
LEMMA Quiet ==
  ASSUME IInv, wg = 0
  PROVE  Len(chTasks) = 0 /\ \A w \in Workers : wpc[w] \notin HoldsTask
<1>1. Len(chTasks) = 0 /\ Count(HoldsTask) = 0
  BY CountTypes, NbTasksAssumption, LenProperties DEF IInv, TypeOK, Counting
<1>2. InState(HoldsTask) = {}
  BY <1>1, CountType, FS_EmptySet DEF Count, InState
<1>3. QED BY <1>1, <1>2 DEF InState

\* A task in the channel or in a worker's hands belongs to the current level.
LEMMA Active ==
  ASSUME IInv, Len(chTasks) # 0 \/ \E w \in Workers : wpc[w] \in HoldsTask
  PROVE  main \in {"push", "wait"} /\ lvl \in 1 .. Len(cs.levels) /\ Len(Level) \in Nat
<1>1. wg # 0 BY Quiet
<1>2. main \in {"push", "wait"} BY <1>1 DEF IInv, Counting
<1>3. lvl \in 1 .. Len(cs.levels) BY <1>2, LevelTypes DEF IInv, TypeOK, MainInRange
<1>4. QED BY <1>2, <1>3, LevelTypes DEF IInv, Level

LEMMA QuietStep ==
  ASSUME IInv, wg = 0, UNCHANGED <<wpc, chTasks>>
  PROVE  /\ Exclusive'
         /\ \A l, k : Ahead(l, k)' => AheadOfCaller(l, k)'
<1>1. Len(chTasks') = 0 /\ \A w \in Workers : wpc'[w] \notin HoldsTask BY Quiet
<1>2. QED BY <1>1 DEF Exclusive, Ahead, HoldsTask

LEMMA StartType ==
  ASSUME TypeOK
  PROVE  Start \in Nat
<1>1. split.i \in Nat /\ split.per \in Nat /\ split.offset \in Nat BY DEF TypeOK
<1>2. QED BY <1>1, NextMultiple DEF Start

\* A step that evaluates nothing keeps what is said of evaluations, provided it puts
\* nothing back into the future.
LEMMA NothingEvaluated ==
  ASSUME RInv, UNCHANGED <<cs, processed, solved>>,
         \A l \in 1 .. Len(cs.levels) : \A k \in 1 .. Len(cs.levels[l]) :
           Ahead(l, k)' => Ahead(l, k)
  PROVE  Unprocessed' /\ SolvedByProcessed'
BY DEF RInv, Unprocessed, SolvedByProcessed

\* An evaluation keeps it too when its instruction is no longer ahead.
LEMMA OneEvaluated ==
  ASSUME RInv, UNCHANGED <<cs, failing>>,
         NEW a \in 1 .. Len(cs.levels), NEW p \in 1 .. Len(cs.levels[a]),
         processed' = processed \union {cs.levels[a][p]},
         \E S \in SUBSET cs.wires : Sets(cs.levels[a][p], S) /\ solved' = solved \union S,
         \A l \in 1 .. Len(cs.levels) : \A k \in 1 .. Len(cs.levels[l]) :
           Ahead(l, k)' => Ahead(l, k) /\ ~(l = a /\ k = p)
  PROVE  Unprocessed' /\ SolvedByProcessed'
<1>1. Unprocessed'
  <2>1. ASSUME NEW l \in 1 .. Len(cs.levels), NEW k \in 1 .. Len(cs.levels[l]),
               Ahead(l, k)'
        PROVE  cs.levels[l][k] \notin processed'
    <3>1. Ahead(l, k) /\ ~(l = a /\ k = p) BY <2>1
    <3>2. cs.levels[l][k] \notin processed BY <3>1 DEF RInv, Unprocessed
    <3>3. cs.levels[l][k] # cs.levels[a][p] BY <3>1, OnePlace DEF RInv, IInv
    <3>4. QED BY <3>2, <3>3
  <2>2. QED BY <2>1 DEF Unprocessed
<1>2. SolvedByProcessed'
  <2>1. PICK S \in SUBSET cs.wires :
          Sets(cs.levels[a][p], S) /\ solved' = solved \union S
    OBVIOUS
  <2>2. S \subseteq cs.writes[cs.levels[a][p]] BY <2>1 DEF Sets
  <2>3. QED BY <2>1, <2>2 DEF RInv, SolvedByProcessed
<1>3. QED BY <1>1, <1>2

-----------------------------------------------------------------------------
(* The steps.                                                                 *)

LEMMA InitRInv == Init => RInv
<1> SUFFICES ASSUME Init PROVE RInv OBVIOUS
<1>1. IInv BY InitIInv
<1>2. Exclusive BY DEF Init, Exclusive, HoldsTask
<1>3. Unprocessed /\ SolvedByProcessed BY DEF Init, Unprocessed, SolvedByProcessed
<1>4. QED BY <1>1, <1>2, <1>3 DEF RInv

LEMMA CallerKeeps ==
  ASSUME RInv, IInv', Main, ~Push, ~AllPushed
  PROVE  RInv'
<1>1. wg = 0 /\ UNCHANGED <<cs, failing, wpc, chTasks>>
  BY DEF RInv, IInv, Counting, Main, RunSequentially, ProcessHere, ReturnError,
         EndSequential, CutLevel, LevelDone, CheckAllSolved, CloseChannels,
         workerVars, TasksDone
<1>2. Exclusive' /\ \A l, k : Ahead(l, k)' => AheadOfCaller(l, k)'
  BY <1>1, QuietStep DEF RInv
<1>3. Unprocessed' /\ SolvedByProcessed'
  <2>1. CASE ProcessHere
    <3>1. lvl \in 1 .. Len(cs.levels) /\ split.i + 1 \in 1 .. Len(cs.levels[lvl])
      <4>1. lvl \in 1 .. Len(cs.levels)
        BY <2>1, LevelTypes DEF ProcessHere, RInv, IInv, TypeOK, MainInRange
      <4>2. split.i \in Nat /\ split.i < Len(Level)
        BY <2>1 DEF ProcessHere, RInv, IInv, TypeOK
      <4>3. Len(Level) \in Nat BY <4>1, LevelTypes DEF RInv, IInv, Level
      <4>4. QED BY <4>1, <4>2, <4>3 DEF Level
    <3>2. /\ processed' = processed \union {cs.levels[lvl][split.i + 1]}
          /\ \E S \in SUBSET cs.wires :
               Sets(cs.levels[lvl][split.i + 1], S) /\ solved' = solved \union S
      BY <2>1 DEF ProcessHere, Level
    <3>3. \A l \in 1 .. Len(cs.levels) : \A k \in 1 .. Len(cs.levels[l]) :
            Ahead(l, k)' => Ahead(l, k) /\ ~(l = lvl /\ k = split.i + 1)
      <4> SUFFICES ASSUME NEW l \in 1 .. Len(cs.levels),
                          NEW k \in 1 .. Len(cs.levels[l]), AheadOfCaller(l, k)'
                   PROVE  Ahead(l, k) /\ ~(l = lvl /\ k = split.i + 1)
        BY <1>2
      <4>1. CASE main' = "failed"
        BY <2>1, <3>1, <4>1 DEF ProcessHere, AheadOfCaller, Ahead
      <4>2. CASE main' = "seq" /\ split'.i = split.i + 1
        <5>1. main = "seq" /\ lvl' = lvl BY <2>1 DEF ProcessHere
        <5>2. l > lvl \/ (l = lvl /\ k > split.i + 1)
          BY <4>2, <5>1 DEF AheadOfCaller
        <5>3. split.i \in Nat /\ k \in Nat /\ lvl \in Nat /\ l \in Nat
          BY <3>1, LevelTypes DEF RInv, IInv, TypeOK
        <5>4. QED BY <5>1, <5>2, <5>3 DEF AheadOfCaller, Ahead
      <4>3. main' = "failed" \/ (main' = "seq" /\ split'.i = split.i + 1)
        BY <2>1 DEF ProcessHere, RInv, IInv, TypeOK
      <4>4. QED BY <4>1, <4>2, <4>3
    <3>4. QED BY <1>1, <3>1, <3>2, <3>3, OneEvaluated
  <2>2. CASE ~ProcessHere
    <3>1. UNCHANGED <<processed, solved>>
      BY <2>2 DEF Main, RunSequentially, ReturnError, EndSequential, CutLevel,
                  LevelDone, CheckAllSolved, CloseChannels
    <3>2. ASSUME NEW l \in 1 .. Len(cs.levels), NEW k \in 1 .. Len(cs.levels[l]),
                 AheadOfCaller(l, k)'
          PROVE  AheadOfCaller(l, k)
      <4>1. CASE RunSequentially BY <3>2, <4>1 DEF RunSequentially, AheadOfCaller
      <4>2. CASE ReturnError BY <3>2, <4>2 DEF ReturnError, AheadOfCaller
      <4>3. CASE EndSequential
        <5>1. l > lvl + 1 \/ l = lvl + 1 BY <3>2, <4>3 DEF EndSequential, AheadOfCaller
        <5>2. l \in Nat /\ lvl \in Nat BY <3>2, LevelTypes DEF RInv, IInv, TypeOK
        <5>3. QED BY <5>1, <5>2 DEF AheadOfCaller
      <4>4. CASE CutLevel BY <3>2, <4>4 DEF CutLevel, AheadOfCaller
      <4>5. CASE LevelDone
        <5>1. l > lvl \/ l > lvl + 1 \/ l = lvl + 1
          BY <3>2, <4>5 DEF LevelDone, AheadOfCaller
        <5>2. l \in Nat /\ lvl \in Nat BY <3>2, LevelTypes DEF RInv, IInv, TypeOK
        <5>3. QED BY <5>1, <5>2 DEF AheadOfCaller
      <4>6. CASE CheckAllSolved BY <3>2, <4>6 DEF CheckAllSolved, AheadOfCaller
      <4>7. CASE CloseChannels BY <3>2, <4>7 DEF CloseChannels, AheadOfCaller
      <4>8. QED BY <2>2, <4>1, <4>2, <4>3, <4>4, <4>5, <4>6, <4>7 DEF Main
    <3>3. QED BY <1>1, <1>2, <3>1, <3>2, NothingEvaluated DEF Ahead
  <2>3. QED BY <2>1, <2>2
<1>4. QED BY <1>2, <1>3 DEF RInv

LEMMA AllPushedKeepsRInv ==
  ASSUME RInv, IInv', AllPushed
  PROVE  RInv'
<1> USE DEF AllPushed, workerVars
<1>1. Exclusive' BY DEF RInv, Exclusive, Start
<1>2. \A l, k : Ahead(l, k)' => Ahead(l, k) BY DEF Ahead, AheadOfCaller, Covers
<1>3. Unprocessed' /\ SolvedByProcessed' BY <1>2, NothingEvaluated
<1>4. QED BY <1>1, <1>3 DEF RInv

LEMMA PushKeepsRInv ==
  ASSUME RInv, IInv', Push
  PROVE  RInv'
<1> DEFINE t == [level |-> lvl, from |-> Start, to |-> End]
<1>1. /\ UNCHANGED <<cs, processed, solved, main, lvl, wpc, task>>
      /\ main = "push" /\ split.i < split.nbTasks
      /\ chTasks' = Append(chTasks, t)
  BY DEF Push, workerVars
<1>2. Start \in Nat /\ End \in Nat /\ Start < End
  BY <1>1, NextTask DEF RInv, IInv
<1>3. Start' = End BY SplitAfterPush DEF RInv
<1>4. t \in Tasks /\ chTasks \in Seq(Tasks) /\ t.from = Start /\ t.to = End
  BY <1>2 DEF RInv, IInv, TypeOK, Tasks
<1> HIDE DEF t
<1>5. /\ Len(chTasks') = Len(chTasks) + 1
      /\ \A k \in 1 .. Len(chTasks) : chTasks'[k] = chTasks[k]
      /\ chTasks'[Len(chTasks) + 1] = t
      /\ Len(chTasks) \in Nat
      /\ \A k \in 1 .. Len(chTasks) : chTasks[k].to \in Nat /\ chTasks[k].to <= Start
  <2>1. \A k \in 1 .. Len(chTasks) : chTasks[k] \in Tasks BY <1>4, ElementOfSeq
  <2>2. QED BY <1>1, <1>4, <2>1, AppendProperties, LenProperties
            DEF RInv, IInv, TasksInRange, Tasks
<1>6. Exclusive'
  <2>1. ASSUME NEW w \in Workers, wpc'[w] \in HoldsTask
        PROVE  /\ task'[w].level = lvl' /\ task'[w].to <= Start'
               /\ \A k \in 1 .. Len(chTasks') : Apart(task'[w], chTasks'[k])
    <3>1. task[w].level = lvl /\ task[w].to <= Start /\ task[w].to \in Nat
      BY <1>1, <2>1 DEF RInv, Exclusive, IInv, TypeOK, Tasks
    <3>2. ASSUME NEW k \in 1 .. Len(chTasks') PROVE Apart(task'[w], chTasks'[k])
      <4>1. CASE k = Len(chTasks) + 1 BY <1>1, <1>4, <1>5, <3>1, <4>1 DEF Apart
      <4>2. CASE k \in 1 .. Len(chTasks)
        BY <1>1, <1>5, <2>1, <4>2 DEF RInv, Exclusive
      <4>3. QED BY <1>5, <3>2, <4>1, <4>2
    <3>3. QED BY <1>1, <1>2, <1>3, <3>1, <3>2
  <2>2. ASSUME NEW k \in 1 .. Len(chTasks'), NEW n \in 1 .. Len(chTasks'), k # n
        PROVE  Apart(chTasks'[k], chTasks'[n])
    <3>1. CASE k = Len(chTasks) + 1
      <4>1. n \in 1 .. Len(chTasks) BY <1>5, <2>2, <3>1
      <4>2. QED BY <1>4, <1>5, <3>1, <4>1 DEF Apart
    <3>2. CASE n = Len(chTasks) + 1
      <4>1. k \in 1 .. Len(chTasks) BY <1>5, <2>2, <3>2
      <4>2. QED BY <1>4, <1>5, <3>2, <4>1 DEF Apart
    <3>3. CASE k \in 1 .. Len(chTasks) /\ n \in 1 .. Len(chTasks)
      BY <1>5, <2>2, <3>3 DEF RInv, Exclusive
    <3>4. QED BY <1>5, <2>2, <3>1, <3>2, <3>3
  <2>3. ASSUME NEW v \in Workers, NEW w \in Workers, v # w,
               wpc'[v] \in HoldsTask, wpc'[w] \in HoldsTask
        PROVE  Apart(task'[v], task'[w])
    BY <1>1, <2>3 DEF RInv, Exclusive
  <2>4. QED BY <2>1, <2>2, <2>3 DEF Exclusive
<1>7. ASSUME NEW l \in 1 .. Len(cs.levels), NEW k \in 1 .. Len(cs.levels[l]),
             Ahead(l, k)'
      PROVE  Ahead(l, k)
  <2>1. k \in Nat BY LevelTypes DEF RInv, IInv
  <2>2. CASE AheadOfCaller(l, k)'
    BY <1>1, <1>2, <1>3, <2>1, <2>2 DEF AheadOfCaller, Ahead
  <2>3. ASSUME l = lvl, NEW j \in 1 .. Len(chTasks'), Covers(chTasks'[j], k)
        PROVE  Ahead(l, k)
    <3>1. CASE j = Len(chTasks) + 1
      BY <1>1, <1>4, <1>5, <2>3, <3>1 DEF Covers, Ahead, AheadOfCaller
    <3>2. CASE j \in 1 .. Len(chTasks)
      BY <1>5, <2>3, <3>2 DEF Covers, Ahead
    <3>3. QED BY <1>5, <2>3, <3>1, <3>2
  <2>4. ASSUME l = lvl, NEW w \in Workers, wpc[w] \in {"running", "busy"},
               Covers(task[w], k)
        PROVE  Ahead(l, k)
    BY <2>4 DEF Ahead
  <2>5. QED BY <1>1, <1>7, <2>2, <2>3, <2>4 DEF Ahead, Covers
<1>8. Unprocessed' /\ SolvedByProcessed' BY <1>1, <1>7, NothingEvaluated
<1>9. QED BY <1>6, <1>8 DEF RInv

LEMMA ReceiveTaskKeepsRInv ==
  ASSUME RInv, IInv', NEW w \in Workers, ReceiveTask(w)
  PROVE  RInv'
<1>1. /\ UNCHANGED <<cs, processed, solved, main, lvl, split>>
      /\ wpc[w] = "idle" /\ chTasks # <<>>
      /\ chTasks' = Tail(chTasks)
      /\ task' = [task EXCEPT ![w] = Head(chTasks)]
      /\ wpc' = [wpc EXCEPT ![w] = "running"]
  BY DEF ReceiveTask, mainVars
<1>2. /\ Len(chTasks') = Len(chTasks) - 1 /\ Len(chTasks) \in Nat /\ Len(chTasks) > 0
      /\ \A k \in 1 .. Len(chTasks') : chTasks'[k] = chTasks[k + 1]
      /\ Head(chTasks) = chTasks[1]
  BY <1>1, HeadTailProperties, EmptySeq, LenProperties DEF RInv, IInv, TypeOK
<1>3. /\ task'[w] = chTasks[1] /\ wpc'[w] = "running"
      /\ \A v \in Workers : v # w => task'[v] = task[v] /\ wpc'[v] = wpc[v]
  BY <1>1, <1>2 DEF RInv, IInv, TypeOK
<1>4. \A k \in 1 .. Len(chTasks') : k + 1 \in 1 .. Len(chTasks) /\ k + 1 # 1
  BY <1>2
<1>5. Exclusive'
  <2>1. ASSUME NEW v \in Workers, wpc'[v] \in HoldsTask
        PROVE  /\ task'[v].level = lvl' /\ task'[v].to <= Start'
               /\ \A k \in 1 .. Len(chTasks') : Apart(task'[v], chTasks'[k])
    <3>1. CASE v = w
      <4>1. chTasks[1].level = lvl /\ chTasks[1].to <= Start
        BY <1>2 DEF RInv, IInv, TasksInRange
      <4>2. \A k \in 1 .. Len(chTasks') : Apart(chTasks[1], chTasks'[k])
        BY <1>2, <1>4 DEF RInv, Exclusive
      <4>3. QED BY <1>1, <1>3, <3>1, <4>1, <4>2 DEF Start
    <3>2. CASE v # w
      BY <1>1, <1>2, <1>3, <1>4, <2>1, <3>2 DEF RInv, Exclusive, Start
    <3>3. QED BY <3>1, <3>2
  <2>2. \A k, n \in 1 .. Len(chTasks') : k # n => Apart(chTasks'[k], chTasks'[n])
    <3> SUFFICES ASSUME NEW k \in 1 .. Len(chTasks'), NEW n \in 1 .. Len(chTasks'), k # n
                 PROVE  Apart(chTasks'[k], chTasks'[n])
      OBVIOUS
    <3>1. k + 1 \in 1 .. Len(chTasks) /\ n + 1 \in 1 .. Len(chTasks) /\ k + 1 # n + 1
      BY <1>2
    <3>2. chTasks'[k] = chTasks[k + 1] /\ chTasks'[n] = chTasks[n + 1] BY <1>2
    <3>3. QED BY <3>1, <3>2 DEF RInv, Exclusive
  <2>3. ASSUME NEW u \in Workers, NEW v \in Workers, u # v,
               wpc'[u] \in HoldsTask, wpc'[v] \in HoldsTask
        PROVE  Apart(task'[u], task'[v])
    <3>1. CASE u = w
      BY <1>2, <1>3, <2>3, <3>1 DEF RInv, Exclusive, Apart
    <3>2. CASE v = w
      BY <1>2, <1>3, <2>3, <3>2 DEF RInv, Exclusive, Apart
    <3>3. CASE u # w /\ v # w
      BY <1>3, <2>3, <3>3 DEF RInv, Exclusive
    <3>4. QED BY <3>1, <3>2, <3>3
  <2>4. QED BY <2>1, <2>2, <2>3 DEF Exclusive
<1>6. ASSUME NEW l \in 1 .. Len(cs.levels), NEW k \in 1 .. Len(cs.levels[l]),
             Ahead(l, k)'
      PROVE  Ahead(l, k)
  <2>1. CASE AheadOfCaller(l, k)' BY <1>1, <2>1 DEF AheadOfCaller, Ahead, Start
  <2>2. ASSUME l = lvl, NEW j \in 1 .. Len(chTasks'), Covers(chTasks'[j], k)
        PROVE  Ahead(l, k)
    BY <1>2, <1>4, <2>2 DEF Ahead
  <2>3. ASSUME l = lvl, NEW v \in Workers, wpc'[v] \in {"running", "busy"},
               Covers(task'[v], k)
        PROVE  Ahead(l, k)
    <3>1. CASE v = w
      <4>1. 1 \in 1 .. Len(chTasks) BY <1>2
      <4>2. Covers(chTasks[1], k) BY <1>3, <2>3, <3>1
      <4>3. QED BY <2>3, <4>1, <4>2 DEF Ahead
    <3>2. CASE v # w BY <1>3, <2>3, <3>2 DEF Ahead
    <3>3. QED BY <3>1, <3>2
  <2>4. QED BY <1>1, <1>6, <2>1, <2>2, <2>3 DEF Ahead, Covers
<1>7. Unprocessed' /\ SolvedByProcessed' BY <1>1, <1>6, NothingEvaluated
<1>8. QED BY <1>5, <1>7 DEF RInv

\* The steps of a worker that neither take a task nor evaluate: what it holds is at
\* most what it held.
LEMMA OtherStepsKeepRInv ==
  ASSUME RInv, IInv', NEW w \in Workers,
         Exit(w) \/ Begin(w) \/ ReportError(w) \/ Die(w) \/ TaskDone(w)
  PROVE  RInv'
<1>1. UNCHANGED <<cs, processed, solved, main, lvl, split, chTasks>>
  BY DEF Exit, Begin, ReportError, Die, TaskDone, mainVars
<1>2. \A v \in Workers :
        /\ wpc'[v] \in HoldsTask => wpc[v] \in HoldsTask /\ task'[v] = task[v]
        /\ wpc'[v] \in {"running", "busy"} => wpc[v] \in {"running", "busy"}
  BY DEF Exit, Begin, ReportError, Die, TaskDone, HoldsTask, RInv, IInv, TypeOK
<1>3. Exclusive' BY <1>1, <1>2 DEF RInv, Exclusive, Start
<1>4. ASSUME NEW l \in 1 .. Len(cs.levels), NEW k \in 1 .. Len(cs.levels[l]),
             Ahead(l, k)'
      PROVE  Ahead(l, k)
  <2>1. CASE AheadOfCaller(l, k)' BY <1>1, <2>1 DEF AheadOfCaller, Ahead, Start
  <2>2. ASSUME l = lvl, NEW j \in 1 .. Len(chTasks'), Covers(chTasks'[j], k)
        PROVE  Ahead(l, k)
    BY <1>1, <2>2 DEF Ahead
  <2>3. ASSUME l = lvl, NEW v \in Workers, wpc'[v] \in {"running", "busy"},
               Covers(task'[v], k)
        PROVE  Ahead(l, k)
    <3>1. wpc[v] \in {"running", "busy"} /\ task'[v] = task[v]
      BY <1>2, <2>3 DEF HoldsTask
    <3>2. QED BY <2>3, <3>1 DEF Ahead
  <2>4. QED BY <1>1, <1>4, <2>1, <2>2, <2>3 DEF Ahead, Covers
<1>5. Unprocessed' /\ SolvedByProcessed' BY <1>1, <1>4, NothingEvaluated
<1>6. QED BY <1>3, <1>5 DEF RInv

LEMMA FinishKeepsRInv ==
  ASSUME RInv, IInv', NEW w \in Workers, Finish(w)
  PROVE  RInv'
<1> DEFINE p == task[w].from + 1
<1>1. /\ UNCHANGED <<cs, failing, main, lvl, split, chTasks>>
      /\ wpc[w] = "busy"
      /\ processed' = processed \union {Current(w)}
      /\ \E S \in SUBSET cs.wires : Sets(Current(w), S) /\ solved' = solved \union S
  BY DEF Finish, mainVars
<1>2. /\ main \in {"push", "wait"} /\ lvl \in 1 .. Len(cs.levels)
      /\ task[w].level = lvl /\ task[w].to <= Start
      /\ task[w].from < task[w].to /\ task[w].to <= Len(cs.levels[lvl])
  BY <1>1, Active DEF RInv, IInv, TasksInRange, Exclusive, HoldsTask
<1>3. /\ task[w].from \in Nat /\ task[w].to \in Nat /\ task[w] \in Tasks
      /\ Len(cs.levels[lvl]) \in Nat
  BY <1>2, LevelTypes DEF RInv, IInv, TypeOK, Tasks
<1>4. p \in 1 .. Len(cs.levels[lvl]) /\ Current(w) = cs.levels[lvl][p]
  BY <1>2, <1>3 DEF Current
<1>5. /\ \A v \in Workers : v # w => wpc'[v] = wpc[v] /\ task'[v] = task[v]
      /\ wpc'[w] \in {"running", "reporting"}
      /\ task'[w].level = lvl /\ task'[w].to = task[w].to
      /\ task'[w].from \in {task[w].from, p}
      /\ wpc'[w] = "running" => task'[w].from = p
  <2>1. CASE Current(w) \in failing
    BY <1>2, <1>3, <2>1 DEF Finish, RInv, IInv, TypeOK
  <2>2. CASE Current(w) \notin failing
    <3>1. task' = [task EXCEPT ![w].from = @ + 1] /\ wpc' = [wpc EXCEPT ![w] = "running"]
      BY <2>2 DEF Finish
    <3>2. task'[w] = [task[w] EXCEPT !.from = @ + 1]
      BY <3>1 DEF RInv, IInv, TypeOK
    <3>3. QED BY <1>2, <1>3, <3>1, <3>2 DEF Tasks, RInv, IInv, TypeOK
  <2>3. QED BY <2>1, <2>2
<1>6. wpc[w] \in HoldsTask /\ wpc'[w] \in HoldsTask BY <1>1, <1>5 DEF HoldsTask
<1> HIDE DEF p
<1>7. p = task[w].from + 1 BY DEF p
<1>8. Exclusive'
  <2>1. ASSUME NEW t, t.from \in Nat, t.to \in Nat, Apart(task[w], t), t.from <= t.to
        PROVE  Apart(task'[w], t) /\ Apart(t, task'[w])
    BY <1>2, <1>3, <1>5, <1>7, <2>1 DEF Apart
  <2>2. ASSUME NEW v \in Workers, v # w, wpc[v] \in HoldsTask
        PROVE  Apart(task'[w], task[v]) /\ Apart(task[v], task'[w])
    <3>1. Apart(task[w], task[v]) BY <1>6, <2>2 DEF RInv, Exclusive
    <3>2. task[v].from \in Nat /\ task[v].to \in Nat /\ task[v].from <= task[v].to
      BY <2>2 DEF RInv, IInv, TypeOK, Tasks, TasksInRange
    <3>3. QED BY <2>1, <3>1, <3>2
  <2>3. ASSUME NEW k \in 1 .. Len(chTasks) PROVE Apart(task'[w], chTasks[k])
    <3>1. Apart(task[w], chTasks[k]) BY <1>6 DEF RInv, Exclusive
    <3>2. chTasks[k] \in Tasks BY ElementOfSeq DEF RInv, IInv, TypeOK
    <3>3. chTasks[k].from \in Nat /\ chTasks[k].to \in Nat
          /\ chTasks[k].from <= chTasks[k].to
      BY <3>2 DEF RInv, IInv, Tasks, TasksInRange
    <3>4. QED BY <2>1, <3>1, <3>3
  <2>4. ASSUME NEW v \in Workers, wpc'[v] \in HoldsTask
        PROVE  /\ task'[v].level = lvl' /\ task'[v].to <= Start'
               /\ \A k \in 1 .. Len(chTasks') : Apart(task'[v], chTasks'[k])
    <3>1. CASE v = w BY <1>1, <1>2, <1>5, <2>3, <3>1 DEF Start
    <3>2. CASE v # w BY <1>1, <1>5, <2>4, <3>2 DEF RInv, Exclusive, Start
    <3>3. QED BY <3>1, <3>2
  <2>5. ASSUME NEW u \in Workers, NEW v \in Workers, u # v,
               wpc'[u] \in HoldsTask, wpc'[v] \in HoldsTask
        PROVE  Apart(task'[u], task'[v])
    <3>1. CASE u = w BY <1>5, <2>2, <2>5, <3>1
    <3>2. CASE v = w BY <1>5, <2>2, <2>5, <3>2
    <3>3. CASE u # w /\ v # w BY <1>5, <2>5, <3>3 DEF RInv, Exclusive
    <3>4. QED BY <3>1, <3>2, <3>3
  <2>6. \A k, n \in 1 .. Len(chTasks') : k # n => Apart(chTasks'[k], chTasks'[n])
    BY <1>1 DEF RInv, Exclusive
  <2>7. QED BY <2>4, <2>5, <2>6 DEF Exclusive
<1>9. ASSUME NEW l \in 1 .. Len(cs.levels), NEW k \in 1 .. Len(cs.levels[l]),
             Ahead(l, k)'
      PROVE  Ahead(l, k) /\ ~(l = lvl /\ k = p)
  <2>1. k \in Nat /\ p \in Nat /\ lvl \in Nat /\ l \in Nat
    BY <1>2, <1>4, LevelTypes DEF RInv, IInv
  <2>2. CASE AheadOfCaller(l, k)'
    <3>1. AheadOfCaller(l, k) BY <1>1, <2>2 DEF AheadOfCaller, Start
    <3>2. l > lvl \/ k > Start BY <1>2, <3>1 DEF AheadOfCaller
    <3>3. Start \in Nat BY <1>2, StartType DEF RInv, IInv
    <3>4. p <= Start BY <1>2, <1>3, <1>7, <3>3
    <3>5. QED BY <2>1, <3>1, <3>2, <3>3, <3>4 DEF Ahead
  <2>3. ASSUME l = lvl, NEW j \in 1 .. Len(chTasks), Covers(chTasks[j], k)
        PROVE  Ahead(l, k) /\ k # p
    <3>1. chTasks[j] \in Tasks BY ElementOfSeq DEF RInv, IInv, TypeOK
    <3>2. chTasks[j].from \in Nat /\ chTasks[j].to \in Nat BY <3>1 DEF Tasks
    <3>3. Apart(task[w], chTasks[j]) BY <1>6 DEF RInv, Exclusive
    <3>4. k # p BY <1>2, <1>3, <1>7, <2>1, <2>3, <3>2, <3>3 DEF Apart, Covers
    <3>5. QED BY <2>3, <3>4 DEF Ahead
  <2>4. ASSUME l = lvl, NEW v \in Workers, wpc'[v] \in {"running", "busy"},
               Covers(task'[v], k)
        PROVE  Ahead(l, k) /\ k # p
    <3>1. CASE v = w
      <4>1. task'[w].from = p /\ task'[w].to = task[w].to BY <1>5, <2>4, <3>1
      <4>2. k > p /\ k <= task[w].to BY <2>4, <3>1, <4>1 DEF Covers
      <4>3. Covers(task[w], k) /\ k # p BY <1>3, <1>7, <2>1, <4>2 DEF Covers
      <4>4. QED BY <1>1, <2>4, <4>3 DEF Ahead
    <3>2. CASE v # w
      <4>1. wpc[v] \in {"running", "busy"} /\ Covers(task[v], k) BY <1>5, <2>4, <3>2
      <4>2. wpc[v] \in HoldsTask BY <4>1 DEF HoldsTask
      <4>3. Apart(task[w], task[v]) BY <1>6, <3>2, <4>2 DEF RInv, Exclusive
      <4>4. task[v].from \in Nat /\ task[v].to \in Nat
        <5>1. task \in [Workers -> Tasks] BY DEF RInv, IInv, TypeOK
        <5>2. task[v] \in Tasks BY <5>1
        <5>3. QED BY <5>2 DEF Tasks
      <4>5. k # p BY <1>2, <1>3, <1>7, <2>1, <4>1, <4>3, <4>4 DEF Apart, Covers
      <4>6. QED BY <2>4, <4>1, <4>5 DEF Ahead
    <3>3. QED BY <3>1, <3>2
  <2>5. QED BY <1>1, <1>9, <2>2, <2>3, <2>4 DEF Ahead, Covers
<1>10. Unprocessed' /\ SolvedByProcessed'
  BY <1>1, <1>2, <1>4, <1>9, OneEvaluated
<1>11. QED BY <1>8, <1>10 DEF RInv

LEMMA NextKeepsRInv == RInv /\ [Next]_vars => RInv'
<1> SUFFICES ASSUME RInv, [Next]_vars PROVE RInv' OBVIOUS
<1>1. IInv' BY NextKeepsIInv DEF RInv
<1>2. CASE Main BY <1>1, <1>2, CallerKeeps, PushKeepsRInv, AllPushedKeepsRInv
<1>3. ASSUME NEW w \in Workers, Worker(w) PROVE RInv'
  BY <1>1, <1>3, ReceiveTaskKeepsRInv, FinishKeepsRInv, OtherStepsKeepRInv DEF Worker
<1>4. CASE UNCHANGED vars
  <2> USE <1>4 DEF vars, mainVars, workerVars
  <2>1. Exclusive' BY DEF RInv, Exclusive, Start
  <2>2. \A l, k : Ahead(l, k)' => Ahead(l, k)
    BY DEF Ahead, AheadOfCaller, Covers, Start
  <2>3. Unprocessed' /\ SolvedByProcessed' BY <2>2, NothingEvaluated
  <2>4. QED BY <1>1, <2>1, <2>3 DEF RInv
<1>5. QED BY <1>2, <1>3, <1>4 DEF Next, Terminated

-----------------------------------------------------------------------------
(* The theorem.                                                               *)

\* The place of an instruction under evaluation.
LEMMA BusyPlace ==
  ASSUME RInv, NEW w \in InState({"busy"})
  PROVE  /\ lvl \in 1 .. Len(cs.levels)
         /\ task[w].from + 1 \in 1 .. Len(cs.levels[lvl])
         /\ Current(w) = cs.levels[lvl][task[w].from + 1]
         /\ Current(w) \in cs.instructions
         /\ Current(w) \notin processed
<1>1. w \in Workers /\ wpc[w] = "busy" /\ wpc[w] \in HoldsTask
  BY DEF InState, HoldsTask
<1>2. /\ lvl \in 1 .. Len(cs.levels) /\ task[w].level = lvl
      /\ task[w].from < task[w].to /\ task[w].to <= Len(cs.levels[lvl])
  BY <1>1, Active DEF RInv, IInv, TasksInRange, Exclusive
<1>3. /\ task[w].from \in Nat /\ task[w].to \in Nat /\ Len(cs.levels[lvl]) \in Nat
  BY <1>1, <1>2, LevelTypes DEF RInv, IInv, TypeOK, Tasks
<1>4. task[w].from + 1 \in 1 .. Len(cs.levels[lvl]) BY <1>2, <1>3
<1>5. Current(w) = cs.levels[lvl][task[w].from + 1] BY <1>2 DEF Current
<1>6. Ahead(lvl, task[w].from + 1) BY <1>1, <1>2, <1>3 DEF Ahead, Covers
<1>7. Current(w) \notin processed
  BY <1>2, <1>4, <1>5, <1>6 DEF RInv, Unprocessed
<1>8. Current(w) \in cs.instructions
  BY <1>2, <1>4, <1>5, LevelTypes DEF RInv, IInv
<1>9. QED BY <1>2, <1>4, <1>5, <1>7, <1>8

\* On a system that keeps the compiler's promises, two instructions evaluated at the
\* same time are different and neither sets a wire that the other reads or sets, and
\* no instruction sets a wire twice: s.values and s.solved need no lock.
THEOREM RaceFreedom == Spec => []NoDataRace
<1>1. ASSUME RInv, NEW v \in InState({"busy"})
      PROVE  cs.writes[Current(v)] \cap solved = {}
  <2>1. Current(v) \in cs.instructions /\ Current(v) \notin processed
    BY <1>1, BusyPlace
  <2>2. OneWriter(cs) /\ processed \subseteq cs.instructions
    BY <1>1, SystemsAssumption DEF RInv, IInv, TypeOK, SoundSystem
  <2>3. cs.writes[Current(v)] \cap cs.inputs = {} BY <2>1, <2>2 DEF OneWriter
  <2>4. \A i \in processed : cs.writes[Current(v)] \cap cs.writes[i] = {}
    BY <2>1, <2>2 DEF OneWriter
  <2>5. QED BY <1>1, <2>3, <2>4 DEF RInv, SolvedByProcessed
<1>2. ASSUME RInv, NEW v \in InState({"busy"}), NEW w \in InState({"busy"}) \ {v}
      PROVE  /\ Current(v) # Current(w)
             /\ cs.writes[Current(v)]
                  \cap (cs.reads[Current(w)] \union cs.writes[Current(w)]) = {}
  <2> DEFINE p == task[v].from + 1
             q == task[w].from + 1
  <2>1. /\ lvl \in 1 .. Len(cs.levels)
        /\ p \in 1 .. Len(cs.levels[lvl]) /\ q \in 1 .. Len(cs.levels[lvl])
        /\ Current(v) = cs.levels[lvl][p] /\ Current(w) = cs.levels[lvl][q]
        /\ Current(v) \in cs.instructions /\ Current(w) \in cs.instructions
    BY <1>2, BusyPlace
  <2>2. p # q
    <3>1. /\ v \in Workers /\ w \in Workers /\ v # w
          /\ wpc[v] = "busy" /\ wpc[w] = "busy"
          /\ wpc[v] \in HoldsTask /\ wpc[w] \in HoldsTask
      BY DEF InState, HoldsTask
    <3>2. Apart(task[v], task[w]) BY <1>2, <3>1 DEF RInv, Exclusive
    <3>3. task[v].from < task[v].to /\ task[w].from < task[w].to
      BY <1>2, <3>1 DEF RInv, IInv, TasksInRange
    <3>4. /\ task[v].from \in Nat /\ task[v].to \in Nat
          /\ task[w].from \in Nat /\ task[w].to \in Nat
      BY <1>2, <3>1 DEF RInv, IInv, TypeOK, Tasks
    <3>5. QED BY <3>2, <3>3, <3>4 DEF Apart
  <2>3. TypeOK BY <1>2 DEF RInv, IInv
  <2> HIDE DEF p, q
  <2>4. Current(v) # Current(w) BY <2>1, <2>2, <2>3, OnePlace
  <2>5. OneWriter(cs) /\ ReadsFromEarlierLevels(cs)
    BY <2>3, SystemsAssumption DEF TypeOK, SoundSystem
  <2>6. cs.writes[Current(v)] \cap cs.writes[Current(w)] = {}
    BY <2>1, <2>4, <2>5 DEF OneWriter
  <2>7. ASSUME NEW x \in cs.writes[Current(v)], x \in cs.reads[Current(w)]
        PROVE  FALSE
    <3>1. x \notin cs.inputs BY <2>1, <2>5, <2>7 DEF OneWriter
    <3>2. PICK m \in 1 .. lvl - 1 : \E n \in DOMAIN cs.levels[m] :
                 x \in cs.writes[cs.levels[m][n]]
      <4>1. lvl \in DOMAIN cs.levels /\ q \in DOMAIN cs.levels[lvl]
        BY <2>1, <2>3, LevelDomains
      <4>2. x \in cs.reads[cs.levels[lvl][q]] \ cs.inputs BY <2>1, <2>7, <3>1
      <4>3. QED BY <2>5, <4>1, <4>2 DEF ReadsFromEarlierLevels
    <3>3. m \in 1 .. Len(cs.levels) /\ m # lvl
      BY <2>1, <2>3, <3>2, LevelTypes
    <3>4. PICK n \in 1 .. Len(cs.levels[m]) : x \in cs.writes[cs.levels[m][n]]
      BY <2>3, <3>2, <3>3, LevelDomains
    <3>5. cs.levels[m][n] \in cs.instructions BY <2>3, <3>3, <3>4, LevelTypes
    <3>6. cs.levels[m][n] # Current(v) BY <2>1, <2>3, <3>3, <3>4, OnePlace
    <3>7. QED BY <2>1, <2>5, <2>7, <3>4, <3>5, <3>6 DEF OneWriter
  <2>8. QED BY <2>4, <2>6, <2>7
<1>3. RInv => NoDataRace BY <1>1, <1>2 DEF NoDataRace
<1>4. QED BY InitRInv, NextKeepsRInv, <1>3, PTL DEF Spec

-----------------------------------------------------------------------------
(* The worker pool of Solver implements Solve: whatever the schedule, a caller *)
(* sees instructions evaluated one at a time, each once, each after what it    *)
(* depends on, and a result that says what happened.                          *)

(* The invariant.                                                             *)

Holds(l, k) == cs.levels[l][k] \in processed \ failing

\* An instruction of this level has failed, or the run is over.
Troubled ==
  \/ main \in {"failed", "cleanup", "returned"}
  \/ \E w \in Workers : wpc[w] \in {"reporting", "reported", "exited"}

\* Nothing is forgotten: an instruction is still to be evaluated or it holds, except
\* in the level where something failed.  So a level is left only when all of it holds.
Accounted ==
  \A l \in 1 .. Len(cs.levels) : \A k \in 1 .. Len(cs.levels[l]) :
    Ahead(l, k) \/ Holds(l, k) \/ (l = lvl /\ Troubled)

\* Instructions that hold gave their wires a value.
HoldingSolved ==
  /\ cs.inputs \subseteq solved
  /\ \A i \in processed \ failing : cs.writes[i] \subseteq solved

\* An error on its way to the caller is one of an instruction that failed.
ErrorsAreReal ==
  /\ main = "failed" => Level[split.i + 1] \in processed \cap failing
  /\ \A w \in Workers : wpc[w] = "reporting" => Current(w) \in processed \cap failing
  /\ \A k \in 1 .. Len(chError) : chError[k] \in processed \cap failing

\* There is no result before the end.
NoResultYet == main \notin {"cleanup", "returned"} => result = <<"none">>

FInv == RInv /\ Accounted /\ HoldingSolved /\ ErrorsAreReal /\ NoResultYet

-----------------------------------------------------------------------------
(* What the steps need again and again.                                       *)

\* No step forgets an evaluation or a failure; it is enough to follow what was ahead.
LEMMA NothingForgotten ==
  ASSUME Accounted, UNCHANGED <<cs, failing, lvl>>, processed \subseteq processed',
         Troubled => Troubled',
         \A l \in 1 .. Len(cs.levels) : \A k \in 1 .. Len(cs.levels[l]) :
           Ahead(l, k) => Ahead(l, k)' \/ Holds(l, k)' \/ (l = lvl /\ Troubled')
  PROVE  Accounted'
BY DEF Accounted, Holds

\* A level of which nothing is ahead and where nothing failed may be left.
LEMMA LevelLeft ==
  ASSUME FInv, UNCHANGED <<cs, failing, processed>>, ~Troubled,
         lvl \in 1 .. Len(cs.levels),
         \A k \in 1 .. Len(cs.levels[lvl]) : ~Ahead(lvl, k),
         main' = "level", lvl' = lvl + 1
  PROVE  Accounted'
<1>1. ASSUME NEW l \in 1 .. Len(cs.levels), NEW k \in 1 .. Len(cs.levels[l])
      PROVE  Ahead(l, k)' \/ Holds(l, k)'
  <2>1. Len(cs.levels) \in Nat BY LevelTypes DEF FInv, RInv, IInv
  <2>2. l \in Nat /\ lvl \in Nat BY <2>1
  <2>3. CASE l > lvl
    <3>1. l > lvl' \/ l = lvl' BY <2>2, <2>3
    <3>2. QED BY <3>1 DEF Ahead, AheadOfCaller
  <2>4. CASE l <= lvl
    <3>1. ~Ahead(l, k)
      <4>1. CASE l = lvl BY <1>1, <4>1
      <4>2. CASE l # lvl BY <2>2, <2>4, <4>2 DEF Ahead, AheadOfCaller
      <4>3. QED BY <4>1, <4>2
    <3>2. Holds(l, k) BY <1>1, <3>1 DEF FInv, Accounted
    <3>3. QED BY <3>2 DEF Holds
  <2>5. QED BY <2>2, <2>3, <2>4
<1>2. QED BY <1>1 DEF Accounted

\* With every task over and no error sent nothing has failed.
LEMMA NoTrouble ==
  ASSUME IInv, wg = 0, chError = <<>>, main \notin {"failed", "cleanup", "returned"}
  PROVE  ~Troubled
<1>1. \A w \in Workers : wpc[w] \notin HoldsTask BY Quiet
<1>2. Count(SentError) = 0
  <2>1. Len(<<>>) = 0 OBVIOUS
  <2>2. QED BY <2>1 DEF IInv, Counting
<1>3. ASSUME NEW w \in Workers, wpc[w] = "exited" PROVE FALSE
  <2>1. w \in InState(SentError) BY <1>3 DEF InState, SentError
  <2>2. QED BY <1>2, <2>1, CountOfOne
<1>4. QED BY <1>1, <1>3 DEF Troubled, HoldsTask

\* With every task over only the caller can have something ahead.
LEMMA OnlyCallerAhead ==
  ASSUME IInv, wg = 0
  PROVE  \A l, k : Ahead(l, k) => AheadOfCaller(l, k)
<1>1. Len(chTasks) = 0 /\ \A w \in Workers : wpc[w] \notin HoldsTask BY Quiet
<1>2. QED BY <1>1 DEF Ahead, HoldsTask

LEMMA WholeLevelCut ==
  ASSUME TypeOK, CutInvariant, main \in {"push", "wait"}, split.i = split.nbTasks
  PROVE  Start = Len(Level)
<1>1. /\ split.nbTasks \in Nat /\ split.per \in Nat /\ split.i \in Nat
      /\ split.extra \in Nat /\ split.offset \in Nat
  BY DEF TypeOK
<1>2. split.nbTasks - split.i = 0 /\ split.extra = 0 BY <1>1 DEF CutInvariant
<1>3. Start \in Nat BY <1>1, NextMultiple DEF Start
<1>4. (split.nbTasks - split.i) * split.per = 0 BY <1>1, <1>2
<1>5. Start + (split.nbTasks - split.i) * split.per + split.extra = Len(Level)
  BY DEF CutInvariant
<1>6. QED BY <1>2, <1>3, <1>4, <1>5

LEMMA EvaluationSolves ==
  ASSUME HoldingSolved, UNCHANGED <<cs, failing>>, NEW i,
         processed' = processed \union {i},
         \E S \in SUBSET cs.wires : Sets(i, S) /\ solved' = solved \union S
  PROVE  HoldingSolved'
<1>1. PICK S \in SUBSET cs.wires : Sets(i, S) /\ solved' = solved \union S OBVIOUS
<1>2. i \notin failing => S = cs.writes[i] BY <1>1 DEF Sets
<1>3. solved \subseteq solved' BY <1>1
<1>4. ASSUME NEW j \in processed' \ failing PROVE cs.writes[j] \subseteq solved'
  <2>1. CASE j \in processed BY <1>3, <2>1 DEF HoldingSolved
  <2>2. CASE j = i BY <1>1, <1>2, <2>2
  <2>3. QED BY <2>1, <2>2
<1>5. QED BY <1>3, <1>4 DEF HoldingSolved

-----------------------------------------------------------------------------
(* The steps of the caller's goroutine.                                       *)

LEMMA InitFInv == Init => FInv
<1> SUFFICES ASSUME Init PROVE FInv OBVIOUS
<1>1. RInv BY InitRInv
<1>2. Accounted
  <2>1. ASSUME NEW l \in 1 .. Len(cs.levels) PROVE l > lvl \/ l = lvl
    <3>1. Len(cs.levels) \in Nat BY <1>1, LevelTypes DEF RInv, IInv
    <3>2. QED BY <2>1, <3>1 DEF Init
  <2>2. QED BY <2>1 DEF Init, Accounted, Ahead, AheadOfCaller
<1>3. HoldingSolved /\ NoResultYet BY DEF Init, HoldingSolved, NoResultYet
<1>4. ErrorsAreReal
  <2>1. Len(<<>>) = 0 OBVIOUS
  <2>2. QED BY <2>1 DEF Init, ErrorsAreReal
<1>5. QED BY <1>1, <1>2, <1>3, <1>4 DEF FInv

\* The steps that neither evaluate nor touch chError say nothing new of errors.
LEMMA CallerKeepsRest ==
  ASSUME FInv, Main, ~ProcessHere, ~LevelDone
  PROVE  HoldingSolved' /\ ErrorsAreReal' /\ NoResultYet'
<1>1. UNCHANGED <<cs, failing, solved, processed, chError, wpc, task>>
  BY DEF Main, RunSequentially, ReturnError, EndSequential, CutLevel, Push, AllPushed,
         CheckAllSolved, CloseChannels, workerVars
<1>2. main' # "failed"
  BY DEF Main, RunSequentially, ReturnError, EndSequential, CutLevel, Push, AllPushed,
         CheckAllSolved, CloseChannels
<1>3. NoResultYet'
  BY DEF Main, RunSequentially, ReturnError, EndSequential, CutLevel, Push, AllPushed,
         CheckAllSolved, CloseChannels, FInv, NoResultYet
<1>4. HoldingSolved' BY <1>1 DEF FInv, HoldingSolved
<1>5. ErrorsAreReal' BY <1>1, <1>2 DEF FInv, ErrorsAreReal, Current
<1>6. QED BY <1>3, <1>4, <1>5

LEMMA SimpleStepsAccount ==
  ASSUME FInv, RunSequentially \/ ReturnError \/ AllPushed \/ CheckAllSolved
               \/ CloseChannels
  PROVE  Accounted'
<1>1. /\ UNCHANGED <<cs, failing, processed, lvl, chTasks, wpc, task>>
      /\ Troubled => Troubled'
  BY DEF RunSequentially, ReturnError, AllPushed, CheckAllSolved, CloseChannels,
         workerVars, Troubled
<1>2. ASSUME NEW l \in 1 .. Len(cs.levels), NEW k \in 1 .. Len(cs.levels[l]),
             AheadOfCaller(l, k)
      PROVE  AheadOfCaller(l, k)' \/ (l = lvl /\ Troubled')
  <2>1. CASE l > lvl BY <1>1, <2>1 DEF AheadOfCaller
  <2>2. CASE l = lvl
    <3>1. k \in Nat /\ k > 0 /\ k <= Len(Level) /\ Len(Level) \in Nat
      BY <2>2, LevelTypes DEF FInv, RInv, IInv, Level
    <3>2. CASE RunSequentially
      BY <2>2, <3>1, <3>2 DEF RunSequentially, NoSplit, AheadOfCaller
    <3>3. CASE AllPushed
      <4>1. Start = Len(Level)
        BY <3>3, WholeLevelCut DEF AllPushed, FInv, RInv, IInv
      <4>2. lvl \in Nat BY <2>2, LevelTypes DEF FInv, RInv, IInv
      <4>3. k > Start BY <1>2, <2>2, <3>3, <4>2 DEF AllPushed, AheadOfCaller
      <4>4. QED BY <3>1, <4>1, <4>3
    <3>4. CASE ReturnError \/ CheckAllSolved \/ CloseChannels
      BY <2>2, <3>4 DEF ReturnError, CheckAllSolved, CloseChannels, Troubled
    <3>5. QED BY <3>2, <3>3, <3>4
  <2>3. QED BY <1>2, <2>1, <2>2 DEF AheadOfCaller
<1>3. ASSUME NEW l \in 1 .. Len(cs.levels), NEW k \in 1 .. Len(cs.levels[l]),
             Ahead(l, k), ~AheadOfCaller(l, k)
      PROVE  Ahead(l, k)'
  BY <1>1, <1>3 DEF Ahead
<1>4. QED BY <1>1, <1>2, <1>3, NothingForgotten DEF FInv, Ahead

LEMMA CutLevelAccounts ==
  ASSUME FInv, CutLevel
  PROVE  Accounted'
<1>1. /\ UNCHANGED <<cs, failing, processed, lvl, chTasks, wpc, task>>
      /\ main = "level" /\ main' = "push" /\ split' = Cut(Len(Level))
  BY DEF CutLevel, workerVars
<1>2. lvl \in 1 .. Len(cs.levels) /\ Len(Level) \in Nat
  BY LevelTypes DEF CutLevel, Level, FInv, RInv, IInv, TypeOK
<1>3. Start' = 0
  <2>1. split'.i = 0 /\ split'.offset = 0 BY <1>1, Zenon DEF Cut
  <2>2. split'.per \in Nat BY <1>1, <1>2, CutIsExact DEF CutLevel, Sequential
  <2>3. QED BY <2>1, <2>2 DEF Start
<1>4. ASSUME NEW l \in 1 .. Len(cs.levels), NEW k \in 1 .. Len(cs.levels[l]), Ahead(l, k)
      PROVE  Ahead(l, k)'
  <2>1. k > 0 BY LevelTypes DEF FInv, RInv, IInv
  <2>2. QED BY <1>1, <1>3, <1>4, <2>1 DEF Ahead, AheadOfCaller, Covers
<1>5. Troubled => Troubled' BY <1>1 DEF Troubled
<1>6. QED BY <1>1, <1>4, <1>5, NothingForgotten DEF FInv

LEMMA PushAccounts ==
  ASSUME FInv, Push
  PROVE  Accounted'
<1> DEFINE t == [level |-> lvl, from |-> Start, to |-> End]
<1>1. /\ UNCHANGED <<cs, failing, processed, lvl, main, wpc, task>>
      /\ main = "push" /\ split.i < split.nbTasks
      /\ chTasks' = Append(chTasks, t)
  BY DEF Push, workerVars
<1>2. Start \in Nat /\ End \in Nat BY <1>1, NextTask DEF FInv, RInv, IInv
<1>3. Start' = End BY SplitAfterPush DEF FInv, RInv
<1>4. t \in Tasks /\ chTasks \in Seq(Tasks) /\ t.from = Start /\ t.to = End
  BY <1>2 DEF FInv, RInv, IInv, TypeOK, Tasks
<1> HIDE DEF t
<1>5. /\ Len(chTasks') = Len(chTasks) + 1 /\ Len(chTasks) \in Nat
      /\ \A j \in 1 .. Len(chTasks) : chTasks'[j] = chTasks[j]
      /\ chTasks'[Len(chTasks) + 1] = t
  BY <1>1, <1>4, AppendProperties, LenProperties
<1>6. ASSUME NEW l \in 1 .. Len(cs.levels), NEW k \in 1 .. Len(cs.levels[l]), Ahead(l, k)
      PROVE  Ahead(l, k)'
  <2>1. k \in Nat BY LevelTypes DEF FInv, RInv, IInv
  <2>2. CASE l > lvl BY <1>1, <2>2 DEF Ahead, AheadOfCaller
  <2>3. CASE l = lvl /\ k > Start /\ k > End
    BY <1>1, <1>3, <2>3 DEF Ahead, AheadOfCaller
  <2>4. CASE l = lvl /\ k > Start /\ k <= End
    <3>1. Covers(chTasks'[Len(chTasks) + 1], k) BY <1>4, <1>5, <2>4 DEF Covers
    <3>2. Len(chTasks) + 1 \in 1 .. Len(chTasks') BY <1>5
    <3>3. QED BY <1>1, <2>4, <3>1, <3>2 DEF Ahead
  <2>5. ASSUME l = lvl, NEW j \in 1 .. Len(chTasks), Covers(chTasks[j], k)
        PROVE  Ahead(l, k)'
    <3>1. j \in 1 .. Len(chTasks') /\ Covers(chTasks'[j], k) BY <1>5, <2>5
    <3>2. QED BY <1>1, <2>5, <3>1 DEF Ahead
  <2>6. ASSUME l = lvl, NEW w \in Workers, wpc[w] \in {"running", "busy"},
               Covers(task[w], k)
        PROVE  Ahead(l, k)'
    BY <1>1, <2>6 DEF Ahead, Covers
  <2>7. QED BY <1>1, <1>2, <1>6, <2>1, <2>2, <2>3, <2>4, <2>5, <2>6 DEF Ahead, AheadOfCaller
<1>7. Troubled => Troubled' BY <1>1 DEF Troubled
<1>8. QED BY <1>1, <1>6, <1>7, NothingForgotten DEF FInv

LEMMA EndSequentialAccounts ==
  ASSUME FInv, EndSequential
  PROVE  Accounted'
<1>1. main = "seq" /\ split.i = Len(Level) /\ wg = 0 /\ chError = <<>>
  BY DEF EndSequential, FInv, RInv, IInv, Counting
<1>2. lvl \in 1 .. Len(cs.levels) /\ Len(Level) \in Nat
  BY <1>1, CurrentLevel DEF FInv, RInv, IInv
<1>3. ~Troubled BY <1>1, NoTrouble DEF FInv, RInv
<1>4. ASSUME NEW k \in 1 .. Len(cs.levels[lvl]), Ahead(lvl, k) PROVE FALSE
  <2>1. AheadOfCaller(lvl, k) BY <1>1, <1>4, OnlyCallerAhead DEF FInv, RInv
  <2>2. k > Len(Level) BY <1>1, <1>2, <2>1 DEF AheadOfCaller
  <2>3. k <= Len(Level) /\ k \in Nat BY <1>2 DEF Level
  <2>4. QED BY <1>2, <2>2, <2>3
<1>5. main' = "level" /\ lvl' = lvl + 1 /\ UNCHANGED <<cs, failing, processed>>
  BY DEF EndSequential
<1>6. QED BY <1>2, <1>3, <1>4, <1>5, LevelLeft

LEMMA LevelDoneKeepsFInv ==
  ASSUME FInv, LevelDone
  PROVE  Accounted' /\ HoldingSolved' /\ ErrorsAreReal' /\ NoResultYet'
<1>1. /\ main = "wait" /\ wg = 0
      /\ UNCHANGED <<cs, failing, solved, processed, chTasks, wpc, task>>
      /\ main' \in {"cleanup", "level"}
      /\ \/ main' = "cleanup" /\ chError # <<>> /\ chError' = Tail(chError) /\ lvl' = lvl
         \/ /\ main' = "level" /\ chError = <<>> /\ lvl' = lvl + 1
            /\ UNCHANGED <<chError, result>>
  BY DEF LevelDone, TasksDone, workerVars
<1>2. HoldingSolved' BY <1>1 DEF FInv, HoldingSolved
<1>3. NoResultYet' BY <1>1 DEF FInv, NoResultYet
<1>4. ErrorsAreReal'
  <2>1. CASE chError' = chError
    BY <1>1, <2>1 DEF FInv, ErrorsAreReal, Current
  <2>2. CASE chError # <<>> /\ chError' = Tail(chError)
    <3>1. /\ Len(chError) \in Nat /\ Len(chError') = Len(chError) - 1
          /\ \A k \in 1 .. Len(chError') : chError'[k] = chError[k + 1]
      BY <2>2, HeadTailProperties, LenProperties DEF FInv, RInv, IInv, TypeOK
    <3>2. \A k \in 1 .. Len(chError') : k + 1 \in 1 .. Len(chError) BY <3>1
    <3>3. QED BY <1>1, <3>1, <3>2 DEF FInv, ErrorsAreReal, Current
  <2>3. QED BY <1>1, <2>1, <2>2
<1>5. Accounted'
  <2>1. CASE main' = "cleanup"
    <3>1. Troubled' /\ lvl' = lvl BY <1>1, <2>1 DEF Troubled
    <3>2. ASSUME NEW l \in 1 .. Len(cs.levels), NEW k \in 1 .. Len(cs.levels[l]),
                 Ahead(l, k)
          PROVE  Ahead(l, k)' \/ l = lvl
      BY <3>1, <3>2 DEF Ahead, AheadOfCaller
    <3>3. QED BY <1>1, <3>1, <3>2, NothingForgotten DEF FInv
  <2>2. CASE main' = "level"
    <3>1. ~Troubled BY <1>1, <2>2, NoTrouble DEF FInv, RInv
    <3>2. \A k : ~Ahead(lvl, k)
      <4>1. lvl \in Nat BY <1>1, CurrentLevel DEF FInv, RInv, IInv
      <4>2. \A k : ~AheadOfCaller(lvl, k) BY <1>1, <4>1 DEF AheadOfCaller
      <4>3. QED BY <1>1, <4>2, OnlyCallerAhead DEF FInv, RInv
    <3>3. lvl \in 1 .. Len(cs.levels) BY <1>1, CurrentLevel DEF FInv, RInv, IInv
    <3>4. QED BY <1>1, <2>2, <3>1, <3>2, <3>3, LevelLeft
  <2>3. QED BY <1>1, <2>1, <2>2
<1>6. QED BY <1>2, <1>3, <1>4, <1>5

\* The place of the instruction that the caller's goroutine evaluates.
LEMMA CallersPlace ==
  ASSUME RInv, ProcessHere
  PROVE  /\ lvl \in 1 .. Len(cs.levels)
         /\ split.i \in Nat /\ split.i + 1 \in 1 .. Len(cs.levels[lvl])
         /\ Level[split.i + 1] = cs.levels[lvl][split.i + 1]
         /\ Level[split.i + 1] \in cs.instructions
         /\ Level[split.i + 1] \notin processed
<1>1. main = "seq" /\ split.i < Len(Level) /\ split.i \in Nat
  BY DEF ProcessHere, RInv, IInv, TypeOK
<1>2. lvl \in 1 .. Len(cs.levels) /\ Len(Level) \in Nat
  BY <1>1, CurrentLevel DEF RInv, IInv
<1>3. split.i + 1 \in 1 .. Len(cs.levels[lvl]) BY <1>1, <1>2 DEF Level
<1>4. Level[split.i + 1] = cs.levels[lvl][split.i + 1] BY DEF Level
<1>5. Ahead(lvl, split.i + 1) BY <1>1 DEF Ahead, AheadOfCaller
<1>6. Level[split.i + 1] \notin processed
  BY <1>2, <1>3, <1>4, <1>5 DEF RInv, Unprocessed
<1>7. Level[split.i + 1] \in cs.instructions
  BY <1>2, <1>3, <1>4, LevelTypes DEF RInv, IInv
<1>8. QED BY <1>1, <1>2, <1>3, <1>4, <1>6, <1>7

LEMMA ProcessHereKeepsFInv ==
  ASSUME FInv, ProcessHere
  PROVE  Accounted' /\ HoldingSolved' /\ ErrorsAreReal' /\ NoResultYet'
<1>1. PICK i : i = Level[split.i + 1] OBVIOUS
<1>2. /\ UNCHANGED <<cs, failing, lvl, chTasks, chError, wpc, task, result>>
      /\ main = "seq" /\ processed' = processed \union {i}
      /\ \E S \in SUBSET cs.wires : Sets(i, S) /\ solved' = solved \union S
      /\ \/ i \in failing /\ main' = "failed" /\ split' = split
         \/ i \notin failing /\ main' = "seq" /\ split' = [split EXCEPT !.i = @ + 1]
  BY <1>1 DEF ProcessHere, workerVars
<1>3. i = cs.levels[lvl][split.i + 1] /\ split.i \in Nat
  BY <1>1, CallersPlace DEF FInv
<1>4. HoldingSolved' BY <1>2, EvaluationSolves DEF FInv
<1>5. NoResultYet' BY <1>2 DEF FInv, NoResultYet
<1>6. ErrorsAreReal'
  <2>1. main' = "failed" => Level[split.i + 1]' \in processed' \cap failing'
    BY <1>1, <1>2 DEF Level
  <2>2. QED BY <1>2, <2>1 DEF FInv, ErrorsAreReal, Current
<1>7. ASSUME NEW l \in 1 .. Len(cs.levels), NEW k \in 1 .. Len(cs.levels[l]), Ahead(l, k)
      PROVE  Ahead(l, k)' \/ Holds(l, k)' \/ (l = lvl /\ Troubled')
  <2>1. CASE i \in failing
    <3>1. Troubled' BY <1>2, <2>1 DEF Troubled
    <3>2. QED BY <1>2, <1>7, <3>1 DEF Ahead, AheadOfCaller
  <2>2. CASE i \notin failing
    <3>1. main' = "seq" /\ split'.i = split.i + 1
      BY <1>2, <2>2 DEF FInv, RInv, IInv, TypeOK
    <3>2. k \in Nat BY LevelTypes DEF FInv, RInv, IInv
    <3>3. CASE l = lvl /\ k = split.i + 1
      BY <1>2, <1>3, <2>2, <3>3 DEF Holds
    <3>4. CASE l = lvl /\ k > split.i + 1
      BY <1>2, <3>1, <3>4 DEF Ahead, AheadOfCaller
    <3>5. CASE ~(l = lvl /\ k > split.i)
      BY <1>2, <1>7, <3>5 DEF Ahead, AheadOfCaller
    <3>6. QED BY <1>3, <3>2, <3>3, <3>4, <3>5
  <2>3. QED BY <2>1, <2>2
<1>8. Accounted'
  <2>1. Troubled => Troubled' BY <1>2 DEF Troubled
  <2>2. QED BY <1>2, <1>7, <2>1, NothingForgotten DEF FInv
<1>9. QED BY <1>4, <1>5, <1>6, <1>8

-----------------------------------------------------------------------------
(* The steps of a worker.                                                     *)

LEMMA WorkerKeepsRest ==
  ASSUME FInv, NEW w \in Workers, Worker(w), ~Finish(w)
  PROVE  HoldingSolved' /\ ErrorsAreReal' /\ NoResultYet'
<1>1. UNCHANGED <<cs, failing, solved, processed, main, lvl, split, result>>
  BY DEF Worker, ReceiveTask, Exit, Begin, ReportError, Die, TaskDone, mainVars
<1>2. HoldingSolved' /\ NoResultYet' BY <1>1 DEF FInv, HoldingSolved, NoResultYet
<1>3. \A v \in Workers :
        wpc'[v] = "reporting" => wpc[v] = "reporting" /\ task'[v] = task[v]
  BY DEF Worker, ReceiveTask, Exit, Begin, ReportError, Die, TaskDone,
         FInv, RInv, IInv, TypeOK
<1>4. \A k \in 1 .. Len(chError') : chError'[k] \in processed \cap failing
  <2>1. CASE ReportError(w)
    <3>1. Current(w) \in processed \cap failing /\ chError' = Append(chError, Current(w))
      BY <2>1 DEF ReportError, FInv, ErrorsAreReal
    <3>2. chError \in Seq(cs.instructions) /\ Current(w) \in cs.instructions
      BY <3>1 DEF FInv, RInv, IInv, TypeOK
    <3>3. PICK e : e = Current(w) OBVIOUS
    <3>4. /\ Len(chError') = Len(chError) + 1 /\ Len(chError) \in Nat
          /\ \A k \in 1 .. Len(chError) : chError'[k] = chError[k]
          /\ chError'[Len(chError) + 1] = e
      BY <3>1, <3>2, <3>3, AppendProperties, LenProperties
    <3>5. ASSUME NEW k \in 1 .. Len(chError') PROVE chError'[k] \in processed \cap failing
      <4>1. k \in 1 .. Len(chError) \/ k = Len(chError) + 1 BY <3>4
      <4>2. QED BY <3>1, <3>3, <3>4, <4>1 DEF FInv, ErrorsAreReal
    <3>6. QED BY <3>5
  <2>2. CASE ~ReportError(w)
    <3>1. chError' = chError
      BY <2>2 DEF Worker, ReceiveTask, Exit, Begin, Die, TaskDone
    <3>2. QED BY <3>1 DEF FInv, ErrorsAreReal
  <2>3. QED BY <2>1, <2>2
<1>5. ErrorsAreReal'
  <2>1. \A v \in Workers : wpc'[v] = "reporting" => Current(v)' = Current(v)
    BY <1>1, <1>3 DEF Current
  <2>2. main' = "failed" => Level[split.i + 1]' \in processed' \cap failing'
    BY <1>1 DEF FInv, ErrorsAreReal, Level
  <2>3. QED BY <1>1, <1>3, <1>4, <2>1, <2>2 DEF FInv, ErrorsAreReal
<1>6. QED BY <1>2, <1>5

\* A task that is taken is still ahead.
LEMMA ReceiveTaskAccounts ==
  ASSUME FInv, NEW w \in Workers, ReceiveTask(w)
  PROVE  Accounted'
<1>1. /\ UNCHANGED <<cs, failing, processed, main, lvl, split>>
      /\ wpc[w] = "idle" /\ chTasks # <<>> /\ chTasks' = Tail(chTasks)
      /\ task' = [task EXCEPT ![w] = Head(chTasks)]
      /\ wpc' = [wpc EXCEPT ![w] = "running"]
  BY DEF ReceiveTask, mainVars
<1>2. /\ Len(chTasks') = Len(chTasks) - 1 /\ Len(chTasks) \in Nat
      /\ \A k \in 1 .. Len(chTasks') : chTasks'[k] = chTasks[k + 1]
      /\ Head(chTasks) = chTasks[1]
  BY <1>1, HeadTailProperties, LenProperties DEF FInv, RInv, IInv, TypeOK
<1>3. /\ task'[w] = chTasks[1] /\ wpc'[w] = "running"
      /\ \A v \in Workers : v # w => task'[v] = task[v] /\ wpc'[v] = wpc[v]
  BY <1>1, <1>2 DEF FInv, RInv, IInv, TypeOK
<1>4. ASSUME NEW l \in 1 .. Len(cs.levels), NEW k \in 1 .. Len(cs.levels[l]), Ahead(l, k)
      PROVE  Ahead(l, k)'
  <2>1. CASE AheadOfCaller(l, k)
    BY <1>1, <2>1 DEF Ahead, AheadOfCaller, Start
  <2>2. ASSUME l = lvl, NEW j \in 1 .. Len(chTasks), Covers(chTasks[j], k)
        PROVE  Ahead(l, k)'
    <3>1. CASE j = 1
      <4>1. Covers(task'[w], k) BY <1>3, <2>2, <3>1 DEF Covers
      <4>2. QED BY <1>1, <1>3, <2>2, <4>1 DEF Ahead
    <3>2. CASE j # 1
      <4>1. j - 1 \in 1 .. Len(chTasks') /\ (j - 1) + 1 = j BY <1>2, <2>2, <3>2
      <4>2. chTasks'[j - 1] = chTasks[j] BY <1>2, <4>1
      <4>3. Covers(chTasks'[j - 1], k) BY <2>2, <4>2 DEF Covers
      <4>4. QED BY <1>1, <2>2, <4>1, <4>3 DEF Ahead
    <3>3. QED BY <3>1, <3>2
  <2>3. ASSUME l = lvl, NEW v \in Workers, wpc[v] \in {"running", "busy"},
               Covers(task[v], k)
        PROVE  Ahead(l, k)'
    <3>1. v # w BY <1>1, <2>3
    <3>2. wpc'[v] \in {"running", "busy"} /\ Covers(task'[v], k) BY <1>3, <2>3, <3>1
    <3>3. QED BY <1>1, <2>3, <3>2 DEF Ahead
  <2>4. QED BY <1>4, <2>1, <2>2, <2>3 DEF Ahead
<1>5. Troubled => Troubled'
  BY <1>1, <1>3 DEF Troubled
<1>6. QED BY <1>1, <1>4, <1>5, NothingForgotten DEF FInv

LEMMA FinishKeepsFInv ==
  ASSUME FInv, NEW w \in Workers, Finish(w)
  PROVE  Accounted' /\ HoldingSolved' /\ ErrorsAreReal' /\ NoResultYet'
<1>1. PICK i, p : i = Current(w) /\ p = task[w].from + 1 OBVIOUS
<1>2. /\ UNCHANGED <<cs, failing, main, lvl, split, chTasks, chError, result>>
      /\ wpc[w] = "busy" /\ processed' = processed \union {i}
      /\ \E S \in SUBSET cs.wires : Sets(i, S) /\ solved' = solved \union S
      /\ \/ i \in failing /\ wpc' = [wpc EXCEPT ![w] = "reporting"] /\ task' = task
         \/ /\ i \notin failing /\ wpc' = [wpc EXCEPT ![w] = "running"]
            /\ task' = [task EXCEPT ![w].from = @ + 1]
  BY <1>1 DEF Finish, mainVars
<1>3. w \in InState({"busy"}) BY <1>2 DEF InState
<1>4. i = cs.levels[lvl][p] /\ p \in 1 .. Len(cs.levels[lvl]) /\ lvl \in 1 .. Len(cs.levels)
  BY <1>1, <1>3, BusyPlace DEF FInv
<1>5. /\ task[w] \in Tasks /\ task[w].from \in Nat /\ task[w].to \in Nat
      /\ \A v \in Workers : v # w => wpc'[v] = wpc[v] /\ task'[v] = task[v]
      /\ i \in failing => wpc'[w] = "reporting" /\ task'[w] = task[w]
      /\ i \notin failing => /\ wpc'[w] = "running"
                             /\ task'[w].from = p /\ task'[w].to = task[w].to
  <2>1. task[w] \in Tasks /\ task[w].from \in Nat /\ task[w].to \in Nat
    BY DEF FInv, RInv, IInv, TypeOK, Tasks
  <2>2. CASE i \in failing BY <1>2, <2>1, <2>2 DEF FInv, RInv, IInv, TypeOK
  <2>3. CASE i \notin failing
    <3>1. /\ wpc' = [wpc EXCEPT ![w] = "running"]
          /\ task' = [task EXCEPT ![w].from = @ + 1]
      BY <1>2, <2>3
    <3>2. task'[w] = [task[w] EXCEPT !.from = @ + 1]
      BY <3>1 DEF FInv, RInv, IInv, TypeOK
    <3>3. QED BY <1>1, <2>1, <2>3, <3>1, <3>2 DEF Tasks, FInv, RInv, IInv, TypeOK
  <2>4. QED BY <2>2, <2>3
<1>6. HoldingSolved' BY <1>2, EvaluationSolves DEF FInv
<1>7. NoResultYet' BY <1>2 DEF FInv, NoResultYet
<1>8. ErrorsAreReal'
  <2>1. ASSUME NEW v \in Workers, wpc'[v] = "reporting"
        PROVE  Current(v)' \in processed' \cap failing'
    <3>1. CASE v = w
      <4>1. i \in failing BY <1>5, <2>1, <3>1
      <4>2. Current(w)' = i BY <1>1, <1>2, <1>5, <4>1 DEF Current
      <4>3. QED BY <1>2, <3>1, <4>1, <4>2
    <3>2. CASE v # w
      <4>1. wpc[v] = "reporting" /\ Current(v)' = Current(v)
        BY <1>2, <1>5, <2>1, <3>2 DEF Current
      <4>2. QED BY <1>2, <4>1 DEF FInv, ErrorsAreReal
    <3>3. QED BY <3>1, <3>2
  <2>2. main' = "failed" => Level[split.i + 1]' \in processed' \cap failing'
    BY <1>2 DEF FInv, ErrorsAreReal, Level
  <2>3. \A k \in 1 .. Len(chError') : chError'[k] \in processed' \cap failing'
    BY <1>2 DEF FInv, ErrorsAreReal
  <2>4. QED BY <2>1, <2>2, <2>3 DEF ErrorsAreReal
<1>9. ASSUME NEW l \in 1 .. Len(cs.levels), NEW k \in 1 .. Len(cs.levels[l]), Ahead(l, k)
      PROVE  Ahead(l, k)' \/ Holds(l, k)' \/ (l = lvl /\ Troubled')
  <2>1. k \in Nat BY LevelTypes DEF FInv, RInv, IInv
  <2>2. CASE AheadOfCaller(l, k) BY <1>2, <2>2 DEF Ahead, AheadOfCaller, Start
  <2>3. ASSUME l = lvl, NEW j \in 1 .. Len(chTasks), Covers(chTasks[j], k)
        PROVE  Ahead(l, k)'
    BY <1>2, <2>3 DEF Ahead, Covers
  <2>4. ASSUME l = lvl, NEW v \in Workers, v # w, wpc[v] \in {"running", "busy"},
               Covers(task[v], k)
        PROVE  Ahead(l, k)'
    <3>1. wpc'[v] \in {"running", "busy"} /\ Covers(task'[v], k) BY <1>5, <2>4
    <3>2. QED BY <1>2, <2>4, <3>1 DEF Ahead
  <2>5. ASSUME l = lvl, Covers(task[w], k)
        PROVE  Ahead(l, k)' \/ Holds(l, k)' \/ Troubled'
    <3>1. CASE i \in failing BY <1>5, <3>1 DEF Troubled
    <3>2. CASE i \notin failing /\ k = p BY <1>2, <1>4, <2>5, <3>2 DEF Holds
    <3>3. CASE i \notin failing /\ k # p
      <4>1. wpc'[w] = "running" /\ Covers(task'[w], k)
        BY <1>1, <1>5, <2>1, <2>5, <3>3 DEF Covers
      <4>2. QED BY <1>2, <2>5, <4>1 DEF Ahead
    <3>4. QED BY <3>1, <3>2, <3>3
  <2>6. QED BY <1>9, <2>2, <2>3, <2>4, <2>5 DEF Ahead
<1>10. Accounted'
  <2>1. Troubled => Troubled' BY <1>2, <1>5 DEF Troubled
  <2>2. QED BY <1>2, <1>9, <2>1, NothingForgotten DEF FInv
<1>11. QED BY <1>6, <1>7, <1>8, <1>10

LEMMA OtherStepsAccount ==
  ASSUME FInv, NEW w \in Workers,
         Exit(w) \/ Begin(w) \/ ReportError(w) \/ Die(w) \/ TaskDone(w)
  PROVE  Accounted'
<1>1. UNCHANGED <<cs, failing, processed, main, lvl, split, chTasks>>
  BY DEF Exit, Begin, ReportError, Die, TaskDone, mainVars
<1>2. /\ \A v \in Workers : v # w => wpc'[v] = wpc[v] /\ task'[v] = task[v]
      /\ wpc[w] \in {"running", "busy"} =>
           \/ wpc'[w] \in {"running", "busy"} /\ task'[w] = task[w]
           \/ task[w].from = task[w].to
      /\ wpc[w] \in {"reporting", "reported", "exited"} =>
           wpc'[w] \in {"reporting", "reported", "exited"}
  BY DEF Exit, Begin, ReportError, Die, TaskDone, FInv, RInv, IInv, TypeOK
<1>3. task[w].from \in Nat /\ task[w].to \in Nat BY DEF FInv, RInv, IInv, TypeOK, Tasks
<1>4. ASSUME NEW l \in 1 .. Len(cs.levels), NEW k \in 1 .. Len(cs.levels[l]), Ahead(l, k)
      PROVE  Ahead(l, k)'
  <2>1. CASE AheadOfCaller(l, k) BY <1>1, <2>1 DEF Ahead, AheadOfCaller, Start
  <2>2. ASSUME l = lvl, NEW j \in 1 .. Len(chTasks), Covers(chTasks[j], k)
        PROVE  Ahead(l, k)'
    BY <1>1, <2>2 DEF Ahead, Covers
  <2>3. ASSUME l = lvl, NEW v \in Workers, wpc[v] \in {"running", "busy"},
               Covers(task[v], k)
        PROVE  Ahead(l, k)'
    <3>1. k \in Nat BY LevelTypes DEF FInv, RInv, IInv
    <3>2. v = w => task[w].from # task[w].to BY <1>3, <2>3, <3>1 DEF Covers
    <3>3. wpc'[v] \in {"running", "busy"} /\ Covers(task'[v], k)
      BY <1>2, <2>3, <3>2
    <3>4. QED BY <1>1, <2>3, <3>3 DEF Ahead
  <2>4. QED BY <1>4, <2>1, <2>2, <2>3 DEF Ahead
<1>5. Troubled => Troubled' BY <1>1, <1>2 DEF Troubled
<1>6. QED BY <1>1, <1>4, <1>5, NothingForgotten DEF FInv

LEMMA NextKeepsFInv == FInv /\ [Next]_vars => FInv'
<1> SUFFICES ASSUME FInv, [Next]_vars PROVE FInv' OBVIOUS
<1>1. RInv' BY NextKeepsRInv DEF FInv
<1>2. CASE Main
  <2>1. CASE ProcessHere BY <1>1, <2>1, ProcessHereKeepsFInv DEF FInv
  <2>2. CASE LevelDone BY <1>1, <2>2, LevelDoneKeepsFInv DEF FInv
  <2>3. CASE ~ProcessHere /\ ~LevelDone
    <3>1. Accounted'
      BY <1>2, <2>3, SimpleStepsAccount, CutLevelAccounts, PushAccounts,
         EndSequentialAccounts DEF Main
    <3>2. QED BY <1>1, <1>2, <2>3, <3>1, CallerKeepsRest DEF FInv
  <2>4. QED BY <2>1, <2>2, <2>3
<1>3. ASSUME NEW w \in Workers, Worker(w) PROVE FInv'
  <2>1. CASE Finish(w) BY <1>1, <2>1, FinishKeepsFInv DEF FInv
  <2>2. CASE ~Finish(w)
    <3>1. Accounted' BY <1>3, <2>2, ReceiveTaskAccounts, OtherStepsAccount DEF Worker
    <3>2. QED BY <1>1, <1>3, <2>2, <3>1, WorkerKeepsRest DEF FInv
  <2>3. QED BY <2>1, <2>2
<1>4. CASE UNCHANGED vars
  <2> USE <1>4 DEF vars, mainVars, workerVars
  <2>1. HoldingSolved' /\ NoResultYet' BY DEF FInv, HoldingSolved, NoResultYet
  <2>2. ErrorsAreReal' BY DEF FInv, ErrorsAreReal, Current, Level
  <2>3. \A l, k : Ahead(l, k) => Ahead(l, k)'
    BY DEF Ahead, AheadOfCaller, Covers, Start
  <2>4. Troubled => Troubled' BY DEF Troubled
  <2>5. Accounted' BY <2>3, <2>4, NothingForgotten DEF FInv
  <2>6. QED BY <1>1, <2>1, <2>2, <2>5 DEF FInv
<1>5. QED BY <1>2, <1>3, <1>4 DEF Next, Terminated

-----------------------------------------------------------------------------
(* The refinement.                                                            *)

\* Whatever an instruction of the current level reads has its value from an input or
\* from an instruction of an earlier level, which holds.
LEMMA ReadsAreReady ==
  ASSUME FInv, NEW p \in 1 .. Len(cs.levels[lvl]), lvl \in 1 .. Len(cs.levels)
  PROVE  cs.reads[cs.levels[lvl][p]]
           \subseteq cs.inputs \union UNION {cs.writes[j] : j \in processed \ failing}
<1>1. TypeOK /\ ReadsFromEarlierLevels(cs)
  BY SystemsAssumption DEF FInv, RInv, IInv, TypeOK, SoundSystem
<1>2. ASSUME NEW x \in cs.reads[cs.levels[lvl][p]] \ cs.inputs
      PROVE  \E j \in processed \ failing : x \in cs.writes[j]
  <2>1. lvl \in DOMAIN cs.levels /\ p \in DOMAIN cs.levels[lvl]
    BY <1>1, LevelDomains
  <2>2. PICK m \in 1 .. lvl - 1 : \E n \in DOMAIN cs.levels[m] :
               x \in cs.writes[cs.levels[m][n]]
    BY <1>1, <1>2, <2>1 DEF ReadsFromEarlierLevels
  <2>3. m \in 1 .. Len(cs.levels) /\ m < lvl /\ m \in Nat /\ lvl \in Nat
    BY <1>1, <2>2, LevelTypes
  <2>4. PICK n \in 1 .. Len(cs.levels[m]) : x \in cs.writes[cs.levels[m][n]]
    BY <1>1, <2>2, <2>3, LevelDomains
  <2>5. ~Ahead(m, n) /\ m # lvl BY <2>3 DEF Ahead, AheadOfCaller
  <2>6. Holds(m, n) BY <2>3, <2>4, <2>5 DEF FInv, Accounted
  <2>7. QED BY <2>4, <2>6 DEF Holds
<1>3. QED BY <1>2

\* An evaluation of the pool is an evaluation of Solve.
LEMMA EvaluationRefines ==
  ASSUME FInv, UNCHANGED <<cs, failing, result>>, result = <<"none">>,
         lvl \in 1 .. Len(cs.levels), NEW p \in 1 .. Len(cs.levels[lvl]),
         NEW i \in cs.instructions, i = cs.levels[lvl][p], i \notin processed,
         processed' = processed \union {i}
  PROVE  Abstract!Next
<1>1. cs.reads[i] \subseteq cs.inputs \union Abstract!Outputs(processed \ failing)
  BY ReadsAreReady DEF Abstract!Outputs
<1>2. CASE i \in failing
  <2>1. /\ processed' \cap failing' = (processed \cap failing) \union {i}
        /\ processed' \ failing' = processed \ failing
    BY <1>2
  <2>2. Abstract!Evaluate(i) BY <1>1, <1>2, <2>1 DEF Abstract!Evaluate
  <2>3. QED BY <2>2 DEF Abstract!Next
<1>3. CASE i \notin failing
  <2>1. /\ processed' \cap failing' = processed \cap failing
        /\ processed' \ failing' = (processed \ failing) \union {i}
    BY <1>3
  <2>2. Abstract!Evaluate(i) BY <1>1, <1>3, <2>1 DEF Abstract!Evaluate
  <2>3. QED BY <2>2 DEF Abstract!Next
<1>4. QED BY <1>2, <1>3

\* When the caller has walked all levels every instruction holds, and a wire has a
\* value if and only if it is an input or some instruction sets it.
LEMMA AllHold ==
  ASSUME FInv, main = "level", lvl > Len(cs.levels)
  PROVE  /\ processed \ failing = cs.instructions
         /\ cs.wires \subseteq solved <=> Abstract!AllSolved
<1>1. TypeOK /\ EachOnce(cs) /\ processed \subseteq cs.instructions
  BY SystemsAssumption DEF FInv, RInv, IInv, TypeOK, SoundSystem
<1>2. ASSUME NEW i \in cs.instructions PROVE i \in processed \ failing
  <2>1. PICK l \in DOMAIN cs.levels : \E k \in DOMAIN cs.levels[l] : cs.levels[l][k] = i
    BY <1>1 DEF EachOnce
  <2>2. l \in 1 .. Len(cs.levels) BY <1>1, <2>1, LevelDomains
  <2>3. PICK k \in 1 .. Len(cs.levels[l]) : cs.levels[l][k] = i
    BY <1>1, <2>1, <2>2, LevelDomains
  <2>4. l \in Nat /\ lvl \in Nat /\ l < lvl
    BY <1>1, <2>2, LevelTypes DEF TypeOK
  <2>5. ~Ahead(l, k) /\ l # lvl BY <2>4 DEF Ahead, AheadOfCaller
  <2>6. Holds(l, k) BY <2>2, <2>3, <2>5 DEF FInv, Accounted
  <2>7. QED BY <2>3, <2>6 DEF Holds
<1>3. processed \ failing = cs.instructions /\ processed = cs.instructions
  BY <1>1, <1>2
<1>4. solved = cs.inputs \union UNION {cs.writes[i] : i \in processed \ failing}
  <2>1. solved \subseteq cs.inputs \union UNION {cs.writes[i] : i \in processed \ failing}
    BY <1>3 DEF FInv, RInv, SolvedByProcessed
  <2>2. \A i \in processed \ failing : cs.writes[i] \subseteq solved
    BY DEF FInv, HoldingSolved
  <2>3. cs.inputs \subseteq solved BY DEF FInv, HoldingSolved
  <2>4. QED BY <2>1, <2>2, <2>3
<1>5. QED BY <1>3, <1>4 DEF Abstract!AllSolved, Abstract!Outputs

LEMMA CallerRefines ==
  ASSUME FInv, Main
  PROVE  [Abstract!Next]_Abstract!vars
<1>1. CASE ProcessHere
  <2>1. PICK i : i = Level[split.i + 1] OBVIOUS
  <2>2. /\ UNCHANGED <<cs, failing, result>> /\ processed' = processed \union {i}
        /\ result = <<"none">>
    BY <1>1, <2>1 DEF ProcessHere, FInv, NoResultYet
  <2>3. PICK p : p = split.i + 1 OBVIOUS
  <2>4. /\ lvl \in 1 .. Len(cs.levels) /\ p \in 1 .. Len(cs.levels[lvl])
        /\ i = cs.levels[lvl][p] /\ i \in cs.instructions /\ i \notin processed
    BY <1>1, <2>1, <2>3, CallersPlace DEF FInv
  <2>5. QED BY <2>2, <2>4, EvaluationRefines
<1>2. ASSUME NEW i \in processed \cap failing, result' = <<"err", i>>,
             UNCHANGED <<cs, failing, processed>>, result = <<"none">>
      PROVE  Abstract!Next
  BY <1>2 DEF Abstract!Next, Abstract!Return
<1>3. CASE ReturnError
  <2>1. PICK i : i = Level[split.i + 1] OBVIOUS
  <2>2. i \in processed \cap failing /\ result' = <<"err", i>> /\ result = <<"none">>
    BY <1>3, <2>1 DEF ReturnError, FInv, ErrorsAreReal, NoResultYet
  <2>3. QED BY <1>2, <1>3, <2>2 DEF ReturnError
<1>4. CASE LevelDone
  <2>1. CASE chError # <<>>
    <3>1. PICK i : i = Head(chError) OBVIOUS
    <3>2. i = chError[1] /\ 1 \in 1 .. Len(chError)
      BY <2>1, <3>1, EmptySeq, LenProperties DEF FInv, RInv, IInv, TypeOK
    <3>3. i \in processed \cap failing BY <3>2 DEF FInv, ErrorsAreReal
    <3>4. result' = <<"err", i>> /\ result = <<"none">>
      BY <1>4, <2>1, <3>1 DEF LevelDone, FInv, NoResultYet
    <3>5. QED BY <1>2, <1>4, <3>3, <3>4 DEF LevelDone
  <2>2. CASE chError = <<>> BY <1>4, <2>2 DEF LevelDone, Abstract!vars
  <2>3. QED BY <2>1, <2>2
<1>5. CASE CheckAllSolved
  <2>1. /\ UNCHANGED <<cs, failing, processed>> /\ result = <<"none">>
        /\ result' = IF cs.wires \subseteq solved THEN <<"nil">> ELSE <<"unsolved">>
    BY <1>5 DEF CheckAllSolved, FInv, NoResultYet
  <2>2. /\ processed \ failing = cs.instructions
        /\ cs.wires \subseteq solved <=> Abstract!AllSolved
    BY <1>5, AllHold DEF CheckAllSolved
  <2>3. Abstract!Return BY <2>1, <2>2 DEF Abstract!Return
  <2>4. QED BY <2>3 DEF Abstract!Next
<1>6. CASE RunSequentially \/ EndSequential \/ CutLevel \/ Push \/ AllPushed
           \/ CloseChannels
  BY <1>6 DEF RunSequentially, EndSequential, CutLevel, Push, AllPushed,
              CloseChannels, Abstract!vars
<1>7. QED BY <1>1, <1>3, <1>4, <1>5, <1>6 DEF Main

LEMMA WorkerRefines ==
  ASSUME FInv, NEW w \in Workers, Worker(w)
  PROVE  [Abstract!Next]_Abstract!vars
<1>1. CASE Finish(w)
  <2>1. PICK i, p : i = Current(w) /\ p = task[w].from + 1 OBVIOUS
  <2>2. /\ UNCHANGED <<cs, failing, result>> /\ processed' = processed \union {i}
        /\ wpc[w] = "busy"
    BY <1>1, <2>1 DEF Finish, mainVars
  <2>3. w \in InState({"busy"}) /\ wpc[w] \in HoldsTask
    BY <2>2 DEF InState, HoldsTask
  <2>4. /\ lvl \in 1 .. Len(cs.levels) /\ p \in 1 .. Len(cs.levels[lvl])
        /\ i = cs.levels[lvl][p] /\ i \in cs.instructions /\ i \notin processed
    BY <2>1, <2>3, BusyPlace DEF FInv
  <2>5. result = <<"none">>
    BY <2>3, Active DEF FInv, RInv, NoResultYet
  <2>6. QED BY <2>2, <2>4, <2>5, EvaluationRefines
<1>2. CASE ~Finish(w)
  BY <1>2 DEF Worker, ReceiveTask, Exit, Begin, ReportError, Die, TaskDone, mainVars,
              Abstract!vars
<1>3. QED BY <1>1, <1>2

\* The pool implements Solve: seen from the caller, on every system that keeps the
\* compiler's promises, for every size of the pool and every schedule, instructions
\* are evaluated one at a time, each once and with all it reads; nil means that every
\* instruction holds and every wire has a value, an error is that of an instruction
\* that fails, and after the return nothing is evaluated any more.
THEOREM Refinement == Spec => RefinesSolve
<1>1. Init => Abstract!Init
  BY DEF Init, Abstract!Init
<1>2. FInv /\ [Next]_vars => [Abstract!Next]_Abstract!vars
  <2> SUFFICES ASSUME FInv, [Next]_vars PROVE [Abstract!Next]_Abstract!vars OBVIOUS
  <2>1. CASE Main BY <2>1, CallerRefines
  <2>2. ASSUME NEW w \in Workers, Worker(w) PROVE [Abstract!Next]_Abstract!vars
    BY <2>2, WorkerRefines
  <2>3. CASE UNCHANGED vars BY <2>3 DEF vars, mainVars, Abstract!vars
  <2>4. QED BY <2>1, <2>2, <2>3 DEF Next, Terminated
<1>3. QED
  BY InitFInv, NextKeepsFInv, <1>1, <1>2, PTL DEF Spec, RefinesSolve, Abstract!Spec
=============================================================================

-------------------------------- MODULE Solver --------------------------------
(* solver.run (constraint/bn254/solver.go): the goroutine that calls Solve     *)
(* walks the levels of the constraint system; a short level is evaluated in   *)
(* place, a long one is cut into tasks that a pool of NbTasks workers takes    *)
(* from the channel chTasks.  A worker whose instruction fails reports it on   *)
(* chError and stops for good.  A WaitGroup is the barrier between levels.     *)
(*                                                                            *)
(* An instruction is known by the wires it reads and the wires it sets; a     *)
(* wire by whether it has a value (s.solved).                                 *)
EXTENDS Naturals, Sequences, FiniteSets, SystemContract

CONSTANTS
  Systems,   \* constraint systems: [instructions, levels, wires, inputs, reads, writes]
  NbTasks,   \* s.nbTasks, the size of the pool and the capacity of both channels
  MinWork    \* minWorkPerCPU

ASSUME NbTasksAssumption == NbTasks \in Nat \ {0}
ASSUME MinWorkAssumption == MinWork \in Nat \ {0}
ASSUME SystemsAssumption == \A s \in Systems : WellTyped(s) /\ SoundSystem(s)

Workers == 1 .. NbTasks

VARIABLES
  cs,         \* the system, fixed during a run
  failing,    \* the instructions this witness does not satisfy
  solved,     \* the wires that have a value
  processed,  \* the instructions evaluated so far (history)
  main,       \* where the caller's goroutine is in run
  lvl,        \* index of the current level
  split,      \* [nbTasks, per, i, extra, offset]: the locals of the cutting loop
  chTasks, chTasksClosed,
  chError, chErrorClosed,
  wg,         \* the WaitGroup's counter
  wpc, task,  \* per worker: where it is, what is left of its task, which is the
              \* slice cs.levels[level][from:to]
  result      \* what run returned

mainVars   == <<main, lvl, split, result>>
workerVars == <<wpc, task>>
closed     == <<chTasksClosed, chErrorClosed>>
vars == <<cs, failing, solved, processed, mainVars, chTasks, chError, closed,
          wg, workerVars>>

Level == cs.levels[lvl]

Current(w) == cs.levels[task[w].level][task[w].from + 1]

Tasks == [level : Nat, from : Nat, to : Nat]

NoTask == [level |-> 0, from |-> 0, to |-> 0]

NoSplit == [nbTasks |-> 0, per |-> 0, i |-> 0, extra |-> 0, offset |-> 0]

-----------------------------------------------------------------------------
(* The cutting of a level of n instructions.                                 *)

InState(S) == {w \in Workers : wpc[w] \in S}

Smaller(a, b) == IF a < b THEN a ELSE b

CeilDiv(n, d) == (n + d - 1) \div d

Sequential(n) == n <= MinWork \/ NbTasks = 1

\* Mutants: the number of tasks not bounded by the pool, iterations rounded up.
CutUnbounded(n) ==
  LET wanted == CeilDiv(n, MinWork)
  IN  [nbTasks |-> wanted, per |-> n \div wanted, i |-> 0,
       extra |-> n - wanted * (n \div wanted), offset |-> 0]
CutRoundedUp(n) ==
  LET wanted == Smaller(NbTasks, CeilDiv(n, MinWork))
  IN  [nbTasks |-> wanted, per |-> CeilDiv(n, wanted), i |-> 0,
       extra |-> n - wanted * CeilDiv(n, wanted), offset |-> 0]

\* The values of the loop's locals before its first iteration.
Cut(n) ==
  LET wanted  == Smaller(NbTasks, CeilDiv(n, MinWork))
      nbTasks == IF n \div wanted < 1 THEN n ELSE wanted
      per     == IF n \div wanted < 1 THEN 1 ELSE n \div wanted
  IN  [nbTasks |-> nbTasks, per |-> per, i |-> 0,
       extra |-> n - nbTasks * per, offset |-> 0]

\* level[_start:_end] is the next task.
Start == split.i * split.per + split.offset
EndWithoutExtra == Start + split.per     \* mutant: the extra instructions forgotten
End == Start + split.per + (IF split.extra > 0 THEN 1 ELSE 0)

-----------------------------------------------------------------------------
Init ==
  /\ cs \in Systems
  /\ failing \in SUBSET cs.instructions
  /\ solved = cs.inputs
  /\ processed = {}
  /\ main = "level" /\ lvl = 1 /\ split = NoSplit
  /\ chTasks = <<>> /\ chTasksClosed = FALSE
  /\ chError = <<>> /\ chErrorClosed = FALSE
  /\ wg = 0
  /\ wpc = [w \in Workers |-> "idle"]
  /\ task = [w \in Workers |-> NoTask]
  /\ result = <<"none">>

\* processInstruction: a failing instruction has set what it came to: a constraint
\* nothing, a hint everything, a lookup the outputs of its first queries.
Sets(i, S) == IF i \in failing THEN S \subseteq cs.writes[i] ELSE S = cs.writes[i]

\* The caller's goroutine ----------------------------------------------------

\* A level that is not worth the pool: evaluate it here, stop at the first error.
RunSequentially ==
  /\ main = "level" /\ lvl <= Len(cs.levels)
  /\ Sequential(Len(Level))
  /\ main' = "seq" /\ split' = NoSplit
  /\ UNCHANGED <<cs, failing, solved, processed, lvl, chTasks, chError, closed,
                 wg, workerVars, result>>

ProcessHere ==
  /\ main = "seq" /\ split.i < Len(Level)
  /\ LET i == Level[split.i + 1] IN
     /\ \E S \in SUBSET cs.wires : Sets(i, S) /\ solved' = solved \union S
     /\ processed' = processed \union {i}
     /\ IF i \in failing
        THEN main' = "failed" /\ UNCHANGED split
        ELSE split' = [split EXCEPT !.i = @ + 1] /\ UNCHANGED main
  /\ UNCHANGED <<cs, failing, lvl, result, chTasks, chError, closed, wg, workerVars>>

ReturnError ==
  /\ main = "failed"
  /\ main' = "cleanup" /\ result' = <<"err", Level[split.i + 1]>>
  /\ UNCHANGED <<cs, failing, solved, processed, lvl, split, chTasks, chError,
                 closed, wg, workerVars>>

EndSequential ==
  /\ main = "seq" /\ split.i = Len(Level)
  /\ main' = "level" /\ lvl' = lvl + 1
  /\ UNCHANGED <<cs, failing, solved, processed, split, chTasks, chError, closed,
                 wg, workerVars, result>>

CutLevel ==
  /\ main = "level" /\ lvl <= Len(cs.levels)
  /\ ~Sequential(Len(Level))
  /\ main' = "push" /\ split' = Cut(Len(Level))
  /\ UNCHANGED <<cs, failing, solved, processed, lvl, chTasks, chError, closed,
                 wg, workerVars, result>>

\* wg.Add(1); chTasks <- level[_start:_end]
Push ==
  /\ main = "push" /\ split.i < split.nbTasks
  /\ Len(chTasks) < NbTasks
  /\ chTasks' = Append(chTasks, [level |-> lvl, from |-> Start, to |-> End])
  /\ wg' = wg + 1
  /\ split' = IF split.extra > 0
              THEN [split EXCEPT !.i = @ + 1, !.extra = @ - 1, !.offset = @ + 1]
              ELSE [split EXCEPT !.i = @ + 1]
  /\ UNCHANGED <<cs, failing, solved, processed, main, lvl, chError, closed,
                 workerVars, result>>

AllPushed ==
  /\ main = "push" /\ split.i = split.nbTasks
  /\ main' = "wait"
  /\ UNCHANGED <<cs, failing, solved, processed, lvl, split, chTasks, chError,
                 closed, wg, workerVars, result>>

\* Mutants: a wait that misses a task, a wait that a first error cuts short.
AllButOneDone == wg <= 1
DoneOrFailed  == wg = 0 \/ chError # <<>>

\* wg.Wait() returns.
TasksDone == wg = 0

\* The level is over; the first error received ends the run.
LevelDone ==
  /\ main = "wait" /\ TasksDone
  /\ IF chError # <<>>
     THEN /\ main' = "cleanup"
          /\ result' = <<"err", Head(chError)>> /\ chError' = Tail(chError)
          /\ UNCHANGED lvl
     ELSE main' = "level" /\ lvl' = lvl + 1 /\ UNCHANGED <<chError, result>>
  /\ UNCHANGED <<cs, failing, solved, processed, split, chTasks, closed, wg,
                 workerVars>>

CheckAllSolved ==
  /\ main = "level" /\ lvl > Len(cs.levels)
  /\ main' = "cleanup"
  /\ result' = IF cs.wires \subseteq solved THEN <<"nil">> ELSE <<"unsolved">>
  /\ UNCHANGED <<cs, failing, solved, processed, lvl, split, chTasks, chError,
                 closed, wg, workerVars>>

\* The deferred function closes both channels, then run returns to its caller.
CloseChannels ==
  /\ main = "cleanup"
  /\ main' = "returned"
  /\ chTasksClosed' = TRUE /\ chErrorClosed' = TRUE
  /\ UNCHANGED <<cs, failing, solved, processed, lvl, split, result, chTasks,
                 chError, wg, workerVars>>

\* A worker ------------------------------------------------------------------

ReceiveTask(w) ==
  /\ wpc[w] = "idle" /\ chTasks # <<>>
  /\ task' = [task EXCEPT ![w] = Head(chTasks)]
  /\ chTasks' = Tail(chTasks)
  /\ wpc' = [wpc EXCEPT ![w] = "running"]
  /\ UNCHANGED <<cs, failing, solved, processed, mainVars, chError, closed, wg>>

Exit(w) ==
  /\ wpc[w] = "idle" /\ chTasks = <<>> /\ chTasksClosed
  /\ wpc' = [wpc EXCEPT ![w] = "exited"]
  /\ UNCHANGED <<cs, failing, solved, processed, mainVars, chTasks, chError,
                 closed, wg, task>>

\* processInstruction begins: the instruction reads its wires from here on.
Begin(w) ==
  /\ wpc[w] = "running" /\ task[w].from < task[w].to
  /\ wpc' = [wpc EXCEPT ![w] = "busy"]
  /\ UNCHANGED <<cs, failing, solved, processed, mainVars, chTasks, chError,
                 closed, wg, task>>

\* processInstruction returns.
Finish(w) ==
  /\ wpc[w] = "busy"
  /\ LET i == Current(w) IN
     /\ \E S \in SUBSET cs.wires : Sets(i, S) /\ solved' = solved \union S
     /\ processed' = processed \union {i}
     /\ IF i \in failing
        THEN wpc' = [wpc EXCEPT ![w] = "reporting"] /\ UNCHANGED task
        ELSE /\ wpc' = [wpc EXCEPT ![w] = "running"]
             /\ task' = [task EXCEPT ![w].from = @ + 1]
  /\ UNCHANGED <<cs, failing, mainVars, chTasks, chError, closed, wg>>

\* chError <- err
ReportError(w) ==
  /\ wpc[w] = "reporting"
  /\ Len(chError) < NbTasks
  /\ chError' = Append(chError, Current(w))
  /\ wpc' = [wpc EXCEPT ![w] = "reported"]
  /\ UNCHANGED <<cs, failing, solved, processed, mainVars, chTasks, closed, wg, task>>

\* Mutant: the worker returns without wg.Done().
DieSilently(w) ==
  /\ wpc[w] = "reported"
  /\ wpc' = [wpc EXCEPT ![w] = "exited"]
  /\ UNCHANGED <<cs, failing, solved, processed, mainVars, chTasks, chError,
                 closed, wg, task>>

\* wg.Done() and return: this worker takes no task any more.
Die(w) ==
  /\ wpc[w] = "reported"
  /\ wg' = wg - 1
  /\ wpc' = [wpc EXCEPT ![w] = "exited"]
  /\ UNCHANGED <<cs, failing, solved, processed, mainVars, chTasks, chError,
                 closed, task>>

TaskDone(w) ==
  /\ wpc[w] = "running" /\ task[w].from = task[w].to
  /\ wg' = wg - 1
  /\ wpc' = [wpc EXCEPT ![w] = "idle"]
  /\ task' = [task EXCEPT ![w] = NoTask]
  /\ UNCHANGED <<cs, failing, solved, processed, mainVars, chTasks, chError, closed>>

-----------------------------------------------------------------------------
Main == \/ RunSequentially \/ ProcessHere \/ ReturnError \/ EndSequential
        \/ CutLevel \/ Push \/ AllPushed \/ LevelDone \/ CheckAllSolved \/ CloseChannels

Worker(w) == \/ ReceiveTask(w) \/ Exit(w) \/ Begin(w) \/ Finish(w)
             \/ ReportError(w) \/ Die(w) \/ TaskDone(w)

Finished == main = "returned" /\ \A w \in Workers : wpc[w] = "exited"

Terminated == Finished /\ UNCHANGED vars

Next == Main \/ (\E w \in Workers : Worker(w)) \/ Terminated

\* Every goroutine that can run does run: the Go scheduler is preemptive.
Fairness == WF_vars(Main) /\ \A w \in Workers : WF_vars(Worker(w))

Spec == Init /\ [][Next]_vars /\ Fairness

-----------------------------------------------------------------------------
\* The variables hold the kinds of values run gives them.
TypeOK ==
  /\ cs \in Systems
  /\ failing \subseteq cs.instructions /\ processed \subseteq cs.instructions
  /\ solved \subseteq cs.wires
  /\ main \in {"level", "seq", "failed", "push", "wait", "cleanup", "returned"}
  /\ lvl \in 1 .. Len(cs.levels) + 1
  /\ split \in [nbTasks : Nat, per : Nat, i : Nat, extra : Nat, offset : Nat]
  /\ chTasks \in Seq(Tasks)
  /\ chError \in Seq(cs.instructions)
  /\ chTasksClosed \in BOOLEAN /\ chErrorClosed \in BOOLEAN
  /\ wg \in Nat
  /\ wpc \in [Workers -> {"idle", "running", "busy", "reporting", "reported", "exited"}]
  /\ task \in [Workers -> Tasks]
  /\ result \in {<<"none">>, <<"nil">>, <<"unsolved">>}
              \union {<<"err", i>> : i \in cs.instructions}

\* Each task begins where the one before it ended and the last one ends where the
\* next will begin: no gap, no overlap; none runs past the end of the level, and when
\* the caller waits nothing of the level is left out.
TasksCoverLevel ==
  /\ main = "push" /\ split.i < split.nbTasks => Start < End /\ End <= Len(Level)
  /\ main = "wait" => Start = Len(Level)
  /\ \A k \in DOMAIN chTasks :
       /\ chTasks[k].level = lvl
       /\ chTasks[k].to = IF k = Len(chTasks) THEN Start ELSE chTasks[k + 1].from

\* Two instructions evaluated at the same time are different ones and never touch a
\* wire that one of them sets (s.values and s.solved are shared by the workers
\* without a lock); nor does set() meet a wire that has a value already, which
\* would panic in a worker and take the process down.
NoDataRace ==
  \A v \in InState({"busy"}) :
    /\ cs.writes[Current(v)] \cap solved = {}
    /\ \A w \in InState({"busy"}) \ {v} :
         /\ Current(v) # Current(w)
         /\ cs.writes[Current(v)]
              \cap (cs.reads[Current(w)] \union cs.writes[Current(w)]) = {}

\* "since we're never pushing more than num CPU tasks we will never be blocked
\* here": every task in the channel or still to be pushed has an idle worker to
\* itself, though workers die of their first error; so a level always ends.
WorkersSuffice ==
  main \in {"push", "wait"} =>
    Len(chTasks) + split.nbTasks - split.i <= Cardinality(InState({"idle"}))

\* A worker that has an error to report finds chError neither closed (the send
\* would panic) nor full.
ErrorChannelOpen ==
  \A w \in InState({"reporting"}) : ~chErrorClosed /\ Len(chError) < NbTasks

\* Solve is what the pool implements: every step of a goroutine is an evaluation,
\* the return or invisible to the caller.
Abstract == INSTANCE Solve WITH
  done    <- processed \ failing,
  failed  <- processed \cap failing,
  outcome <- result

RefinesSolve == Abstract!Spec

\* run returns and every goroutine it started ends: no worker is left waiting on a
\* channel, whatever fails.
RunReturns == <>Finished
=============================================================================

----------------------------- MODULE WorkerPool -----------------------------
(***************************************************************************)
(* The fixed worker pool on which the component controller re-evaluates    *)
(* nodes (runtime/internal/worker/worker_pool.go).  A job is submitted     *)
(* under a key.  workQueue keeps the keys that wait in arrival order, the  *)
(* function to run for each of them, and the set of "running" keys: those  *)
(* whose job has been sent to the channel tasksToRun or is being executed  *)
(* by a worker.                                                            *)
(*                                                                         *)
(* Every critical section of workQueue.lock is one action; so is every     *)
(* receive from the channel, which takes no lock.                          *)
(***************************************************************************)
EXTENDS Naturals, Sequences, FiniteSets

CONSTANTS
  Keys,      \* the keys jobs are submitted under
  Funcs,     \* the functions a caller may submit
  Workers,   \* the goroutines that fixedWorkerPool.start launches
  MaxSize,   \* workQueue.maxSize
  None       \* no function / no job

ASSUME PoolAssumption ==
  /\ IsFiniteSet(Keys)
  /\ IsFiniteSet(Workers) /\ Workers # {}    \* NewFixedWorkerPool panics otherwise
  /\ MaxSize \in Nat
  /\ None \notin Funcs

VARIABLES
  waitingOrder,  \* keys waiting, in the order they were accepted
  waiting,       \* the function waiting under each key, None when there is none
  running,       \* keys emitted and not yet done
  tasksToRun,    \* buffered channel of wrapped tasks, capacity MaxSize
  wstate,        \* each worker: at its select, executing a task, or returned
  job,           \* the task each worker executes
  quit,          \* the quit channel is closed
  stopResult,    \* progress of the one call of Stop
  owed           \* history: keys with an accepted request no execution has started for

queueVars == <<waitingOrder, waiting, running, tasksToRun>>
workerVars == <<wstate, job>>
vars == <<waitingOrder, waiting, running, tasksToRun, wstate, job, quit, stopResult, owed>>

Task == [key : Keys, fn : Funcs]
NoJob == [key |-> None, fn |-> None]

(***************************************************************************)
(* workQueue                                                               *)
(***************************************************************************)

\* Mutant: the jobs already emitted are not counted.
queueSizeWaitingOnly == Len(waitingOrder)

queueSize == Len(waitingOrder) + Cardinality(running)

\* Mutant: running keys are not skipped.
RunnableAnyKey(order, run) == 1..Len(order)

\* Positions of order whose key is not running.
Runnable(order, run) == {i \in 1..Len(order) : order[i] \notin run}

First(S) == CHOOSE i \in S : \A j \in S : i <= j

\* append(s[:i], s[i+1:]...)
Without(s, i) == [j \in 1..(Len(s) - 1) |-> IF j < i THEN s[j] ELSE s[j + 1]]

\* Mutant: the function is read after it was deleted from waiting.
emitNextTaskReadLate(order, wait, run) ==
  \/ /\ Runnable(order, run) = {}
     /\ waitingOrder' = order
     /\ waiting' = wait
     /\ running' = run
     /\ UNCHANGED tasksToRun
  \/ /\ Runnable(order, run) # {}
     /\ LET index == First(Runnable(order, run))
            key == order[index]
        IN /\ waitingOrder' = Without(order, index)
           /\ waiting' = [wait EXCEPT ![key] = None]
           /\ running' = run \cup {key}
           /\ tasksToRun' = Append(tasksToRun, [key |-> key, fn |-> None])

\* emitNextTask, applied to the queue the caller has already changed.  The send
\* to tasksToRun is made while the lock is held; the code relies on it never
\* blocking, so the model does not guard it and ChannelNeverBlocks checks it.
emitNextTask(order, wait, run) ==
  \/ /\ Runnable(order, run) = {}
     /\ waitingOrder' = order
     /\ waiting' = wait
     /\ running' = run
     /\ UNCHANGED tasksToRun
  \/ /\ Runnable(order, run) # {}
     /\ LET index == First(Runnable(order, run))
            key == order[index]
        IN /\ waitingOrder' = Without(order, index)
           /\ waiting' = [wait EXCEPT ![key] = None]
           /\ running' = run \cup {key}
           /\ tasksToRun' = Append(tasksToRun, [key |-> key, fn |-> wait[key]])

\* Mutant: a job of the key being executed is taken for one that waits.
coalesceRunning(key) ==
  /\ waiting[key] # None \/ key \in running
  /\ owed' = [owed EXCEPT ![key] = TRUE]
  /\ UNCHANGED queueVars

\* tryEnqueue finds a job already waiting under key: nil is returned, f is dropped.
coalesce(key) ==
  /\ waiting[key] # None
  /\ owed' = [owed EXCEPT ![key] = TRUE]
  /\ UNCHANGED queueVars

\* tryEnqueue refuses: "worker queue is full".
reject(key) ==
  /\ waiting[key] = None
  /\ queueSize >= MaxSize
  /\ UNCHANGED <<queueVars, owed>>

\* Mutant: off by one at the capacity.
acceptOneMore(key, f) ==
  /\ waiting[key] = None
  /\ queueSize <= MaxSize
  /\ owed' = [owed EXCEPT ![key] = TRUE]
  /\ emitNextTask(Append(waitingOrder, key), [waiting EXCEPT ![key] = f], running)

accept(key, f) ==
  /\ waiting[key] = None
  /\ queueSize < MaxSize
  /\ owed' = [owed EXCEPT ![key] = TRUE]
  /\ emitNextTask(Append(waitingOrder, key), [waiting EXCEPT ![key] = f], running)

tryEnqueue(key, f) == coalesce(key) \/ reject(key) \/ accept(key, f)

\* Mutant: the job that waited for this one is not emitted.
taskDoneNoEmit(key) ==
  /\ running' = running \ {key}
  /\ UNCHANGED <<waitingOrder, waiting, tasksToRun>>

taskDone(key) == emitNextTask(waitingOrder, waiting, running \ {key})

(***************************************************************************)
(* fixedWorkerPool                                                         *)
(***************************************************************************)

\* Callers may submit at any time, also after Stop.
SubmitWithKey(key, f) ==
  /\ tryEnqueue(key, f)
  /\ UNCHANGED <<workerVars, quit, stopResult>>

\* A worker's select takes the task at the head of the channel and calls it.
Receive(w) ==
  /\ wstate[w] = "select"
  /\ tasksToRun # <<>>
  /\ wstate' = [wstate EXCEPT ![w] = "exec"]
  /\ job' = [job EXCEPT ![w] = Head(tasksToRun)]
  /\ tasksToRun' = Tail(tasksToRun)
  /\ owed' = [owed EXCEPT ![Head(tasksToRun).key] = FALSE]
  /\ UNCHANGED <<waitingOrder, waiting, running, quit, stopResult>>

\* The task function returns and the deferred taskDone runs.
Finish(w) ==
  /\ wstate[w] = "exec"
  /\ taskDone(job[w].key)
  /\ wstate' = [wstate EXCEPT ![w] = "select"]
  /\ job' = [job EXCEPT ![w] = NoJob]
  /\ UNCHANGED <<quit, stopResult, owed>>

\* Mutant: the channel is drained before a worker returns.
ExitAfterDrain(w) ==
  /\ wstate[w] = "select"
  /\ quit
  /\ tasksToRun = <<>>
  /\ wstate' = [wstate EXCEPT ![w] = "exited"]
  /\ UNCHANGED <<queueVars, job, quit, stopResult, owed>>

\* A worker's select takes the closed quit channel, even when a task is ready.
Exit(w) ==
  /\ wstate[w] = "select"
  /\ quit
  /\ wstate' = [wstate EXCEPT ![w] = "exited"]
  /\ UNCHANGED <<queueVars, job, quit, stopResult, owed>>

\* Stop closes quit; it must only be called once.
Stop ==
  /\ stopResult = "notCalled"
  /\ quit' = TRUE
  /\ stopResult' = "waiting"
  /\ UNCHANGED <<queueVars, workerVars, owed>>

\* Mutant: Stop does not wait for the workers.
StopDoneNoWait ==
  /\ stopResult = "waiting"
  /\ stopResult' = "nil"
  /\ UNCHANGED <<queueVars, workerVars, quit, owed>>

\* allStopped.Wait() returned, and with it Stop.
StopDone ==
  /\ stopResult = "waiting"
  /\ \A w \in Workers : wstate[w] = "exited"
  /\ stopResult' = "nil"
  /\ UNCHANGED <<queueVars, workerVars, quit, owed>>

\* The timer of Stop fires first; it may do so whatever the workers are doing.
StopTimeout ==
  /\ stopResult = "waiting"
  /\ stopResult' = "timeout"
  /\ UNCHANGED <<queueVars, workerVars, quit, owed>>

Init ==
  /\ waitingOrder = <<>>
  /\ waiting = [k \in Keys |-> None]
  /\ running = {}
  /\ tasksToRun = <<>>
  /\ wstate = [w \in Workers |-> "select"]
  /\ job = [w \in Workers |-> NoJob]
  /\ quit = FALSE
  /\ stopResult = "notCalled"
  /\ owed = [k \in Keys |-> FALSE]

Next ==
  \/ \E key \in Keys, f \in Funcs : SubmitWithKey(key, f)
  \/ \E w \in Workers : Receive(w) \/ Finish(w) \/ Exit(w)
  \/ Stop \/ StopDone \/ StopTimeout

Spec == Init /\ [][Next]_vars

(***************************************************************************)
(* Fairness.  The Go scheduler runs every runnable goroutine, and the      *)
(* submitted functions return (an evaluation is a bounded computation), so *)
(* a worker that can receive or finish does.  A select with two ready      *)
(* cases picks one at random: a worker that keeps coming back to its       *)
(* select after quit was closed eventually takes that case, which is       *)
(* strong fairness of Exit.  Nothing is assumed of callers or of Stop.     *)
(***************************************************************************)
Fairness ==
  /\ \A w \in Workers : /\ WF_vars(Receive(w))
                        /\ WF_vars(Finish(w))
                        /\ SF_vars(Exit(w))
  /\ WF_vars(StopDone)

FairSpec == Spec /\ Fairness

-----------------------------------------------------------------------------
(***************************************************************************)
(* Properties                                                              *)
(***************************************************************************)

executing == {w \in Workers : wstate[w] = "exec"}
EmittedKeys == {tasksToRun[i].key : i \in 1..Len(tasksToRun)}
ExecutingKeys == {job[w].key : w \in executing}
WaitingKeys == {k \in Keys : waiting[k] # None}

\* Every variable keeps its type; a worker has a job exactly while it executes.
TypeOK ==
  /\ waitingOrder \in Seq(Keys)
  /\ waiting \in [Keys -> Funcs \cup {None}]
  /\ running \in SUBSET Keys
  /\ tasksToRun \in Seq(Task)
  /\ wstate \in [Workers -> {"select", "exec", "exited"}]
  /\ job \in [Workers -> Task \cup {NoJob}]
  /\ \A w \in Workers : job[w] \in Task <=> wstate[w] = "exec"
  /\ quit \in BOOLEAN
  /\ stopResult \in {"notCalled", "waiting", "nil", "timeout"}
  /\ owed \in [Keys -> BOOLEAN]

\* "Only one job with a given key can be running at the time": two workers never
\* execute jobs of the same key (SubmitWithKey, worker_pool.go).
OneRunningPerKey ==
  \A v, w \in executing : v # w => job[v].key # job[w].key

\* "There will always be space in this buffered channel": were the channel ever
\* over its capacity, emitNextTask would block while it holds the lock that
\* taskDone needs, and the pool would be stuck for ever.
ChannelNeverBlocks == Len(tasksToRun) <= MaxSize

\* emitNextTask is called often enough: no key waits unless a job of that key
\* is running, so finishing that job is what will release it.  Were a runnable key
\* left behind, no later step of the pool would be obliged to pick it up.
WaitingOnlyBehindRunning == WaitingKeys \subseteq running

\* "This ensures that a request to re-run a task with the same key is not lost":
\* an accepted request that no execution has started for is still in the queue or
\* in the channel.
NoLostRequest ==
  \A k \in Keys : owed[k] => k \in WaitingKeys \cup EmittedKeys

\* The running set is exact: every key in it is in the channel or executed by a
\* worker.  A key left in the set would block its later jobs for ever.
RunningIsExact == running = EmittedKeys \cup ExecutingKeys

\* Stop "does wait for the currently running tasks to complete": once it has
\* returned nil no task is executing and no worker starts another one, although
\* callers may still submit and tasks may be left in the channel.
NoStartAfterStop ==
  [][stopResult = "nil" => executing = {} /\ executing' = {}]_vars

\* Once quit is closed every worker returns, however many tasks are in the channel.
WorkersExit == quit ~> (\A w \in Workers : wstate[w] = "exited")
=============================================================================

-------------------------- MODULE ControllerProofs --------------------------
(***************************************************************************)
(* Proofs about Controller for any acyclic graph of nodes, any number of   *)
(* workers, any pool size and any bounds: the pool inside the controller   *)
(* is the pool of WorkerPool, no update is left asleep in the queue, no    *)
(* component runs with arguments it refused, and a controller at rest is   *)
(* consistent.                                                             *)
(***************************************************************************)
EXTENDS Controller, WorkerPoolProofs

(***************************************************************************)
(* Evaluation in topological order.  The recursive function of             *)
(* EvaluatedArgs exists because the graph has no cycle: a largest set of   *)
(* nodes that is closed under references and on which the equation has a   *)
(* solution is the whole graph.                                            *)
(***************************************************************************)

\* The arguments of n when the arguments of its dependencies are f.
NewArgs(o, a, f, n) ==
  LET new == [d \in Deps(n) |-> ExportsOf(o[d], f[d])]
  IN IF Invalid(n, new) THEN a[n] ELSE new

Closed(D) == \A n \in D : Deps(n) \subseteq D

Solvable(o, a, D) == \E f : f = [n \in D |-> NewArgs(o, a, f, n)]

\* A solution is extended by a node whose references it covers.
LEMMA SolutionGrows ==
  ASSUME NEW o, NEW a, NEW D \in SUBSET Keys, Closed(D), Solvable(o, a, D),
         NEW n \in Keys \ D, Deps(n) \subseteq D
  PROVE  Closed(D \cup {n}) /\ Solvable(o, a, D \cup {n})
<1>1. PICK f : f = [m \in D |-> NewArgs(o, a, f, m)]
  BY DEF Solvable
<1> DEFINE g == [m \in D \cup {n} |-> NewArgs(o, a, f, m)]
<1>2. \A m \in D : g[m] = f[m]
  BY <1>1
<1>3. ASSUME NEW m \in D \cup {n}
      PROVE  NewArgs(o, a, g, m) = NewArgs(o, a, f, m)
  <2>1. \A d \in Deps(m) : g[d] = f[d]
    BY <1>2, <1>3 DEF Closed
  <2> HIDE DEF g
  <2>2. [d \in Deps(m) |-> ExportsOf(o[d], g[d])] = [d \in Deps(m) |-> ExportsOf(o[d], f[d])]
    BY <2>1
  <2> QED BY <2>2 DEF NewArgs
<1>4. g = [m \in D \cup {n} |-> NewArgs(o, a, g, m)]
  BY <1>3
<1> QED
  BY <1>4 DEF Closed, Solvable

\* The whole graph has a solution.
LEMMA WholeGraphSolvable ==
  ASSUME NEW o, NEW a
  PROVE  Solvable(o, a, Keys)
<1> DEFINE Good == {D \in SUBSET Keys : Closed(D) /\ Solvable(o, a, D)}
           Rest == {Keys \ D : D \in Good}
<1>1. {} \in Good
  <2>1. Solvable(o, a, {})
    <3> DEFINE e == [m \in {} |-> NewArgs(o, a, <<>>, m)]
    <3>1. e = [m \in {} |-> NewArgs(o, a, e, m)]
      OBVIOUS
    <3> QED BY <3>1 DEF Solvable
  <2> QED BY <2>1 DEF Closed
<1>2. Rest # {} /\ Rest \subseteq FiniteSubsetsOf(Keys)
  <2>1. Keys \ {} \in Rest
    BY <1>1
  <2>2. Rest \subseteq SUBSET Keys
    OBVIOUS
  <2>3. FiniteSubsetsOf(Keys) = SUBSET Keys
    BY PoolAssumption, FS_FiniteSubsetsOfFinite
  <2> HIDE DEF Rest
  <2> QED BY <2>1, <2>2, <2>3
<1>3. PICK R \in Rest : \A S \in Rest : <<S, R>> \notin StrictSubsetOrdering(Keys)
  <2> HIDE DEF Rest
  <2> QED BY <1>2, FS_StrictSubsetOrderingWellFounded, WFMin
<1>4. PICK D \in Good : R = Keys \ D
  BY <1>3
<1>5. CASE R # {}
  <2>1. PICK n \in R : \A m \in R : <<n, m>> \notin Edges
    BY <1>4, <1>5, ControllerAssumption
  <2>2. n \in Keys \ D /\ Deps(n) \subseteq D
    BY <1>4, <2>1 DEF Deps
  <2>3. D \cup {n} \in Good
    BY <1>4, <2>2, SolutionGrows
  <2>4. Keys \ (D \cup {n}) \in Rest
    BY <2>3
  <2>5. <<Keys \ (D \cup {n}), R>> \in StrictSubsetOrdering(Keys)
    <3>1. Keys \ (D \cup {n}) \subseteq R /\ Keys \ (D \cup {n}) # R /\ R \subseteq Keys
      BY <1>4, <2>2
    <3> QED BY <3>1 DEF StrictSubsetOrdering
  <2> QED BY <1>3, <2>4, <2>5
<1>6. CASE R = {}
  BY <1>4, <1>6
<1> QED
  BY <1>5, <1>6

\* What Apply evaluates each node to: the arguments of the exports its dependencies
\* have by then, or what it had before if these are invalid.
LEMMA EvaluatedArgsSolve ==
  ASSUME NEW o, NEW a
  PROVE  LET e == EvaluatedArgs(o, a) IN
         /\ DOMAIN e = Keys
         /\ \A n \in Keys : e[n] = NewArgs(o, a, e, n)
<1> DEFINE e == EvaluatedArgs(o, a)
<1>1. e = CHOOSE f : f = [n \in Keys |-> NewArgs(o, a, f, n)]
  BY DEF EvaluatedArgs, NewArgs
<1>2. e = [n \in Keys |-> NewArgs(o, a, e, n)]
  <2> HIDE DEF e
  <2> QED BY <1>1, WholeGraphSolvable DEF Solvable
<1> HIDE DEF e
<1>3. DOMAIN e = Keys /\ \A n \in Keys : e[n] = NewArgs(o, a, e, n)
  BY <1>2
<1> QED
  BY <1>3 DEF e

-----------------------------------------------------------------------------
(***************************************************************************)
(* The controller's pool is a pool.                                        *)
(***************************************************************************)

\* Every step of the controller is a step of the pool, or leaves the pool alone.
LEMMA StepOfPool == [ControllerNext]_allVars => [Next]_vars
<1> SUFFICES ASSUME [ControllerNext]_allVars PROVE [Next]_vars
  OBVIOUS
<1>1. CASE UNCHANGED allVars
  BY <1>1 DEF allVars
<1>2. CASE ComponentStep
  BY <1>2 DEF ComponentStep, SetExports, OnBlockNodeUpdate
<1>3. ASSUME NEW n \in Keys, NEW f \in Funcs, SubmitAccepted(n, f)
      PROVE  Next
  BY <1>3 DEF SubmitAccepted, SubmitWithKey, tryEnqueue, Next
<1>4. ASSUME NEW n \in Keys, SubmitRefused(n)
      PROVE  UNCHANGED vars
  BY <1>4 DEF SubmitRefused, reject, queueVars, workerVars, vars
<1>5. CASE RunStep
  BY <1>3, <1>4, <1>5 DEF RunStep, RunReceive, DequeueAll, RunRLock, ParentRead, ParentCache, ParentsDone,
     BackoffOver, GiveUp, EvaluateDependantsDone
<1>6. ASSUME NEW w \in Workers, EvalStep(w)
      PROVE  [Next]_vars
  BY <1>6 DEF EvalStep, EvalReceive, EvalContext, EvalEvaluate, EvalNotify, EvalRead, EvalCache, EvalFinish, Next
<1>7. CASE LoadStep \/ Waiting
  BY <1>7 DEF LoadStep, ReloadBegin, Apply, ApplyRejected, Waiting, allVars
<1> QED
  BY <1>1, <1>2, <1>5, <1>6, <1>7 DEF ControllerNext

\* What is proved of the worker pool holds of the pool inside the controller: in
\* particular a node is never evaluated by two workers at once, and a submitted
\* evaluation is not lost.
THEOREM ControllerUsesPool == ControllerSpec => Spec
<1>1. ControllerInit => Init
  BY DEF ControllerInit
<1> QED
  BY <1>1, StepOfPool, PTL DEF ControllerSpec, Spec

\* Two workers never evaluate the same node at the same time, which the component
\* nodes rely on: Evaluate is not written to be called twice at once.
THEOREM OneEvaluationPerNode == ControllerSpec => [](OneRunningPerKey /\ NoLostRequest)
  BY ControllerUsesPool, MutualExclusion, RequestsAreKept, PTL

(***************************************************************************)
(* What the pool's steps do to the keys that wait, are in the channel or   *)
(* are executed.                                                           *)
(***************************************************************************)
PooledKeys == WaitingKeys \cup EmittedKeys

LEMMA AppendedKey ==
  ASSUME tasksToRun \in Seq(Task), NEW n \in Keys, NEW f \in Funcs,
         tasksToRun' = Append(tasksToRun, [key |-> n, fn |-> f])
  PROVE  EmittedKeys' = EmittedKeys \cup {n}
<1> DEFINE t == [key |-> n, fn |-> f]
<1>1. t \in Task /\ t.key = n
  BY DEF Task
<1> HIDE DEF t
<1>2. /\ Len(tasksToRun) \in Nat
      /\ Len(tasksToRun') = Len(tasksToRun) + 1
      /\ tasksToRun'[Len(tasksToRun) + 1] = t
      /\ \A j \in 1..Len(tasksToRun) : j \in 1..Len(tasksToRun') /\ tasksToRun'[j] = tasksToRun[j]
      /\ \A j \in 1..Len(tasksToRun') : j = Len(tasksToRun) + 1 \/ j \in 1..Len(tasksToRun)
  <2>1. tasksToRun' = Append(tasksToRun, t)
    BY DEF t
  <2> QED BY <1>1, <2>1, AppendElements
<1>3. Len(tasksToRun) + 1 \in 1..Len(tasksToRun')
  BY <1>2
<1> QED
  BY <1>1, <1>2, <1>3 DEF EmittedKeys

LEMMA AcceptedKeys ==
  ASSUME IInv, NEW n \in Keys, NEW f \in Funcs, coalesce(n) \/ accept(n, f),
         UNCHANGED <<workerVars, quit, stopResult>>
  PROVE  /\ PooledKeys' = PooledKeys \cup {n}
         /\ ExecutingKeys' = ExecutingKeys /\ UNCHANGED <<wstate, job>>
<1>0. /\ waiting \in [Keys -> Funcs \cup {None}]
      /\ tasksToRun \in Seq(Task) /\ f # None
  BY PoolAssumption DEF IInv, TypeOK
<1>1. ExecutingKeys' = ExecutingKeys /\ UNCHANGED <<wstate, job>>
  BY DEF workerVars, ExecutingKeys, executing
<1>2. CASE coalesce(n)
  BY <1>0, <1>1, <1>2 DEF coalesce, queueVars, PooledKeys, WaitingKeys, EmittedKeys
<1>3. CASE waiting' = [waiting EXCEPT ![n] = f] /\ UNCHANGED tasksToRun
  <2>1. EmittedKeys' = EmittedKeys
    BY <1>3 DEF EmittedKeys
  <2>2. WaitingKeys' = WaitingKeys \cup {n}
    BY <1>0, <1>3 DEF WaitingKeys
  <2> QED BY <1>1, <2>1, <2>2 DEF PooledKeys
<1>4. CASE UNCHANGED waiting /\ tasksToRun' = Append(tasksToRun, [key |-> n, fn |-> f])
  <2>1. WaitingKeys' = WaitingKeys
    BY <1>4 DEF WaitingKeys
  <2>2. EmittedKeys' = EmittedKeys \cup {n}
    BY <1>0, <1>4, AppendedKey
  <2> QED BY <1>1, <2>1, <2>2 DEF PooledKeys
<1> QED
  BY <1>2, <1>3, <1>4, AcceptCases

LEMMA ReceivedKey ==
  ASSUME IInv, NEW w \in Workers, Receive(w)
  PROVE  /\ EvalNode(w)' \in EmittedKeys
         /\ EvalNode(w)' \notin ExecutingKeys
         /\ PooledKeys \subseteq PooledKeys' \cup {EvalNode(w)'}
         /\ PooledKeys' \subseteq PooledKeys
         /\ ExecutingKeys' \subseteq ExecutingKeys \cup {EvalNode(w)'}
         /\ wstate[w] = "select"
         /\ wstate' = [wstate EXCEPT ![w] = "exec"]
         /\ \A v \in Workers : v # w => job'[v] = job[v]
<1>1. /\ tasksToRun \in Seq(Task) /\ tasksToRun # <<>> /\ tasksToRun' = Tail(tasksToRun)
      /\ job \in [Workers -> Task \cup {NoJob}] /\ job' = [job EXCEPT ![w] = Head(tasksToRun)]
      /\ wstate \in [Workers -> {"select", "exec", "exited"}]
      /\ wstate' = [wstate EXCEPT ![w] = "exec"]
      /\ wstate[w] = "select" /\ UNCHANGED waiting
  BY DEF IInv, TypeOK, Receive
<1>2. /\ Len(tasksToRun) \in Nat \ {0}
      /\ Head(tasksToRun) = tasksToRun[1]
      /\ Len(tasksToRun') = Len(tasksToRun) - 1
      /\ \A i \in 1..Len(tasksToRun') : tasksToRun'[i] = tasksToRun[i + 1]
  <2> QED BY <1>1
<1>3. EvalNode(w)' = tasksToRun[1].key /\ \A v \in Workers : v # w => job'[v] = job[v]
  <2> QED BY <1>1, <1>2 DEF EvalNode
<1>4. EvalNode(w)' \in EmittedKeys
  BY <1>2, <1>3 DEF EmittedKeys
<1>5. EvalNode(w)' \notin ExecutingKeys
  BY <1>2, <1>3 DEF IInv, EachKeyOnce, ExecutingKeys
<1>6. WaitingKeys' = WaitingKeys
  BY <1>1 DEF WaitingKeys
<1>7. EmittedKeys \subseteq EmittedKeys' \cup {EvalNode(w)'}
  <2> SUFFICES ASSUME NEW i \in 1..Len(tasksToRun), tasksToRun[i].key # tasksToRun[1].key
               PROVE  tasksToRun[i].key \in EmittedKeys'
    BY <1>3 DEF EmittedKeys
  <2>1. i - 1 \in 1..Len(tasksToRun') /\ tasksToRun'[i - 1] = tasksToRun[i]
    BY <1>2
  <2> QED BY <2>1 DEF EmittedKeys
<1>8. EmittedKeys' \subseteq EmittedKeys
  <2> SUFFICES ASSUME NEW i \in 1..Len(tasksToRun') PROVE tasksToRun'[i].key \in EmittedKeys
    BY DEF EmittedKeys
  <2>1. i + 1 \in 1..Len(tasksToRun) /\ tasksToRun'[i] = tasksToRun[i + 1]
    BY <1>2
  <2> QED BY <2>1 DEF EmittedKeys
<1>9. ExecutingKeys' \subseteq ExecutingKeys \cup {EvalNode(w)'}
  <2> SUFFICES ASSUME NEW v \in Workers, wstate'[v] = "exec", v # w
               PROVE  job'[v].key \in ExecutingKeys
    BY DEF ExecutingKeys, executing, EvalNode
  <2> QED BY <1>1, <1>3 DEF ExecutingKeys, executing
<1> QED
  BY <1>1, <1>3, <1>4, <1>5, <1>6, <1>7, <1>8, <1>9 DEF PooledKeys

LEMMA FinishedKey ==
  ASSUME IInv, NEW w \in Workers, Finish(w)
  PROVE  /\ PooledKeys' = PooledKeys
         /\ ExecutingKeys' \subseteq ExecutingKeys
         /\ wstate' = [wstate EXCEPT ![w] = "select"]
         /\ \A v \in Workers : v # w => job'[v] = job[v]
<1> DEFINE k == job[w].key
<1>1. /\ waiting \in [Keys -> Funcs \cup {None}] /\ tasksToRun \in Seq(Task)
      /\ wstate \in [Workers -> {"select", "exec", "exited"}]
      /\ wstate' = [wstate EXCEPT ![w] = "select"]
  BY DEF IInv, TypeOK, Finish
<1>2. \A v \in Workers : v # w => job'[v] = job[v]
  <2>1. job \in [Workers -> Task \cup {NoJob}] /\ job' = [job EXCEPT ![w] = NoJob]
    BY DEF IInv, TypeOK, Finish
  <2> QED BY <2>1
<1>3. k \in running /\ k \in Keys /\ taskDone(k)
  BY DEF Finish, IInv, TypeOK, RunningIsExact, ExecutingKeys, executing
<1>4. ExecutingKeys' \subseteq ExecutingKeys
  <2> SUFFICES ASSUME NEW v \in Workers, wstate'[v] = "exec"
               PROVE  job'[v].key \in ExecutingKeys
    BY DEF ExecutingKeys, executing
  <2> QED BY <1>1, <1>2 DEF ExecutingKeys, executing
<1> HIDE DEF k
<1>5. CASE UNCHANGED <<waiting, tasksToRun>>
  BY <1>1, <1>2, <1>4, <1>5 DEF PooledKeys, WaitingKeys, EmittedKeys
<1>6. CASE /\ waiting[k] # None
           /\ waiting' = [waiting EXCEPT ![k] = None]
           /\ tasksToRun' = Append(tasksToRun, [key |-> k, fn |-> waiting[k]])
  <2>1. waiting[k] \in Funcs
    BY <1>1, <1>3, <1>6
  <2>2. EmittedKeys' = EmittedKeys \cup {k}
    BY <1>1, <1>3, <1>6, <2>1, AppendedKey
  <2>3. WaitingKeys' = WaitingKeys \ {k} /\ k \in WaitingKeys
    BY <1>1, <1>3, <1>6 DEF WaitingKeys
  <2> QED BY <1>1, <1>2, <1>4, <2>2, <2>3 DEF PooledKeys
<1> QED
  BY <1>3, <1>5, <1>6, DoneCases

-----------------------------------------------------------------------------
(***************************************************************************)
(* The inductive invariant, part one: where the loop, the workers and the  *)
(* queue are, and what they hold.                                          *)
(***************************************************************************)

\* The types of what the argument looks into.
ControllerTypeOK ==
  /\ DOMAIN own = Keys /\ DOMAIN args = Keys /\ DOMAIN exports = Keys /\ DOMAIN cache = Keys
  /\ notifying \subseteq Autonomous
  /\ queued \in Seq(Keys) /\ batch \in Seq(Keys)
  /\ updateCh \in BOOLEAN /\ damaged \in BOOLEAN
  /\ rpc \in {"select", "dequeue", "rlock", "parents", "write", "submit", "backoff"}
  /\ todo \subseteq Keys
  /\ wpc \in [Workers -> {"idle", "rlock", "evaluate", "notify", "read", "cache", "done"}]
  /\ DOMAIN scope = Workers /\ DOMAIN wread = Workers
  /\ lpc \in {"idle", "wait"}

\* A worker is inside concurrentEvalFn exactly while it executes a job.
WorkersAgree == \A w \in Workers : wpc[w] = "idle" <=> wstate[w] # "exec"

\* The Run loop leaves nothing behind: it waits only once the batch is cached and
\* every dependant submitted.
RunPosition ==
  /\ rpc \in {"select", "dequeue"} => batch = <<>> /\ todo = {}
  /\ rpc \in {"submit", "backoff"} => batch = <<>>
  /\ rpc = "write" => batch # <<>>

\* Only nodes that reference another one are evaluated by the pool.
HasDeps == {n \in Keys : Deps(n) # {}}
OnlyDependants == todo \cup PooledKeys \cup ExecutingKeys \subseteq HasDeps

Books ==
  /\ IInv
  /\ ControllerTypeOK
  /\ WorkersAgree
  /\ RunPosition
  /\ OnlyDependants
  /\ NoLostWakeup
  /\ ArgumentsAreValid

\* A set of nodes, queued in some order.
LEMMA OrderedType ==
  ASSUME NEW S \in SUBSET Keys
  PROVE  Ordered(S) \in Seq(Keys) /\ (S = {} => Ordered(S) = <<>>)
<1>1. IsFiniteSet(S) /\ Cardinality(S) \in Nat
  BY PoolAssumption, FS_Subset, FS_CardinalityType
<1>2. \E s \in [1..Cardinality(S) -> S] : \A x \in S : \E i \in 1..Cardinality(S) : s[i] = x
  <2>1. PICK s : s \in Bijection(1..Cardinality(S), S)
    BY <1>1, FS_CardinalityType DEF ExistsBijection
  <2> QED BY <2>1 DEF Bijection, Surjection
<1>3. Ordered(S) \in [1..Cardinality(S) -> S]
  BY <1>2 DEF Ordered
<1>4. Ordered(S) \in Seq(Keys)
  BY <1>1, <1>3
<1>5. ASSUME S = {} PROVE Ordered(S) = <<>>
  <2>1. Cardinality(S) = 0
    BY <1>5, FS_EmptySet
  <2>2. Ordered(S) \in [1..0 -> S]
    BY <1>3, <2>1
  <2> QED BY <1>4, <2>2
<1> QED BY <1>4, <1>5

\* A step that leaves the pool alone leaves its keys and jobs alone.
LEMMA PoolFrame ==
  ASSUME UNCHANGED vars
  PROVE  /\ PooledKeys' = PooledKeys /\ ExecutingKeys' = ExecutingKeys
         /\ \A w \in Workers : EvalNode(w)' = EvalNode(w)
         /\ UNCHANGED <<wstate, job>>
  BY DEF vars, PooledKeys, WaitingKeys, EmittedKeys, ExecutingKeys, executing, EvalNode

\* The node a worker evaluates.
LEMMA EvaluatedNode ==
  ASSUME Books, NEW w \in Workers, wpc[w] # "idle"
  PROVE  w \in executing /\ EvalNode(w) \in ExecutingKeys /\ EvalNode(w) \in Keys
<1>1. w \in executing /\ EvalNode(w) \in ExecutingKeys
  BY DEF Books, WorkersAgree, executing, ExecutingKeys, EvalNode, ControllerTypeOK
<1>2. job[w] \in Task
  BY <1>1 DEF Books, IInv, TypeOK, executing
<1> QED
  BY <1>1, <1>2 DEF Task, EvalNode

LEMMA InitBooks == ControllerInit => Books
<1> SUFFICES ASSUME ControllerInit PROVE Books
  OBVIOUS
<1>1. IInv
  BY InitIInv DEF ControllerInit
<1> DEFINE a0 == [n \in Keys |-> None]
<1>2. DOMAIN args = Keys /\ \A n \in Keys : args[n] = NewArgs(own, a0, args, n)
  <2>1. args = EvaluatedArgs(own, a0)
    BY DEF ControllerInit
  <2> QED BY <2>1, EvaluatedArgsSolve
<1>3. ArgumentsAreValid
  <2> SUFFICES ASSUME NEW n \in Keys PROVE ~Invalid(n, args[n])
    BY DEF ArgumentsAreValid
  <2> DEFINE new == [d \in Deps(n) |-> ExportsOf(own[d], args[d])]
  <2>1. ~Invalid(n, new)
    BY ControllerAssumption DEF ControllerInit, Invalid, ExportsOf, Deps
  <2> QED BY <1>2, <2>1 DEF NewArgs
<1>4. ControllerTypeOK
  <2>1. DOMAIN own = Keys /\ DOMAIN args = Keys /\ DOMAIN exports = Keys /\ DOMAIN cache = Keys
    BY <1>2 DEF ControllerInit
  <2>2. queued \in Seq(Keys) /\ batch \in Seq(Keys)
    BY DEF ControllerInit
  <2>3. /\ wpc \in [Workers -> {"idle", "rlock", "evaluate", "notify", "read", "cache", "done"}]
        /\ DOMAIN scope = Workers /\ DOMAIN wread = Workers
    BY DEF ControllerInit
  <2> QED BY <2>1, <2>2, <2>3 DEF ControllerInit, ControllerTypeOK
<1>5. WorkersAgree
  BY DEF ControllerInit, Init, WorkersAgree
<1>6. RunPosition /\ NoLostWakeup
  BY DEF ControllerInit, RunPosition, NoLostWakeup
<1>7. OnlyDependants
  <2>1. WaitingKeys = {} /\ EmittedKeys = {} /\ ExecutingKeys = {}
    BY DEF ControllerInit, Init, WaitingKeys, EmittedKeys, ExecutingKeys, executing
  <2> QED BY <2>1 DEF ControllerInit, OnlyDependants, PooledKeys
<1> QED
  BY <1>1, <1>3, <1>4, <1>5, <1>6, <1>7 DEF Books

(***************************************************************************)
(* Every step keeps the books.  Each lemma takes one conjunct; the actions *)
(* that leave its variables alone are taken together.                      *)
(***************************************************************************)

LEMMA TypeStep == Books /\ [ControllerNext]_allVars => ControllerTypeOK'
<1> SUFFICES ASSUME Books, [ControllerNext]_allVars PROVE ControllerTypeOK'
  OBVIOUS
<1> USE DEF ControllerTypeOK, nodeVars, queueOfUpdates, runVars, evalVars, loadVars
<1>0. ControllerTypeOK
  BY DEF Books
<1>1. CASE UNCHANGED allVars
  BY <1>0, <1>1 DEF allVars, controllerVars
<1>2. ASSUME NEW n \in Keys, SetExports(n) \/ OnBlockNodeUpdate(n) PROVE ControllerTypeOK'
  <2>1. CASE SetExports(n)
    BY <1>0, <2>1 DEF SetExports
  <2>2. CASE OnBlockNodeUpdate(n)
    <3>1. /\ notifying' \subseteq Autonomous
          /\ queued' \in Seq(Keys)
          /\ updateCh' = TRUE
      BY <1>0, <2>2 DEF OnBlockNodeUpdate, Enqueue
    <3> QED BY <1>0, <2>2, <3>1 DEF OnBlockNodeUpdate
  <2> QED BY <1>2, <2>1, <2>2
<1>3. CASE RunReceive \/ DequeueAll \/ RunRLock \/ ParentRead \/ ParentsDone
           \/ BackoffOver \/ GiveUp \/ EvaluateDependantsDone
  <2>1. CASE RunReceive
    BY <1>0, <2>1 DEF RunReceive
  <2>2. CASE DequeueAll
    <3>1. queued' \in Seq(Keys) /\ batch' \in Seq(Keys) /\ rpc' \in {"select", "rlock"}
      BY <1>0, <2>2 DEF DequeueAll
    <3> QED BY <1>0, <2>2, <3>1 DEF DequeueAll
  <2>3. CASE RunRLock \/ ParentRead \/ ParentsDone
    BY <1>0, <2>3 DEF RunRLock, ParentRead, ParentsDone
  <2>4. CASE BackoffOver \/ GiveUp \/ EvaluateDependantsDone
    BY <1>0, <2>4 DEF BackoffOver, GiveUp, EvaluateDependantsDone
  <2> QED BY <1>3, <2>1, <2>2, <2>3, <2>4
<1>4. CASE ParentCache
  <2>1. batch # <<>>
    BY <1>4 DEF Books, RunPosition, ParentCache
  <2>2. Tail(batch) \in Seq(Keys)
    BY <1>0, <2>1
  <2>3. Dependants(Head(batch)) \subseteq Keys
    BY DEF Dependants
  <2> QED BY <1>0, <1>4, <2>2, <2>3 DEF ParentCache
<1>5. ASSUME NEW n \in Keys, SubmitRefused(n) \/ \E f \in Funcs : SubmitAccepted(n, f)
      PROVE  ControllerTypeOK'
  BY <1>0, <1>5 DEF SubmitRefused, SubmitAccepted
<1>6. ASSUME NEW w \in Workers, EvalStep(w) PROVE ControllerTypeOK'
  <2>1. CASE EvalReceive(w) \/ EvalContext(w) \/ EvalRead(w) \/ EvalCache(w) \/ EvalFinish(w)
    BY <1>0, <2>1 DEF EvalReceive, EvalContext, EvalRead, EvalCache, EvalFinish
  <2>2. CASE EvalEvaluate(w)
    BY <1>0, <2>2 DEF EvalEvaluate
  <2>3. CASE EvalNotify(w)
    <3>1. EvalNode(w) \in Keys
      BY <2>3, EvaluatedNode DEF EvalNotify
    <3> QED BY <1>0, <2>3, <3>1 DEF EvalNotify, Enqueue
  <2> QED BY <1>6, <2>1, <2>2, <2>3 DEF EvalStep
<1>7. CASE ReloadBegin \/ ApplyRejected
  BY <1>0, <1>7 DEF ReloadBegin, ApplyRejected
<1>8. CASE Apply
  <2>1. DOMAIN args' = Keys /\ DOMAIN exports' = Keys /\ DOMAIN cache' = Keys
    BY <1>8, EvaluatedArgsSolve DEF Apply
  <2>2. queued' \in Seq(Keys) /\ updateCh' \in BOOLEAN
    <3> DEFINE changed == {n \in Keys : exports'[n] # exports[n]}
    <3>1. queued' = queued \o Ordered(changed) /\ updateCh' = (updateCh \/ changed # {})
      BY <1>8 DEF Apply
    <3>2. Ordered(changed) \in Seq(Keys)
      BY OrderedType
    <3> HIDE DEF changed
    <3> QED BY <1>0, <3>1, <3>2
  <2> QED BY <1>0, <1>8, <2>1, <2>2 DEF Apply
<1> QED
  BY <1>1, <1>2, <1>3, <1>4, <1>5, <1>6, <1>7, <1>8
     DEF ControllerNext, ComponentStep, RunStep, LoadStep, Waiting

\* A worker enters and leaves concurrentEvalFn with the steps of the pool.
LEMMA WorkersAgreeStep == Books /\ [ControllerNext]_allVars => WorkersAgree'
<1> SUFFICES ASSUME Books, [ControllerNext]_allVars PROVE WorkersAgree'
  OBVIOUS
<1> USE DEF WorkersAgree
<1>0. /\ WorkersAgree
      /\ wpc \in [Workers -> {"idle", "rlock", "evaluate", "notify", "read", "cache", "done"}]
      /\ wstate \in [Workers -> {"select", "exec", "exited"}]
  BY DEF Books, ControllerTypeOK, IInv, TypeOK
<1>1. ASSUME UNCHANGED <<wpc, wstate>> PROVE WorkersAgree'
  BY <1>0, <1>1
<1>2. CASE ComponentStep \/ RunStep \/ LoadStep \/ Waiting \/ UNCHANGED allVars
  <2>1. UNCHANGED <<wpc, wstate>>
    BY <1>2 DEF ComponentStep, SetExports, OnBlockNodeUpdate, RunStep, RunReceive, DequeueAll, RunRLock,
       ParentRead, ParentCache, ParentsDone, SubmitRefused, SubmitAccepted, BackoffOver, GiveUp,
       EvaluateDependantsDone, LoadStep, ReloadBegin, Apply, ApplyRejected, Waiting, allVars, controllerVars,
       vars, workerVars, evalVars
  <2> QED BY <1>1, <2>1
<1>3. ASSUME NEW w \in Workers, EvalStep(w) PROVE WorkersAgree'
  <2>1. CASE EvalReceive(w)
    <3>1. wstate' = [wstate EXCEPT ![w] = "exec"] /\ wpc' = [wpc EXCEPT ![w] = "rlock"]
      BY <2>1 DEF EvalReceive, Receive
    <3> QED BY <1>0, <3>1
  <2>2. CASE EvalFinish(w)
    <3>1. wstate' = [wstate EXCEPT ![w] = "select"] /\ wpc' = [wpc EXCEPT ![w] = "idle"]
      BY <2>2 DEF EvalFinish, Finish
    <3> QED BY <1>0, <3>1
  <2>3. CASE EvalContext(w) \/ EvalEvaluate(w) \/ EvalNotify(w) \/ EvalRead(w) \/ EvalCache(w)
    <3>1. /\ UNCHANGED wstate /\ wpc[w] # "idle"
          /\ \E p \in {"evaluate", "notify", "read", "cache", "done"} : wpc' = [wpc EXCEPT ![w] = p]
      BY <2>3 DEF EvalContext, EvalEvaluate, EvalNotify, EvalRead, EvalCache, vars
    <3> QED BY <1>0, <3>1
  <2> QED BY <1>3, <2>1, <2>2, <2>3 DEF EvalStep
<1> QED
  BY <1>2, <1>3 DEF ControllerNext

LEMMA RunPositionStep == Books /\ [ControllerNext]_allVars => RunPosition'
<1> SUFFICES ASSUME Books, [ControllerNext]_allVars PROVE RunPosition'
  OBVIOUS
<1> USE DEF RunPosition
<1>0. RunPosition
  BY DEF Books
<1>1. CASE ComponentStep \/ LoadStep \/ Waiting \/ (\E w \in Workers : EvalStep(w)) \/ UNCHANGED allVars
  <2>1. UNCHANGED <<rpc, batch, todo>>
    BY <1>1 DEF ComponentStep, SetExports, OnBlockNodeUpdate, EvalStep, EvalReceive, EvalContext, EvalEvaluate,
       EvalNotify, EvalRead, EvalCache, EvalFinish, LoadStep, ReloadBegin, Apply, ApplyRejected, Waiting,
       allVars, controllerVars, runVars
  <2> QED BY <1>0, <2>1
<1>2. CASE RunReceive \/ DequeueAll \/ RunRLock \/ ParentRead \/ ParentCache \/ ParentsDone
  BY <1>0, <1>2 DEF RunReceive, DequeueAll, RunRLock, ParentRead, ParentCache, ParentsDone
<1>3. CASE BackoffOver \/ GiveUp \/ EvaluateDependantsDone
  BY <1>0, <1>3 DEF BackoffOver, GiveUp, EvaluateDependantsDone
<1>4. ASSUME NEW n \in Keys, SubmitRefused(n) \/ \E f \in Funcs : SubmitAccepted(n, f)
      PROVE  RunPosition'
  BY <1>0, <1>4 DEF SubmitRefused, SubmitAccepted
<1> QED
  BY <1>1, <1>2, <1>3, <1>4 DEF ControllerNext, RunStep

LEMMA OnlyDependantsStep == Books /\ [ControllerNext]_allVars => OnlyDependants'
<1> SUFFICES ASSUME Books, [ControllerNext]_allVars PROVE OnlyDependants'
  OBVIOUS
<1> USE DEF OnlyDependants
<1>0. OnlyDependants /\ IInv
  BY DEF Books
<1>1. ASSUME UNCHANGED vars, todo' \subseteq todo \cup HasDeps PROVE OnlyDependants'
  BY <1>0, <1>1, PoolFrame
<1>2. CASE ComponentStep \/ LoadStep \/ Waiting \/ UNCHANGED allVars
  <2>1. UNCHANGED <<vars, todo>>
    BY <1>2 DEF ComponentStep, SetExports, OnBlockNodeUpdate, LoadStep, ReloadBegin, Apply, ApplyRejected,
       Waiting, allVars, controllerVars, runVars
  <2> QED BY <1>1, <2>1
<1>3. CASE ParentCache
  <2>1. batch \in Seq(Keys) /\ batch # <<>>
    BY <1>3 DEF Books, ControllerTypeOK, RunPosition, ParentCache
  <2>2. Dependants(Head(batch)) \subseteq HasDeps
    <3>1. Head(batch) \in Keys
      BY <2>1
    <3> QED BY <3>1 DEF Dependants, HasDeps, Deps
  <2> QED BY <1>1, <1>3, <2>2 DEF ParentCache
<1>4. CASE RunReceive \/ DequeueAll \/ RunRLock \/ ParentRead \/ ParentsDone \/ BackoffOver \/ GiveUp
           \/ EvaluateDependantsDone
  <2>1. UNCHANGED vars /\ todo' \subseteq todo
    BY <1>4 DEF RunReceive, DequeueAll, RunRLock, ParentRead, ParentsDone, BackoffOver, GiveUp,
       EvaluateDependantsDone
  <2> QED BY <1>1, <2>1
<1>5. ASSUME NEW n \in Keys, SubmitRefused(n) PROVE OnlyDependants'
  <2>1. UNCHANGED <<vars, todo>>
    BY <1>5 DEF SubmitRefused, reject, queueVars, workerVars, vars
  <2> QED BY <1>1, <2>1
<1>6. ASSUME NEW n \in Keys, NEW f \in Funcs, SubmitAccepted(n, f) PROVE OnlyDependants'
  <2>1. n \in todo /\ todo' = todo \ {n}
    BY <1>6 DEF SubmitAccepted
  <2>2. PooledKeys' = PooledKeys \cup {n} /\ ExecutingKeys' = ExecutingKeys
    BY <1>0, <1>6, AcceptedKeys DEF SubmitAccepted
  <2> QED BY <1>0, <2>1, <2>2
<1>7. ASSUME NEW w \in Workers, EvalStep(w) PROVE OnlyDependants'
  <2>1. UNCHANGED todo
    BY <1>7 DEF EvalStep, EvalReceive, EvalContext, EvalEvaluate, EvalNotify, EvalRead, EvalCache, EvalFinish, runVars
  <2>2. CASE EvalReceive(w)
    <3>1. EvalNode(w)' \in PooledKeys /\ PooledKeys' \subseteq PooledKeys
          /\ ExecutingKeys' \subseteq ExecutingKeys \cup {EvalNode(w)'}
      BY <1>0, <2>2, ReceivedKey DEF EvalReceive, PooledKeys
    <3> QED BY <1>0, <2>1, <3>1
  <2>3. CASE EvalFinish(w)
    <3>1. PooledKeys' = PooledKeys /\ ExecutingKeys' \subseteq ExecutingKeys
      BY <1>0, <2>3, FinishedKey DEF EvalFinish
    <3> QED BY <1>0, <2>1, <3>1
  <2>4. CASE EvalContext(w) \/ EvalEvaluate(w) \/ EvalNotify(w) \/ EvalRead(w) \/ EvalCache(w)
    <3>1. UNCHANGED vars
      BY <2>4 DEF EvalContext, EvalEvaluate, EvalNotify, EvalRead, EvalCache
    <3> QED BY <1>1, <2>1, <3>1
  <2> QED BY <1>7, <2>2, <2>3, <2>4 DEF EvalStep
<1> QED
  BY <1>2, <1>3, <1>4, <1>5, <1>6, <1>7 DEF ControllerNext, RunStep

\* Who queues a node sends the token, and the loop takes the token only to dequeue.
LEMMA NoLostWakeupStep == Books /\ [ControllerNext]_allVars => NoLostWakeup'
<1> SUFFICES ASSUME Books, [ControllerNext]_allVars PROVE NoLostWakeup'
  OBVIOUS
<1> USE DEF NoLostWakeup
<1>0. NoLostWakeup /\ updateCh \in BOOLEAN /\ queued \in Seq(Keys)
  BY DEF Books, ControllerTypeOK
<1>1. ASSUME UNCHANGED <<queued, updateCh>>, rpc # "dequeue" \/ rpc' = "dequeue" PROVE NoLostWakeup'
  BY <1>0, <1>1
<1>2. ASSUME NEW n, Enqueue(n) PROVE NoLostWakeup'
  BY <1>2 DEF Enqueue
<1>3. CASE UNCHANGED allVars \/ Waiting
  BY <1>1, <1>3 DEF Waiting, allVars, controllerVars
<1>4. ASSUME NEW n \in Keys, SetExports(n) \/ OnBlockNodeUpdate(n) PROVE NoLostWakeup'
  BY <1>1, <1>2, <1>4 DEF SetExports, OnBlockNodeUpdate, queueOfUpdates, runVars
<1>5. CASE RunReceive
  BY <1>5 DEF RunReceive
<1>6. CASE DequeueAll
  BY <1>6 DEF DequeueAll
<1>7. CASE RunRLock \/ ParentRead \/ ParentCache \/ ParentsDone \/ BackoffOver \/ GiveUp \/ EvaluateDependantsDone
  BY <1>1, <1>7 DEF RunRLock, ParentRead, ParentCache, ParentsDone, BackoffOver, GiveUp, EvaluateDependantsDone,
     queueOfUpdates
<1>8. ASSUME NEW n \in Keys, SubmitRefused(n) \/ \E f \in Funcs : SubmitAccepted(n, f) PROVE NoLostWakeup'
  BY <1>1, <1>8 DEF SubmitRefused, SubmitAccepted, queueOfUpdates
<1>9. ASSUME NEW w \in Workers, EvalStep(w) PROVE NoLostWakeup'
  BY <1>1, <1>2, <1>9 DEF EvalStep, EvalReceive, EvalContext, EvalEvaluate, EvalNotify, EvalRead, EvalCache,
     EvalFinish, queueOfUpdates, runVars
<1>10. CASE ReloadBegin \/ ApplyRejected
  BY <1>1, <1>10 DEF ReloadBegin, ApplyRejected, queueOfUpdates, runVars
<1>11. CASE Apply
  <2> DEFINE changed == {n \in Keys : exports'[n] # exports[n]}
  <2>1. /\ queued' = queued \o Ordered(changed) /\ updateCh' = (updateCh \/ changed # {})
        /\ rpc' = rpc
    BY <1>11 DEF Apply, runVars
  <2>2. changed = {} => Ordered(changed) = <<>>
    BY OrderedType
  <2> HIDE DEF changed
  <2>3. CASE changed = {}
    <3>1. queued' = queued
      BY <1>0, <2>1, <2>2, <2>3
    <3> QED BY <1>0, <2>1, <3>1
  <2>4. CASE changed # {}
    BY <2>1, <2>4
  <2> QED BY <2>3, <2>4
<1> QED
  BY <1>3, <1>4, <1>5, <1>6, <1>7, <1>8, <1>9, <1>10, <1>11
     DEF ControllerNext, ComponentStep, RunStep, LoadStep

\* Arguments change only where Evaluate, in a worker or in Apply, accepted them.
LEMMA ArgumentsAreValidStep == Books /\ [ControllerNext]_allVars => ArgumentsAreValid'
<1> SUFFICES ASSUME Books, [ControllerNext]_allVars, NEW n \in Keys PROVE ~Invalid(n, args'[n])
  BY DEF ArgumentsAreValid, Invalid
<1>0. ~Invalid(n, args[n]) /\ DOMAIN args = Keys
  BY DEF Books, ArgumentsAreValid, ControllerTypeOK
<1>1. ASSUME UNCHANGED args PROVE ~Invalid(n, args'[n])
  BY <1>0, <1>1
<1>2. CASE ComponentStep \/ RunStep \/ ReloadBegin \/ ApplyRejected \/ Waiting \/ UNCHANGED allVars
  <2>1. UNCHANGED args
    BY <1>2 DEF ComponentStep, SetExports, OnBlockNodeUpdate, RunStep, RunReceive, DequeueAll, RunRLock,
       ParentRead, ParentCache, ParentsDone, SubmitRefused, SubmitAccepted, BackoffOver, GiveUp,
       EvaluateDependantsDone, ReloadBegin, ApplyRejected, Waiting, allVars, controllerVars, nodeVars
  <2> QED BY <1>1, <2>1
<1>3. ASSUME NEW w \in Workers, EvalStep(w) PROVE ~Invalid(n, args'[n])
  <2>1. CASE EvalEvaluate(w)
    <3>1. \/ UNCHANGED args
          \/ /\ args' = [args EXCEPT ![EvalNode(w)] = scope[w]]
             /\ ~Invalid(EvalNode(w), scope[w])
      BY <2>1 DEF EvalEvaluate
    <3> QED BY <1>0, <1>1, <3>1
  <2>2. CASE EvalReceive(w) \/ EvalContext(w) \/ EvalNotify(w) \/ EvalRead(w) \/ EvalCache(w) \/ EvalFinish(w)
    <3>1. UNCHANGED args
      BY <2>2 DEF EvalReceive, EvalContext, EvalNotify, EvalRead, EvalCache, EvalFinish, nodeVars
    <3> QED BY <1>1, <3>1
  <2> QED BY <1>3, <2>1, <2>2 DEF EvalStep
<1>4. CASE Apply
  <2>1. args'[n] = NewArgs(own, args, args', n)
    BY <1>4, EvaluatedArgsSolve DEF Apply
  <2> QED BY <1>0, <2>1 DEF NewArgs
<1> QED
  BY <1>2, <1>3, <1>4 DEF ControllerNext, LoadStep

LEMMA NextBooks == Books /\ [ControllerNext]_allVars => Books'
  BY StepOfPool, NextIInv, TypeStep, WorkersAgreeStep, RunPositionStep, OnlyDependantsStep, NoLostWakeupStep,
     ArgumentsAreValidStep DEF Books

LEMMA BooksHold == ControllerSpec => []Books
  BY InitBooks, NextBooks, PTL DEF ControllerSpec

\* A queued update always has its token, or the Run loop on its way to dequeue it:
\* the channel of capacity one loses no wake-up, whoever queues and however often.
THEOREM NoWakeupIsLost == ControllerSpec => []NoLostWakeup
<1>1. Books => NoLostWakeup
  BY DEF Books
<1> QED BY <1>1, BooksHold, PTL

\* No component ever runs with arguments it refused, in any graph and whatever
\* exports, evaluations and reloads follow each other.
THEOREM OnlyValidArguments == ControllerSpec => []ArgumentsAreValid
<1>1. Books => ArgumentsAreValid
  BY DEF Books
<1> QED BY <1>1, BooksHold, PTL

-----------------------------------------------------------------------------
(***************************************************************************)
(* The inductive invariant, part two: what is stale is on its way to be    *)
(* refreshed.  A value may be stale in three places, the cache, a worker's *)
(* copy of the context and the arguments of a component, and each has its  *)
(* excuse: its node is still to be announced, queued or in the batch of    *)
(* the loop (Pending), or is still to be submitted or received (Coming).   *)
(*                                                                         *)
(* The excuse fails for a worker that has read the exports of its node and *)
(* not yet cached them, while the node sets new ones: the worker overwrites*)
(* the newer entry that the loop has cached in between.  That needs a node *)
(* that changes by itself and references another one.                      *)
(***************************************************************************)

\* Components that change by themselves reference no other component.
AutonomousAreSources == \A n \in Autonomous : Deps(n) = {}

In(x, s) == \E i \in 1..Len(s) : s[i] = x

\* An update of d that the loop has not dequeued.
PendingApart(d) ==
  \/ d \in notifying
  \/ In(d, queued)
  \/ \E w \in Workers : wpc[w] = "notify" /\ EvalNode(w) = d

\* An update of d that the loop has not cached.
Pending(d) == PendingApart(d) \/ In(d, batch)

\* An evaluation of n that has not started.
Coming(n) ==
  \/ n \in todo \cup PooledKeys
  \/ \E d \in Deps(n) : Pending(d)

ReadsAreFresh ==
  /\ rpc = "write" => read = exports[Head(batch)] \/ PendingApart(Head(batch))
  /\ \A w \in Workers : wpc[w] = "cache" => wread[w] = exports[EvalNode(w)]

CacheIsFresh == \A n \in Keys : cache[n] = exports[n] \/ Pending(n)

ScopesAreFresh ==
  \A w \in Workers : wpc[w] = "evaluate" =>
    scope[w] = Arguments(EvalNode(w), cache) \/ Coming(EvalNode(w))

ArgsAreFresh ==
  \A n \in Keys :
    \/ args[n] = Arguments(n, cache)
    \/ Invalid(n, Arguments(n, cache))
    \/ Coming(n)
    \/ \E w \in Workers : wpc[w] \in {"rlock", "evaluate"} /\ EvalNode(w) = n

Fresh ==
  /\ ReadsAreFresh
  /\ ~damaged => CacheIsFresh /\ ScopesAreFresh /\ ArgsAreFresh

CInv == Books /\ Fresh

\* The elements of the sequences the queue and the batch go through.
LEMMA InFacts ==
  ASSUME NEW S, NEW s \in Seq(S), NEW x
  PROVE  /\ ~In(x, <<>>)
         /\ \A e \in S : In(x, s) \/ x = e => In(x, Append(s, e))
         /\ \A t \in Seq(S) : In(x, s) => In(x, s \o t)
         /\ s # <<>> /\ In(x, s) => x = Head(s) \/ In(x, Tail(s))
<1>1. ~In(x, <<>>)
  BY DEF In
<1>2. ASSUME NEW e \in S, In(x, s) \/ x = e PROVE In(x, Append(s, e))
  <2>1. Len(s) + 1 \in 1..Len(Append(s, e))
    OBVIOUS
  <2> QED BY <1>2, <2>1, AppendElements DEF In
<1>3. ASSUME NEW t \in Seq(S), In(x, s) PROVE In(x, s \o t)
  <2>1. PICK i \in 1..Len(s) : s[i] = x
    BY <1>3 DEF In
  <2>2. i \in 1..Len(s \o t) /\ (s \o t)[i] = x
    BY <2>1
  <2> QED BY <2>2 DEF In
<1>4. ASSUME s # <<>>, In(x, s) PROVE x = Head(s) \/ In(x, Tail(s))
  <2>1. PICK i \in 1..Len(s) : s[i] = x
    BY <1>4 DEF In
  <2>2. CASE i = 1
    BY <1>4, <2>1, <2>2
  <2>3. CASE i # 1
    <3>1. i - 1 \in 1..Len(Tail(s)) /\ Tail(s)[i - 1] = x
      BY <1>4, <2>1, <2>3
    <3> QED BY <3>1 DEF In
  <2> QED BY <2>2, <2>3
<1> QED BY <1>1, <1>2, <1>3, <1>4

\* While a worker stays inside concurrentEvalFn its node is the same.
LEMMA NodeKept ==
  ASSUME Books, [ControllerNext]_allVars, NEW v \in Workers, wpc[v] # "idle", wpc'[v] # "idle"
  PROVE  EvalNode(v)' = EvalNode(v)
<1>0. /\ IInv /\ wstate[v] = "exec"
      /\ wpc \in [Workers -> {"idle", "rlock", "evaluate", "notify", "read", "cache", "done"}]
  BY EvaluatedNode DEF Books, executing, ControllerTypeOK
<1>1. ASSUME UNCHANGED job PROVE EvalNode(v)' = EvalNode(v)
  BY <1>1 DEF EvalNode
<1>2. CASE ComponentStep \/ RunStep \/ LoadStep \/ Waiting \/ UNCHANGED allVars
  <2>1. UNCHANGED job
    BY <1>2 DEF ComponentStep, SetExports, OnBlockNodeUpdate, RunStep, RunReceive, DequeueAll, RunRLock,
       ParentRead, ParentCache, ParentsDone, SubmitRefused, SubmitAccepted, BackoffOver, GiveUp,
       EvaluateDependantsDone, LoadStep, ReloadBegin, Apply, ApplyRejected, Waiting, allVars, vars, workerVars
  <2> QED BY <1>1, <2>1
<1>3. ASSUME NEW w \in Workers, EvalStep(w) PROVE EvalNode(v)' = EvalNode(v)
  <2>1. CASE EvalReceive(w)
    <3>1. v # w /\ (v # w => job'[v] = job[v])
      BY <1>0, <2>1, ReceivedKey DEF EvalReceive
    <3> QED BY <3>1 DEF EvalNode
  <2>2. CASE EvalFinish(w)
    <3>1. v # w /\ (v # w => job'[v] = job[v])
      BY <1>0, <2>2, FinishedKey DEF EvalFinish
    <3> QED BY <3>1 DEF EvalNode
  <2>3. CASE EvalContext(w) \/ EvalEvaluate(w) \/ EvalNotify(w) \/ EvalRead(w) \/ EvalCache(w)
    <3>1. UNCHANGED job
      BY <2>3 DEF EvalContext, EvalEvaluate, EvalNotify, EvalRead, EvalCache, vars
    <3> QED BY <1>1, <3>1
  <2> QED BY <1>3, <2>1, <2>2, <2>3 DEF EvalStep
<1> QED
  BY <1>2, <1>3 DEF ControllerNext

\* An update stays to be dequeued until the loop dequeues it.
LEMMA PendingApartStep ==
  ASSUME Books, [ControllerNext]_allVars, NEW d \in Keys, PendingApart(d)
  PROVE  PendingApart(d)' \/ (DequeueAll /\ In(d, batch)')
<1>0. /\ queued \in Seq(Keys)
      /\ wpc \in [Workers -> {"idle", "rlock", "evaluate", "notify", "read", "cache", "done"}]
  BY DEF Books, ControllerTypeOK
<1>q. ASSUME In(d, queued) PROVE In(d, queued)' \/ (DequeueAll /\ In(d, batch)')
  <2>1. ASSUME UNCHANGED queued PROVE In(d, queued)'
    BY <1>q, <2>1 DEF In
  <2>2. ASSUME NEW n \in Keys, Enqueue(n) PROVE In(d, queued)'
    <3>1. queued' = Append(queued, n) /\ In(d, Append(queued, n))
      BY <1>0, <1>q, <2>2, InFacts DEF Enqueue
    <3> QED BY <3>1 DEF In
  <2>3. CASE DequeueAll
    BY <1>q, <2>3 DEF DequeueAll, In
  <2>4. CASE Apply
    <3> DEFINE changed == {n \in Keys : exports'[n] # exports[n]}
    <3>1. queued' = queued \o Ordered(changed)
      BY <2>4 DEF Apply
    <3>2. Ordered(changed) \in Seq(Keys)
      BY OrderedType
    <3> HIDE DEF changed
    <3>3. In(d, queued \o Ordered(changed))
      BY <1>0, <1>q, <3>2, InFacts
    <3> QED BY <3>1, <3>3 DEF In
  <2>5. ASSUME NEW w \in Workers, EvalNotify(w) PROVE In(d, queued)'
    <3>1. EvalNode(w) \in Keys
      BY <2>5, EvaluatedNode DEF EvalNotify
    <3> QED BY <2>2, <2>5, <3>1 DEF EvalNotify
  <2>6. ASSUME NEW n \in Keys, SetExports(n) \/ OnBlockNodeUpdate(n) PROVE In(d, queued)'
    BY <2>1, <2>2, <2>6 DEF SetExports, OnBlockNodeUpdate, queueOfUpdates
  <2>7. CASE RunStep /\ ~DequeueAll
    BY <2>1, <2>7 DEF RunStep, RunReceive, RunRLock, ParentRead, ParentCache, ParentsDone, SubmitRefused,
       SubmitAccepted, BackoffOver, GiveUp, EvaluateDependantsDone, queueOfUpdates
  <2>8. ASSUME NEW w \in Workers, EvalStep(w), ~EvalNotify(w) PROVE In(d, queued)'
    BY <2>1, <2>8 DEF EvalStep, EvalReceive, EvalContext, EvalEvaluate, EvalRead, EvalCache, EvalFinish,
       queueOfUpdates
  <2>9. CASE ReloadBegin \/ ApplyRejected \/ Waiting \/ UNCHANGED allVars
    BY <2>1, <2>9 DEF ReloadBegin, ApplyRejected, Waiting, allVars, controllerVars, queueOfUpdates
  <2> QED BY <2>3, <2>4, <2>5, <2>6, <2>7, <2>8, <2>9 DEF ControllerNext, ComponentStep, LoadStep
<1>n. ASSUME d \in notifying PROVE PendingApart(d)'
  <2>1. CASE OnBlockNodeUpdate(d)
    <3>1. queued' = Append(queued, d) /\ In(d, Append(queued, d))
      BY <1>0, <2>1, InFacts DEF OnBlockNodeUpdate, Enqueue
    <3> QED BY <3>1 DEF PendingApart, In
  <2>2. CASE ~OnBlockNodeUpdate(d)
    <3>1. d \in notifying'
      BY <1>n, <2>2 DEF ControllerNext, ComponentStep, SetExports, OnBlockNodeUpdate, RunStep, RunReceive,
         DequeueAll, RunRLock, ParentRead, ParentCache, ParentsDone, SubmitRefused, SubmitAccepted, BackoffOver,
         GiveUp, EvaluateDependantsDone, EvalStep, EvalReceive, EvalContext, EvalEvaluate, EvalNotify, EvalRead,
         EvalCache, EvalFinish, LoadStep, ReloadBegin, Apply, ApplyRejected, Waiting, allVars, controllerVars,
         nodeVars
    <3> QED BY <3>1 DEF PendingApart
  <2> QED BY <2>1, <2>2
<1>w. ASSUME NEW v \in Workers, wpc[v] = "notify", EvalNode(v) = d PROVE PendingApart(d)'
  <2>1. CASE EvalNotify(v)
    <3>1. queued' = Append(queued, d) /\ In(d, Append(queued, d))
      BY <1>0, <1>w, <2>1, InFacts DEF EvalNotify, Enqueue
    <3> QED BY <3>1 DEF PendingApart, In
  <2>2. CASE ~EvalNotify(v)
    <3>1. wpc'[v] = "notify"
      <4>1. CASE ComponentStep \/ RunStep \/ LoadStep \/ Waiting \/ UNCHANGED allVars
        <5>1. UNCHANGED wpc
          BY <4>1 DEF ComponentStep, SetExports, OnBlockNodeUpdate, RunStep, RunReceive, DequeueAll, RunRLock,
             ParentRead, ParentCache, ParentsDone, SubmitRefused, SubmitAccepted, BackoffOver, GiveUp,
             EvaluateDependantsDone, LoadStep, ReloadBegin, Apply, ApplyRejected, Waiting, allVars,
             controllerVars, evalVars
        <5> QED BY <1>w, <5>1
      <4>2. ASSUME NEW w \in Workers, EvalStep(w) PROVE wpc'[v] = "notify"
        <5>1. CASE EvalReceive(w)
          <6>1. wstate[w] = "select" /\ wpc' = [wpc EXCEPT ![w] = "rlock"]
            BY <5>1 DEF EvalReceive, Receive
          <6>2. w # v
            BY <1>w, <6>1 DEF Books, WorkersAgree
          <6> QED BY <1>0, <1>w, <6>1, <6>2
        <5>2. CASE EvalContext(w) \/ EvalEvaluate(w) \/ EvalNotify(w) \/ EvalRead(w) \/ EvalCache(w) \/ EvalFinish(w)
          <6>1. w # v /\ \E p : wpc' = [wpc EXCEPT ![w] = p]
            BY <1>w, <2>2, <5>2 DEF EvalContext, EvalEvaluate, EvalNotify, EvalRead, EvalCache, EvalFinish
          <6> QED BY <1>0, <1>w, <6>1
        <5> QED BY <4>2, <5>1, <5>2 DEF EvalStep
      <4> QED BY <4>1, <4>2 DEF ControllerNext
    <3>2. EvalNode(v)' = d
      BY <1>w, <3>1, NodeKept
    <3> QED BY <3>1, <3>2 DEF PendingApart
  <2> QED BY <2>1, <2>2
<1> QED
  BY <1>q, <1>n, <1>w DEF PendingApart

\* ... and to be cached until the loop has cached it.
LEMMA PendingStep ==
  ASSUME Books, [ControllerNext]_allVars, NEW d \in Keys, Pending(d)
  PROVE  Pending(d)' \/ (ParentCache /\ d = Head(batch))
<1>1. CASE PendingApart(d)
  BY <1>1, PendingApartStep DEF Pending
<1>2. CASE In(d, batch)
  <2>0. batch \in Seq(Keys) /\ batch # <<>>
    BY <1>2, InFacts DEF Books, ControllerTypeOK
  <2>1. CASE ParentCache
    <3>1. batch' = Tail(batch)
      BY <2>1 DEF ParentCache
    <3>2. d = Head(batch) \/ In(d, Tail(batch))
      BY <1>2, <2>0, InFacts
    <3> QED BY <2>1, <3>1, <3>2 DEF Pending, In
  <2>2. CASE ~ParentCache
    <3>1. ~DequeueAll
      BY <2>0 DEF DequeueAll, Books, RunPosition
    <3>2. UNCHANGED batch
      BY <2>2, <3>1 DEF ControllerNext, ComponentStep, SetExports, OnBlockNodeUpdate, RunStep, RunReceive,
         RunRLock, ParentRead, ParentsDone, SubmitRefused, SubmitAccepted, BackoffOver,
         GiveUp, EvaluateDependantsDone, EvalStep, EvalReceive, EvalContext, EvalEvaluate, EvalNotify, EvalRead,
         EvalCache, EvalFinish, LoadStep, ReloadBegin, Apply, ApplyRejected, Waiting, allVars, controllerVars,
         runVars
    <3> QED BY <1>2, <3>2 DEF Pending, In
  <2> QED BY <2>1, <2>2
<1> QED
  BY <1>1, <1>2 DEF Pending

\* Who changes exports announces it; only Apply does not rely on the queue for it.
LEMMA ExportsChange ==
  ASSUME Books, [ControllerNext]_allVars, NEW d \in Keys, exports'[d] # exports[d], ~Apply
  PROVE  /\ PendingApart(d)'
         /\ UNCHANGED cache
         /\ d \in Autonomous \/ \E w \in Workers : wpc[w] = "evaluate" /\ EvalNode(w) = d
<1>0. /\ DOMAIN exports = Keys
      /\ wpc \in [Workers -> {"idle", "rlock", "evaluate", "notify", "read", "cache", "done"}]
  BY DEF Books, ControllerTypeOK
<1>1. ASSUME NEW n \in Keys, SetExports(n)
      PROVE  PendingApart(d)' /\ UNCHANGED cache /\ d \in Autonomous
  <2>1. d = n
    BY <1>0, <1>1 DEF SetExports
  <2> QED BY <1>1, <2>1 DEF SetExports, PendingApart
<1>2. ASSUME NEW w \in Workers, EvalEvaluate(w)
      PROVE  PendingApart(d)' /\ UNCHANGED cache /\ wpc[w] = "evaluate" /\ EvalNode(w) = d
  <2>1. /\ exports' = [exports EXCEPT ![EvalNode(w)] = ExportsOf(own[EvalNode(w)], scope[w])]
        /\ wpc' = [wpc EXCEPT ![w] = "notify"]
        /\ UNCHANGED <<job, cache>> /\ wpc[w] = "evaluate"
    BY <1>2 DEF EvalEvaluate, vars
  <2>2. d = EvalNode(w)
    BY <1>0, <2>1
  <2>3. wpc'[w] = "notify" /\ EvalNode(w)' = d
    BY <1>0, <2>1, <2>2 DEF EvalNode
  <2> QED BY <2>1, <2>2, <2>3 DEF PendingApart
<1>3. ASSUME ~(\E n \in Keys : SetExports(n)), ~(\E w \in Workers : EvalEvaluate(w))
      PROVE  UNCHANGED exports
  BY <1>3 DEF ControllerNext, ComponentStep, OnBlockNodeUpdate, RunStep, RunReceive,
     DequeueAll, RunRLock, ParentRead, ParentCache, ParentsDone, SubmitRefused, SubmitAccepted, BackoffOver,
     GiveUp, EvaluateDependantsDone, EvalStep, EvalReceive, EvalContext, EvalNotify, EvalRead,
     EvalCache, EvalFinish, LoadStep, ReloadBegin, ApplyRejected, Waiting, allVars, controllerVars, nodeVars
<1> QED
  BY <1>1, <1>2, <1>3

\* What the loop and the workers have read is fresh, or announced.
LEMMA ReadsStep ==
  ASSUME AutonomousAreSources, CInv, [ControllerNext]_allVars
  PROVE  ReadsAreFresh'
<1>0. /\ Books /\ ReadsAreFresh
      /\ batch \in Seq(Keys) /\ DOMAIN wread = Workers
      /\ wpc \in [Workers -> {"idle", "rlock", "evaluate", "notify", "read", "cache", "done"}]
  BY DEF CInv, Books, Fresh, ControllerTypeOK
<1>1. ASSUME rpc' = "write"
      PROVE  (read = exports[Head(batch)])' \/ PendingApart(Head(batch))'
  <2>1. CASE ParentRead
    BY <2>1 DEF ParentRead, nodeVars
  <2>2. CASE ~ParentRead
    <3>1. rpc = "write" /\ UNCHANGED <<batch, read>>
      BY <1>1, <2>2 DEF ControllerNext, ComponentStep, SetExports, OnBlockNodeUpdate, RunStep, RunReceive,
         DequeueAll, RunRLock, ParentCache, ParentsDone, SubmitRefused, SubmitAccepted, BackoffOver,
         GiveUp, EvaluateDependantsDone, EvalStep, EvalReceive, EvalContext, EvalEvaluate, EvalNotify, EvalRead,
         EvalCache, EvalFinish, LoadStep, ReloadBegin, Apply, ApplyRejected, Waiting, allVars, controllerVars,
         runVars
    <3>2. Head(batch) \in Keys
      BY <1>0, <3>1 DEF Books, RunPosition
    <3>3. PICK h \in Keys : h = Head(batch)
      BY <3>2
    <3>4. ~Apply /\ ~DequeueAll
      BY <3>1 DEF Apply, CanLock, RunHoldsLock, DequeueAll
    <3>5. PendingApart(h) => PendingApart(h)'
      BY <1>0, <3>4, PendingApartStep
    <3>6. exports'[h] # exports[h] => PendingApart(h)'
      BY <1>0, <3>4, ExportsChange
    <3>7. read = exports[h] \/ PendingApart(h)
      BY <1>0, <3>1, <3>3 DEF ReadsAreFresh
    <3>8. Head(batch)' = h
      BY <3>1, <3>3
    <3>9. read' = exports'[h] \/ PendingApart(h)'
      BY <3>1, <3>5, <3>6, <3>7
    <3> QED BY <3>8, <3>9 DEF PendingApart
  <2> QED BY <2>1, <2>2
<1>2. ASSUME NEW w \in Workers, wpc'[w] = "cache"
      PROVE  (wread[w] = exports[EvalNode(w)])'
  <2>1. CASE EvalRead(w)
    <3>1. EvalNode(w)' = EvalNode(w)
      BY <2>1, PoolFrame DEF EvalRead
    <3> QED BY <1>0, <2>1, <3>1 DEF EvalRead, nodeVars
  <2>2. CASE ~EvalRead(w)
    <3>1. wpc[w] = "cache" /\ wread'[w] = wread[w]
      <4>1. CASE ComponentStep \/ RunStep \/ LoadStep \/ Waiting \/ UNCHANGED allVars
        <5>1. UNCHANGED <<wpc, wread>>
          BY <4>1 DEF ComponentStep, SetExports, OnBlockNodeUpdate, RunStep, RunReceive, DequeueAll, RunRLock,
             ParentRead, ParentCache, ParentsDone, SubmitRefused, SubmitAccepted, BackoffOver, GiveUp,
             EvaluateDependantsDone, LoadStep, ReloadBegin, Apply, ApplyRejected, Waiting, allVars,
             controllerVars, evalVars
        <5> QED BY <1>2, <5>1
      <4>2. ASSUME NEW v \in Workers, EvalStep(v) PROVE wpc[w] = "cache" /\ wread'[w] = wread[w]
        <5>1. CASE v = w
          BY <1>0, <1>2, <2>2, <4>2, <5>1 DEF EvalStep, EvalReceive, EvalContext, EvalEvaluate, EvalNotify,
             EvalCache, EvalFinish
        <5>2. CASE v # w
          <6>1. /\ \E p : wpc' = [wpc EXCEPT ![v] = p]
                /\ wread' = wread \/ \E x : wread' = [wread EXCEPT ![v] = x]
            BY <4>2 DEF EvalStep, EvalReceive, EvalContext, EvalEvaluate, EvalNotify, EvalRead, EvalCache, EvalFinish
          <6> QED BY <1>0, <1>2, <5>2, <6>1
        <5> QED BY <5>1, <5>2
      <4> QED BY <4>1, <4>2 DEF ControllerNext
    <3>2. /\ EvalNode(w)' = EvalNode(w) /\ EvalNode(w) \in Keys
          /\ w \in executing /\ EvalNode(w) \in HasDeps
      BY <1>0, <1>2, <3>1, NodeKept, EvaluatedNode DEF Books, OnlyDependants
    <3>3. ~Apply
      BY <3>1 DEF Apply, CanLock, Evaluating
    <3>4. EvalNode(w) \notin Autonomous
      BY <3>2 DEF AutonomousAreSources, HasDeps
    <3>5. ASSUME NEW v \in Workers, wpc[v] = "evaluate" PROVE EvalNode(v) # EvalNode(w)
      <4>1. v \in executing /\ v # w
        BY <1>0, <3>1, <3>5, EvaluatedNode
      <4> QED BY <1>0, <3>2, <4>1 DEF Books, IInv, EachKeyOnce, EvalNode
    <3>6. exports'[EvalNode(w)] = exports[EvalNode(w)]
      BY <1>0, <3>2, <3>3, <3>4, <3>5, ExportsChange
    <3>7. wread[w] = exports[EvalNode(w)]
      BY <1>0, <3>1 DEF ReadsAreFresh
    <3> QED BY <3>1, <3>2, <3>6, <3>7
  <2> QED BY <2>1, <2>2
<1> QED
  BY <1>1, <1>2 DEF ReadsAreFresh

\* The cache is fresh, or the fresh value is pending.
LEMMA CacheStep ==
  ASSUME Books, ReadsAreFresh, CacheIsFresh, [ControllerNext]_allVars, ~ApplyRejected
  PROVE  CacheIsFresh'
<1>0. /\ batch \in Seq(Keys) /\ DOMAIN cache = Keys
  BY DEF Books, ControllerTypeOK
<1>1. CASE Apply
  BY <1>1 DEF Apply, CacheIsFresh
<1>2. CASE ParentCache
  <2>1. /\ rpc = "write" /\ batch # <<>> /\ UNCHANGED exports
        /\ cache' = [cache EXCEPT ![Head(batch)] = read]
    BY <1>2 DEF ParentCache, Books, RunPosition, nodeVars
  <2>2. PICK h \in Keys : h = Head(batch)
    BY <1>0, <2>1
  <2>3. ASSUME NEW n \in Keys PROVE cache'[n] = exports'[n] \/ Pending(n)'
    <3>1. CASE n = h
      <4>1. ~DequeueAll
        BY <2>1 DEF DequeueAll
      <4>2. PendingApart(h) => PendingApart(h)'
        BY <4>1, PendingApartStep
      <4>3. read = exports[h] \/ PendingApart(h)
        BY <2>1, <2>2 DEF ReadsAreFresh
      <4>4. cache'[h] = read
        BY <1>0, <2>1, <2>2
      <4> QED BY <2>1, <3>1, <4>2, <4>3, <4>4 DEF Pending
    <3>2. CASE n # h
      <4>1. Pending(n) => Pending(n)'
        BY <2>2, <3>2, PendingStep
      <4>2. cache'[n] = cache[n]
        BY <1>0, <2>1, <2>2, <3>2
      <4> QED BY <2>1, <4>1, <4>2 DEF CacheIsFresh
    <3> QED BY <3>1, <3>2
  <2> QED BY <2>3 DEF CacheIsFresh
<1>3. ASSUME NEW w \in Workers, EvalCache(w) PROVE CacheIsFresh'
  <2>1. /\ wpc[w] = "cache" /\ UNCHANGED exports
        /\ cache' = [cache EXCEPT ![EvalNode(w)] = wread[w]]
    BY <1>3 DEF EvalCache, nodeVars
  <2>2. EvalNode(w) \in Keys /\ wread[w] = exports[EvalNode(w)]
    BY <2>1, EvaluatedNode DEF ReadsAreFresh
  <2>3. ASSUME NEW n \in Keys PROVE cache'[n] = exports'[n] \/ Pending(n)'
    <3>1. ~ParentCache
      BY <1>3 DEF EvalCache, ParentCache, runVars
    <3>2. Pending(n) => Pending(n)'
      BY <3>1, PendingStep
    <3> QED BY <1>0, <2>1, <2>2, <3>2 DEF CacheIsFresh
  <2> QED BY <2>3 DEF CacheIsFresh
<1>4. CASE ~Apply /\ ~ParentCache /\ ~(\E w \in Workers : EvalCache(w))
  <2>1. UNCHANGED cache
    BY <1>4 DEF ControllerNext, ComponentStep, SetExports, OnBlockNodeUpdate, RunStep, RunReceive,
       DequeueAll, RunRLock, ParentRead, ParentsDone, SubmitRefused, SubmitAccepted, BackoffOver,
       GiveUp, EvaluateDependantsDone, EvalStep, EvalReceive, EvalContext, EvalEvaluate, EvalNotify, EvalRead,
       EvalFinish, LoadStep, ReloadBegin, Waiting, allVars, controllerVars
  <2>2. ASSUME NEW n \in Keys PROVE cache'[n] = exports'[n] \/ Pending(n)'
    <3>1. Pending(n) => Pending(n)'
      BY <1>4, PendingStep
    <3>2. exports'[n] # exports[n] => Pending(n)'
      BY <1>4, ExportsChange DEF Pending
    <3> QED BY <2>1, <3>1, <3>2 DEF CacheIsFresh
  <2> QED BY <2>2 DEF CacheIsFresh
<1> QED
  BY <1>1, <1>2, <1>3, <1>4

\* An evaluation that is to come stays so until a worker receives it.
LEMMA ComingStep ==
  ASSUME Books, [ControllerNext]_allVars, NEW n \in Keys, Coming(n), ~GiveUp
  PROVE  Coming(n)' \/ \E w \in Workers : EvalReceive(w) /\ EvalNode(w)' = n
<1>0. IInv /\ batch \in Seq(Keys)
  BY DEF Books, ControllerTypeOK
<1>1. ASSUME NEW m \in Keys, NEW f \in Funcs, SubmitAccepted(m, f), n \in todo \cup PooledKeys
      PROVE  n \in todo' \cup PooledKeys'
  <2>1. todo' = todo \ {m} /\ PooledKeys' = PooledKeys \cup {m}
    BY <1>0, <1>1, AcceptedKeys DEF SubmitAccepted
  <2> QED BY <1>1, <2>1
<1>2. ASSUME NEW w \in Workers, EvalReceive(w), n \in todo \cup PooledKeys
      PROVE  n \in todo' \cup PooledKeys' \cup {EvalNode(w)'}
  <2>1. UNCHANGED todo /\ PooledKeys \subseteq PooledKeys' \cup {EvalNode(w)'}
    BY <1>0, <1>2, ReceivedKey DEF EvalReceive, runVars
  <2> QED BY <1>2, <2>1
<1>3. ASSUME NEW w \in Workers, EvalFinish(w), n \in todo \cup PooledKeys
      PROVE  n \in todo' \cup PooledKeys'
  <2>1. UNCHANGED todo /\ PooledKeys' = PooledKeys
    BY <1>0, <1>3, FinishedKey DEF EvalFinish, runVars
  <2> QED BY <1>3, <2>1
<1>4. ASSUME ~(\E m \in Keys, f \in Funcs : SubmitAccepted(m, f)),
             ~(\E w \in Workers : EvalReceive(w) \/ EvalFinish(w)),
             n \in todo \cup PooledKeys
      PROVE  n \in todo' \cup PooledKeys'
  <2>1. UNCHANGED vars
    <3>1. ASSUME NEW m \in Keys, SubmitRefused(m) PROVE UNCHANGED vars
      BY <3>1 DEF SubmitRefused, reject, queueVars, workerVars, vars
    <3> QED BY <1>4, <3>1 DEF ControllerNext, ComponentStep, SetExports, OnBlockNodeUpdate, RunStep,
       RunReceive, DequeueAll, RunRLock, ParentRead, ParentCache, ParentsDone, BackoffOver, GiveUp,
       EvaluateDependantsDone, EvalStep, EvalContext, EvalEvaluate, EvalNotify, EvalRead, EvalCache,
       LoadStep, ReloadBegin, Apply, ApplyRejected, Waiting, allVars
  <2>2. todo \subseteq todo'
    BY <1>4 DEF ControllerNext, ComponentStep, SetExports, OnBlockNodeUpdate, RunStep,
       RunReceive, DequeueAll, RunRLock, ParentRead, ParentCache, ParentsDone, SubmitRefused, BackoffOver,
       EvaluateDependantsDone, EvalStep, EvalContext, EvalEvaluate, EvalNotify, EvalRead, EvalCache,
       LoadStep, ReloadBegin, Apply, ApplyRejected, Waiting, allVars, controllerVars, runVars
  <2> QED BY <1>4, <2>1, <2>2, PoolFrame
<1>5. ASSUME n \in todo \cup PooledKeys
      PROVE  Coming(n)' \/ \E w \in Workers : EvalReceive(w) /\ EvalNode(w)' = n
  BY <1>1, <1>2, <1>3, <1>4, <1>5 DEF Coming
<1>6. ASSUME NEW d \in Deps(n), Pending(d) PROVE Coming(n)'
  <2>1. d \in Keys
    BY DEF Deps
  <2>2. CASE Pending(d)'
    BY <2>2 DEF Coming
  <2>3. CASE ParentCache /\ d = Head(batch)
    BY <2>3 DEF ParentCache, Dependants, Deps, Coming
  <2> QED BY <1>6, <2>1, <2>2, <2>3, PendingStep
<1> QED
  BY <1>5, <1>6 DEF Coming

\* A step that loses no evaluation to come, keeps those under way, and writes to the
\* cache only what dependants are to be evaluated for.
LEMMA FreshFrame ==
  ASSUME Books, ScopesAreFresh, ArgsAreFresh, UNCHANGED args,
         \A n \in Keys : Coming(n) => Coming(n)',
         \A n \in Keys : Arguments(n, cache)' = Arguments(n, cache) \/ Coming(n)',
         \A w \in Workers : wpc'[w] = "evaluate" =>
           \/ scope'[w] = Arguments(EvalNode(w), cache)'
           \/ wpc[w] = "evaluate" /\ scope'[w] = scope[w] /\ EvalNode(w)' = EvalNode(w),
         \A w \in Workers : wpc[w] \in {"rlock", "evaluate"} =>
           wpc'[w] \in {"rlock", "evaluate"} /\ EvalNode(w)' = EvalNode(w)
  PROVE  ScopesAreFresh' /\ ArgsAreFresh'
<1>1. ScopesAreFresh'
  <2> SUFFICES ASSUME NEW w \in Workers, wpc'[w] = "evaluate",
                      scope'[w] # Arguments(EvalNode(w), cache)'
               PROVE  Coming(EvalNode(w))'
    BY DEF ScopesAreFresh
  <2>1. /\ wpc[w] = "evaluate"
        /\ scope'[w] = scope[w] /\ EvalNode(w)' = EvalNode(w)
    OBVIOUS
  <2>2. EvalNode(w) \in Keys
    BY <2>1, EvaluatedNode
  <2>3. PICK k \in Keys : k = EvalNode(w)
    BY <2>2
  <2>4. scope[w] = Arguments(k, cache) \/ Coming(k)
    BY <2>1, <2>3 DEF ScopesAreFresh
  <2>5. scope'[w] # Arguments(k, cache)'
    BY <2>1, <2>3 DEF Arguments
  <2>6. Coming(k)'
    BY <2>1, <2>4, <2>5
  <2> QED BY <2>1, <2>3, <2>6 DEF Coming
<1>2. ArgsAreFresh'
  <2> SUFFICES ASSUME NEW n \in Keys
               PROVE  \/ args'[n] = Arguments(n, cache)'
                      \/ Invalid(n, Arguments(n, cache)')
                      \/ Coming(n)'
                      \/ \E w \in Workers : wpc'[w] \in {"rlock", "evaluate"} /\ EvalNode(w)' = n
    BY DEF ArgsAreFresh, Invalid
  <2> QED BY DEF ArgsAreFresh
<1> QED BY <1>1, <1>2

\* Evaluate brings the arguments of its node up to the context it was given.
LEMMA EvaluateFresh ==
  ASSUME Books, ScopesAreFresh, ArgsAreFresh, [ControllerNext]_allVars, NEW w \in Workers, EvalEvaluate(w)
  PROVE  ScopesAreFresh' /\ ArgsAreFresh'
<1>0. /\ DOMAIN args = Keys /\ DOMAIN scope = Workers
      /\ wpc \in [Workers -> {"idle", "rlock", "evaluate", "notify", "read", "cache", "done"}]
  BY DEF Books, ControllerTypeOK
<1>1. /\ UNCHANGED <<vars, cache>> /\ wpc[w] = "evaluate" /\ EvalNode(w) \in Keys
      /\ scope' = [scope EXCEPT ![w] = None]
      /\ \E p \in {"read", "notify"} : wpc' = [wpc EXCEPT ![w] = p]
  BY EvaluatedNode DEF EvalEvaluate
<1>2. /\ \A v \in Workers : EvalNode(v)' = EvalNode(v)
      /\ wpc'[w] \in {"read", "notify"}
      /\ \A v \in Workers : v # w => wpc'[v] = wpc[v] /\ scope'[v] = scope[v]
  BY <1>0, <1>1, PoolFrame
<1>3. ASSUME NEW n \in Keys, Coming(n) PROVE Coming(n)'
  <2>1. ~GiveUp /\ \A v \in Workers : ~EvalReceive(v)
    <3>1. UNCHANGED vars /\ UNCHANGED rpc
      BY DEF EvalEvaluate, runVars
    <3>2. ~GiveUp
      BY <3>1 DEF GiveUp
    <3>3. ASSUME NEW v \in Workers, EvalReceive(v) PROVE FALSE
      <4>1. wstate[v] = "select" /\ wstate' = [wstate EXCEPT ![v] = "exec"] /\ wstate' = wstate
        BY <3>1, <3>3 DEF EvalReceive, Receive, vars
      <4>2. wstate \in [Workers -> {"select", "exec", "exited"}]
        BY DEF Books, IInv, TypeOK
      <4> QED BY <4>1, <4>2
    <3> QED BY <3>2, <3>3
  <2> QED BY <1>3, <2>1, ComingStep
<1>4. PICK k \in Keys : k = EvalNode(w)
  BY <1>1
<1>5. \A n : Arguments(n, cache)' = Arguments(n, cache)
  BY <1>1 DEF Arguments
<1>6. ScopesAreFresh'
  <2> SUFFICES ASSUME NEW v \in Workers, wpc'[v] = "evaluate"
               PROVE  (scope[v] = Arguments(EvalNode(v), cache) \/ Coming(EvalNode(v)))'
    BY DEF ScopesAreFresh
  <2>1. wpc[v] = "evaluate" /\ scope'[v] = scope[v] /\ EvalNode(v)' = EvalNode(v)
    BY <1>2
  <2>2. EvalNode(v) \in Keys
    BY <2>1, EvaluatedNode
  <2>3. PICK m \in Keys : m = EvalNode(v)
    BY <2>2
  <2>4. scope[v] = Arguments(m, cache) \/ Coming(m)
    BY <2>1, <2>3 DEF ScopesAreFresh
  <2>5. scope'[v] = Arguments(m, cache)' \/ Coming(m)'
    BY <1>3, <1>5, <2>1, <2>4
  <2> QED BY <2>1, <2>3, <2>5 DEF Coming, Arguments
<1>7. ArgsAreFresh'
  <2> SUFFICES ASSUME NEW n \in Keys
               PROVE  \/ args'[n] = Arguments(n, cache)'
                      \/ Invalid(n, Arguments(n, cache)')
                      \/ Coming(n)'
                      \/ \E v \in Workers : wpc'[v] \in {"rlock", "evaluate"} /\ EvalNode(v)' = n
    BY DEF ArgsAreFresh, Invalid
  <2>1. CASE n = k
    <3>1. scope[w] = Arguments(k, cache) \/ Coming(k)
      BY <1>1, <1>4 DEF ScopesAreFresh
    <3>2. \/ Invalid(k, scope[w])
          \/ UNCHANGED args /\ args[k] = scope[w]
          \/ args' = [args EXCEPT ![k] = scope[w]]
      BY <1>4 DEF EvalEvaluate
    <3>3. Invalid(k, scope[w]) \/ args'[k] = scope[w]
      BY <1>0, <3>2
    <3> QED BY <1>3, <1>5, <2>1, <3>1, <3>3
  <2>2. CASE n # k
    <3>1. args'[n] = args[n]
      BY <1>0, <1>4, <2>2 DEF EvalEvaluate
    <3> QED BY <1>2, <1>3, <1>4, <1>5, <2>2, <3>1 DEF ArgsAreFresh
  <2> QED BY <2>1, <2>2
<1> QED
  BY <1>6, <1>7

\* A worker that receives an evaluation will give it the context of that time.
LEMMA ReceiveFresh ==
  ASSUME Books, ScopesAreFresh, ArgsAreFresh, [ControllerNext]_allVars, NEW w \in Workers, EvalReceive(w)
  PROVE  ScopesAreFresh' /\ ArgsAreFresh'
<1>0. /\ IInv
      /\ wpc \in [Workers -> {"idle", "rlock", "evaluate", "notify", "read", "cache", "done"}]
  BY DEF Books, ControllerTypeOK
<1>1. /\ UNCHANGED <<args, cache, scope, todo>>
      /\ wpc' = [wpc EXCEPT ![w] = "rlock"]
  BY DEF EvalReceive, nodeVars, runVars
<1>2. /\ wstate[w] = "select"
      /\ EvalNode(w)' \notin ExecutingKeys
      /\ PooledKeys \subseteq PooledKeys' \cup {EvalNode(w)'}
  BY <1>0, ReceivedKey DEF EvalReceive
<1>3. wpc[w] = "idle" /\ wpc'[w] = "rlock" /\ \A v \in Workers : v # w => wpc'[v] = wpc[v]
  BY <1>0, <1>1, <1>2 DEF Books, WorkersAgree
<1>4. ASSUME NEW v \in Workers, wpc[v] \in {"rlock", "evaluate"}
      PROVE  wpc'[v] = wpc[v] /\ EvalNode(v)' = EvalNode(v) /\ EvalNode(v) \in Keys
  BY <1>3, <1>4, NodeKept, EvaluatedNode
<1>5. ~ParentCache
  BY <1>3 DEF ParentCache, evalVars
<1>6. ASSUME NEW n \in Keys, Coming(n), n # EvalNode(w)' PROVE Coming(n)'
  <2>1. CASE n \in todo \cup PooledKeys
    BY <1>1, <1>2, <1>6, <2>1 DEF Coming
  <2>2. ASSUME NEW d \in Deps(n), Pending(d) PROVE Coming(n)'
    <3>1. Pending(d)'
      BY <1>5, <2>2, PendingStep DEF Deps
    <3> QED BY <3>1 DEF Coming
  <2> QED BY <1>6, <2>1, <2>2 DEF Coming
<1>7. \A n : Arguments(n, cache)' = Arguments(n, cache)
  BY <1>1 DEF Arguments
<1>8. ScopesAreFresh'
  <2> SUFFICES ASSUME NEW v \in Workers, wpc'[v] = "evaluate"
               PROVE  (scope[v] = Arguments(EvalNode(v), cache) \/ Coming(EvalNode(v)))'
    BY DEF ScopesAreFresh
  <2>1. wpc[v] = "evaluate" /\ scope'[v] = scope[v]
    BY <1>1, <1>3
  <2>2. EvalNode(v)' = EvalNode(v) /\ EvalNode(v) \in Keys /\ EvalNode(v) \in ExecutingKeys
    BY <1>4, <2>1, EvaluatedNode
  <2>3. PICK m \in Keys : m = EvalNode(v)
    BY <2>2
  <2>4. m # EvalNode(w)'
    BY <1>2, <2>2, <2>3
  <2>5. scope[v] = Arguments(m, cache) \/ Coming(m)
    BY <2>1, <2>3 DEF ScopesAreFresh
  <2>6. scope'[v] = Arguments(m, cache)' \/ Coming(m)'
    BY <1>6, <1>7, <2>1, <2>4, <2>5
  <2> QED BY <2>2, <2>3, <2>6 DEF Coming, Arguments
<1>9. ArgsAreFresh'
  <2> SUFFICES ASSUME NEW n \in Keys
               PROVE  \/ args'[n] = Arguments(n, cache)'
                      \/ Invalid(n, Arguments(n, cache)')
                      \/ Coming(n)'
                      \/ \E v \in Workers : wpc'[v] \in {"rlock", "evaluate"} /\ EvalNode(v)' = n
    BY DEF ArgsAreFresh, Invalid
  <2>1. CASE n = EvalNode(w)'
    BY <1>3, <2>1
  <2>2. CASE n # EvalNode(w)'
    BY <1>1, <1>4, <1>6, <1>7, <2>2 DEF ArgsAreFresh
  <2> QED BY <2>1, <2>2
<1> QED
  BY <1>8, <1>9

\* The other steps, except those that damage and Apply.
LEMMA OtherFresh ==
  ASSUME Books, ReadsAreFresh, CacheIsFresh, ScopesAreFresh, ArgsAreFresh, [ControllerNext]_allVars,
         ~GiveUp, ~Apply, ~ApplyRejected, \A w \in Workers : ~EvalReceive(w) /\ ~EvalEvaluate(w)
  PROVE  ScopesAreFresh' /\ ArgsAreFresh'
<1>0. /\ DOMAIN cache = Keys /\ DOMAIN scope = Workers /\ batch \in Seq(Keys)
      /\ wpc \in [Workers -> {"idle", "rlock", "evaluate", "notify", "read", "cache", "done"}]
  BY DEF Books, ControllerTypeOK
<1>1. UNCHANGED args
  BY DEF ControllerNext, ComponentStep, SetExports, OnBlockNodeUpdate, RunStep, RunReceive,
     DequeueAll, RunRLock, ParentRead, ParentCache, ParentsDone, SubmitRefused, SubmitAccepted, BackoffOver,
     EvaluateDependantsDone, EvalStep, EvalContext, EvalNotify, EvalRead,
     EvalCache, EvalFinish, LoadStep, ReloadBegin, Waiting, allVars, controllerVars, nodeVars
<1>2. \A n \in Keys : Coming(n) => Coming(n)'
  BY ComingStep
<1>3. ASSUME NEW n \in Keys PROVE Arguments(n, cache)' = Arguments(n, cache) \/ Coming(n)'
  <2>1. CASE ParentCache
    <3>1. CASE Head(batch) \in Deps(n)
      BY <2>1, <3>1 DEF ParentCache, Dependants, Deps, Coming
    <3>2. CASE Head(batch) \notin Deps(n)
      <4>1. \A d \in Deps(n) : cache'[d] = cache[d]
        BY <1>0, <2>1, <3>2 DEF ParentCache, Deps
      <4> QED BY <4>1 DEF Arguments
    <3> QED BY <3>1, <3>2
  <2>2. ASSUME NEW w \in Workers, EvalCache(w)
        PROVE  Arguments(n, cache)' = Arguments(n, cache) \/ Coming(n)'
    <3>1. wpc[w] = "cache" /\ cache' = [cache EXCEPT ![EvalNode(w)] = wread[w]]
      BY <2>2 DEF EvalCache
    <3>2. EvalNode(w) \in Keys /\ wread[w] = exports[EvalNode(w)]
      BY <3>1, EvaluatedNode DEF ReadsAreFresh
    <3>3. PICK k \in Keys : k = EvalNode(w)
      BY <3>2
    <3>4. CASE cache[k] = exports[k] \/ k \notin Deps(n)
      <4>1. \A d \in Deps(n) : cache'[d] = cache[d]
        BY <1>0, <3>1, <3>2, <3>3, <3>4 DEF Deps
      <4> QED BY <4>1 DEF Arguments
    <3>5. CASE cache[k] # exports[k] /\ k \in Deps(n)
      <4>1. Pending(k)
        BY <3>5 DEF CacheIsFresh
      <4> QED BY <1>2, <3>5, <4>1 DEF Coming
    <3> QED BY <3>4, <3>5
  <2>3. CASE ~ParentCache /\ ~(\E w \in Workers : EvalCache(w))
    <3>1. UNCHANGED cache
      BY <2>3 DEF ControllerNext, ComponentStep, SetExports, OnBlockNodeUpdate, RunStep, RunReceive,
         DequeueAll, RunRLock, ParentRead, ParentsDone, SubmitRefused, SubmitAccepted, BackoffOver,
         EvaluateDependantsDone, EvalStep, EvalContext, EvalNotify, EvalRead,
         EvalFinish, LoadStep, ReloadBegin, Waiting, allVars, controllerVars
    <3> QED BY <3>1 DEF Arguments
  <2> QED BY <2>1, <2>2, <2>3
<1>4. ASSUME NEW v \in Workers
      PROVE  /\ wpc'[v] = "evaluate" =>
                  \/ scope'[v] = Arguments(EvalNode(v), cache)'
                  \/ wpc[v] = "evaluate" /\ scope'[v] = scope[v]
             /\ wpc[v] \in {"rlock", "evaluate"} => wpc'[v] \in {"rlock", "evaluate"}
  <2>1. CASE ComponentStep \/ RunStep \/ LoadStep \/ Waiting \/ UNCHANGED allVars
    <3>1. UNCHANGED <<wpc, scope>>
      BY <2>1 DEF ComponentStep, SetExports, OnBlockNodeUpdate, RunStep, RunReceive, DequeueAll, RunRLock,
         ParentRead, ParentCache, ParentsDone, SubmitRefused, SubmitAccepted, BackoffOver,
         EvaluateDependantsDone, LoadStep, ReloadBegin, Waiting, allVars, controllerVars, evalVars
    <3> QED BY <3>1
  <2>2. CASE EvalContext(v)
    <3>1. scope'[v] = Arguments(EvalNode(v), cache) /\ UNCHANGED cache /\ wpc'[v] = "evaluate"
      BY <1>0, <2>2 DEF EvalContext
    <3>2. EvalNode(v)' = EvalNode(v)
      BY <2>2, PoolFrame DEF EvalContext
    <3> QED BY <3>1, <3>2 DEF Arguments
  <2>3. CASE EvalNotify(v) \/ EvalRead(v) \/ EvalCache(v) \/ EvalFinish(v)
    BY <1>0, <2>3 DEF EvalNotify, EvalRead, EvalCache, EvalFinish
  <2>4. ASSUME NEW w \in Workers, w # v, EvalStep(w) PROVE wpc'[v] = wpc[v] /\ scope'[v] = scope[v]
    <3>1. /\ \E p : wpc' = [wpc EXCEPT ![w] = p]
          /\ scope' = scope \/ \E x : scope' = [scope EXCEPT ![w] = x]
      BY <2>4 DEF EvalStep, EvalContext, EvalNotify, EvalRead, EvalCache, EvalFinish
    <3> QED BY <1>0, <2>4, <3>1
  <2> QED BY <2>1, <2>2, <2>3, <2>4 DEF ControllerNext, EvalStep
<1>5. ASSUME NEW v \in Workers, wpc[v] \in {"rlock", "evaluate"}
      PROVE  EvalNode(v)' = EvalNode(v)
  BY <1>4, <1>5, NodeKept
<1> QED
  BY <1>1, <1>2, <1>3, <1>4, <1>5, FreshFrame

\* Apply leaves nothing stale.
LEMMA ApplyFresh ==
  ASSUME Books, Apply
  PROVE  ScopesAreFresh' /\ ArgsAreFresh'
<1>1. ScopesAreFresh'
  BY DEF Apply, CanLock, Evaluating, ScopesAreFresh, evalVars
<1>2. ASSUME NEW n \in Keys
      PROVE  args'[n] = Arguments(n, cache)' \/ Invalid(n, Arguments(n, cache)')
  <2>1. args'[n] = NewArgs(own, args, args', n)
    BY EvaluatedArgsSolve DEF Apply
  <2>2. \A d \in Keys : cache'[d] = ExportsOf(own[d], args'[d])
    BY DEF Apply
  <2>3. Arguments(n, cache)' = [d \in Deps(n) |-> ExportsOf(own[d], args'[d])]
    BY <2>2 DEF Arguments, Deps
  <2> QED BY <2>1, <2>3 DEF NewArgs
<1>3. ArgsAreFresh'
  BY <1>2 DEF ArgsAreFresh, Invalid
<1> QED BY <1>1, <1>3

LEMMA NextCInv ==
  ASSUME AutonomousAreSources
  PROVE  CInv /\ [ControllerNext]_allVars => CInv'
<1> SUFFICES ASSUME CInv, [ControllerNext]_allVars PROVE CInv'
  OBVIOUS
<1>1. Books /\ ReadsAreFresh /\ Books' /\ ReadsAreFresh'
  BY NextBooks, ReadsStep DEF CInv, Fresh
<1>2. ASSUME ~damaged', ~Apply
      PROVE  CacheIsFresh /\ ScopesAreFresh /\ ArgsAreFresh /\ ~GiveUp /\ ~ApplyRejected
  <2>1. ~GiveUp /\ ~ApplyRejected
    BY <1>2 DEF GiveUp, ApplyRejected
  <2>2. UNCHANGED damaged
    BY <1>2, <2>1 DEF ControllerNext, ComponentStep, SetExports, OnBlockNodeUpdate, RunStep, RunReceive,
       DequeueAll, RunRLock, ParentRead, ParentCache, ParentsDone, SubmitRefused, SubmitAccepted, BackoffOver,
       EvaluateDependantsDone, EvalStep, EvalReceive, EvalContext, EvalEvaluate, EvalNotify, EvalRead,
       EvalCache, EvalFinish, LoadStep, ReloadBegin, Waiting, allVars, controllerVars, loadVars
  <2> QED BY <1>2, <2>1, <2>2 DEF CInv, Fresh
<1>3. ASSUME ~damaged' PROVE CacheIsFresh'
  <2>1. CASE Apply
    BY <2>1 DEF Apply, CacheIsFresh
  <2>2. CASE ~Apply
    BY <1>1, <1>2, <1>3, <2>2, CacheStep
  <2> QED BY <2>1, <2>2
<1>4. ASSUME ~damaged' PROVE ScopesAreFresh' /\ ArgsAreFresh'
  <2>1. CASE Apply
    BY <1>1, <2>1, ApplyFresh
  <2>2. CASE ~Apply
    BY <1>1, <1>2, <1>4, <2>2, OtherFresh, EvaluateFresh, ReceiveFresh
  <2> QED BY <2>1, <2>2
<1> QED
  BY <1>1, <1>3, <1>4 DEF CInv, Fresh

LEMMA InitCInv == ControllerInit => CInv
<1> SUFFICES ASSUME ControllerInit PROVE CInv
  OBVIOUS
<1>1. Books
  BY InitBooks
<1>2. ReadsAreFresh /\ CacheIsFresh /\ ScopesAreFresh
  BY DEF ControllerInit, ReadsAreFresh, CacheIsFresh, ScopesAreFresh
<1>3. ArgsAreFresh
  <2> SUFFICES ASSUME NEW n \in Keys
               PROVE  args[n] = Arguments(n, cache) \/ Invalid(n, Arguments(n, cache))
    BY DEF ArgsAreFresh
  <2> DEFINE a0 == [m \in Keys |-> None]
  <2>1. args[n] = NewArgs(own, a0, args, n)
    <3>1. args = EvaluatedArgs(own, a0)
      BY DEF ControllerInit
    <3> QED BY <3>1, EvaluatedArgsSolve
  <2>2. \A d \in Keys : cache[d] = ExportsOf(own[d], args[d])
    BY DEF ControllerInit
  <2>3. Arguments(n, cache) = [d \in Deps(n) |-> ExportsOf(own[d], args[d])]
    BY <2>2 DEF Arguments, Deps
  <2> QED BY <2>1, <2>3 DEF NewArgs
<1> QED
  BY <1>1, <1>2, <1>3 DEF CInv, Fresh

\* The promise of re-evaluation, for every acyclic graph, pool and number of updates
\* and reloads: when nothing is on its way and nothing was given up, the cache holds
\* what the components export and every component has the arguments its block
\* evaluates to.  It is conditional on components that change by themselves having
\* no references, and cannot do without: MCControllerStaleCache shows the cache entry
\* that is lost otherwise.
THEOREM SettlesConsistently ==
  ASSUME AutonomousAreSources
  PROVE  ControllerSpec => []SettledIsConsistent
<1>1. ASSUME CInv, Settled, ~damaged PROVE Consistent
  <2>1. /\ Books /\ CacheIsFresh /\ ArgsAreFresh
        /\ notifying = {} /\ queued = <<>> /\ batch = <<>> /\ todo = {} /\ running = {}
    BY <1>1 DEF CInv, Fresh, Settled, Books, RunPosition
  <2>2. PooledKeys = {} /\ ExecutingKeys = {}
    BY <2>1 DEF Books, IInv, RunningIsExact, WaitingOnlyBehindRunning, PooledKeys
  <2>3. \A w \in Workers : wpc[w] = "idle"
    BY <2>1, <2>2, EvaluatedNode
  <2>4. \A d : ~Pending(d)
    BY <2>1, <2>3 DEF Pending, PendingApart, In
  <2>5. \A n : ~Coming(n)
    BY <2>1, <2>2, <2>4 DEF Coming
  <2>6. \A n \in Keys : cache[n] = exports[n]
    BY <2>1, <2>4 DEF CacheIsFresh
  <2>7. \A n \in Keys : Arguments(n, cache) = Arguments(n, exports)
    BY <2>6 DEF Arguments, Deps
  <2> QED BY <2>1, <2>3, <2>5, <2>6, <2>7 DEF ArgsAreFresh, Consistent
<1>2. CInv => SettledIsConsistent
  BY <1>1 DEF SettledIsConsistent
<1> QED
  BY <1>2, InitCInv, NextCInv, PTL DEF ControllerSpec
=============================================================================

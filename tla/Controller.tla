----------------------------- MODULE Controller -----------------------------
(***************************************************************************)
(* The re-evaluation of components when exports change: how an update of a *)
(* component's exports travels through the update queue                    *)
(* (controller/queue.go), the Run loop (runtime/alloy.go),                 *)
(* Loader.EvaluateDependants and the worker pool to the arguments of the   *)
(* components that reference it, by way of the value cache                 *)
(* (controller/loader.go, value_cache.go, node_builtin_component.go).      *)
(*                                                                         *)
(* The module extends WorkerPool: a key is a node, and what a worker does  *)
(* while it executes a job is concurrentEvalFn, step by step.  The graph   *)
(* is fixed; a reload evaluates it again.                                  *)
(*                                                                         *)
(* A component's exports are a function of its own state (a file's         *)
(* content, discovered targets) and of its arguments.  A component in      *)
(* Autonomous sets its exports whenever its own state changes, at any      *)
(* time.  Every component also sets them when Evaluate gives it new        *)
(* arguments.                                                              *)
(***************************************************************************)
EXTENDS WorkerPool

CONSTANTS
  Edges,       \* <<a, b>>: the block of a references the exports of b
  Autonomous,  \* the nodes whose exports change by themselves
  MaxOwn,      \* bound: changes of a node's own state
  Poison,      \* an own state whose exports no referencing component accepts
  MaxReloads,  \* bound: configuration reloads
  CanReject,   \* a reload may fail before a graph is built
  CanExhaust   \* the retries of a submission may run out

ASSUME ControllerAssumption ==
  /\ Edges \subseteq Keys \X Keys
  /\ Autonomous \subseteq Keys
  /\ MaxOwn \in Nat /\ MaxReloads \in Nat
  /\ CanReject \in BOOLEAN /\ CanExhaust \in BOOLEAN
  /\ 0 \notin {None, Poison}
  \* The loader refuses a graph with a cycle.
  /\ \A S \in SUBSET Keys : S # {} => \E n \in S : \A m \in S : <<n, m>> \notin Edges

VARIABLES
  own,        \* each component's own state
  args,       \* cn.args: the arguments of the last successful evaluation
  exports,    \* cn.exports
  cache,      \* valueCache.scope: the cached exports of each node, or Absent
  notifying,  \* components between setting their exports and OnBlockNodeUpdate
  queued,     \* Queue.queuedOrder
  updateCh,   \* a token is in Queue.updateCh
  rpc,        \* the Run loop
  batch,      \* updated nodes EvaluateDependants still has to cache
  read,       \* exports it has read and not yet cached
  todo,       \* dependants it still has to submit
  retried,    \* the one whose submission is being retried, or None
  wpc,        \* each worker inside concurrentEvalFn
  scope,      \* the evaluation context each worker got from the cache
  wread,      \* the exports each worker has read and not yet cached
  lpc,        \* a reload: idle, or waiting for l.mut
  reloads,    \* reloads begun
  damaged     \* history: a reload was rejected or a dependant given up, and no
              \* configuration has been applied since

nodeVars == <<own, args, exports, notifying>>
queueOfUpdates == <<queued, updateCh>>
runVars == <<rpc, batch, read, todo, retried>>
evalVars == <<wpc, scope, wread>>
loadVars == <<lpc, reloads, damaged>>
controllerVars == <<own, args, exports, cache, notifying, queued, updateCh, rpc, batch, read, todo, retried,
                    wpc, scope, wread, lpc, reloads, damaged>>
allVars == <<vars, controllerVars>>

Deps(n) == {m \in Keys : <<n, m>> \in Edges}
Dependants(n) == {m \in Keys : <<m, n>> \in Edges}

\* What a component exports.
ExportsOf(o, a) == [own |-> o, args |-> a]
Absent == ExportsOf(None, None)

\* Evaluation fails when a referenced export is missing from the context or the
\* component does not accept the resulting arguments.
Invalid(n, a) == \E d \in Deps(n) : a[d].own \in {None, Poison}

\* The part of the context that the block of n refers to.
Arguments(n, context) == [d \in Deps(n) |-> context[d]]

(***************************************************************************)
(* Queue                                                                   *)
(***************************************************************************)

\* The caller allocates a new QueuedNode per update, so that one node may be
\* queued several times.  The token is sent unless one is there.
Enqueue(n) ==
  /\ queued' = Append(queued, n)
  /\ updateCh' = TRUE

(***************************************************************************)
(* Components                                                              *)
(***************************************************************************)

\* The own state of n changes and it calls setExports: under exportsMut the new
\* exports are stored; equal exports are ignored.
SetExports(n) ==
  /\ n \in Autonomous /\ n \notin notifying
  /\ own[n] < MaxOwn
  /\ own' = [own EXCEPT ![n] = @ + 1]
  /\ exports' = [exports EXCEPT ![n] = ExportsOf(own[n] + 1, args[n])]
  /\ notifying' = notifying \cup {n}
  /\ UNCHANGED <<vars, args, cache, queueOfUpdates, runVars, evalVars, loadVars>>

\* ... and only after the unlock the controller is told.
OnBlockNodeUpdate(n) ==
  /\ n \in notifying
  /\ notifying' = notifying \ {n}
  /\ Enqueue(n)
  /\ UNCHANGED <<vars, own, args, exports, cache, runVars, evalVars, loadVars>>

(***************************************************************************)
(* l.mut.  Readers are the Run loop inside EvaluateDependants and the      *)
(* workers inside concurrentEvalFn; the writer is Apply.  A waiting writer *)
(* keeps new readers out.                                                  *)
(***************************************************************************)
Evaluating == {w \in Workers : wpc[w] \in {"evaluate", "notify", "read", "cache"}}
RunHoldsLock == rpc \in {"parents", "write", "submit"}
CanRLock == lpc # "wait"
CanLock == Evaluating = {} /\ ~RunHoldsLock

(***************************************************************************)
(* Run and EvaluateDependants                                              *)
(***************************************************************************)

\* Run receives from updateQueue.Chan().
RunReceive ==
  /\ rpc = "select"
  /\ updateCh
  /\ updateCh' = FALSE
  /\ rpc' = "dequeue"
  /\ UNCHANGED <<vars, nodeVars, cache, queued, batch, read, todo, retried, evalVars, loadVars>>

\* Mutant: one node is taken per token.
DequeueOne ==
  /\ rpc = "dequeue"
  /\ batch' = IF queued = <<>> THEN <<>> ELSE <<Head(queued)>>
  /\ queued' = IF queued = <<>> THEN <<>> ELSE Tail(queued)
  /\ rpc' = IF queued = <<>> THEN "select" ELSE "rlock"
  /\ UNCHANGED <<vars, nodeVars, cache, updateCh, read, todo, retried, evalVars, loadVars>>

\* The queue is emptied.  It may be empty already: the token of an update may be
\* sent after an earlier receive and before the dequeue that took the update.
DequeueAll ==
  /\ rpc = "dequeue"
  /\ batch' = queued
  /\ queued' = <<>>
  /\ rpc' = IF queued = <<>> THEN "select" ELSE "rlock"
  /\ UNCHANGED <<vars, nodeVars, cache, updateCh, read, todo, retried, evalVars, loadVars>>

RunRLock ==
  /\ rpc = "rlock"
  /\ CanRLock
  /\ rpc' = "parents"
  /\ UNCHANGED <<vars, nodeVars, cache, queueOfUpdates, batch, read, todo, retried, evalVars, loadVars>>

\* parentNode.Exports() is read before CacheExports takes the cache's own lock.
ParentRead ==
  /\ rpc = "parents"
  /\ batch # <<>>
  /\ read' = exports[Head(batch)]
  /\ rpc' = "write"
  /\ UNCHANGED <<vars, nodeVars, cache, queueOfUpdates, batch, todo, retried, evalVars, loadVars>>

\* Mutant: the new exports of the updated node are not cached.
ParentNotCached ==
  /\ rpc = "write"
  /\ read' = None
  /\ todo' = todo \cup Dependants(Head(batch))
  /\ batch' = Tail(batch)
  /\ rpc' = "parents"
  /\ UNCHANGED <<vars, nodeVars, cache, queueOfUpdates, retried, evalVars, loadVars>>

\* CacheExports; the nodes with an edge to the parent are collected.
ParentCache ==
  /\ rpc = "write"
  /\ cache' = [cache EXCEPT ![Head(batch)] = read]
  /\ read' = None
  /\ todo' = todo \cup Dependants(Head(batch))
  /\ batch' = Tail(batch)
  /\ rpc' = "parents"
  /\ UNCHANGED <<vars, nodeVars, queueOfUpdates, retried, evalVars, loadVars>>

ParentsDone ==
  /\ rpc = "parents"
  /\ batch = <<>>
  /\ rpc' = "submit"
  /\ UNCHANGED <<vars, nodeVars, cache, queueOfUpdates, batch, read, todo, retried, evalVars, loadVars>>

\* SubmitWithKey succeeds, or finds the key waiting.  The dependants are submitted
\* one by one, in the order a Go map is ranged over: any.
SubmitAccepted(n, f) ==
  /\ rpc = "submit" /\ n \in todo
  /\ retried \in {None, n}
  /\ coalesce(n) \/ accept(n, f)
  /\ todo' = todo \ {n}
  /\ retried' = None
  /\ UNCHANGED <<workerVars, quit, stopResult>>
  /\ UNCHANGED <<nodeVars, cache, queueOfUpdates, rpc, batch, read, evalVars, loadVars>>

\* Mutant: a refused submission is not retried.
SubmitRefusedNoRetry(n) ==
  /\ rpc = "submit" /\ n \in todo
  /\ retried \in {None, n}
  /\ reject(n)
  /\ todo' = todo \ {n}
  /\ UNCHANGED <<workerVars, quit, stopResult>>
  /\ UNCHANGED <<nodeVars, cache, queueOfUpdates, rpc, batch, read, retried, evalVars, loadVars>>

\* Mutant: l.mut is kept while the loop backs off.
SubmitRefusedKeepsLock(n) ==
  /\ rpc = "submit" /\ n \in todo
  /\ retried \in {None, n}
  /\ reject(n)
  /\ retried' = n
  /\ UNCHANGED <<workerVars, quit, stopResult>>
  /\ UNCHANGED <<nodeVars, cache, queueOfUpdates, rpc, batch, read, todo, evalVars, loadVars>>

\* The pool is full: l.mut is released while the loop backs off.
SubmitRefused(n) ==
  /\ rpc = "submit" /\ n \in todo
  /\ retried \in {None, n}
  /\ reject(n)
  /\ retried' = n
  /\ rpc' = "backoff"
  /\ UNCHANGED <<workerVars, quit, stopResult>>
  /\ UNCHANGED <<nodeVars, cache, queueOfUpdates, batch, read, todo, evalVars, loadVars>>

\* The backoff is over and l.mut is taken again.
BackoffOver ==
  /\ rpc = "backoff"
  /\ CanRLock
  /\ rpc' = "submit"
  /\ UNCHANGED <<vars, nodeVars, cache, queueOfUpdates, batch, read, todo, retried, evalVars, loadVars>>

\* It is over, and the retries are exhausted: the error is logged and the node skipped.
GiveUp ==
  /\ CanExhaust
  /\ rpc = "backoff"
  /\ CanRLock
  /\ todo' = todo \ {retried}
  /\ retried' = None
  /\ rpc' = "submit"
  /\ damaged' = TRUE
  /\ UNCHANGED <<vars, nodeVars, cache, queueOfUpdates, batch, read, evalVars, lpc, reloads>>

EvaluateDependantsDone ==
  /\ rpc = "submit"
  /\ todo = {}
  /\ rpc' = "select"
  /\ UNCHANGED <<vars, nodeVars, cache, queueOfUpdates, batch, read, todo, retried, evalVars, loadVars>>

(***************************************************************************)
(* concurrentEvalFn, executed by worker w for the node job[w].key          *)
(***************************************************************************)

EvalNode(w) == job[w].key

\* A worker receives the job.
EvalReceive(w) ==
  /\ Receive(w)
  /\ wpc' = [wpc EXCEPT ![w] = "rlock"]
  /\ UNCHANGED <<nodeVars, cache, queueOfUpdates, runVars, scope, wread, loadVars>>

\* l.mut.RLock(), then the context is copied from the cache.
EvalContext(w) ==
  /\ wpc[w] = "rlock"
  /\ CanRLock
  /\ scope' = [scope EXCEPT ![w] = Arguments(EvalNode(w), cache)]
  /\ wpc' = [wpc EXCEPT ![w] = "evaluate"]
  /\ UNCHANGED <<vars, nodeVars, cache, queueOfUpdates, runVars, wread, loadVars>>

\* Mutant: arguments the component refused are stored.
EvalEvaluateKeepsInvalid(w) ==
  LET n == EvalNode(w) IN
  /\ wpc[w] = "evaluate"
  /\ \/ /\ args[n] = scope[w]
        /\ wpc' = [wpc EXCEPT ![w] = "read"]
        /\ UNCHANGED <<args, exports>>
     \/ /\ args[n] # scope[w]
        /\ args' = [args EXCEPT ![n] = scope[w]]
        /\ exports' = [exports EXCEPT ![n] = ExportsOf(own[n], scope[w])]
        /\ wpc' = [wpc EXCEPT ![w] = "notify"]
  /\ scope' = [scope EXCEPT ![w] = None]
  /\ UNCHANGED <<vars, own, notifying, cache, queueOfUpdates, runVars, wread, loadVars>>

\* n.Evaluate: a failed evaluation leaves the node as it was; equal arguments are
\* ignored; otherwise the component is updated and sets its exports.
EvalEvaluate(w) ==
  LET n == EvalNode(w)
      unchanged == Invalid(n, scope[w]) \/ args[n] = scope[w]
  IN
  /\ wpc[w] = "evaluate"
  /\ \/ /\ unchanged
        /\ wpc' = [wpc EXCEPT ![w] = "read"]
        /\ UNCHANGED <<args, exports>>
     \/ /\ ~unchanged
        /\ args' = [args EXCEPT ![n] = scope[w]]
        /\ exports' = [exports EXCEPT ![n] = ExportsOf(own[n], scope[w])]
        /\ wpc' = [wpc EXCEPT ![w] = "notify"]
  /\ scope' = [scope EXCEPT ![w] = None]
  /\ UNCHANGED <<vars, own, notifying, cache, queueOfUpdates, runVars, wread, loadVars>>

\* The update made by Evaluate is announced.
EvalNotify(w) ==
  /\ wpc[w] = "notify"
  /\ Enqueue(EvalNode(w))
  /\ wpc' = [wpc EXCEPT ![w] = "read"]
  /\ UNCHANGED <<vars, nodeVars, cache, runVars, scope, wread, loadVars>>

\* postEvaluate: c.Exports() ...
EvalRead(w) ==
  /\ wpc[w] = "read"
  /\ wread' = [wread EXCEPT ![w] = exports[EvalNode(w)]]
  /\ wpc' = [wpc EXCEPT ![w] = "cache"]
  /\ UNCHANGED <<vars, nodeVars, cache, queueOfUpdates, runVars, scope, loadVars>>

\* ... is cached, also after a failed evaluation; then l.mut.RUnlock().
EvalCache(w) ==
  /\ wpc[w] = "cache"
  /\ cache' = [cache EXCEPT ![EvalNode(w)] = wread[w]]
  /\ wread' = [wread EXCEPT ![w] = None]
  /\ wpc' = [wpc EXCEPT ![w] = "done"]
  /\ UNCHANGED <<vars, nodeVars, queueOfUpdates, runVars, scope, loadVars>>

EvalFinish(w) ==
  /\ wpc[w] = "done"
  /\ Finish(w)
  /\ wpc' = [wpc EXCEPT ![w] = "idle"]
  /\ UNCHANGED <<nodeVars, cache, queueOfUpdates, runVars, scope, wread, loadVars>>

(***************************************************************************)
(* Apply.  It holds l.mut for writing, so that the only concurrent steps   *)
(* are components setting their exports.  Such a step can be moved before  *)
(* Apply if it comes before Apply reads these exports, and after it        *)
(* otherwise: Apply is one action.                                         *)
(***************************************************************************)

ReloadBegin ==
  /\ lpc = "idle"
  /\ reloads < MaxReloads
  /\ reloads' = reloads + 1
  /\ lpc' = "wait"
  /\ UNCHANGED <<vars, nodeVars, cache, queueOfUpdates, runVars, evalVars, damaged>>

\* The arguments of every node after an evaluation in topological order from an
\* empty cache, for own states o and earlier arguments a: each node sees the exports
\* its dependencies have by then.
EvaluatedArgs(o, a) ==
  LET result[n \in Keys] ==
        LET new == [d \in Deps(n) |-> ExportsOf(o[d], result[d])]
        IN IF Invalid(n, new) THEN a[n] ELSE new
  IN result

\* A set in some order.
Ordered(S) ==
  CHOOSE s \in [1..Cardinality(S) -> S] : \A x \in S : \E i \in 1..Cardinality(S) : s[i] = x

\* UpdateScopeVariables empties the cache; every node is evaluated and its exports
\* cached; nodes whose exports changed are queued.
Apply ==
  /\ lpc = "wait"
  /\ CanLock
  /\ args' = EvaluatedArgs(own, args)
  /\ exports' = [n \in Keys |-> ExportsOf(own[n], args'[n])]
  /\ cache' = exports'
  /\ LET changed == {n \in Keys : exports'[n] # exports[n]}
     IN /\ queued' = queued \o Ordered(changed)
        /\ updateCh' = (updateCh \/ changed # {})
  /\ lpc' = "idle"
  /\ damaged' = FALSE
  /\ UNCHANGED <<vars, own, notifying, runVars, evalVars, reloads>>

\* loadNewGraph fails: Apply returns after it has emptied the cache.
ApplyRejected ==
  /\ CanReject
  /\ lpc = "wait"
  /\ CanLock
  /\ cache' = [n \in Keys |-> Absent]
  /\ lpc' = "idle"
  /\ damaged' = TRUE
  /\ UNCHANGED <<vars, nodeVars, queueOfUpdates, runVars, evalVars, reloads>>

-----------------------------------------------------------------------------
\* A loaded and evaluated graph in which nothing has changed yet.
ControllerInit ==
  /\ Init
  /\ own = [n \in Keys |-> 0]
  /\ args = EvaluatedArgs(own, [n \in Keys |-> None])
  /\ exports = [n \in Keys |-> ExportsOf(0, args[n])]
  /\ cache = exports
  /\ notifying = {}
  /\ queued = <<>>
  /\ updateCh = FALSE
  /\ rpc = "select"
  /\ batch = <<>>
  /\ read = None
  /\ todo = {}
  /\ retried = None
  /\ wpc = [w \in Workers |-> "idle"]
  /\ scope = [w \in Workers |-> None]
  /\ wread = [w \in Workers |-> None]
  /\ lpc = "idle"
  /\ reloads = 0
  /\ damaged = FALSE

ComponentStep == \E n \in Keys : SetExports(n) \/ OnBlockNodeUpdate(n)

RunStep ==
  \/ RunReceive \/ DequeueAll \/ RunRLock \/ ParentRead \/ ParentCache \/ ParentsDone
  \/ \E n \in Keys : SubmitRefused(n) \/ \E f \in Funcs : SubmitAccepted(n, f)
  \/ BackoffOver \/ GiveUp \/ EvaluateDependantsDone

EvalStep(w) ==
  \/ EvalReceive(w) \/ EvalContext(w) \/ EvalEvaluate(w) \/ EvalNotify(w)
  \/ EvalRead(w) \/ EvalCache(w) \/ EvalFinish(w)

LoadStep == ReloadBegin \/ Apply \/ ApplyRejected

\* Nothing is on its way.
Settled ==
  /\ notifying = {} /\ queued = <<>> /\ ~updateCh
  /\ rpc = "select"
  /\ running = {}
  /\ lpc = "idle"

\* The controller waits for an update that may never come.
Waiting == Settled /\ UNCHANGED allVars

ControllerNext ==
  \/ ComponentStep
  \/ RunStep
  \/ \E w \in Workers : EvalStep(w)
  \/ LoadStep
  \/ Waiting

ControllerSpec == ControllerInit /\ [][ControllerNext]_allVars

\* Goroutines go on, evaluations return, and a component that set its exports tells
\* the controller.  Whether exports change or a reload comes is left open.
ControllerFairness ==
  /\ WF_allVars(RunStep)
  /\ \A w \in Workers : WF_allVars(EvalStep(w))
  /\ \A n \in Keys : WF_allVars(OnBlockNodeUpdate(n))
  /\ WF_allVars(Apply \/ ApplyRejected)

FairControllerSpec == ControllerSpec /\ ControllerFairness

-----------------------------------------------------------------------------
(***************************************************************************)
(* Properties                                                              *)
(***************************************************************************)

\* The cache is what the components export, and every component's arguments are
\* what its block evaluates to, unless that is invalid.
Consistent ==
  \A n \in Keys :
    /\ cache[n] = exports[n]
    /\ args[n] = Arguments(n, exports) \/ Invalid(n, Arguments(n, exports))

\* "If a node updates its Exports at runtime, other nodes which directly or
\* indirectly reference the updated node will have their Arguments re-evaluated":
\* when nothing is on its way, no node is left with arguments of old exports.  A
\* rejected reload or exhausted retries may leave one, until the next reload.
SettledIsConsistent == Settled /\ ~damaged => Consistent

\* Updates stop at some point (MaxOwn): then the controller becomes consistent, and
\* stays so, or is left damaged.
BecomesConsistent == <>[](Consistent \/ damaged)

\* An update that is queued wakes the Run loop: a non-empty queue has its token, or
\* the loop is about to dequeue.
NoLostWakeup == queued # <<>> => updateCh \/ rpc = "dequeue"

\* A failed evaluation leaves arguments and exports in their last valid state: no
\* node ever runs with arguments its component does not accept.
ArgumentsAreValid == \A n \in Keys : ~Invalid(n, args[n])

\* The Run loop gets back to its select and a reload gets l.mut, also when the pool
\* is full and each waits for the lock: backing off without l.mut lets it drain.
NobodyWaitsForEver ==
  /\ rpc # "select" ~> rpc = "select"
  /\ lpc = "wait" ~> lpc = "idle"

\* After a rejected reload Alloy "continues functioning in the last valid state":
\* nothing refuses the exports of these components, so when nothing is on its way
\* every component has the arguments its block evaluates to.
RejectedReloadKeepsWorking == Settled => \A n \in Keys : args[n] = Arguments(n, exports)
=============================================================================

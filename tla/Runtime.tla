------------------------------ MODULE Runtime ------------------------------
(***************************************************************************)
(* How configuration loads reach the scheduler (runtime/alloy.go).         *)
(* applyLoaderConfig installs a graph in the loader and leaves a token in  *)
(* loadFinished, a channel of capacity one; the Run loop takes the token,  *)
(* takes the loader's graph as it is then, and synchronizes the scheduler  *)
(* with it.  Loads and the Run loop are concurrent; loads made while Run   *)
(* is busy share one token.                                                *)
(*                                                                         *)
(* The module extends Scheduler: every step of a task, of a stopping or    *)
(* starting goroutine or of Synchronize is a step of it.                   *)
(***************************************************************************)
EXTENDS Scheduler

VARIABLES
  graph,         \* Loader.graph: the graph of the last load that built one
  nodeObj,       \* the node object of every identifier of graph, None for the others
  loadFinished,  \* a token is in the channel loadFinished
  loadedOnce,    \* a load went through, or failed after an earlier one did
  cleanLoad,     \* history: a load had no errors
  loadComplete,  \* what LoadComplete returns
  lpc,           \* the caller of LoadSource: idle, apply (in Loader.Apply), signal
  rpc,           \* Run: select, graph (token taken), sync (in Synchronize), exit
  ctxDone,       \* the context of Run is cancelled
  snapshot       \* history: what the last Synchronize was given

loadVars == <<graph, nodeObj, loadedOnce, cleanLoad, lpc>>
runtimeVars == <<graph, nodeObj, loadFinished, loadedOnce, cleanLoad, loadComplete, lpc, rpc,
                 ctxDone, snapshot>>
allVars == <<vars, runtimeVars>>

EmptyGraph == [nodes |-> {}, edges |-> {}]
Loaded == [graph |-> graph, obj |-> nodeObj]

(***************************************************************************)
(* LoadSource                                                              *)
(***************************************************************************)

\* applyLoaderConfig takes loadMut and clears loadComplete.
LoadBegin ==
  /\ lpc = "idle"
  /\ lpc' = "apply"
  /\ loadComplete' = FALSE
  /\ UNCHANGED <<vars, graph, nodeObj, loadFinished, loadedOnce, cleanLoad, rpc, ctxDone, snapshot>>

\* Mutant: the first load is scheduled although it had errors.
AfterApplyUnchecked(hasErrors) == lpc' = "signal"

\* After Apply: a first load with errors returns without scheduling anything.
AfterApply(hasErrors) ==
  lpc' = IF ~loadedOnce /\ hasErrors THEN "idle" ELSE "signal"

\* An object the process does not hold for n any more (a new allocation).
FreshObj(n, o) ==
  /\ o # nodeObj[n]
  /\ \A s \in Live : attr[s].id = n => attr[s].obj # o
  /\ desired[n] # None => desired[n].obj # o

\* Apply installs the new graph: a node whose identifier is in the old graph keeps
\* its object, the others are built anew.  Evaluation errors do not prevent it.
LoadApply(g, hasErrors) ==
  /\ lpc = "apply"
  /\ graph' = g
  /\ \E obj \in [Ids -> Objs \cup {None}] :
       /\ \A n \in Ids :
            \/ n \notin g.nodes /\ obj[n] = None
            \/ n \in g.nodes \cap graph.nodes /\ obj[n] = nodeObj[n]
            \/ n \in g.nodes \ graph.nodes /\ obj[n] \in Objs /\ FreshObj(n, obj[n])
       /\ nodeObj' = obj
  /\ AfterApply(hasErrors)
  /\ cleanLoad' = (cleanLoad \/ ~hasErrors)
  /\ UNCHANGED <<vars, loadFinished, loadedOnce, loadComplete, rpc, ctxDone, snapshot>>

\* Apply cannot build a graph (a cycle, an unknown component): the old one stays.
LoadReject ==
  /\ lpc = "apply"
  /\ AfterApply(TRUE)
  /\ UNCHANGED <<vars, graph, nodeObj, loadFinished, loadedOnce, cleanLoad, loadComplete, rpc,
                 ctxDone, snapshot>>

\* Mutant: loadFinished has no buffer, so that only a waiting Run gets the token.
LoadSignalUnbuffered ==
  /\ lpc = "signal"
  /\ loadedOnce' = TRUE
  /\ loadFinished' = (loadFinished \/ rpc = "select")
  /\ lpc' = "idle"
  /\ UNCHANGED <<vars, graph, nodeObj, cleanLoad, loadComplete, rpc, ctxDone, snapshot>>

\* The token is sent unless one is already there.
LoadSignal ==
  /\ lpc = "signal"
  /\ loadedOnce' = TRUE
  /\ loadFinished' = TRUE
  /\ lpc' = "idle"
  /\ UNCHANGED <<vars, graph, nodeObj, cleanLoad, loadComplete, rpc, ctxDone, snapshot>>

(***************************************************************************)
(* Run                                                                     *)
(***************************************************************************)

RunReceive ==
  /\ rpc = "select"
  /\ loadFinished
  /\ loadFinished' = FALSE
  /\ rpc' = "graph"
  /\ UNCHANGED <<vars, loadVars, loadComplete, ctxDone, snapshot>>

\* sched.Synchronize(loader.Graph())
RunSynchronize ==
  /\ rpc = "graph"
  /\ SynchronizeBegin(graph, nodeObj)
  /\ snapshot' = Loaded
  /\ rpc' = "sync"
  /\ UNCHANGED <<loadVars, loadFinished, loadComplete, ctxDone>>

RunComplete ==
  /\ rpc = "sync"
  /\ spc = "idle"
  /\ loadComplete' = TRUE
  /\ rpc' = "select"
  /\ UNCHANGED <<vars, loadVars, loadFinished, ctxDone, snapshot>>

\* Mutant: a pending load is always taken first.
RunExitAfterLoads ==
  /\ rpc = "select"
  /\ ctxDone /\ ~loadFinished
  /\ StopBegin
  /\ rpc' = "exit"
  /\ UNCHANGED <<loadVars, loadFinished, loadComplete, ctxDone, snapshot>>

\* The select takes ctx.Done(); the deferred function stops the scheduler.
RunExit ==
  /\ rpc = "select"
  /\ ctxDone
  /\ StopBegin
  /\ rpc' = "exit"
  /\ UNCHANGED <<loadVars, loadFinished, loadComplete, ctxDone, snapshot>>

Cancel ==
  /\ ~ctxDone
  /\ ctxDone' = TRUE
  /\ UNCHANGED <<vars, loadVars, loadFinished, loadComplete, rpc, snapshot>>

RuntimeInit ==
  /\ Init
  /\ graph = EmptyGraph
  /\ nodeObj = [n \in Ids |-> None]
  /\ loadFinished = FALSE
  /\ loadedOnce = FALSE
  /\ cleanLoad = FALSE
  /\ loadComplete = FALSE
  /\ lpc = "idle"
  /\ rpc = "select"
  /\ ctxDone = FALSE
  /\ snapshot = Loaded

LoadStep ==
  \/ LoadBegin
  \/ \E g \in Graphs, hasErrors \in BOOLEAN : LoadApply(g, hasErrors)
  \/ LoadReject
  \/ LoadSignal

RunStep == RunReceive \/ RunSynchronize \/ RunComplete \/ RunExit

RuntimeNext ==
  \/ LoadStep
  \/ RunStep
  \/ Cancel
  \/ Internal /\ UNCHANGED runtimeVars

RuntimeSpec == RuntimeInit /\ [][RuntimeNext]_allVars

\* A call of LoadSource that began returns; the Run loop goes on.  When both cases
\* of its select are ready either may be taken, so a cancelled context is noticed
\* only by strong fairness.
RuntimeFairness ==
  /\ WF_allVars(LoadReject \/ \E g \in Graphs, hasErrors \in BOOLEAN : LoadApply(g, hasErrors))
  /\ WF_allVars(LoadSignal)
  /\ WF_allVars(RunReceive) /\ WF_allVars(RunSynchronize) /\ WF_allVars(RunComplete)
  /\ SF_allVars(RunExit)
  /\ WF_allVars(SynchronizeCreate /\ UNCHANGED runtimeVars)
  /\ WF_allVars(SynchronizeEnd /\ UNCHANGED runtimeVars)
  /\ WF_allVars(StopEnd /\ UNCHANGED runtimeVars)
  /\ \A s \in Slots :
       /\ WF_allVars(StartCall(s) /\ UNCHANGED runtimeVars)
       /\ WF_allVars(StopperStep(s) /\ UNCHANGED runtimeVars)
       /\ WF_allVars(GoroutineEnds(s) /\ UNCHANGED runtimeVars)
       /\ WF_allVars(Collect(s) /\ UNCHANGED runtimeVars)
       /\ WF_allVars(s \in cancelled /\ RunReturns(s) /\ UNCHANGED runtimeVars)

FairRuntimeSpec == RuntimeSpec /\ RuntimeFairness

-----------------------------------------------------------------------------
(***************************************************************************)
(* Properties                                                              *)
(***************************************************************************)

\* No load in progress, no token, Run at its select.
Quiet == lpc = "idle" /\ ~loadFinished /\ rpc = "select"

\* No load is lost although loads share one token: when nothing is pending the
\* scheduler was last given the graph that is loaded.
NoLostLoad == Quiet /\ loadedOnce => snapshot = Loaded

\* When nothing is pending, every task that runs and was not given up at the
\* deadline belongs to a node of the loaded graph.
OnlyLoadedNodesRun ==
  Quiet => \A s \in Live : phase[s] = "running" /\ s \notin GivenUp => attr[s].id \in graph.nodes

\* "The controller will only start running components after Load is called once
\* without any configuration errors."
NothingRunsBeforeFirstLoad == ~cleanLoad => Live = {}

\* A loaded graph is handed to the scheduler and LoadComplete becomes true, unless
\* another load begins or Run is told to stop.
LoadsAreScheduled ==
  (lpc = "idle" /\ loadedOnce /\ snapshot # Loaded)
    ~> ((snapshot = Loaded /\ loadComplete) \/ lpc # "idle" \/ ctxDone)

\* A cancelled Run stops the scheduler and returns, loads or not.
RunReturnsAfterCancel == ctxDone ~> spc = "stopped"
=============================================================================

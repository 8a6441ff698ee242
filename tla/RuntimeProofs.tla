--------------------------- MODULE RuntimeProofs ---------------------------
(***************************************************************************)
(* Proofs about Runtime.  The Run loop uses the scheduler as Scheduler     *)
(* says it is used, so that everything proved there holds here; the rest   *)
(* is about the loads and their token.                                     *)
(***************************************************************************)
EXTENDS Runtime, SchedulerProofs

(***************************************************************************)
(* The inductive invariant.  NoLostLoad must be followed through the       *)
(* stages a load goes through: signalling, token, taken by Run.            *)
(***************************************************************************)

RuntimeTypeOK ==
  /\ graph \in Graphs \cup {EmptyGraph}
  /\ nodeObj \in [Ids -> Objs \cup {None}]
  /\ \A n \in Ids : n \in graph.nodes => nodeObj[n] \in Objs
  /\ loadFinished \in BOOLEAN /\ loadedOnce \in BOOLEAN /\ cleanLoad \in BOOLEAN
  /\ lpc \in {"idle", "apply", "signal"}
  /\ rpc \in {"select", "graph", "sync", "exit"}

\* A token, and a Run loop that took one, come from a load that went through; the
\* first of those had no errors and installed a graph.
LoadsComeFirst ==
  /\ loadFinished \/ rpc \in {"graph", "sync"} => loadedOnce
  /\ loadedOnce \/ lpc = "signal" => cleanLoad
  /\ cleanLoad => graph \in Graphs

\* Where the scheduler is while the Run loop is somewhere.
RunAndScheduler ==
  /\ rpc \in {"select", "graph"} => spc = "idle"
  /\ rpc = "sync" => spc \in {"idle", "stopping", "starting"}
  /\ rpc = "exit" => spc \in {"stopAll", "stopped"}
  /\ ~loadedOnce => Live = {}
  /\ Desired = Ids \cap snapshot.graph.nodes

\* A load that is not signalling, not a token and not taken by Run has been given
\* to the scheduler.
PendingOrGiven ==
  loadedOnce => lpc = "signal" \/ loadFinished \/ rpc = "graph" \/ snapshot = Loaded

RInv ==
  /\ IInv
  /\ RuntimeTypeOK
  /\ LoadsComeFirst
  /\ RunAndScheduler
  /\ PendingOrGiven

-----------------------------------------------------------------------------
(***************************************************************************)
(* Steps of Runtime as steps of Scheduler                                  *)
(***************************************************************************)

\* Synchronize looks at the objects of the graph's nodes only.
LEMMA SynchronizeRestricted ==
  ASSUME RInv, NEW obj \in [graph.nodes -> Objs], graph \in Graphs,
         obj = [n \in graph.nodes |-> nodeObj[n]], SynchronizeBegin(graph, nodeObj)
  PROVE  SynchronizeBegin(graph, obj)
<1>1. ASSUME NEW r
      PROVE  desiredTasks(graph, nodeObj, r) = desiredTasks(graph, obj, r)
  BY DEF desiredTasks
<1> DEFINE Effect(dt) ==
      LET keep == {s \in Managed : dt[attr[s].id] # None}
      IN /\ desired' = dt
         /\ attr' = [s \in Slots |->
              IF s \in keep
                THEN [attr[s] EXCEPT !.group = dt[attr[s].id].group,
                                     !.rank = dt[attr[s].id].rank]
                ELSE attr[s]]
         /\ toStop' = Managed \ keep
<1>2. PICK r \in TopologicalRanks(graph) : Effect(desiredTasks(graph, nodeObj, r))
  BY DEF SynchronizeBegin
<1>3. Effect(desiredTasks(graph, obj, r))
  BY <1>1, <1>2
<1> QED
  BY <1>3 DEF SynchronizeBegin

\* A call of Synchronize by the Run loop is one the scheduler expects: the graph was
\* loaded and every node of it has an object.
LEMMA RunSynchronizeIsStep ==
  ASSUME RInv, RunSynchronize
  PROVE  Next
<1>1. graph \in Graphs /\ SynchronizeBegin(graph, nodeObj)
  BY DEF RInv, LoadsComeFirst, RunSynchronize
<1> DEFINE obj == [n \in graph.nodes |-> nodeObj[n]]
<1>2. obj \in [graph.nodes -> Objs]
  BY <1>1, SchedulerAssumption DEF RInv, RuntimeTypeOK
<1>3. SynchronizeBegin(graph, obj)
  BY <1>1, <1>2, SynchronizeRestricted
<1> QED
  BY <1>1, <1>2, <1>3 DEF Next

LEMMA RuntimeStepIsSchedulerStep ==
  ASSUME RInv, [RuntimeNext]_allVars
  PROVE  [Next]_vars
<1>1. CASE RunSynchronize
  BY <1>1, RunSynchronizeIsStep
<1>2. CASE RunExit
  BY <1>2 DEF RunExit, Next
<1>3. CASE Internal
  BY <1>3 DEF Next
<1>4. CASE UNCHANGED vars
  BY <1>4
<1>5. CASE UNCHANGED allVars
  BY <1>5 DEF allVars
<1> QED
  BY <1>1, <1>2, <1>3, <1>4, <1>5
     DEF RuntimeNext, LoadStep, LoadBegin, LoadApply, LoadReject, LoadSignal, RunStep, RunReceive,
         RunComplete, Cancel

\* What the steps of the scheduler that Runtime leaves to it may change.
LEMMA InternalEffect ==
  ASSUME IInv, Internal
  PROVE  /\ Desired' = Desired
         /\ \/ spc' = spc
            \/ spc = "stopping" /\ spc' = "starting"
            \/ spc = "starting" /\ spc' = "idle"
            \/ spc = "stopAll" /\ spc' = "stopped"
         /\ spc \in {"idle", "stopAll", "stopped"} => Live' \subseteq Live
<1>1. CASE SchedulerStep
  <2>1. CASE SynchronizeCreate
    BY <2>1 DEF SynchronizeCreate, StoppingDone, Desired
  <2>2. CASE SynchronizeEnd \/ StopEnd
    BY <2>2 DEF SynchronizeEnd, StopEnd, taskVars, Desired, Live
  <2>3. CASE \E s \in Slots : StartCall(s)
    BY <2>3 DEF StartCall, Desired
  <2> QED BY <1>1, <2>1, <2>2, <2>3 DEF SchedulerStep
<1>2. ASSUME NEW s \in Slots, TaskStep(s)
      PROVE  desired' = desired /\ spc' = spc /\ Live' \subseteq Live
  <2>1. CASE RunReturns(s)
    BY <2>1 DEF RunReturns, syncVars, IInv, TypeOK, Live
  <2>2. CASE GoroutineEnds(s)
    BY <2>2 DEF GoroutineEnds, syncVars, IInv, TypeOK, Live
  <2>3. CASE Collect(s)
    BY <2>3 DEF Collect, IInv, TypeOK, Live
  <2> QED BY <1>2, <2>1, <2>2, <2>3 DEF TaskStep
<1>3. ASSUME NEW s \in Slots, StopperStep(s)
      PROVE  desired' = desired /\ spc' = spc /\ Live' = Live
  BY <1>3 DEF StopperStep, StopCall, StopExited, StopDeadline, StopReturned, Live
<1> QED
  BY <1>1, <1>2, <1>3 DEF Internal, Desired

-----------------------------------------------------------------------------
(***************************************************************************)
(* Every action preserves the invariant                                    *)
(***************************************************************************)

LEMMA RuntimeInitEstablishes == RuntimeInit => RInv
<1> SUFFICES ASSUME RuntimeInit PROVE RInv
  OBVIOUS
<1>1. IInv
  BY InitEstablishes DEF RuntimeInit
<1>2. Desired = {} /\ Live = {} /\ snapshot.graph.nodes = {}
  BY DEF RuntimeInit, Init, Desired, Live, Loaded, EmptyGraph
<1>3. RuntimeTypeOK
  BY DEF RuntimeInit, RuntimeTypeOK, EmptyGraph
<1> QED
  BY <1>1, <1>2, <1>3
     DEF RuntimeInit, Init, RInv, LoadsComeFirst, RunAndScheduler, PendingOrGiven

\* A load does not touch the scheduler.
LEMMA LoadPreserves ==
  ASSUME RInv, LoadStep, IInv'
  PROVE  RInv'
<1>1. UNCHANGED vars
  BY DEF LoadStep, LoadBegin, LoadApply, LoadReject, LoadSignal
<1>2. Live' = Live /\ Desired' = Desired /\ spc' = spc
  BY <1>1 DEF vars, Live, Desired
<1>3. CASE LoadBegin
  BY <1>2, <1>3 DEF LoadBegin, RInv, RuntimeTypeOK, LoadsComeFirst, RunAndScheduler,
                    PendingOrGiven, Loaded
<1>4. ASSUME NEW g \in Graphs, NEW hasErrors \in BOOLEAN, LoadApply(g, hasErrors)
      PROVE  RInv'
  <2>1. nodeObj' \in [Ids -> Objs \cup {None}] /\ \A n \in Ids : n \in g.nodes => nodeObj'[n] \in Objs
    BY <1>4 DEF LoadApply, RInv, RuntimeTypeOK
  <2>2. /\ lpc = "apply" /\ graph' = g
        /\ lpc' = IF ~loadedOnce /\ hasErrors THEN "idle" ELSE "signal"
        /\ cleanLoad' = (cleanLoad \/ ~hasErrors)
        /\ UNCHANGED <<loadFinished, loadedOnce, rpc, snapshot>>
    BY <1>4 DEF LoadApply, AfterApply
  <2>3. RuntimeTypeOK'
    BY <2>1, <2>2 DEF RInv, RuntimeTypeOK
  <2>4. LoadsComeFirst' /\ RunAndScheduler' /\ PendingOrGiven'
    BY <1>2, <2>2 DEF RInv, RuntimeTypeOK, LoadsComeFirst, RunAndScheduler, PendingOrGiven
  <2> QED BY <2>3, <2>4 DEF RInv
<1>5. CASE LoadReject
  BY <1>2, <1>5 DEF LoadReject, AfterApply, RInv, RuntimeTypeOK, LoadsComeFirst, RunAndScheduler,
                    PendingOrGiven, Loaded
<1>6. CASE LoadSignal
  BY <1>2, <1>6 DEF LoadSignal, RInv, RuntimeTypeOK, LoadsComeFirst, RunAndScheduler,
                    PendingOrGiven, Loaded
<1> QED
  BY <1>3, <1>4, <1>5, <1>6 DEF LoadStep

LEMMA RunPreserves ==
  ASSUME RInv, RunStep \/ Cancel, IInv'
  PROVE  RInv'
<1>1. UNCHANGED <<graph, nodeObj, loadedOnce, cleanLoad, lpc>>
  BY DEF RunStep, RunReceive, RunSynchronize, RunComplete, RunExit, Cancel, loadVars
<1>2. CASE RunReceive \/ RunComplete \/ Cancel
  <2>1. UNCHANGED vars
    BY <1>2 DEF RunReceive, RunComplete, Cancel
  <2>2. Live' = Live /\ Desired' = Desired /\ spc' = spc
    BY <2>1 DEF vars, Live, Desired
  <2>3. /\ snapshot' = snapshot /\ Loaded' = Loaded
        /\ \/ rpc = "select" /\ loadFinished /\ ~loadFinished' /\ rpc' = "graph"
           \/ rpc = "sync" /\ spc = "idle" /\ loadFinished' = loadFinished /\ rpc' = "select"
           \/ UNCHANGED <<loadFinished, rpc>>
    BY <1>1, <1>2 DEF RunReceive, RunComplete, Cancel, Loaded
  <2>4. loadFinished' \in BOOLEAN
    BY <1>2 DEF RunReceive, RunComplete, Cancel, RInv, RuntimeTypeOK
  <2>5. RuntimeTypeOK' /\ LoadsComeFirst'
    BY <1>1, <2>3, <2>4 DEF RInv, RuntimeTypeOK, LoadsComeFirst
  <2>6. RunAndScheduler' /\ PendingOrGiven'
    BY <1>1, <2>2, <2>3 DEF RInv, RuntimeTypeOK, RunAndScheduler, PendingOrGiven
  <2> QED BY <2>5, <2>6 DEF RInv
<1>3. CASE RunSynchronize
  <2>1. /\ rpc = "graph" /\ rpc' = "sync" /\ snapshot' = Loaded /\ loadFinished' = loadFinished
        /\ SynchronizeBegin(graph, nodeObj)
    BY <1>3 DEF RunSynchronize
  <2>2. spc' = "stopping" /\ Live' = Live
    BY <2>1 DEF SynchronizeBegin, Live
  <2>3. Desired' = Ids \cap graph.nodes
    <3>1. PICK r \in TopologicalRanks(graph) : desired' = desiredTasks(graph, nodeObj, r)
      BY <2>1 DEF SynchronizeBegin
    <3>2. PICK obj \in [graph.nodes -> Objs] : obj = [n \in graph.nodes |-> nodeObj[n]]
      BY <2>1, SchedulerAssumption DEF RInv, RuntimeTypeOK, LoadsComeFirst
    <3>3. desired' = desiredTasks(graph, obj, r)
      BY <3>1, <3>2 DEF desiredTasks
    <3>4. \A n \in Ids : desired'[n] # None <=> n \in graph.nodes
      BY <2>1, <3>3, DesiredTasksType DEF RInv, LoadsComeFirst
    <3> QED BY <3>4 DEF Desired
  <2>4. snapshot'.graph = graph /\ snapshot' = Loaded'
    BY <1>1, <2>1 DEF Loaded
  <2> QED
    BY <1>1, <2>1, <2>2, <2>3, <2>4
       DEF RInv, RuntimeTypeOK, LoadsComeFirst, RunAndScheduler, PendingOrGiven
<1>4. CASE RunExit
  <2>1. /\ rpc = "select" /\ rpc' = "exit" /\ spc' = "stopAll"
        /\ UNCHANGED <<loadFinished, snapshot, phase, desired>>
    BY <1>4 DEF RunExit, StopBegin, taskVars
  <2>2. Live' = Live /\ Desired' = Desired
    BY <2>1 DEF Live, Desired
  <2> QED
    BY <1>1, <2>1, <2>2
       DEF RInv, RuntimeTypeOK, LoadsComeFirst, RunAndScheduler, PendingOrGiven, Loaded
<1> QED
  BY <1>2, <1>3, <1>4 DEF RunStep

LEMMA InternalPreserves ==
  ASSUME RInv, Internal, UNCHANGED runtimeVars, IInv'
  PROVE  RInv'
<1>1. /\ UNCHANGED <<graph, nodeObj, loadFinished, loadedOnce, cleanLoad, lpc, rpc, snapshot>>
      /\ Loaded' = Loaded
  BY DEF runtimeVars, Loaded
<1>2. /\ Desired' = Desired
      /\ \/ spc' = spc
         \/ spc = "stopping" /\ spc' = "starting"
         \/ spc = "starting" /\ spc' = "idle"
         \/ spc = "stopAll" /\ spc' = "stopped"
      /\ spc \in {"idle", "stopAll", "stopped"} => Live' \subseteq Live
  BY InternalEffect DEF RInv
<1>3. ~loadedOnce => spc \in {"idle", "stopAll", "stopped"}
  BY DEF RInv, RuntimeTypeOK, LoadsComeFirst, RunAndScheduler
<1>4. RunAndScheduler'
  BY <1>1, <1>2, <1>3 DEF RInv, RuntimeTypeOK, RunAndScheduler
<1> QED
  BY <1>1, <1>4 DEF RInv, RuntimeTypeOK, LoadsComeFirst, PendingOrGiven

LEMMA RuntimeNextPreserves == RInv /\ [RuntimeNext]_allVars => RInv'
<1> SUFFICES ASSUME RInv, [RuntimeNext]_allVars PROVE RInv'
  OBVIOUS
<1>1. IInv'
  BY RuntimeStepIsSchedulerStep, NextPreserves DEF RInv
<1>2. CASE LoadStep
  BY <1>1, <1>2, LoadPreserves
<1>3. CASE RunStep \/ Cancel
  BY <1>1, <1>3, RunPreserves
<1>4. CASE Internal /\ UNCHANGED runtimeVars
  BY <1>1, <1>4, InternalPreserves
<1>5. CASE UNCHANGED allVars
  <2>1. Live' = Live /\ Desired' = Desired /\ spc' = spc
    BY <1>5 DEF allVars, vars, Live, Desired
  <2> QED
    BY <1>1, <1>5, <2>1
       DEF allVars, runtimeVars, RInv, RuntimeTypeOK, LoadsComeFirst, RunAndScheduler,
           PendingOrGiven, Loaded
<1> QED
  BY <1>2, <1>3, <1>4, <1>5 DEF RuntimeNext

LEMMA RInvHolds == RuntimeSpec => []RInv
  BY RuntimeInitEstablishes, RuntimeNextPreserves, PTL DEF RuntimeSpec

-----------------------------------------------------------------------------
(***************************************************************************)
(* The theorems                                                            *)
(***************************************************************************)

\* The Run loop, with loads around it, drives the scheduler only in the ways Scheduler
\* allows: one call at a time, with a loaded graph whose nodes all have objects.
THEOREM RuntimeImplementsScheduler == RuntimeSpec => Spec
<1>1. RuntimeInit => Init
  BY DEF RuntimeInit
<1>2. RInv /\ [RuntimeNext]_allVars => [Next]_vars
  BY RuntimeStepIsSchedulerStep
<1> QED
  BY <1>1, <1>2, RInvHolds, PTL DEF RuntimeSpec, Spec

\* Under the Run loop too, a node never runs twice without a deadline and the books
\* of the scheduler are exact.
THEOREM RuntimeKeepsBooks == RuntimeSpec => [](BooksAreExact /\ OneRunPerNode)
  BY RuntimeImplementsScheduler, BooksStayExact, OneRunPerNodeHolds, PTL

LEMMA RInvNoLostLoad == RInv => NoLostLoad
  BY DEF RInv, NoLostLoad, Quiet, PendingOrGiven

\* No load is lost although all loads share one token.
THEOREM NoLoadIsLost == RuntimeSpec => []NoLostLoad
  BY RInvHolds, RInvNoLostLoad, PTL

LEMMA RInvOnlyLoaded == RInv => OnlyLoadedNodesRun
<1> SUFFICES ASSUME RInv, Quiet, NEW s \in Live, phase[s] = "running", s \notin GivenUp
             PROVE  attr[s].id \in graph.nodes
  BY DEF OnlyLoadedNodesRun
<1>1. loadedOnce /\ spc = "idle" /\ toStop = {}
  BY DEF RInv, RunAndScheduler, Quiet, IInv, Positions
<1>2. attr[s].id \in Desired
  BY <1>1 DEF RInv, IInv, UndesiredAreStopped, Unfinished, GivenUp, HasExited
<1>3. snapshot = Loaded
  BY <1>1 DEF RInv, PendingOrGiven, Quiet
<1> QED
  BY <1>2, <1>3 DEF RInv, RunAndScheduler, Loaded

\* When no load is pending, only nodes of the loaded graph run, but for tasks that
\* were given up at the deadline.
THEOREM OnlyLoadedNodesRunHolds == RuntimeSpec => []OnlyLoadedNodesRun
  BY RInvHolds, RInvOnlyLoaded, PTL

LEMMA RInvNothingRuns == RInv => NothingRunsBeforeFirstLoad
  BY DEF RInv, NothingRunsBeforeFirstLoad, RunAndScheduler, LoadsComeFirst

\* No component is started before a load without errors.
THEOREM NothingRunsEarly == RuntimeSpec => []NothingRunsBeforeFirstLoad
  BY RInvHolds, RInvNothingRuns, PTL
=============================================================================

----------------------------- MODULE Scheduler -----------------------------
(***************************************************************************)
(* The scheduler that runs the nodes of a graph                            *)
(* (runtime/internal/controller/scheduler.go): Synchronize stops the tasks *)
(* of nodes that left the graph and starts tasks for new ones; Stop stops  *)
(* everything.  Synchronize and Stop are called by one goroutine, in turn. *)
(* They run concurrently with the goroutine of every task and with one     *)
(* stopping or starting goroutine per group of connected nodes.            *)
(*                                                                         *)
(* A task object is a slot; the slot is reused once the task's goroutine   *)
(* has returned and no stopping goroutine refers to it.  The map tasks is  *)
(* keyed by node identifier, as s.tasks is.                                *)
(***************************************************************************)
EXTENDS Naturals, FiniteSets, GroupsAndRanks

CONSTANTS
  Ids,          \* node identifiers
  Objs,         \* node objects an identifier may be bound to (Go pointers)
  Graphs,       \* graphs, records [nodes, edges]; <<a, b>> \in edges: a references b
  Slots,        \* task objects; bounds the tasks alive at the same time
  Deadlines,    \* whether taskShutdownDeadline # 0: the possible settings
  None

\* What a task object records of its node.
Groups == SUBSET Ids
Attr == [id : Ids, obj : Objs, group : Groups, rank : 0..Cardinality(Ids)]

ASSUME SchedulerAssumption ==
  /\ IsFiniteSet(Ids) /\ IsFiniteSet(Slots)
  /\ \A g \in Graphs : g.nodes \subseteq Ids /\ g.edges \subseteq g.nodes \X g.nodes
  /\ Deadlines \subseteq BOOLEAN
  /\ None \notin Slots \cup Ids \cup Objs \cup Attr

VARIABLES
  phase,      \* each task: free, created, running (Start called), exited (exited
              \* closed), ended (its goroutine returned, a stopper still refers to it)
  attr,       \* each task: the id and node object it runs, its group and rank
  cancelled,  \* tasks whose context is cancelled
  onceDone,   \* tasks whose doneOnce has fired
  tasks,      \* s.tasks: the task managed under each identifier
  wg,         \* s.running, a WaitGroup
  spc,        \* where the goroutine calling Synchronize and Stop is
  desired,    \* desiredTasks of the current Synchronize
  toStop,     \* tasks the stopping goroutines still have to stop
  inStop,     \* those of toStop inside task.Stop
  toStart,    \* tasks the starting goroutines still have to start
  hasDeadline \* taskShutdownDeadline # 0; set once by NewScheduler

taskVars == <<phase, attr, cancelled, onceDone>>
syncVars == <<spc, desired, toStop, inStop, toStart, hasDeadline>>
vars == <<phase, attr, cancelled, onceDone, tasks, wg,
          spc, desired, toStop, inStop, toStart, hasDeadline>>

NoAttr == [id |-> None, obj |-> None, group |-> {}, rank |-> 0]

Group(s) == attr[s].group
Rank(s) == attr[s].rank
HasExited(s) == phase[s] \in {"exited", "ended"}

(***************************************************************************)
(* desiredTasksFromGraph.  GroupsAndRanks says which groups and ranks its  *)
(* graph algorithms compute; Dag checks that they do.                      *)
(***************************************************************************)

\* One attribute record per node of g, None for the other identifiers.
desiredTasks(g, obj, r) ==
  [n \in Ids |-> IF n \in g.nodes
                   THEN [id |-> n, obj |-> obj[n], group |-> Component(g, n), rank |-> r[n]]
                   ELSE None]

Desired == {n \in Ids : desired[n] # None}

(***************************************************************************)
(* Tasks                                                                   *)
(***************************************************************************)

\* onDone of task s: delete(s.tasks, id), then s.running.Done().  With doneOnce it
\* runs at most once per task.
onDone(s) ==
  /\ tasks' = [tasks EXCEPT ![attr[s].id] = None]
  /\ wg' = wg - 1

\* Mutant: without the sync.Once.
doneEveryTime(s) ==
  /\ onDone(s)
  /\ onceDone' = onceDone \cup {s}

doneOnce(s) ==
  \/ /\ s \notin onceDone
     /\ onDone(s)
     /\ onceDone' = onceDone \cup {s}
  \/ /\ s \in onceDone
     /\ UNCHANGED <<tasks, wg, onceDone>>

\* runnable.Run returns, by itself or because its context was cancelled; the
\* goroutine cancels the context and closes exited.
RunReturns(s) ==
  /\ phase[s] = "running"
  /\ phase' = [phase EXCEPT ![s] = "exited"]
  /\ cancelled' = cancelled \cup {s}
  /\ UNCHANGED <<attr, onceDone, tasks, wg, syncVars>>

\* Only then, in a later step, the goroutine runs doneOnce and ends.
GoroutineEnds(s) ==
  /\ phase[s] = "exited"
  /\ doneOnce(s)
  /\ phase' = [phase EXCEPT ![s] = "ended"]
  /\ UNCHANGED <<attr, cancelled, syncVars>>

\* A task nobody refers to any more is garbage.
Collect(s) ==
  /\ phase[s] = "ended"
  /\ s \notin toStop
  /\ phase' = [phase EXCEPT ![s] = "free"]
  /\ attr' = [attr EXCEPT ![s] = NoAttr]
  /\ onceDone' = onceDone \ {s}
  /\ cancelled' = cancelled \ {s}
  /\ UNCHANGED <<tasks, wg, spc, desired, toStop, inStop, toStart, hasDeadline>>

(***************************************************************************)
(* The goroutines that stop tasks, one per group.  A goroutine is at its   *)
(* task of highest rank (stopOrder) and goes on when task.Stop returns.    *)
(***************************************************************************)

\* Mutant: the groups are stopped in start order.
NextToStopLeavesFirst(s) ==
  /\ s \in toStop \ inStop
  /\ \A u \in inStop : Group(u) # Group(s)
  /\ \A u \in toStop : Group(u) = Group(s) => Rank(s) <= Rank(u)

NextToStop(s) ==
  /\ s \in toStop \ inStop
  /\ \A u \in inStop : Group(u) # Group(s)
  /\ \A u \in toStop : Group(u) = Group(s) => Rank(u) <= Rank(s)

\* task.Stop is entered: cancel().
StopCall(s) ==
  /\ NextToStop(s)
  /\ inStop' = inStop \cup {s}
  /\ cancelled' = cancelled \cup {s}
  /\ UNCHANGED <<phase, attr, onceDone, tasks, wg, spc, desired, toStop, toStart, hasDeadline>>

StopReturned(s) ==
  /\ inStop' = inStop \ {s}
  /\ toStop' = toStop \ {s}
  /\ UNCHANGED <<phase, attr, cancelled, spc, desired, toStart, hasDeadline>>

\* Mutant: task.Stop does not wait for exited.
StopExitedNoWait(s) ==
  /\ s \in inStop
  /\ StopReturned(s)
  /\ UNCHANGED <<onceDone, tasks, wg>>

\* task.Stop returns because exited is closed.
StopExited(s) ==
  /\ s \in inStop
  /\ HasExited(s)
  /\ StopReturned(s)
  /\ UNCHANGED <<onceDone, tasks, wg>>

\* Mutant: task.Stop goes on waiting after the deadline.
StopDeadlineKeepsWaiting(s) ==
  /\ hasDeadline
  /\ s \in inStop \ onceDone
  /\ doneOnce(s)
  /\ UNCHANGED <<phase, attr, cancelled, syncVars>>

\* task.Stop gives the task up at the deadline; its goroutine may still run.  When
\* exited is closed as well the select may take either case.
StopDeadline(s) ==
  /\ hasDeadline
  /\ s \in inStop
  /\ doneOnce(s)
  /\ StopReturned(s)

(***************************************************************************)
(* Synchronize                                                             *)
(***************************************************************************)

Managed == {tasks[n] : n \in Ids} \ {None}

\* Desired tasks are computed; under tasksMut the tasks of desired nodes take
\* their new group and rank, the other ones are collected to be stopped.
SynchronizeBegin(g, obj) ==
  /\ spc = "idle"
  /\ \E r \in TopologicalRanks(g) :
       LET dt == desiredTasks(g, obj, r)
           keep == {s \in Managed : dt[attr[s].id] # None}
       IN /\ desired' = dt
          /\ attr' = [s \in Slots |->
               IF s \in keep
                 THEN [attr[s] EXCEPT !.group = dt[attr[s].id].group,
                                      !.rank = dt[attr[s].id].rank]
                 ELSE attr[s]]
          /\ toStop' = Managed \ keep
  /\ spc' = "stopping"
  /\ UNCHANGED <<phase, cancelled, onceDone, tasks, wg, inStop, toStart, hasDeadline>>

\* Mutant: it is not checked that a node has a task already.
NewNodesUnchecked == Desired

\* The desired nodes that have no task.
NewNodes == {n \in Desired : tasks[n] = None}

\* Mutant: stopping.Wait() is not called.
StoppingDoneUnchecked == spc = "stopping"

\* stopping.Wait() returns.
StoppingDone == spc = "stopping" /\ toStop = {}

\* Under tasksMut a task is created for every new node; slot gives it its object.
createTasks(slot) ==
  LET new == DOMAIN slot
      created == {slot[n] : n \in new}
  IN /\ phase' = [s \in Slots |-> IF s \in created THEN "created" ELSE phase[s]]
     /\ attr' = [s \in Slots |->
          IF s \in created THEN desired[CHOOSE n \in new : slot[n] = s] ELSE attr[s]]
     /\ tasks' = [n \in Ids |-> IF n \in new THEN slot[n] ELSE tasks[n]]
     /\ wg' = wg + Cardinality(new)
     /\ toStart' = created

SynchronizeCreate ==
  /\ StoppingDone
  /\ \E slot \in [NewNodes -> {s \in Slots : phase[s] = "free"}] :
       /\ \A m, n \in NewNodes : slot[m] = slot[n] => m = n
       /\ createTasks(slot)
  /\ spc' = "starting"
  /\ UNCHANGED <<cancelled, onceDone, desired, toStop, inStop, hasDeadline>>

\* Mutant: the groups are started in stop order.
StartCallRootsFirst(s) ==
  /\ spc = "starting"
  /\ s \in toStart
  /\ \A u \in toStart : Group(u) = Group(s) => Rank(u) <= Rank(s)
  /\ phase' = [phase EXCEPT ![s] = "running"]
  /\ toStart' = toStart \ {s}
  /\ UNCHANGED <<attr, cancelled, onceDone, tasks, wg, spc, desired, toStop, inStop, hasDeadline>>

\* A starting goroutine calls Start on its task of lowest rank (startOrder).
StartCall(s) ==
  /\ spc = "starting"
  /\ s \in toStart
  /\ \A u \in toStart : Group(u) = Group(s) => Rank(s) <= Rank(u)
  /\ phase' = [phase EXCEPT ![s] = "running"]
  /\ toStart' = toStart \ {s}
  /\ UNCHANGED <<attr, cancelled, onceDone, tasks, wg, spc, desired, toStop, inStop, hasDeadline>>

\* starting.Wait() returns, and with it Synchronize.
SynchronizeEnd ==
  /\ spc = "starting"
  /\ toStart = {}
  /\ spc' = "idle"
  /\ UNCHANGED <<taskVars, tasks, wg, desired, toStop, inStop, toStart, hasDeadline>>

(***************************************************************************)
(* Stop                                                                    *)
(***************************************************************************)

StopBegin ==
  /\ spc = "idle"
  /\ toStop' = Managed
  /\ spc' = "stopAll"
  /\ UNCHANGED <<taskVars, tasks, wg, desired, inStop, toStart, hasDeadline>>

\* s.running.Wait() returns; the stopping goroutines need not have returned.
StopEnd ==
  /\ spc = "stopAll"
  /\ wg = 0
  /\ spc' = "stopped"
  /\ UNCHANGED <<taskVars, tasks, wg, desired, toStop, inStop, toStart, hasDeadline>>

Init ==
  /\ phase = [s \in Slots |-> "free"]
  /\ attr = [s \in Slots |-> NoAttr]
  /\ cancelled = {}
  /\ onceDone = {}
  /\ tasks = [n \in Ids |-> None]
  /\ wg = 0
  /\ spc = "idle"
  /\ desired = [n \in Ids |-> None]
  /\ toStop = {}
  /\ inStop = {}
  /\ toStart = {}
  /\ hasDeadline \in Deadlines

TaskStep(s) == RunReturns(s) \/ GoroutineEnds(s) \/ Collect(s)
StopperStep(s) == StopCall(s) \/ StopExited(s) \/ StopDeadline(s)
SchedulerStep == SynchronizeCreate \/ SynchronizeEnd \/ StopEnd \/ \E s \in Slots : StartCall(s)

\* What the caller and the tasks do.
Internal == SchedulerStep \/ \E s \in Slots : TaskStep(s) \/ StopperStep(s)

Terminated ==
  /\ spc = "stopped"
  /\ \A s \in Slots : phase[s] = "free"
  /\ toStop = {}
  /\ UNCHANGED vars

Next ==
  \/ \E g \in Graphs : \E obj \in [g.nodes -> Objs] : SynchronizeBegin(g, obj)
  \/ StopBegin
  \/ Internal
  \/ Terminated

Spec == Init /\ [][Next]_vars

(***************************************************************************)
(* Fairness: goroutines run.  Nothing is assumed of the components, which  *)
(* may never return, nor of the callers.  Module Runtime adds that a       *)
(* component whose context is cancelled returns.                           *)
(***************************************************************************)
SchedulerFairness ==
  /\ WF_vars(SynchronizeCreate) /\ WF_vars(SynchronizeEnd) /\ WF_vars(StopEnd)
  /\ \A s \in Slots : /\ WF_vars(StartCall(s))
                      /\ WF_vars(StopperStep(s))
                      /\ WF_vars(GoroutineEnds(s))
                      /\ WF_vars(Collect(s))

StubbornSpec == Spec /\ SchedulerFairness

-----------------------------------------------------------------------------
(***************************************************************************)
(* Properties                                                              *)
(***************************************************************************)

Live == {s \in Slots : phase[s] # "free"}
GivenUp == onceDone
Unfinished == Live \ onceDone

\* Types, and which fields of a task are meaningful in which phase.
TypeOK ==
  /\ phase \in [Slots -> {"free", "created", "running", "exited", "ended"}]
  /\ attr \in [Slots -> Attr \cup {NoAttr}]
  /\ \A s \in Slots : attr[s] \in Attr <=> s \in Live
  /\ cancelled \subseteq Live /\ onceDone \subseteq Live
  /\ tasks \in [Ids -> Slots \cup {None}]
  /\ wg \in Nat
  /\ spc \in {"idle", "stopping", "starting", "stopAll", "stopped"}
  /\ desired \in [Ids -> Attr \cup {None}]
  /\ inStop \subseteq toStop /\ toStop \subseteq Slots /\ toStart \subseteq Slots
  /\ hasDeadline \in Deadlines

\* The map s.tasks holds exactly the tasks whose onDone has not run, each under its
\* own identifier, and the WaitGroup counts them: the late onDone of a task that was
\* given up never deletes the entry of a newer task of the same identifier, no live
\* task is forgotten, and Stop waits for each exactly once.
BooksAreExact ==
  /\ \A n \in Ids : tasks[n] # None => tasks[n] \in Unfinished /\ attr[tasks[n]].id = n
  /\ \A s \in Unfinished : tasks[attr[s].id] = s
  /\ wg = Cardinality(Unfinished)

\* Two tasks of one node run at the same time only when the older one was given up
\* at the shutdown deadline: without a deadline a node never runs twice.
OneRunPerNode ==
  \A s, u \in Live : s # u /\ ~HasExited(s) /\ ~HasExited(u) /\ attr[s].id = attr[u].id =>
    hasDeadline /\ (s \in GivenUp \/ u \in GivenUp)

\* "Nodes are shutdown first to ensure any shared resources, such as ports, are
\* allowed to be freed before new nodes are scheduled": while tasks are being
\* started, every task that runs and was not given up belongs to a desired node.
ShutdownBeforeStart ==
  spc = "starting" =>
    \A s \in Slots : phase[s] = "running" /\ s \notin GivenUp => attr[s].id \in Desired

\* "Tasks are stopped from roots to leaves": a task is told to stop only when the
\* tasks to be stopped with it that reference its node have exited or were given
\* up.  References are those of the graph the tasks were last scheduled with, which
\* the edges of Graphs give: the property is about graphs in which an edge always
\* joins the same two identifiers.
References(m, n) == \E g \in Graphs : <<m, n>> \in g.edges
StopsRootsFirst ==
  [][\A s \in Slots : s \in inStop' \ inStop =>
       \A u \in toStop \ {s} :
         References(attr[u].id, attr[s].id) /\ attr[s].id \in Group(u) => HasExited(u)]_vars

\* "... and started from leaves to roots": a task is started only after the tasks
\* started with it whose nodes its node references.
StartsLeavesFirst ==
  [][\A s \in Slots : s \in toStart \ toStart' =>
       \A u \in toStart : <<attr[s].id, attr[u].id>> \notin
         UNION {g.edges : g \in {h \in Graphs : h.nodes = Desired}}]_vars

\* The stopping goroutines get through their groups, and Stop, which waits for the
\* onDone of every task, returns: with a deadline even when no component ever does.
StoppingEnds ==
  /\ hasDeadline /\ spc = "stopping" ~> toStop = {}
  /\ hasDeadline /\ spc = "stopAll" ~> spc = "stopped"
=============================================================================

-------------------------- MODULE SchedulerProofs --------------------------
(***************************************************************************)
(* Proofs about Scheduler for any identifiers, objects, graphs and slots.  *)
(***************************************************************************)
EXTENDS Scheduler, FiniteSetTheorems, TLAPS

(***************************************************************************)
(* The inductive invariant.  BooksAreExact alone is not inductive: a task  *)
(* may end only after its onDone ran, or its slot would be reused while    *)
(* s.tasks still holds it.  ShutdownBeforeStart must be followed back to   *)
(* the moment the tasks to stop were collected.  The two properties of the *)
(* order need to know that the groups and ranks of the tasks in question   *)
(* come from one graph.                                                    *)
(***************************************************************************)

\* Which tasks exist only in which part of Synchronize and Stop.
Positions ==
  /\ spc \in {"idle", "starting"} => toStop = {}
  /\ spc # "starting" => toStart = {}
  /\ \A s \in Slots : phase[s] = "created" <=> s \in toStart
  /\ toStop \subseteq Live

\* A goroutine that has returned has run doneOnce; it fires for a task that still
\* runs only at a deadline, and never before the task was started.
DoneOnceFires ==
  /\ \A s \in Slots : phase[s] = "ended" => s \in onceDone
  /\ \A s \in onceDone : s \notin toStart /\ (HasExited(s) \/ hasDeadline)

\* Before Stop: a managed task that has not exited belongs to a desired node, or
\* Synchronize is about to stop it.
UndesiredAreStopped ==
  spc \in {"idle", "stopping", "starting"} =>
    \A s \in Unfinished : HasExited(s) \/ attr[s].id \in Desired \/ s \in toStop

\* The desired tasks are those of one graph, unless there are none.
DesiredOf(g, r) ==
  \A n \in Ids : /\ n \in Desired <=> n \in g.nodes
                 /\ n \in g.nodes => /\ desired[n].group = Component(g, n)
                                     /\ desired[n].rank = r[n]
DesiredFromOneGraph ==
  /\ \A n \in Desired : desired[n].id = n
  /\ Desired = {} \/ \E g \in Graphs : \E r \in TopologicalRanks(g) : DesiredOf(g, r)

\* Before Stop: the managed tasks of desired nodes have the desired group and rank.
TasksFollowDesired ==
  spc \in {"idle", "stopping", "starting"} =>
    \A s \in Unfinished : attr[s].id \in Desired =>
      /\ Group(s) = desired[attr[s].id].group
      /\ Rank(s) = desired[attr[s].id].rank

\* The tasks being stopped have the groups and ranks of one graph.  A task that was
\* not managed with that graph has exited: Synchronize stopped it once already.
StopOf(g, r) ==
  \A s \in toStop :
    \/ attr[s].id \notin g.nodes /\ HasExited(s)
    \/ /\ attr[s].id \in g.nodes
       /\ Group(s) = Component(g, attr[s].id)
       /\ Rank(s) = r[attr[s].id]
StopsFromOneGraph ==
  \/ \A s \in toStop : HasExited(s)
  \/ \E g \in Graphs : \E r \in TopologicalRanks(g) : StopOf(g, r)

IInv ==
  /\ TypeOK
  /\ BooksAreExact
  /\ Positions
  /\ DoneOnceFires
  /\ UndesiredAreStopped
  /\ DesiredFromOneGraph
  /\ TasksFollowDesired
  /\ StopsFromOneGraph

-----------------------------------------------------------------------------
(***************************************************************************)
(* Facts about the operators of the model                                  *)
(***************************************************************************)

\* An edge joins nodes of the same component.
LEMMA EdgeJoinsComponent ==
  ASSUME NEW g \in Graphs, NEW m, NEW n, <<m, n>> \in g.edges
  PROVE  Component(g, m) = Component(g, n)
<1>1. \A C \in SUBSET g.nodes :
        (\A e \in g.edges : e[1] \in C <=> e[2] \in C) => (m \in C <=> n \in C)
  OBVIOUS
<1> QED
  BY <1>1 DEF Component

\* The attributes of desired tasks have their types: a rank is less than the
\* number of nodes.
LEMMA DesiredTasksType ==
  ASSUME NEW g \in Graphs, NEW obj \in [g.nodes -> Objs], NEW r \in TopologicalRanks(g)
  PROVE  LET dt == desiredTasks(g, obj, r) IN
         /\ dt \in [Ids -> Attr \cup {None}]
         /\ \A n \in Ids : /\ dt[n] # None <=> n \in g.nodes
                           /\ n \in g.nodes => /\ dt[n] \in Attr
                                               /\ dt[n].id = n
                                               /\ dt[n].group = Component(g, n)
                                               /\ dt[n].rank = r[n]
<1> DEFINE dt == desiredTasks(g, obj, r)
<1>1. g.nodes \subseteq Ids /\ IsFiniteSet(Ids)
  BY SchedulerAssumption
<1>2. /\ IsFiniteSet(g.nodes)
      /\ Cardinality(g.nodes) \in Nat /\ Cardinality(Ids) \in Nat
      /\ Cardinality(g.nodes) <= Cardinality(Ids)
  BY <1>1, FS_Subset, FS_CardinalityType
<1>3. \A n \in g.nodes : r[n] \in 0..Cardinality(Ids)
  BY <1>2 DEF TopologicalRanks
<1>4. \A n \in g.nodes : Component(g, n) \in Groups
  BY <1>1 DEF Component, Groups
<1>5. \A n \in g.nodes : /\ dt[n] = [id |-> n, obj |-> obj[n], group |-> Component(g, n), rank |-> r[n]]
                         /\ dt[n] \in Attr
  BY <1>1, <1>3, <1>4 DEF desiredTasks, Attr
<1>6. \A n \in Ids : n \notin g.nodes => dt[n] = None
  BY DEF desiredTasks
<1>7. \A n \in g.nodes : dt[n] # None
  BY <1>5, SchedulerAssumption
<1>8. dt = [n \in Ids |-> dt[n]]
  BY DEF desiredTasks
<1> HIDE DEF dt
<1>9. dt \in [Ids -> Attr \cup {None}]
  BY <1>5, <1>6, <1>8
<1>10. ASSUME NEW n \in g.nodes
       PROVE  dt[n].id = n /\ dt[n].group = Component(g, n) /\ dt[n].rank = r[n]
  <2>1. dt[n] = [id |-> n, obj |-> obj[n], group |-> Component(g, n), rank |-> r[n]]
    BY <1>5
  <2> QED BY <2>1
<1> QED
  BY <1>5, <1>6, <1>7, <1>9, <1>10 DEF dt

\* NoAttr is not the attribute record of a task.
LEMMA NoAttrNotAttr == NoAttr \notin Attr
  BY SchedulerAssumption DEF NoAttr, Attr

\* A live task has attributes, an identifier among them.
LEMMA LiveHasAttr ==
  ASSUME TypeOK, NEW s \in Live
  PROVE  s \in Slots /\ attr[s] \in Attr /\ attr[s].id \in Ids
<1>1. s \in Slots /\ attr[s] \in Attr
  BY DEF TypeOK, Live
<1> QED
  BY <1>1 DEF Attr

\* The tasks whose onDone has not run are finitely many.
LEMMA UnfinishedFinite ==
  IsFiniteSet(Slots) /\ IsFiniteSet(Unfinished) /\ Cardinality(Unfinished) \in Nat
<1>1. IsFiniteSet(Slots) /\ Unfinished \subseteq Slots
  BY SchedulerAssumption DEF Unfinished, Live
<1> QED
  BY <1>1, FS_Subset, FS_CardinalityType

\* The tasks in the map s.tasks are those whose onDone has not run.
LEMMA ManagedIsUnfinished ==
  ASSUME TypeOK, BooksAreExact
  PROVE  Managed = Unfinished
<1>1. \A s \in Unfinished : attr[s].id \in Ids
  BY LiveHasAttr DEF Unfinished
<1> QED
  BY <1>1, SchedulerAssumption DEF BooksAreExact, Managed, Unfinished, Live

\* doneOnce keeps the books: onDone removes exactly the entry of its task.
LEMMA DoneOnceKeepsBooks ==
  ASSUME TypeOK, BooksAreExact, NEW s \in Slots, s \in Live, doneOnce(s),
         attr' = attr, Live' = Live
  PROVE  /\ onceDone' = onceDone \cup {s}
         /\ tasks' \in [Ids -> Slots \cup {None}]
         /\ wg' \in Nat
         /\ BooksAreExact'
<1>1. CASE s \in onceDone /\ UNCHANGED <<tasks, wg, onceDone>>
  BY <1>1 DEF TypeOK, BooksAreExact, Unfinished
<1>2. CASE s \notin onceDone /\ onDone(s) /\ onceDone' = onceDone \cup {s}
  <2>1. s \in Unfinished /\ attr[s].id \in Ids /\ tasks[attr[s].id] = s
    BY <1>2, LiveHasAttr DEF BooksAreExact, Unfinished
  <2>2. Unfinished' = Unfinished \ {s}
    BY <1>2 DEF Unfinished
  <2>3. Cardinality(Unfinished') = Cardinality(Unfinished) - 1
    BY <2>1, <2>2, UnfinishedFinite, FS_RemoveElement
  <2>4. Cardinality(Unfinished') \in Nat
    <3>1. IsFiniteSet(Unfinished')
      BY <2>2, UnfinishedFinite, FS_Subset
    <3> QED BY <3>1, FS_CardinalityType
  <2>5. wg' = Cardinality(Unfinished')
    BY <1>2, <2>3 DEF onDone, BooksAreExact
  <2>6. tasks' = [tasks EXCEPT ![attr[s].id] = None]
    BY <1>2 DEF onDone
  <2>7. \A n \in Ids : tasks'[n] # None => tasks'[n] \in Unfinished' /\ attr[tasks'[n]].id = n
    BY <2>1, <2>2, <2>6 DEF BooksAreExact, TypeOK
  <2>8. \A u \in Unfinished' : tasks'[attr[u].id] = u
    <3>1. \A u \in Unfinished : attr[u].id \in Ids
      BY LiveHasAttr DEF Unfinished
    <3> QED BY <2>1, <2>2, <2>6, <3>1 DEF BooksAreExact, TypeOK
  <2> QED
    BY <1>2, <2>4, <2>5, <2>6, <2>7, <2>8 DEF BooksAreExact, TypeOK
<1> QED
  BY <1>1, <1>2 DEF doneOnce

-----------------------------------------------------------------------------
(***************************************************************************)
(* Every action preserves the invariant                                    *)
(***************************************************************************)

LEMMA InitEstablishes == Init => IInv
<1> SUFFICES ASSUME Init PROVE IInv
  OBVIOUS
<1>1. Live = {} /\ Unfinished = {} /\ Desired = {}
  BY DEF Init, Live, Unfinished, Desired
<1>2. TypeOK
  BY <1>1, NoAttrNotAttr DEF Init, TypeOK
<1>3. BooksAreExact
  BY <1>1, FS_EmptySet DEF Init, BooksAreExact
<1> QED
  BY <1>1, <1>2, <1>3
     DEF Init, IInv, Positions, DoneOnceFires, UndesiredAreStopped, DesiredFromOneGraph,
         TasksFollowDesired, StopsFromOneGraph

LEMMA RunReturnsPreserves ==
  ASSUME IInv, NEW s \in Slots, RunReturns(s)
  PROVE  IInv'
<1>1. Live' = Live /\ Unfinished' = Unfinished /\ Desired' = Desired
  BY DEF RunReturns, syncVars, IInv, TypeOK, Live, Unfinished, Desired
<1>2. \A u \in Slots : HasExited(u) => HasExited(u)'
  BY DEF RunReturns, IInv, TypeOK, HasExited
<1>3. TypeOK'
  BY <1>1 DEF RunReturns, syncVars, IInv, TypeOK, Live
<1>4. BooksAreExact'
  BY <1>1 DEF RunReturns, IInv, BooksAreExact
<1>5. Positions' /\ DoneOnceFires'
  BY <1>1, <1>2 DEF RunReturns, syncVars, IInv, TypeOK, Positions, DoneOnceFires, HasExited, Live
<1>6. UndesiredAreStopped' /\ TasksFollowDesired' /\ DesiredFromOneGraph'
  BY <1>1, <1>2
     DEF RunReturns, syncVars, IInv, UndesiredAreStopped, TasksFollowDesired, Unfinished, Live,
         DesiredFromOneGraph, DesiredOf, Group, Rank
<1>7. StopsFromOneGraph'
  BY <1>2 DEF RunReturns, syncVars, IInv, TypeOK, StopsFromOneGraph, StopOf, Group, Rank
<1> QED
  BY <1>3, <1>4, <1>5, <1>6, <1>7 DEF IInv

LEMMA GoroutineEndsPreserves ==
  ASSUME IInv, NEW s \in Slots, GoroutineEnds(s)
  PROVE  IInv'
<1>1. s \in Live /\ Live' = Live /\ Desired' = Desired
  BY DEF GoroutineEnds, syncVars, IInv, TypeOK, Live, Desired
<1>2. /\ onceDone' = onceDone \cup {s}
      /\ tasks' \in [Ids -> Slots \cup {None}]
      /\ wg' \in Nat
      /\ BooksAreExact'
  BY <1>1, DoneOnceKeepsBooks DEF GoroutineEnds, IInv
<1>3. Unfinished' \subseteq Unfinished
  BY <1>1, <1>2 DEF Unfinished
<1>4. \A u \in Slots : HasExited(u)' <=> HasExited(u)
  BY DEF GoroutineEnds, IInv, TypeOK, HasExited
<1>5. TypeOK'
  BY <1>1, <1>2 DEF GoroutineEnds, syncVars, IInv, TypeOK, Live
<1>6. Positions' /\ DoneOnceFires'
  BY <1>1, <1>2, <1>4
     DEF GoroutineEnds, syncVars, IInv, TypeOK, Positions, DoneOnceFires, HasExited, Live
<1>7. UndesiredAreStopped' /\ TasksFollowDesired' /\ DesiredFromOneGraph'
  BY <1>1, <1>3, <1>4
     DEF GoroutineEnds, syncVars, IInv, UndesiredAreStopped, TasksFollowDesired, Unfinished, Live,
         DesiredFromOneGraph, DesiredOf, Group, Rank
<1>8. StopsFromOneGraph'
  BY <1>4 DEF GoroutineEnds, syncVars, IInv, TypeOK, StopsFromOneGraph, StopOf, Group, Rank
<1> QED
  BY <1>2, <1>5, <1>6, <1>7, <1>8 DEF IInv

\* A collected task is in no book: its goroutine ran doneOnce.
LEMMA CollectPreserves ==
  ASSUME IInv, NEW s \in Slots, Collect(s)
  PROVE  IInv'
<1>1. s \in onceDone /\ s \notin toStop /\ s \notin toStart /\ s \notin Unfinished
  BY DEF Collect, IInv, DoneOnceFires, Positions, Unfinished
<1>2. Live' = Live \ {s} /\ Unfinished' = Unfinished /\ Desired' = Desired
  BY <1>1 DEF Collect, IInv, TypeOK, Live, Unfinished, Desired
<1>3. \A u \in Slots : u # s => attr'[u] = attr[u] /\ phase'[u] = phase[u]
  BY DEF Collect, IInv, TypeOK
<1>4. \A u \in Slots : u # s => (HasExited(u)' <=> HasExited(u))
  BY <1>3 DEF HasExited
<1>5. TypeOK'
  <2>1. attr' \in [Slots -> Attr \cup {NoAttr}] /\ attr'[s] = NoAttr
    BY DEF Collect, IInv, TypeOK
  <2>2. \A u \in Slots : attr'[u] \in Attr <=> u \in Live'
    BY <1>2, <1>3, <2>1, NoAttrNotAttr DEF IInv, TypeOK
  <2>3. phase' \in [Slots -> {"free", "created", "running", "exited", "ended"}]
    BY DEF Collect, IInv, TypeOK
  <2>4. cancelled' \subseteq Live' /\ onceDone' \subseteq Live'
    BY <1>2 DEF Collect, IInv, TypeOK
  <2> QED
    BY <2>1, <2>2, <2>3, <2>4 DEF Collect, IInv, TypeOK
<1>6. BooksAreExact'
  <2>1. Unfinished \subseteq Slots
    BY DEF Unfinished, Live
  <2>2. \A u \in Unfinished : attr'[u] = attr[u]
    BY <1>1, <1>3, <2>1
  <2> QED BY <1>2, <2>2 DEF Collect, IInv, BooksAreExact
<1>7. Positions'
  BY <1>1, <1>2, <1>3 DEF Collect, IInv, TypeOK, Positions
<1>8. DoneOnceFires'
  BY <1>3, <1>4 DEF Collect, IInv, TypeOK, DoneOnceFires, Live
<1>9. UndesiredAreStopped' /\ TasksFollowDesired' /\ DesiredFromOneGraph'
  BY <1>1, <1>2, <1>3, <1>4
     DEF Collect, IInv, UndesiredAreStopped, TasksFollowDesired, Unfinished, Live,
         DesiredFromOneGraph, DesiredOf, Group, Rank
<1>10. StopsFromOneGraph'
  BY <1>1, <1>3, <1>4 DEF Collect, IInv, TypeOK, StopsFromOneGraph, StopOf, Group, Rank
<1> QED
  BY <1>5, <1>6, <1>7, <1>8, <1>9, <1>10 DEF IInv

LEMMA StopCallPreserves ==
  ASSUME IInv, NEW s \in Slots, StopCall(s)
  PROVE  IInv'
<1>1. Live' = Live /\ Unfinished' = Unfinished /\ Desired' = Desired
  BY DEF StopCall, Live, Unfinished, Desired
<1>2. s \in toStop /\ s \in Live
  BY DEF StopCall, NextToStop, IInv, Positions
<1>3. TypeOK'
  BY <1>1, <1>2 DEF StopCall, IInv, TypeOK
<1>4. BooksAreExact' /\ Positions' /\ DoneOnceFires'
  BY <1>1 DEF StopCall, IInv, BooksAreExact, Positions, DoneOnceFires, HasExited
<1>5. UndesiredAreStopped' /\ TasksFollowDesired' /\ DesiredFromOneGraph' /\ StopsFromOneGraph'
  BY <1>1
     DEF StopCall, IInv, UndesiredAreStopped, TasksFollowDesired, DesiredFromOneGraph, DesiredOf,
         StopsFromOneGraph, StopOf, Group, Rank, HasExited
<1> QED
  BY <1>3, <1>4, <1>5 DEF IInv

\* When task.Stop returns, the task has exited or its onDone has run.
LEMMA StopReturnedPreserves ==
  ASSUME IInv, NEW s \in Slots, s \in inStop, StopReturned(s),
         \/ HasExited(s) /\ UNCHANGED <<onceDone, tasks, wg>>
         \/ hasDeadline /\ doneOnce(s)
  PROVE  IInv'
<1>1. s \in Live /\ Live' = Live /\ Desired' = Desired
  BY DEF StopReturned, IInv, TypeOK, Positions, Live, Desired
<1>2. /\ \/ onceDone' = onceDone /\ HasExited(s)
         \/ onceDone' = onceDone \cup {s} /\ hasDeadline
      /\ tasks' \in [Ids -> Slots \cup {None}]
      /\ wg' \in Nat
      /\ BooksAreExact'
  <2>1. CASE HasExited(s) /\ UNCHANGED <<onceDone, tasks, wg>>
    BY <1>1, <2>1 DEF StopReturned, IInv, TypeOK, BooksAreExact, Unfinished
  <2>2. CASE hasDeadline /\ doneOnce(s)
    BY <1>1, <2>2, DoneOnceKeepsBooks DEF StopReturned, IInv
  <2> QED BY <2>1, <2>2
<1>3. Unfinished' \subseteq Unfinished /\ (s \in Unfinished' => HasExited(s))
  BY <1>1, <1>2 DEF Unfinished
<1>4. \A u \in Slots : HasExited(u)' <=> HasExited(u)
  BY DEF StopReturned, HasExited
<1>5. TypeOK'
  BY <1>1, <1>2 DEF StopReturned, IInv, TypeOK
<1>6. Positions' /\ DoneOnceFires'
  BY <1>1, <1>2, <1>4 DEF StopReturned, IInv, TypeOK, Positions, DoneOnceFires, Live
<1>7. UndesiredAreStopped' /\ TasksFollowDesired' /\ DesiredFromOneGraph'
  BY <1>1, <1>3, <1>4
     DEF StopReturned, IInv, UndesiredAreStopped, TasksFollowDesired, Unfinished, Live,
         DesiredFromOneGraph, DesiredOf, Group, Rank
<1>8. StopsFromOneGraph'
  BY <1>4 DEF StopReturned, IInv, TypeOK, StopsFromOneGraph, StopOf, Group, Rank
<1> QED
  BY <1>2, <1>5, <1>6, <1>7, <1>8 DEF IInv

\* The tasks of desired nodes take their new attributes; the others are collected
\* with the groups and ranks of the graph that was desired before.
LEMMA SynchronizeBeginPreserves ==
  ASSUME IInv, NEW g \in Graphs, NEW obj \in [g.nodes -> Objs], SynchronizeBegin(g, obj)
  PROVE  IInv'
<1>1. PICK r \in TopologicalRanks(g) :
        LET dt == desiredTasks(g, obj, r)
            keep == {s \in Managed : dt[attr[s].id] # None}
        IN /\ desired' = dt
           /\ attr' = [s \in Slots |->
                IF s \in keep
                  THEN [attr[s] EXCEPT !.group = dt[attr[s].id].group,
                                       !.rank = dt[attr[s].id].rank]
                  ELSE attr[s]]
           /\ toStop' = Managed \ keep
  BY DEF SynchronizeBegin
<1> DEFINE dt == desiredTasks(g, obj, r)
           keep == {s \in Managed : dt[attr[s].id] # None}
<1>2. /\ dt \in [Ids -> Attr \cup {None}]
      /\ \A n \in Ids : /\ dt[n] # None <=> n \in g.nodes
                        /\ n \in g.nodes => /\ dt[n] \in Attr
                                            /\ dt[n].id = n
                                            /\ dt[n].group = Component(g, n)
                                            /\ dt[n].rank = r[n]
  BY DesiredTasksType
<1> HIDE DEF dt
<1>3. /\ desired' = dt
      /\ attr' = [s \in Slots |->
           IF s \in keep
             THEN [attr[s] EXCEPT !.group = dt[attr[s].id].group,
                                  !.rank = dt[attr[s].id].rank]
             ELSE attr[s]]
      /\ toStop' = Managed \ keep
  BY <1>1 DEF dt
<1>4. /\ spc = "idle" /\ spc' = "stopping"
      /\ UNCHANGED <<phase, cancelled, onceDone, tasks, wg, inStop, toStart, hasDeadline>>
  BY DEF SynchronizeBegin
<1>5. /\ Managed = Unfinished /\ Unfinished \subseteq Live /\ Live \subseteq Slots
      /\ Live' = Live /\ Unfinished' = Unfinished
  BY <1>4, ManagedIsUnfinished DEF IInv, Unfinished, Live
<1>6. Desired' = {n \in Ids : n \in g.nodes}
  BY <1>2, <1>3 DEF Desired
<1>7. \A s \in Slots : HasExited(s)' <=> HasExited(s)
  BY <1>4 DEF HasExited
<1>8. ASSUME NEW s \in keep
      PROVE  /\ attr'[s] \in Attr
             /\ attr'[s].id = attr[s].id
             /\ attr[s].id \in g.nodes
             /\ attr'[s].group = dt[attr[s].id].group
             /\ attr'[s].rank = dt[attr[s].id].rank
  <2>1. s \in Slots /\ attr[s] \in Attr /\ attr[s].id \in Ids
    BY <1>5, LiveHasAttr DEF IInv
  <2>2. attr[s].id \in g.nodes /\ dt[attr[s].id] \in Attr
    BY <1>2, <2>1
  <2>3. attr'[s] = [attr[s] EXCEPT !.group = dt[attr[s].id].group,
                                   !.rank = dt[attr[s].id].rank]
    BY <1>3, <2>1
  <2> QED BY <2>1, <2>2, <2>3 DEF Attr
<1>9. \A s \in Slots : s \notin keep => attr'[s] = attr[s]
  BY <1>3
<1> HIDE DEF keep
<1>10. keep \subseteq Unfinished /\ \A s \in Unfinished : s \in keep <=> attr[s].id \in g.nodes
  BY <1>2, <1>5, LiveHasAttr DEF keep, IInv
<1>11. toStop' = Unfinished \ keep /\ toStop = {} /\ inStop = {}
  BY <1>3, <1>4, <1>5 DEF IInv, TypeOK, Positions
<1>12. TypeOK'
  <2>1. \A s \in Slots : attr'[s] \in Attr <=> s \in Live'
    BY <1>5, <1>8, <1>9, <1>10 DEF IInv, TypeOK
  <2>2. attr' \in [Slots -> Attr \cup {NoAttr}]
    <3>1. \A s \in Slots : attr'[s] \in Attr \cup {NoAttr}
      BY <1>8, <1>9 DEF IInv, TypeOK
    <3>2. attr' = [s \in Slots |-> attr'[s]]
      BY <1>3
    <3> QED BY <3>1, <3>2
  <2> QED
    BY <1>2, <1>3, <1>4, <1>5, <1>11, <2>1, <2>2 DEF IInv, TypeOK
<1>13. BooksAreExact'
  <2>1. \A s \in Slots : s \in Unfinished => attr'[s].id = attr[s].id
    BY <1>8, <1>9
  <2> QED BY <1>4, <1>5, <2>1 DEF IInv, BooksAreExact
<1>14. Positions' /\ DoneOnceFires'
  BY <1>4, <1>5, <1>7, <1>11 DEF IInv, TypeOK, Positions, DoneOnceFires, Live
<1>15. UndesiredAreStopped'
  BY <1>5, <1>6, <1>8, <1>9, <1>10, <1>11, SchedulerAssumption DEF UndesiredAreStopped
<1>16. DesiredFromOneGraph'
  BY <1>2, <1>3, <1>6 DEF DesiredFromOneGraph, DesiredOf
<1>17. TasksFollowDesired'
  BY <1>3, <1>5, <1>6, <1>8, <1>9, <1>10 DEF TasksFollowDesired, Group, Rank
<1>18. StopsFromOneGraph'
  <2>1. \A s \in toStop' : s \in Unfinished /\ attr'[s] = attr[s] /\ attr[s].id \in Ids
    BY <1>5, <1>9, <1>11, LiveHasAttr DEF IInv
  <2>2. CASE Desired = {}
    <3>1. \A s \in toStop' : HasExited(s)
      BY <1>4, <1>11, <2>1, <2>2 DEF IInv, UndesiredAreStopped
    <3> QED BY <1>5, <1>7, <1>11, <3>1 DEF StopsFromOneGraph
  <2>3. CASE Desired # {}
    <3>1. PICK h \in Graphs : \E q \in TopologicalRanks(h) : DesiredOf(h, q)
      BY <2>3 DEF IInv, DesiredFromOneGraph
    <3>2. PICK q \in TopologicalRanks(h) : DesiredOf(h, q)
      BY <3>1
    <3>3. ASSUME NEW s \in toStop'
          PROVE  \/ attr[s].id \notin h.nodes /\ HasExited(s)
                 \/ /\ attr[s].id \in h.nodes
                    /\ attr[s].group = Component(h, attr[s].id)
                    /\ attr[s].rank = q[attr[s].id]
      <4>1. HasExited(s) \/ attr[s].id \in Desired
        BY <1>4, <1>11, <2>1 DEF IInv, UndesiredAreStopped
      <4>2. attr[s].id \in Desired => /\ attr[s].group = desired[attr[s].id].group
                                      /\ attr[s].rank = desired[attr[s].id].rank
        BY <1>4, <2>1 DEF IInv, TasksFollowDesired, Group, Rank
      <4> QED BY <2>1, <3>2, <4>1, <4>2 DEF DesiredOf
    <3>4. StopOf(h, q)'
      BY <1>5, <1>7, <2>1, <3>3 DEF StopOf, Group, Rank
    <3> QED BY <3>4 DEF StopsFromOneGraph
  <2> QED BY <2>2, <2>3
<1> QED
  BY <1>12, <1>13, <1>14, <1>15, <1>16, <1>17, <1>18 DEF IInv

\* A new task gets a free slot of its own, so that it joins the books without
\* disturbing a task that is still on its way out.
LEMMA SynchronizeCreatePreserves ==
  ASSUME IInv, SynchronizeCreate
  PROVE  IInv'
<1> DEFINE Free == {s \in Slots : phase[s] = "free"}
<1>1. PICK slot \in [NewNodes -> Free] :
        /\ \A m, n \in NewNodes : slot[m] = slot[n] => m = n
        /\ createTasks(slot)
  BY DEF SynchronizeCreate
<1> DEFINE created == {slot[n] : n \in NewNodes}
<1>2. /\ spc = "stopping" /\ spc' = "starting" /\ toStop = {}
      /\ UNCHANGED <<cancelled, onceDone, desired, toStop, inStop, hasDeadline>>
  BY DEF SynchronizeCreate, StoppingDone
<1>3. /\ phase' = [s \in Slots |-> IF s \in created THEN "created" ELSE phase[s]]
      /\ attr' = [s \in Slots |->
           IF s \in created THEN desired[CHOOSE n \in NewNodes : slot[n] = s] ELSE attr[s]]
      /\ tasks' = [n \in Ids |-> IF n \in NewNodes THEN slot[n] ELSE tasks[n]]
      /\ wg' = wg + Cardinality(NewNodes)
      /\ toStart' = created
  BY <1>1 DEF createTasks
<1>4. /\ NewNodes \subseteq Desired /\ Desired \subseteq Ids
      /\ \A n \in NewNodes : tasks[n] = None /\ desired[n] \in Attr /\ desired[n].id = n
  BY DEF NewNodes, Desired, IInv, TypeOK, DesiredFromOneGraph
<1>5. created \subseteq Free /\ created \subseteq Slots /\ created \cap Live = {}
  BY <1>1 DEF Live
<1>6. \A n \in NewNodes : slot[n] \in created
  OBVIOUS
<1>7. \A s \in created : \E n \in NewNodes : s = slot[n]
  OBVIOUS
<1>8. ASSUME NEW n \in NewNodes
      PROVE  attr'[slot[n]] = desired[n]
  <2>1. (CHOOSE m \in NewNodes : slot[m] = slot[n]) = n
    BY <1>1
  <2> QED BY <1>3, <1>5, <1>6, <2>1
<1>9. \A s \in Slots : s \notin created => attr'[s] = attr[s] /\ phase'[s] = phase[s]
  BY <1>3
<1>10. \A s \in created : phase'[s] = "created"
  BY <1>3, <1>5
<1>11. Cardinality(created) = Cardinality(NewNodes) /\ IsFiniteSet(created)
  <2>1. slot \in [NewNodes -> created]
    BY <1>1
  <2>2. slot \in Bijection(NewNodes, created)
    BY <1>1, <2>1 DEF Bijection, Injection, Surjection, IsInjective
  <2>3. IsFiniteSet(NewNodes)
    BY <1>4, SchedulerAssumption, FS_Subset
  <2> QED BY <2>2, <2>3, FS_Bijection DEF ExistsBijection
<1> HIDE DEF created, Free
<1>12. /\ Live' = Live \cup created
       /\ Unfinished' = Unfinished \cup created
       /\ Unfinished \cap created = {}
       /\ Desired' = Desired
  <2>1. Live' = Live \cup created
    BY <1>5, <1>9, <1>10 DEF Live
  <2> QED BY <1>2, <1>5, <2>1 DEF Unfinished, Desired, IInv, TypeOK
<1>13. \A s \in Live : s \in Slots /\ attr'[s] = attr[s] /\ phase'[s] = phase[s]
  BY <1>5, <1>9 DEF Live
<1>14. \A s \in Live : HasExited(s)' <=> HasExited(s)
  BY <1>13 DEF HasExited
<1>15. \A s \in created : attr'[s] \in Attr /\ attr'[s].id \in NewNodes
  BY <1>4, <1>7, <1>8
<1>16. wg' \in Nat /\ wg' = Cardinality(Unfinished')
  <2>1. Cardinality(Unfinished') = Cardinality(Unfinished) + Cardinality(created)
    <3>1. Cardinality(Unfinished \cap created) = 0
      BY <1>12, FS_EmptySet
    <3>2. Cardinality(created) \in Nat /\ Cardinality(Unfinished) \in Nat /\ IsFiniteSet(Unfinished)
      BY <1>11, UnfinishedFinite, FS_CardinalityType
    <3>3. Cardinality(Unfinished \cup created)
            = Cardinality(Unfinished) + Cardinality(created) - Cardinality(Unfinished \cap created)
      BY <1>11, <3>2, FS_Union
    <3> QED BY <1>12, <3>1, <3>2, <3>3
  <2>2. Cardinality(created) \in Nat
    BY <1>11, FS_CardinalityType
  <2> QED BY <1>3, <1>11, <2>1, <2>2 DEF IInv, TypeOK, BooksAreExact
<1>17. TypeOK'
  <2>1. \A s \in Slots : attr'[s] \in Attr <=> s \in Live'
    BY <1>9, <1>12, <1>15 DEF IInv, TypeOK
  <2>2. attr' \in [Slots -> Attr \cup {NoAttr}]
    <3>1. \A s \in Slots : attr'[s] \in Attr \cup {NoAttr}
      BY <1>9, <1>15 DEF IInv, TypeOK
    <3>2. attr' = [s \in Slots |-> attr'[s]]
      BY <1>3
    <3> QED BY <3>1, <3>2
  <2>3. phase' \in [Slots -> {"free", "created", "running", "exited", "ended"}]
    BY <1>3 DEF IInv, TypeOK
  <2>4. tasks' \in [Ids -> Slots \cup {None}]
    <3>1. \A n \in Ids : tasks'[n] \in Slots \cup {None}
      BY <1>3, <1>5, <1>6 DEF IInv, TypeOK
    <3>2. tasks' = [n \in Ids |-> tasks'[n]]
      BY <1>3
    <3> QED BY <3>1, <3>2
  <2>5. cancelled' \subseteq Live' /\ onceDone' \subseteq Live'
    BY <1>2, <1>12 DEF IInv, TypeOK
  <2>6. toStart' \subseteq Slots
    BY <1>3, <1>5
  <2> QED
    BY <1>2, <1>16, <2>1, <2>2, <2>3, <2>4, <2>5, <2>6 DEF IInv, TypeOK
<1>18. BooksAreExact'
  <2>1. ASSUME NEW n \in Ids, tasks'[n] # None
        PROVE  tasks'[n] \in Unfinished' /\ attr'[tasks'[n]].id = n
    <3>1. CASE n \in NewNodes
      <4>1. tasks'[n] = slot[n] /\ slot[n] \in Unfinished'
        BY <1>3, <1>6, <1>12, <3>1
      <4>2. attr'[slot[n]] = desired[n] /\ desired[n].id = n
        BY <1>4, <1>8, <3>1
      <4> QED BY <4>1, <4>2
    <3>2. CASE n \notin NewNodes
      <4>1. tasks'[n] = tasks[n] /\ tasks[n] \in Unfinished /\ attr[tasks[n]].id = n
        BY <1>3, <2>1, <3>2 DEF IInv, BooksAreExact
      <4> QED BY <1>12, <1>13, <4>1 DEF Unfinished
    <3> QED BY <3>1, <3>2
  <2>2. ASSUME NEW s \in Unfinished'
        PROVE  tasks'[attr'[s].id] = s
    <3>1. CASE s \in created
      <4>1. PICK n \in NewNodes : s = slot[n]
        BY <1>7, <3>1
      <4>2. attr'[s] = desired[n] /\ desired[n].id = n /\ n \in Ids
        BY <1>4, <1>8, <4>1
      <4>3. tasks'[n] = s
        BY <1>3, <4>1, <4>2
      <4> QED BY <4>2, <4>3
    <3>2. CASE s \in Unfinished
      <4>1. s \in Live /\ attr[s].id \in Ids /\ tasks[attr[s].id] = s /\ attr'[s] = attr[s]
        BY <1>13, <3>2, LiveHasAttr DEF IInv, BooksAreExact, Unfinished
      <4>2. attr[s].id \notin NewNodes
        BY <1>4, <1>13, <4>1, SchedulerAssumption
      <4> QED BY <1>3, <4>1, <4>2
    <3> QED BY <1>12, <3>1, <3>2
  <2> QED BY <1>16, <2>1, <2>2 DEF BooksAreExact
<1>19. Positions'
  <2>1. \A s \in Slots : phase[s] # "created"
    BY <1>2 DEF IInv, Positions
  <2> QED BY <1>2, <1>3, <1>9, <1>10, <1>12, <2>1 DEF IInv, Positions
<1>20. DoneOnceFires'
  BY <1>2, <1>3, <1>5, <1>9, <1>10, <1>14 DEF IInv, TypeOK, DoneOnceFires
<1>21. UndesiredAreStopped'
  BY <1>2, <1>4, <1>12, <1>13, <1>14, <1>15 DEF IInv, UndesiredAreStopped, Unfinished
<1>22. DesiredFromOneGraph' /\ StopsFromOneGraph'
  BY <1>2, <1>12 DEF IInv, DesiredFromOneGraph, DesiredOf, StopsFromOneGraph
<1>23. TasksFollowDesired'
  <2>1. ASSUME NEW s \in created
        PROVE  attr'[s] = desired'[attr'[s].id]
    BY <1>2, <1>4, <1>7, <1>8
  <2>2. ASSUME NEW s \in Unfinished, attr'[s].id \in Desired
        PROVE  /\ attr'[s].group = desired'[attr'[s].id].group
               /\ attr'[s].rank = desired'[attr'[s].id].rank
    BY <1>2, <1>13, <2>2 DEF IInv, TasksFollowDesired, Group, Rank, Unfinished
  <2> QED BY <1>12, <2>1, <2>2 DEF TasksFollowDesired, Group, Rank
<1> QED
  BY <1>17, <1>18, <1>19, <1>20, <1>21, <1>22, <1>23 DEF IInv

LEMMA StartCallPreserves ==
  ASSUME IInv, NEW s \in Slots, StartCall(s)
  PROVE  IInv'
<1>1. phase[s] = "created" /\ s \notin toStop
  BY DEF StartCall, IInv, Positions
<1>2. Live' = Live /\ Unfinished' = Unfinished /\ Desired' = Desired
  BY <1>1 DEF StartCall, IInv, TypeOK, Live, Unfinished, Desired
<1>3. \A u \in Slots : HasExited(u)' <=> HasExited(u)
  BY <1>1 DEF StartCall, IInv, TypeOK, HasExited
<1>4. TypeOK'
  BY <1>2 DEF StartCall, IInv, TypeOK
<1>5. BooksAreExact'
  BY <1>2 DEF StartCall, IInv, BooksAreExact
<1>6. Positions' /\ DoneOnceFires'
  BY <1>1, <1>2, <1>3 DEF StartCall, IInv, TypeOK, Positions, DoneOnceFires, Live
<1>7. UndesiredAreStopped' /\ TasksFollowDesired' /\ DesiredFromOneGraph'
  BY <1>2, <1>3
     DEF StartCall, IInv, UndesiredAreStopped, TasksFollowDesired, Unfinished, Live,
         DesiredFromOneGraph, DesiredOf, Group, Rank
<1>8. StopsFromOneGraph'
  BY <1>3 DEF StartCall, IInv, TypeOK, StopsFromOneGraph, StopOf, Group, Rank
<1> QED
  BY <1>4, <1>5, <1>6, <1>7, <1>8 DEF IInv

\* Synchronize and Stop return.
LEMMA EndPreserves ==
  ASSUME IInv, SynchronizeEnd \/ StopEnd
  PROVE  IInv'
<1>1. /\ UNCHANGED <<phase, attr, cancelled, onceDone, tasks, wg, desired, toStop, inStop, toStart,
                     hasDeadline>>
      /\ \/ spc = "starting" /\ toStart = {} /\ spc' = "idle"
         \/ spc = "stopAll" /\ spc' = "stopped"
  BY DEF SynchronizeEnd, StopEnd, taskVars
<1>2. Live' = Live /\ Unfinished' = Unfinished /\ Desired' = Desired
  BY <1>1 DEF Live, Unfinished, Desired
<1>3. TypeOK' /\ BooksAreExact' /\ Positions' /\ DoneOnceFires'
  BY <1>1, <1>2 DEF IInv, TypeOK, BooksAreExact, Positions, DoneOnceFires, HasExited
<1>4. UndesiredAreStopped' /\ TasksFollowDesired' /\ DesiredFromOneGraph' /\ StopsFromOneGraph'
  BY <1>1, <1>2
     DEF IInv, UndesiredAreStopped, TasksFollowDesired, DesiredFromOneGraph, DesiredOf,
         StopsFromOneGraph, StopOf, Group, Rank, HasExited
<1> QED
  BY <1>3, <1>4 DEF IInv

\* Stop collects all managed tasks, with the groups and ranks of the graph that was
\* desired last.
LEMMA StopBeginPreserves ==
  ASSUME IInv, StopBegin
  PROVE  IInv'
<1>1. /\ UNCHANGED <<phase, attr, cancelled, onceDone, tasks, wg, desired, inStop, toStart,
                     hasDeadline>>
      /\ spc = "idle" /\ spc' = "stopAll" /\ toStop' = Unfinished
      /\ inStop = {}
  BY ManagedIsUnfinished DEF StopBegin, taskVars, IInv, Positions, TypeOK
<1>2. Live' = Live /\ Unfinished' = Unfinished /\ Desired' = Desired
  BY <1>1 DEF Live, Unfinished, Desired
<1>3. TypeOK'
  BY <1>1, <1>2 DEF IInv, TypeOK, Unfinished, Live
<1>4. BooksAreExact' /\ Positions' /\ DoneOnceFires'
  BY <1>1, <1>2 DEF IInv, BooksAreExact, Positions, DoneOnceFires, HasExited, Unfinished
<1>5. UndesiredAreStopped' /\ TasksFollowDesired' /\ DesiredFromOneGraph'
  BY <1>1, <1>2
     DEF IInv, UndesiredAreStopped, TasksFollowDesired, DesiredFromOneGraph, DesiredOf
<1>6. StopsFromOneGraph'
  <2>1. \A s \in Unfinished : /\ attr[s].id \in Ids
                              /\ HasExited(s) \/ attr[s].id \in Desired
    BY <1>1, LiveHasAttr DEF IInv, UndesiredAreStopped, Positions, Unfinished
  <2>2. CASE Desired = {}
    BY <1>1, <2>1, <2>2 DEF StopsFromOneGraph, HasExited
  <2>3. CASE Desired # {}
    <3>1. PICK g \in Graphs : \E r \in TopologicalRanks(g) : DesiredOf(g, r)
      BY <2>3 DEF IInv, DesiredFromOneGraph
    <3>2. PICK r \in TopologicalRanks(g) : DesiredOf(g, r)
      BY <3>1
    <3>3. \A s \in Unfinished : attr[s].id \in Desired =>
            /\ attr[s].group = desired[attr[s].id].group
            /\ attr[s].rank = desired[attr[s].id].rank
      BY <1>1 DEF IInv, TasksFollowDesired, Group, Rank
    <3>4. StopOf(g, r)'
      BY <1>1, <2>1, <3>2, <3>3 DEF StopOf, DesiredOf, Group, Rank, HasExited
    <3> QED BY <3>4 DEF StopsFromOneGraph
  <2> QED BY <2>2, <2>3
<1> QED
  BY <1>3, <1>4, <1>5, <1>6 DEF IInv

LEMMA StutterPreserves ==
  ASSUME IInv, UNCHANGED vars
  PROVE  IInv'
<1>1. Live' = Live /\ Unfinished' = Unfinished /\ Desired' = Desired
  BY DEF vars, Live, Unfinished, Desired
<1>2. TypeOK' /\ BooksAreExact' /\ Positions' /\ DoneOnceFires'
  BY <1>1 DEF vars, IInv, TypeOK, BooksAreExact, Positions, DoneOnceFires, HasExited
<1>3. UndesiredAreStopped' /\ TasksFollowDesired' /\ DesiredFromOneGraph' /\ StopsFromOneGraph'
  BY <1>1
     DEF vars, IInv, UndesiredAreStopped, TasksFollowDesired, DesiredFromOneGraph, DesiredOf,
         StopsFromOneGraph, StopOf, Group, Rank, HasExited
<1> QED
  BY <1>2, <1>3 DEF IInv

LEMMA NextPreserves == IInv /\ [Next]_vars => IInv'
<1> SUFFICES ASSUME IInv, [Next]_vars PROVE IInv'
  OBVIOUS
<1>1. CASE \E g \in Graphs : \E obj \in [g.nodes -> Objs] : SynchronizeBegin(g, obj)
  BY <1>1, SynchronizeBeginPreserves
<1>2. CASE StopBegin
  BY <1>2, StopBeginPreserves
<1>3. CASE SynchronizeCreate
  BY <1>3, SynchronizeCreatePreserves
<1>4. CASE SynchronizeEnd \/ StopEnd
  BY <1>4, EndPreserves
<1>5. ASSUME NEW s \in Slots, StartCall(s) PROVE IInv'
  BY <1>5, StartCallPreserves
<1>6. ASSUME NEW s \in Slots, RunReturns(s) PROVE IInv'
  BY <1>6, RunReturnsPreserves
<1>7. ASSUME NEW s \in Slots, GoroutineEnds(s) PROVE IInv'
  BY <1>7, GoroutineEndsPreserves
<1>8. ASSUME NEW s \in Slots, Collect(s) PROVE IInv'
  BY <1>8, CollectPreserves
<1>9. ASSUME NEW s \in Slots, StopCall(s) PROVE IInv'
  BY <1>9, StopCallPreserves
<1>10. ASSUME NEW s \in Slots, StopExited(s) \/ StopDeadline(s) PROVE IInv'
  BY <1>10, StopReturnedPreserves DEF StopExited, StopDeadline
<1>11. CASE UNCHANGED vars
  BY <1>11, StutterPreserves
<1> QED
  BY <1>1, <1>2, <1>3, <1>4, <1>5, <1>6, <1>7, <1>8, <1>9, <1>10, <1>11
     DEF Next, Internal, SchedulerStep, TaskStep, StopperStep, Terminated

LEMMA IInvHolds == Spec => []IInv
  BY InitEstablishes, NextPreserves, PTL DEF Spec

-----------------------------------------------------------------------------
(***************************************************************************)
(* The theorems                                                            *)
(***************************************************************************)

\* Every reachable state has its types: above all, a task has attributes exactly
\* while it is live, and the WaitGroup never goes below zero (scheduler.go panics
\* when it does).
THEOREM TypeCorrect == Spec => []TypeOK
  BY IInvHolds, PTL DEF IInv

\* s.tasks holds exactly the tasks whose onDone has not run and s.running counts
\* them, whatever goroutine gets to doneOnce first.
THEOREM BooksStayExact == Spec => []BooksAreExact
  BY IInvHolds, PTL DEF IInv

LEMMA IInvOneRun == IInv => OneRunPerNode
  BY DEF IInv, OneRunPerNode, BooksAreExact, DoneOnceFires, Unfinished, GivenUp

\* Without a shutdown deadline two tasks of one node never run at the same time.
THEOREM OneRunPerNodeHolds == Spec => []OneRunPerNode
  BY IInvHolds, IInvOneRun, PTL

LEMMA IInvShutdown == IInv => ShutdownBeforeStart
  BY DEF IInv, ShutdownBeforeStart, UndesiredAreStopped, Positions, Unfinished, GivenUp, Live,
         HasExited

\* While Synchronize starts tasks, what runs belongs to the graph or was given up.
THEOREM ShutdownComesFirst == Spec => []ShutdownBeforeStart
  BY IInvHolds, IInvShutdown, PTL

-----------------------------------------------------------------------------
(***************************************************************************)
(* The orders.  Both properties read the references between nodes off the  *)
(* constant Graphs, so they are about graphs that agree on the edges       *)
(* between their common nodes.                                             *)
(***************************************************************************)

\* Two graphs that both hold m and n agree on whether m references n.
StableEdges ==
  \A g, h \in Graphs : \A m, n \in h.nodes : <<m, n>> \in g.edges => <<m, n>> \in h.edges

\* Of two nodes joined by a reference the referenced one has the lower rank, in the
\* same group.
LEMMA ReferencedRanksLower ==
  ASSUME StableEdges, NEW g \in Graphs, NEW r \in TopologicalRanks(g),
         NEW m \in g.nodes, NEW n \in g.nodes, NEW h \in Graphs, <<m, n>> \in h.edges
  PROVE  /\ Component(g, m) = Component(g, n)
         /\ r[n] \in Nat /\ r[m] \in Nat /\ r[n] < r[m]
<1>1. <<m, n>> \in g.edges
  BY DEF StableEdges
<1>2. Component(g, m) = Component(g, n)
  BY <1>1, EdgeJoinsComponent
<1>3. r[n] < r[m] /\ r[n] \in Nat /\ r[m] \in Nat
  <2>1. g.nodes \subseteq Ids /\ IsFiniteSet(Ids)
    BY SchedulerAssumption
  <2>2. Cardinality(g.nodes) \in Nat
    BY <2>1, FS_Subset, FS_CardinalityType
  <2>3. r \in [g.nodes -> 0..(Cardinality(g.nodes) - 1)] /\ \A e \in g.edges : r[e[2]] < r[e[1]]
    BY DEF TopologicalRanks
  <2>4. r[<<m, n>>[2]] < r[<<m, n>>[1]]
    BY <1>1, <2>3
  <2> QED BY <2>2, <2>3, <2>4
<1> QED
  BY <1>2, <1>3

\* NextToStop picks a task that no task still to be stopped references, but ones
\* that have exited.
LEMMA StopCallOrder ==
  ASSUME StableEdges, IInv, NEW s \in Slots, StopCall(s),
         NEW u \in toStop \ {s}, References(attr[u].id, attr[s].id), attr[s].id \in Group(u)
  PROVE  HasExited(u)
<1> SUFFICES ASSUME ~HasExited(u) PROVE FALSE
  OBVIOUS
<1>1. s \in toStop /\ (Group(u) = Group(s) => Rank(u) <= Rank(s))
  BY DEF StopCall, NextToStop
<1>2. PICK g \in Graphs : \E r \in TopologicalRanks(g) : StopOf(g, r)
  BY DEF IInv, StopsFromOneGraph
<1>3. PICK r \in TopologicalRanks(g) : StopOf(g, r)
  BY <1>2
<1>4. /\ attr[u].id \in g.nodes
      /\ Group(u) = Component(g, attr[u].id)
      /\ Rank(u) = r[attr[u].id]
  BY <1>3 DEF StopOf
<1>5. attr[s].id \in g.nodes
  BY <1>4 DEF Component
<1>6. Group(s) = Component(g, attr[s].id) /\ Rank(s) = r[attr[s].id]
  BY <1>1, <1>3, <1>5 DEF StopOf
<1>7. PICK h \in Graphs : <<attr[u].id, attr[s].id>> \in h.edges
  BY DEF References
<1>8. /\ Component(g, attr[u].id) = Component(g, attr[s].id)
      /\ r[attr[s].id] \in Nat /\ r[attr[u].id] \in Nat /\ r[attr[s].id] < r[attr[u].id]
  BY <1>4, <1>5, <1>7, ReferencedRanksLower
<1> QED
  BY <1>1, <1>4, <1>6, <1>8

\* Only StopCall adds to inStop.
LEMMA OnlyStopCallEnters ==
  ASSUME IInv, [Next]_vars, NEW s \in Slots, s \in inStop' \ inStop
  PROVE  StopCall(s)
<1>1. inStop' # inStop
  OBVIOUS
<1>2. \E u \in Slots : StopCall(u) \/ StopReturned(u)
  BY <1>1 DEF Next, vars, SynchronizeBegin, StopBegin, Internal, SchedulerStep, SynchronizeCreate,
              SynchronizeEnd, StopEnd, StartCall, TaskStep, RunReturns, GoroutineEnds, Collect,
              StopperStep, StopExited, StopDeadline, Terminated, syncVars
<1> QED
  BY <1>2 DEF StopCall, StopReturned

\* "Tasks are stopped from roots to leaves", for any graphs that agree on their
\* edges: the goroutine that stops a group never reaches a task while one that
\* references it has neither exited nor been given up.
THEOREM StopsRootsFirstHolds ==
  ASSUME StableEdges
  PROVE  Spec => StopsRootsFirst
<1> DEFINE Ordered ==
      \A s \in Slots : s \in inStop' \ inStop =>
        \A u \in toStop \ {s} :
          References(attr[u].id, attr[s].id) /\ attr[s].id \in Group(u) => HasExited(u)
<1>1. IInv /\ [Next]_vars => [Ordered]_vars
  <2> SUFFICES ASSUME IInv, [Next]_vars,
                      NEW s \in Slots, s \in inStop' \ inStop, NEW u \in toStop \ {s},
                      References(attr[u].id, attr[s].id), attr[s].id \in Group(u)
               PROVE  HasExited(u)
    OBVIOUS
  <2>1. StopCall(s)
    BY OnlyStopCallEnters
  <2> QED BY <2>1, StopCallOrder
<1>2. Spec => [][Ordered]_vars
  BY <1>1, IInvHolds, PTL DEF Spec
<1> QED
  BY <1>2 DEF StopsRootsFirst

\* Only StartCall takes from toStart.
LEMMA OnlyStartCallLeaves ==
  ASSUME IInv, [Next]_vars, NEW s \in Slots, s \in toStart \ toStart'
  PROVE  StartCall(s)
<1>1. CASE SynchronizeCreate
  BY <1>1 DEF SynchronizeCreate, StoppingDone, IInv, Positions
<1>2. CASE \E u \in Slots : StartCall(u)
  BY <1>2 DEF StartCall
<1>3. toStart' # toStart
  OBVIOUS
<1> QED
  BY <1>1, <1>2, <1>3
     DEF Next, vars, SynchronizeBegin, StopBegin, Internal, SchedulerStep, SynchronizeEnd, StopEnd,
         TaskStep, RunReturns, GoroutineEnds, Collect, StopperStep, StopCall, StopReturned,
         StopExited, StopDeadline, Terminated, syncVars

\* A starting goroutine picks a task that references none still to be started.
LEMMA StartCallOrder ==
  ASSUME StableEdges, IInv, NEW s \in Slots, StartCall(s), NEW u \in toStart,
         NEW h \in Graphs, <<attr[s].id, attr[u].id>> \in h.edges
  PROVE  FALSE
<1>1. /\ spc = "starting" /\ s \in toStart /\ toStop = {}
      /\ Group(u) = Group(s) => Rank(s) <= Rank(u)
  BY DEF StartCall, IInv, Positions
<1>2. ASSUME NEW t \in toStart
      PROVE  /\ t \in Unfinished
             /\ attr[t].id \in Desired
             /\ Group(t) = desired[attr[t].id].group
             /\ Rank(t) = desired[attr[t].id].rank
  <2>1. t \in Slots /\ phase[t] = "created"
    BY DEF IInv, TypeOK, Positions
  <2>2. t \in Unfinished /\ ~HasExited(t)
    BY <2>1 DEF IInv, DoneOnceFires, Unfinished, Live, HasExited
  <2> QED BY <1>1, <2>2 DEF IInv, UndesiredAreStopped, TasksFollowDesired
<1>3. PICK g \in Graphs : \E r \in TopologicalRanks(g) : DesiredOf(g, r)
  BY <1>2 DEF IInv, DesiredFromOneGraph
<1>4. PICK r \in TopologicalRanks(g) : DesiredOf(g, r)
  BY <1>3
<1>5. \A t \in toStart : /\ attr[t].id \in g.nodes
                         /\ Group(t) = Component(g, attr[t].id)
                         /\ Rank(t) = r[attr[t].id]
  BY <1>2, <1>4 DEF DesiredOf, Desired
<1>6. /\ Component(g, attr[s].id) = Component(g, attr[u].id)
      /\ r[attr[u].id] \in Nat /\ r[attr[s].id] \in Nat /\ r[attr[u].id] < r[attr[s].id]
  BY <1>1, <1>5, ReferencedRanksLower
<1> QED
  BY <1>1, <1>5, <1>6

\* "... and started from leaves to roots", under the same condition on the graphs.
THEOREM StartsLeavesFirstHolds ==
  ASSUME StableEdges
  PROVE  Spec => StartsLeavesFirst
<1> DEFINE Ordered ==
      \A s \in Slots : s \in toStart \ toStart' =>
        \A u \in toStart : <<attr[s].id, attr[u].id>> \notin
          UNION {g.edges : g \in {h \in Graphs : h.nodes = Desired}}
<1>1. IInv /\ [Next]_vars => [Ordered]_vars
  <2> SUFFICES ASSUME IInv, [Next]_vars,
                      NEW s \in Slots, s \in toStart \ toStart', NEW u \in toStart,
                      <<attr[s].id, attr[u].id>> \in
                        UNION {g.edges : g \in {h \in Graphs : h.nodes = Desired}}
               PROVE  FALSE
    OBVIOUS
  <2>1. StartCall(s)
    BY OnlyStartCallLeaves
  <2>2. PICK h \in Graphs : <<attr[s].id, attr[u].id>> \in h.edges
    OBVIOUS
  <2> QED BY <2>1, <2>2, StartCallOrder
<1>2. Spec => [][Ordered]_vars
  BY <1>1, IInvHolds, PTL DEF Spec
<1> QED
  BY <1>2 DEF StartsLeavesFirst
=============================================================================

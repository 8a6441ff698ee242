---------------------------- MODULE KeyedExecutor ----------------------------
(***************************************************************************)
(* What worker.Pool promises, without queue, channel or workers: every key *)
(* is a machine of its own with at most one job executing, at most one     *)
(* handed out to be executed next, and at most one waiting behind those.   *)
(* A request is accepted unless the jobs in the pool are at its capacity,  *)
(* and is merged into the job that already waits under its key.            *)
(***************************************************************************)
EXTENDS Naturals, FiniteSets

CONSTANTS Keys, Funcs, Capacity, None

VARIABLES
  waiting,     \* the job accepted while another one of its key was in the pool
  dispatched,  \* the job that runs next under the key
  executing,   \* the job that runs under the key
  closed       \* no further job is promised to start

vars == <<waiting, dispatched, executing, closed>>

Holding(f) == {k \in Keys : f[k] # None}
Active == Holding(dispatched) \cup Holding(executing)

Init ==
  /\ waiting = [k \in Keys |-> None]
  /\ dispatched = [k \in Keys |-> None]
  /\ executing = [k \in Keys |-> None]
  /\ closed = FALSE

\* A request for a key that has no job in the pool is dispatched at once;
\* otherwise it waits.  When one already waits nothing changes.
Request(k, f) ==
  /\ waiting[k] = None
  /\ Cardinality(Holding(waiting)) + Cardinality(Active) < Capacity
  /\ \/ /\ k \notin Active
        /\ dispatched' = [dispatched EXCEPT ![k] = f]
        /\ UNCHANGED waiting
     \/ /\ k \in Active
        /\ waiting' = [waiting EXCEPT ![k] = f]
        /\ UNCHANGED dispatched
  /\ UNCHANGED <<executing, closed>>

Begin(k) ==
  /\ dispatched[k] # None
  /\ executing[k] = None
  /\ executing' = [executing EXCEPT ![k] = dispatched[k]]
  /\ dispatched' = [dispatched EXCEPT ![k] = None]
  /\ UNCHANGED <<waiting, closed>>

\* The job that waited under k is released by the end of the one before it.
End(k) ==
  /\ executing[k] # None
  /\ dispatched[k] = None
  /\ executing' = [executing EXCEPT ![k] = None]
  /\ dispatched' = [dispatched EXCEPT ![k] = waiting[k]]
  /\ waiting' = [waiting EXCEPT ![k] = None]
  /\ UNCHANGED closed

Close ==
  /\ closed' = TRUE
  /\ UNCHANGED <<waiting, dispatched, executing>>

Next ==
  \/ \E k \in Keys, f \in Funcs : Request(k, f)
  \/ \E k \in Keys : Begin(k) \/ End(k)
  \/ Close

Spec == Init /\ [][Next]_vars

\* Until the pool is closed a dispatched job starts; a started job ends.
Fairness ==
  \A k \in Keys : /\ WF_vars(~closed /\ Begin(k))
                  /\ WF_vars(End(k))

FairSpec == Spec /\ Fairness
=============================================================================

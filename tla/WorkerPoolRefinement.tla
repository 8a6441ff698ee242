------------------------ MODULE WorkerPoolRefinement ------------------------
(***************************************************************************)
(* WorkerPool implements KeyedExecutor.  The abstract job dispatched under *)
(* a key is the one in the channel tasksToRun; the one executing is the    *)
(* job of the worker that runs it.                                         *)
(***************************************************************************)
EXTENDS WorkerPool

dispatchedFn(k) ==
  IF k \in EmittedKeys
    THEN tasksToRun[CHOOSE i \in 1..Len(tasksToRun) : tasksToRun[i].key = k].fn
    ELSE None

executingFn(k) ==
  IF k \in ExecutingKeys
    THEN job[CHOOSE w \in executing : job[w].key = k].fn
    ELSE None

Abstract == INSTANCE KeyedExecutor WITH
  Capacity <- MaxSize,
  dispatched <- [k \in Keys |-> dispatchedFn(k)],
  executing <- [k \in Keys |-> executingFn(k)],
  closed <- quit

\* The pool's queue, channel and workers together behave as one independent
\* machine per key: safety and liveness (every accepted job starts unless Stop was
\* called, every started job ends).
ImplementsKeyedExecutor == Abstract!FairSpec
=============================================================================

-------------------------- MODULE WorkerPoolProofs --------------------------
(***************************************************************************)
(* Proofs about WorkerPool for any keys, functions, workers and MaxSize.   *)
(***************************************************************************)
EXTENDS WorkerPoolRefinement, FiniteSetTheorems, TLAPS

USE DEF Task, NoJob

(***************************************************************************)
(* The inductive invariant.  OneRunningPerKey is not inductive: a worker   *)
(* that receives a task must know that no other worker executes its key,   *)
(* which follows from the channel and the workers holding every running    *)
(* key exactly once.  ChannelNeverBlocks needs the counting parts.         *)
(***************************************************************************)

\* waitingOrder lists the keys of the map waiting, each once.
OrderListsWaiting ==
  /\ \A i, j \in 1..Len(waitingOrder) : waitingOrder[i] = waitingOrder[j] => i = j
  /\ \A k \in Keys : waiting[k] # None <=> \E i \in 1..Len(waitingOrder) : waitingOrder[i] = k

\* The channel and the workers hold each key at most once between them.
EachKeyOnce ==
  /\ \A i, j \in 1..Len(tasksToRun) : tasksToRun[i].key = tasksToRun[j].key => i = j
  /\ \A v, w \in executing : job[v].key = job[w].key => v = w
  /\ \A i \in 1..Len(tasksToRun), w \in executing : tasksToRun[i].key # job[w].key

\* The lengths of the two sequences count the keys in them, and the queue is
\* within its capacity.
Counts ==
  /\ Len(waitingOrder) = Cardinality(WaitingKeys)
  /\ Len(tasksToRun) = Cardinality(EmittedKeys)
  /\ Len(waitingOrder) + Cardinality(running) <= MaxSize

IInv ==
  /\ TypeOK
  /\ OrderListsWaiting
  /\ EachKeyOnce
  /\ RunningIsExact
  /\ WaitingOnlyBehindRunning
  /\ Counts

-----------------------------------------------------------------------------
\* NoJob is not a task: a task carries a function, and None is none.
LEMMA NoJobNotTask == NoJob \notin Task
  BY PoolAssumption

\* Removing a position of a sequence keeps the other elements in their order.
LEMMA WithoutType ==
  ASSUME NEW S, NEW s \in Seq(S), NEW i \in 1..Len(s)
  PROVE  /\ Without(s, i) \in Seq(S)
         /\ Len(Without(s, i)) = Len(s) - 1
         /\ \A j \in 1..(Len(s) - 1) : Without(s, i)[j] = IF j < i THEN s[j] ELSE s[j + 1]
<1> DEFINE t == Without(s, i)
<1>1. Len(s) \in Nat /\ Len(s) - 1 \in Nat
  OBVIOUS
<1>2. \A j \in 1..(Len(s) - 1) : /\ t[j] = IF j < i THEN s[j] ELSE s[j + 1]
                                 /\ t[j] \in S
  BY <1>1 DEF Without
<1>3. t = [j \in 1..(Len(s) - 1) |-> t[j]]
  BY DEF Without
<1>4. t \in [1..(Len(s) - 1) -> S]
  BY <1>2, <1>3
<1>5. t \in Seq(S) /\ Len(t) = Len(s) - 1
  BY <1>1, <1>4
<1> QED
  BY <1>2, <1>5

\* In a sequence without repetitions, removing a position removes exactly its
\* element, and introduces no repetition.
LEMMA WithoutElements ==
  ASSUME NEW S, NEW s \in Seq(S), NEW i \in 1..Len(s),
         \A a, b \in 1..Len(s) : s[a] = s[b] => a = b
  PROVE  LET t == Without(s, i) IN
         /\ \A a, b \in 1..Len(t) : t[a] = t[b] => a = b
         /\ \A a \in 1..Len(t) : t[a] # s[i] /\ \E b \in 1..Len(s) : s[b] = t[a]
         /\ \A b \in 1..Len(s) : s[b] # s[i] => \E a \in 1..Len(t) : t[a] = s[b]
<1> DEFINE t == Without(s, i)
           from(a) == IF a < i THEN a ELSE a + 1
<1>1. /\ Len(s) \in Nat
      /\ Len(t) = Len(s) - 1
      /\ \A a \in 1..Len(t) : /\ from(a) \in 1..Len(s)
                               /\ from(a) # i
                               /\ t[a] = s[from(a)]
  BY WithoutType
<1> HIDE DEF t
<1>2. \A a, b \in 1..Len(t) : from(a) = from(b) => a = b
  BY <1>1
<1>3. ASSUME NEW b \in 1..Len(s), b # i
      PROVE  \E a \in 1..Len(t) : from(a) = b
  <2>1. CASE b < i
    <3>1. b \in 1..Len(t) /\ from(b) = b
      BY <1>1, <2>1
    <3> QED BY <3>1
  <2>2. CASE b > i
    <3>1. b - 1 \in 1..Len(t) /\ from(b - 1) = b
      BY <1>1, <2>2
    <3> QED BY <3>1
  <2> QED BY <1>1, <1>3, <2>1, <2>2
<1> HIDE DEF from
<1>4. \A a, b \in 1..Len(t) : t[a] = t[b] => a = b
  BY <1>1, <1>2
<1>5. \A a \in 1..Len(t) : t[a] # s[i] /\ \E b \in 1..Len(s) : s[b] = t[a]
  BY <1>1
<1>6. \A b \in 1..Len(s) : s[b] # s[i] => \E a \in 1..Len(t) : t[a] = s[b]
  BY <1>1, <1>3
<1> QED
  BY <1>4, <1>5, <1>6 DEF t

\* The elements of a sequence after an append.
LEMMA AppendElements ==
  ASSUME NEW S, NEW s \in Seq(S), NEW e \in S
  PROVE  LET t == Append(s, e) IN
         /\ t \in Seq(S) /\ Len(s) \in Nat /\ Len(t) = Len(s) + 1
         /\ t[Len(s) + 1] = e
         /\ \A j \in 1..Len(s) : j \in 1..Len(t) /\ t[j] = s[j]
         /\ \A j \in 1..Len(t) : j = Len(s) + 1 \/ j \in 1..Len(s)
  OBVIOUS

\* The least element of a singleton.
LEMMA FirstOfSingleton ==
  ASSUME NEW n \in Nat
  PROVE  First({n}) = n
  BY DEF First

\* What accept does to a queue in which every waiting key is running: the new job
\* waits when its key is running, and is emitted at once otherwise.
LEMMA AcceptCases ==
  ASSUME IInv, NEW key \in Keys, NEW f \in Funcs, accept(key, f)
  PROVE  \/ /\ key \in running
            /\ waitingOrder' = Append(waitingOrder, key)
            /\ waiting' = [waiting EXCEPT ![key] = f]
            /\ UNCHANGED <<running, tasksToRun>>
         \/ /\ key \notin running
            /\ UNCHANGED <<waitingOrder, waiting>>
            /\ running' = running \cup {key}
            /\ tasksToRun' = Append(tasksToRun, [key |-> key, fn |-> f])
<1> DEFINE order == Append(waitingOrder, key)
           wait == [waiting EXCEPT ![key] = f]
<1>1. /\ waitingOrder \in Seq(Keys)
      /\ waiting \in [Keys -> Funcs \cup {None}]
      /\ order \in Seq(Keys)
      /\ Len(order) = Len(waitingOrder) + 1
      /\ order[Len(order)] = key
      /\ \A i \in 1..Len(waitingOrder) : order[i] = waitingOrder[i]
  BY DEF IInv, TypeOK
<1>2. \A i \in 1..Len(waitingOrder) : order[i] \in running
  BY <1>1 DEF IInv, OrderListsWaiting, WaitingOnlyBehindRunning, WaitingKeys
<1>3. CASE key \in running
  <2>1. Runnable(order, running) = {}
    BY <1>1, <1>2, <1>3 DEF Runnable
  <2> QED
    BY <1>3, <2>1 DEF accept, emitNextTask
<1>4. CASE key \notin running
  <2>1. Runnable(order, running) = {Len(order)}
    BY <1>1, <1>2, <1>4 DEF Runnable
  <2>2. First(Runnable(order, running)) = Len(order)
    <3> HIDE DEF order
    <3> QED BY <2>1, <1>1, FirstOfSingleton
  <2>3. Without(order, Len(order)) = waitingOrder
    <3>1. /\ Without(order, Len(order)) \in Seq(Keys)
          /\ Len(Without(order, Len(order))) = Len(waitingOrder)
          /\ \A j \in 1..Len(waitingOrder) : Without(order, Len(order))[j] = waitingOrder[j]
      BY <1>1, WithoutType DEF Without
    <3> HIDE DEF order
    <3> QED BY <1>1, <3>1
  <2>4. wait[key] = f
    BY <1>1
  <2>5. [wait EXCEPT ![key] = None] = waiting
    BY <1>1 DEF accept
  <2>6. /\ waitingOrder' = waitingOrder
        /\ waiting' = waiting
        /\ running' = running \cup {key}
        /\ tasksToRun' = Append(tasksToRun, [key |-> key, fn |-> f])
    <3>1. emitNextTask(order, wait, running)
      BY DEF accept
    <3> HIDE DEF order, wait
    <3> QED BY <1>1, <2>1, <2>2, <2>3, <2>4, <2>5, <3>1 DEF emitNextTask
  <2> QED
    BY <1>4, <2>6
<1> QED
  BY <1>3, <1>4

\* What taskDone does: the job waiting under the same key, and no other, is emitted.
LEMMA DoneCases ==
  ASSUME IInv, NEW key \in running, taskDone(key)
  PROVE  \/ /\ waiting[key] = None
            /\ UNCHANGED <<waitingOrder, waiting, tasksToRun>>
            /\ running' = running \ {key}
         \/ /\ waiting[key] # None
            /\ \E i \in 1..Len(waitingOrder) :
                 /\ waitingOrder[i] = key
                 /\ waitingOrder' = Without(waitingOrder, i)
            /\ waiting' = [waiting EXCEPT ![key] = None]
            /\ UNCHANGED running
            /\ tasksToRun' = Append(tasksToRun, [key |-> key, fn |-> waiting[key]])
<1>1. /\ waitingOrder \in Seq(Keys)
      /\ waiting \in [Keys -> Funcs \cup {None}]
      /\ running \subseteq Keys
      /\ key \in Keys
      /\ \A i \in 1..Len(waitingOrder) : waitingOrder[i] \in Keys
  BY DEF IInv, TypeOK
<1>2. \A i \in 1..Len(waitingOrder) : waitingOrder[i] \in running
  BY <1>1 DEF IInv, OrderListsWaiting, WaitingOnlyBehindRunning, WaitingKeys
<1>3. CASE waiting[key] = None
  <2>1. Runnable(waitingOrder, running \ {key}) = {}
    BY <1>1, <1>2, <1>3 DEF Runnable, IInv, OrderListsWaiting
  <2> QED
    BY <1>3, <2>1 DEF taskDone, emitNextTask
<1>4. CASE waiting[key] # None
  <2>1. PICK i \in 1..Len(waitingOrder) : waitingOrder[i] = key
    BY <1>1, <1>4 DEF IInv, OrderListsWaiting
  <2>2. Runnable(waitingOrder, running \ {key}) = {i}
    BY <1>1, <1>2, <2>1 DEF Runnable, IInv, OrderListsWaiting
  <2>3. First(Runnable(waitingOrder, running \ {key})) = i
    <3>1. i \in Nat
      BY <1>1, <2>1
    <3> QED BY <2>2, <3>1, FirstOfSingleton
  <2>4. (running \ {key}) \cup {key} = running
    OBVIOUS
  <2> QED
    BY <1>1, <1>4, <2>1, <2>2, <2>3, <2>4 DEF taskDone, emitNextTask
<1> QED
  BY <1>3, <1>4

-----------------------------------------------------------------------------
\* Facts the counting argument needs.
LEMMA FiniteFacts ==
  ASSUME TypeOK
  PROVE  /\ IsFiniteSet(running) /\ Cardinality(running) \in Nat
         /\ IsFiniteSet(WaitingKeys) /\ Cardinality(WaitingKeys) \in Nat
         /\ IsFiniteSet(EmittedKeys) /\ Cardinality(EmittedKeys) \in Nat
<1>1. running \subseteq Keys /\ WaitingKeys \subseteq Keys /\ EmittedKeys \subseteq Keys
  <2>1. \A i \in 1..Len(tasksToRun) : tasksToRun[i] \in Task
    <3> HIDE DEF Task
    <3> QED BY DEF TypeOK
  <2>2. EmittedKeys \subseteq Keys
    BY <2>1 DEF EmittedKeys
  <2> QED
    BY <2>2 DEF TypeOK, WaitingKeys
<1>2. IsFiniteSet(running) /\ IsFiniteSet(WaitingKeys) /\ IsFiniteSet(EmittedKeys)
  BY <1>1, PoolAssumption, FS_Subset
<1> QED
  BY <1>2, FS_CardinalityType

\* The empty pool satisfies the inductive invariant.
LEMMA InitIInv == Init => IInv
<1> SUFFICES ASSUME Init PROVE IInv
  OBVIOUS
<1>1. TypeOK
  <2>1. \A w \in Workers : job[w] \in Task <=> wstate[w] = "exec"
    BY NoJobNotTask DEF Init
  <2>2. waitingOrder \in Seq(Keys) /\ tasksToRun \in Seq(Task)
    BY DEF Init
  <2> QED
    BY <2>1, <2>2 DEF Init, TypeOK
<1>2. WaitingKeys = {} /\ EmittedKeys = {} /\ executing = {} /\ ExecutingKeys = {}
  BY DEF Init, WaitingKeys, EmittedKeys, executing, ExecutingKeys
<1>3. OrderListsWaiting /\ EachKeyOnce /\ RunningIsExact /\ WaitingOnlyBehindRunning
  BY <1>2 DEF Init, OrderListsWaiting, EachKeyOnce, RunningIsExact, WaitingOnlyBehindRunning
<1>4. Counts
  BY <1>2, FS_EmptySet, PoolAssumption DEF Init, Counts
<1> QED
  BY <1>1, <1>3, <1>4 DEF IInv

\* A request that is merged or refused leaves the queue as it was; so do the steps
\* of Stop and a worker's return.
LEMMA QuietStep ==
  ASSUME IInv, UNCHANGED queueVars, UNCHANGED job, TypeOK', executing' = executing
  PROVE  IInv'
<1>1. /\ WaitingKeys' = WaitingKeys
      /\ EmittedKeys' = EmittedKeys
      /\ ExecutingKeys' = ExecutingKeys
  BY DEF queueVars, WaitingKeys, EmittedKeys, ExecutingKeys
<1>2. OrderListsWaiting' /\ RunningIsExact' /\ WaitingOnlyBehindRunning' /\ Counts'
  BY <1>1 DEF IInv, queueVars, OrderListsWaiting, RunningIsExact, WaitingOnlyBehindRunning, Counts
<1>3. EachKeyOnce'
  BY DEF IInv, queueVars, EachKeyOnce
<1> QED
  BY <1>2, <1>3 DEF IInv

\* An accepted request keeps the invariant: its job waits behind the running job of
\* its key, or is emitted, which the capacity check leaves room for.
LEMMA AcceptIInv ==
  ASSUME IInv, NEW key \in Keys, NEW f \in Funcs, accept(key, f),
         UNCHANGED <<workerVars, quit, stopResult>>
  PROVE  IInv'
<1>1. /\ waitingOrder \in Seq(Keys) /\ Len(waitingOrder) \in Nat
      /\ waiting \in [Keys -> Funcs \cup {None}] /\ waiting[key] = None
      /\ running \subseteq Keys
      /\ tasksToRun \in Seq(Task) /\ Len(tasksToRun) \in Nat
      /\ UNCHANGED <<wstate, job, quit, stopResult>>
      /\ f # None /\ MaxSize \in Nat
  BY PoolAssumption DEF IInv, TypeOK, accept, workerVars
<1>2. Len(waitingOrder) + Cardinality(running) + 1 <= MaxSize
  BY <1>1, FiniteFacts DEF IInv, accept, queueSize
<1>3. executing' = executing /\ ExecutingKeys' = ExecutingKeys
  BY <1>1 DEF executing, ExecutingKeys
<1>a. owed' \in [Keys -> BOOLEAN]
  BY DEF accept, IInv, TypeOK
<1>4. CASE /\ key \in running
           /\ waitingOrder' = Append(waitingOrder, key)
           /\ waiting' = [waiting EXCEPT ![key] = f]
           /\ UNCHANGED <<running, tasksToRun>>
  <2>1. TypeOK'
    BY <1>1, <1>a, <1>4 DEF IInv, TypeOK
  <2>2. OrderListsWaiting'
    <3>1. /\ Len(waitingOrder') = Len(waitingOrder) + 1
          /\ waitingOrder'[Len(waitingOrder) + 1] = key
          /\ \A j \in 1..Len(waitingOrder) : j \in 1..Len(waitingOrder') /\ waitingOrder'[j] = waitingOrder[j]
          /\ \A j \in 1..Len(waitingOrder') : j = Len(waitingOrder) + 1 \/ j \in 1..Len(waitingOrder)
      BY <1>1, <1>4, AppendElements
    <3>2. \A j \in 1..Len(waitingOrder) : waitingOrder[j] # key
      BY <1>1 DEF IInv, OrderListsWaiting
    <3>3. \A i, j \in 1..Len(waitingOrder') : waitingOrder'[i] = waitingOrder'[j] => i = j
      BY <3>1, <3>2 DEF IInv, OrderListsWaiting
    <3>4. ASSUME NEW k \in Keys
          PROVE  waiting'[k] # None <=> \E i \in 1..Len(waitingOrder') : waitingOrder'[i] = k
      <4>1. CASE k = key
        <5>1. Len(waitingOrder) + 1 \in 1..Len(waitingOrder')
          BY <1>1, <3>1
        <5> QED BY <1>1, <1>4, <3>1, <4>1, <5>1
      <4>2. CASE k # key
        <5>1. waiting'[k] = waiting[k]
          BY <1>1, <1>4, <4>2
        <5>2. waiting[k] # None <=> \E i \in 1..Len(waitingOrder) : waitingOrder[i] = k
          BY DEF IInv, OrderListsWaiting
        <5> QED BY <3>1, <4>2, <5>1, <5>2
      <4> QED BY <4>1, <4>2
    <3> QED
      BY <3>3, <3>4 DEF OrderListsWaiting
  <2>3. WaitingKeys' = WaitingKeys \cup {key} /\ key \notin WaitingKeys
    BY <1>1, <1>4 DEF WaitingKeys
  <2>4. EmittedKeys' = EmittedKeys
    BY <1>4 DEF EmittedKeys
  <2>5. EachKeyOnce' /\ RunningIsExact' /\ WaitingOnlyBehindRunning'
    BY <1>1, <1>3, <1>4, <2>3, <2>4
       DEF IInv, EachKeyOnce, RunningIsExact, WaitingOnlyBehindRunning
  <2>6. Cardinality(WaitingKeys') = Cardinality(WaitingKeys) + 1
    BY <2>3, FiniteFacts, FS_AddElement DEF IInv
  <2>7. Counts'
    BY <1>1, <1>2, <1>4, <2>4, <2>6, FiniteFacts DEF IInv, Counts
  <2> QED
    BY <2>1, <2>2, <2>5, <2>7 DEF IInv
<1>5. CASE /\ key \notin running
           /\ UNCHANGED <<waitingOrder, waiting>>
           /\ running' = running \cup {key}
           /\ tasksToRun' = Append(tasksToRun, [key |-> key, fn |-> f])
  <2>1. TypeOK'
    BY <1>1, <1>a, <1>5 DEF IInv, TypeOK
  <2>2. OrderListsWaiting'
    BY <1>5 DEF IInv, OrderListsWaiting
  <2>3. WaitingKeys' = WaitingKeys
    BY <1>5 DEF WaitingKeys
  <2>4. EmittedKeys' = EmittedKeys \cup {key} /\ key \notin EmittedKeys /\ key \notin ExecutingKeys
    BY <1>1, <1>5 DEF EmittedKeys, IInv, RunningIsExact
  <2>5. EachKeyOnce'
    <3>1. /\ Len(tasksToRun') = Len(tasksToRun) + 1
          /\ tasksToRun'[Len(tasksToRun) + 1].key = key
          /\ \A i \in 1..Len(tasksToRun) : tasksToRun'[i] = tasksToRun[i]
          /\ \A i \in 1..Len(tasksToRun') : i = Len(tasksToRun) + 1 \/ i \in 1..Len(tasksToRun)
      BY <1>1, <1>5, AppendElements
    <3>2. /\ \A i \in 1..Len(tasksToRun) : tasksToRun[i].key # key
          /\ \A w \in executing : job[w].key # key
      BY <2>4 DEF EmittedKeys, ExecutingKeys
    <3>3. \A a, b \in 1..Len(tasksToRun') : tasksToRun'[a].key = tasksToRun'[b].key => a = b
      BY <3>1, <3>2 DEF IInv, EachKeyOnce
    <3>4. \A a \in 1..Len(tasksToRun'), v \in executing' : tasksToRun'[a].key # job'[v].key
      BY <1>1, <1>3, <3>1, <3>2 DEF IInv, EachKeyOnce
    <3>5. \A u, v \in executing' : job'[u].key = job'[v].key => u = v
      BY <1>1, <1>3 DEF IInv, EachKeyOnce
    <3> QED
      BY <3>3, <3>4, <3>5 DEF EachKeyOnce
  <2>6. RunningIsExact' /\ WaitingOnlyBehindRunning'
    BY <1>3, <1>5, <2>3, <2>4 DEF IInv, RunningIsExact, WaitingOnlyBehindRunning
  <2>7. /\ Cardinality(running') = Cardinality(running) + 1
        /\ Cardinality(EmittedKeys') = Cardinality(EmittedKeys) + 1
    BY <1>5, <2>4, FiniteFacts, FS_AddElement DEF IInv
  <2>8. Counts'
    BY <1>1, <1>2, <1>5, <2>3, <2>7, FiniteFacts DEF IInv, Counts
  <2> QED
    BY <2>1, <2>2, <2>5, <2>6, <2>8 DEF IInv
<1> QED
  BY <1>4, <1>5, AcceptCases

\* A worker's receive keeps it: the key moves from the channel to the worker.
LEMMA ReceiveIInv ==
  ASSUME IInv, NEW w \in Workers, Receive(w)
  PROVE  IInv'
<1> DEFINE t == Head(tasksToRun)
<1>1. /\ tasksToRun \in Seq(Task) /\ tasksToRun # <<>> /\ Len(tasksToRun) \in Nat \ {0}
      /\ t = tasksToRun[1] /\ t \in Task /\ t.key \in Keys
      /\ tasksToRun' \in Seq(Task) /\ Len(tasksToRun') = Len(tasksToRun) - 1
      /\ \A i \in 1..Len(tasksToRun') : tasksToRun'[i] = tasksToRun[i + 1]
  <2>1. tasksToRun \in Seq(Task) /\ tasksToRun # <<>> /\ tasksToRun' = Tail(tasksToRun)
    BY DEF IInv, TypeOK, Receive
  <2>2. Len(tasksToRun) \in Nat \ {0} /\ t = tasksToRun[1] /\ t \in Task
    <3> HIDE DEF Task
    <3> QED BY <2>1
  <2> HIDE DEF t
  <2> QED BY <2>1, <2>2
<1>2. /\ wstate \in [Workers -> {"select", "exec", "exited"}]
      /\ wstate' = [wstate EXCEPT ![w] = "exec"]
      /\ job \in [Workers -> Task \cup {NoJob}]
      /\ job' = [job EXCEPT ![w] = t]
      /\ UNCHANGED <<waitingOrder, waiting, running, quit, stopResult>>
  BY DEF IInv, TypeOK, Receive
<1>3. TypeOK'
  <2>1. job' \in [Workers -> Task \cup {NoJob}] /\ wstate' \in [Workers -> {"select", "exec", "exited"}]
    BY <1>1, <1>2
  <2>2. \A v \in Workers : job'[v] \in Task <=> wstate'[v] = "exec"
    <3> HIDE DEF t
    <3> QED BY <1>1, <1>2 DEF IInv, TypeOK
  <2>3. owed' \in [Keys -> BOOLEAN]
    BY <1>1 DEF IInv, TypeOK, Receive
  <2> QED
    BY <1>1, <1>2, <2>1, <2>2, <2>3 DEF IInv, TypeOK
<1>4. /\ executing' = executing \cup {w} /\ w \notin executing
      /\ job'[w] = t /\ \A v \in executing : job'[v] = job[v]
  BY <1>2 DEF executing, Receive
<1>5. \A i \in 1..Len(tasksToRun') : tasksToRun'[i].key # t.key
  BY <1>1 DEF IInv, EachKeyOnce
<1>6. EachKeyOnce'
  <2>1. \A v \in executing : job[v].key # t.key
    BY <1>1 DEF IInv, EachKeyOnce
  <2>2. \A a \in 1..Len(tasksToRun') : a + 1 \in 1..Len(tasksToRun) /\ tasksToRun'[a] = tasksToRun[a + 1]
    BY <1>1
  <2> HIDE DEF t
  <2>3. \A a, b \in 1..Len(tasksToRun') : tasksToRun'[a].key = tasksToRun'[b].key => a = b
    <3> SUFFICES ASSUME NEW a \in 1..Len(tasksToRun'), NEW b \in 1..Len(tasksToRun'),
                        tasksToRun'[a].key = tasksToRun'[b].key
                 PROVE  a = b
      OBVIOUS
    <3>1. a + 1 = b + 1
      BY <2>2 DEF IInv, EachKeyOnce
    <3> QED BY <3>1
  <2>4. \A a \in 1..Len(tasksToRun'), v \in executing' : tasksToRun'[a].key # job'[v].key
    BY <1>4, <1>5, <2>2 DEF IInv, EachKeyOnce
  <2>5. \A u, v \in executing' : job'[u].key = job'[v].key => u = v
    BY <1>4, <2>1 DEF IInv, EachKeyOnce
  <2> QED
    BY <2>3, <2>4, <2>5 DEF EachKeyOnce
<1>7. EmittedKeys' = EmittedKeys \ {t.key} /\ t.key \in EmittedKeys
  <2>1. EmittedKeys' \subseteq EmittedKeys \ {t.key}
    BY <1>1, <1>5 DEF EmittedKeys
  <2>2. ASSUME NEW i \in 1..Len(tasksToRun), tasksToRun[i].key # t.key
        PROVE  tasksToRun[i].key \in EmittedKeys'
    <3>1. i - 1 \in 1..Len(tasksToRun') /\ tasksToRun'[i - 1] = tasksToRun[i]
      BY <1>1, <2>2
    <3> QED BY <3>1 DEF EmittedKeys
  <2>3. EmittedKeys \ {t.key} \subseteq EmittedKeys'
    <3> SUFFICES ASSUME NEW k \in EmittedKeys, k # t.key PROVE k \in EmittedKeys'
      OBVIOUS
    <3>1. PICK i \in 1..Len(tasksToRun) : tasksToRun[i].key = k
      BY DEF EmittedKeys
    <3> QED BY <2>2, <3>1
  <2>4. t.key \in EmittedKeys
    <3> HIDE DEF t
    <3> QED BY <1>1 DEF EmittedKeys
  <2> QED
    BY <2>1, <2>3, <2>4
<1>8. ExecutingKeys' = ExecutingKeys \cup {t.key}
  BY <1>4 DEF ExecutingKeys
<1>9. OrderListsWaiting' /\ RunningIsExact' /\ WaitingOnlyBehindRunning'
  BY <1>2, <1>7, <1>8
     DEF IInv, OrderListsWaiting, RunningIsExact, WaitingOnlyBehindRunning, WaitingKeys
<1>10. Counts'
  <2>1. Cardinality(EmittedKeys') = Cardinality(EmittedKeys) - 1
    BY <1>7, FiniteFacts, FS_RemoveElement DEF IInv
  <2> QED
    BY <1>1, <1>2, <2>1 DEF IInv, Counts, WaitingKeys
<1> QED
  BY <1>3, <1>6, <1>9, <1>10 DEF IInv

\* The end of a job keeps it: taskDone frees the key and emits the job that waited
\* for it.
LEMMA FinishIInv ==
  ASSUME IInv, NEW w \in Workers, Finish(w)
  PROVE  IInv'
<1> DEFINE k == job[w].key
<1>1. /\ wstate[w] = "exec" /\ w \in executing
      /\ job[w] \in Task /\ k \in Keys /\ k \in ExecutingKeys /\ k \in running
  BY DEF IInv, TypeOK, Finish, executing, ExecutingKeys, RunningIsExact
<1>2. /\ waitingOrder \in Seq(Keys) /\ Len(waitingOrder) \in Nat
      /\ waiting \in [Keys -> Funcs \cup {None}]
      /\ running \subseteq Keys
      /\ tasksToRun \in Seq(Task) /\ Len(tasksToRun) \in Nat
      /\ MaxSize \in Nat
      /\ Cardinality(running) \in Nat
      /\ UNCHANGED <<quit, stopResult, owed>>
  BY PoolAssumption, FiniteFacts DEF IInv, TypeOK, Finish
<1>3. /\ wstate \in [Workers -> {"select", "exec", "exited"}]
      /\ wstate' = [wstate EXCEPT ![w] = "select"]
      /\ job \in [Workers -> Task \cup {NoJob}]
      /\ job' = [job EXCEPT ![w] = NoJob]
  BY DEF IInv, TypeOK, Finish
<1>4. /\ executing' = executing \ {w}
      /\ \A v \in executing \ {w} : job'[v] = job[v]
  BY <1>3 DEF executing
<1>5. \A v \in executing \ {w} : job[v].key # k
  BY <1>1 DEF IInv, EachKeyOnce
<1>6. ExecutingKeys' = ExecutingKeys \ {k} /\ k \notin EmittedKeys
  <2>1. ExecutingKeys' \subseteq ExecutingKeys \ {k}
    BY <1>4, <1>5 DEF ExecutingKeys
  <2>2. ExecutingKeys \ {k} \subseteq ExecutingKeys'
    BY <1>4 DEF ExecutingKeys
  <2>3. k \notin EmittedKeys
    BY <1>1 DEF IInv, EachKeyOnce, EmittedKeys
  <2> QED BY <2>1, <2>2, <2>3
<1>7. \A v \in Workers : job'[v] \in Task <=> wstate'[v] = "exec"
  BY <1>3, NoJobNotTask DEF IInv, TypeOK
<1>8. job' \in [Workers -> Task \cup {NoJob}] /\ wstate' \in [Workers -> {"select", "exec", "exited"}]
  BY <1>3
<1>9. CASE /\ waiting[k] = None
           /\ UNCHANGED <<waitingOrder, waiting, tasksToRun>>
           /\ running' = running \ {k}
  <2>1. TypeOK'
    BY <1>2, <1>7, <1>8, <1>9 DEF IInv, TypeOK
  <2>2. OrderListsWaiting'
    BY <1>9 DEF IInv, OrderListsWaiting
  <2>3. WaitingKeys' = WaitingKeys /\ k \notin WaitingKeys /\ EmittedKeys' = EmittedKeys
    BY <1>9 DEF WaitingKeys, EmittedKeys
  <2>4. EachKeyOnce'
    BY <1>4, <1>9 DEF IInv, EachKeyOnce
  <2>5. RunningIsExact' /\ WaitingOnlyBehindRunning'
    BY <1>6, <1>9, <2>3 DEF IInv, RunningIsExact, WaitingOnlyBehindRunning
  <2>6. Cardinality(running') = Cardinality(running) - 1
    BY <1>1, <1>9, FiniteFacts, FS_RemoveElement DEF IInv
  <2>7. Counts'
    <3> HIDE DEF k
    <3> QED BY <1>2, <1>9, <2>3, <2>6 DEF IInv, Counts
  <2> QED
    BY <2>1, <2>2, <2>4, <2>5, <2>7 DEF IInv
<1>10. CASE /\ waiting[k] # None
            /\ \E i \in 1..Len(waitingOrder) :
                 /\ waitingOrder[i] = k
                 /\ waitingOrder' = Without(waitingOrder, i)
            /\ waiting' = [waiting EXCEPT ![k] = None]
            /\ UNCHANGED running
            /\ tasksToRun' = Append(tasksToRun, [key |-> k, fn |-> waiting[k]])
  <2> HIDE DEF k
  <2>1. PICK i \in 1..Len(waitingOrder) :
             /\ waitingOrder[i] = k
             /\ waitingOrder' = Without(waitingOrder, i)
    BY <1>10
  <2>2. /\ waitingOrder' \in Seq(Keys)
        /\ Len(waitingOrder') = Len(waitingOrder) - 1
        /\ \A j \in 1..(Len(waitingOrder) - 1) :
             waitingOrder'[j] = IF j < i THEN waitingOrder[j] ELSE waitingOrder[j + 1]
    BY <1>2, <2>1, WithoutType
  <2>3. /\ tasksToRun' \in Seq(Task)
        /\ Len(tasksToRun') = Len(tasksToRun) + 1
        /\ tasksToRun'[Len(tasksToRun) + 1].key = k
        /\ \A j \in 1..Len(tasksToRun) : tasksToRun'[j] = tasksToRun[j]
        /\ \A j \in 1..Len(tasksToRun') : j = Len(tasksToRun) + 1 \/ j \in 1..Len(tasksToRun)
        /\ \A j \in 1..Len(tasksToRun) : j \in 1..Len(tasksToRun')
        /\ Len(tasksToRun) + 1 \in 1..Len(tasksToRun')
    <3>1. [key |-> k, fn |-> waiting[k]] \in Task
      BY <1>1, <1>2, <1>10 DEF k
    <3> QED BY <1>2, <1>10, <3>1, AppendElements
  <2>4. TypeOK'
    BY <1>2, <1>7, <1>8, <1>10, <2>2, <2>3 DEF IInv, TypeOK
  <2>5. OrderListsWaiting'
    <3>1. /\ \A a, b \in 1..Len(waitingOrder') : waitingOrder'[a] = waitingOrder'[b] => a = b
          /\ \A a \in 1..Len(waitingOrder') :
               waitingOrder'[a] # k /\ \E b \in 1..Len(waitingOrder) : waitingOrder[b] = waitingOrder'[a]
          /\ \A b \in 1..Len(waitingOrder) :
               waitingOrder[b] # k => \E a \in 1..Len(waitingOrder') : waitingOrder'[a] = waitingOrder[b]
      <4>1. \A a, b \in 1..Len(waitingOrder) : waitingOrder[a] = waitingOrder[b] => a = b
        BY DEF IInv, OrderListsWaiting
      <4>2. LET t == Without(waitingOrder, i) IN
            /\ \A a, b \in 1..Len(t) : t[a] = t[b] => a = b
            /\ \A a \in 1..Len(t) : t[a] # waitingOrder[i] /\ \E b \in 1..Len(waitingOrder) : waitingOrder[b] = t[a]
            /\ \A b \in 1..Len(waitingOrder) : waitingOrder[b] # waitingOrder[i] => \E a \in 1..Len(t) : t[a] = waitingOrder[b]
        BY ONLY <1>2, <2>1, <4>1, WithoutElements, Zenon
      <4> QED BY <2>1, <4>2
    <3>2. ASSUME NEW x \in Keys
          PROVE  waiting'[x] # None <=> \E a \in 1..Len(waitingOrder') : waitingOrder'[a] = x
      <4>1. waiting'[x] = IF x = k THEN None ELSE waiting[x]
        BY <1>2, <1>10
      <4>2. waiting[x] # None <=> \E b \in 1..Len(waitingOrder) : waitingOrder[b] = x
        BY DEF IInv, OrderListsWaiting
      <4>3. CASE x = k
        BY <3>1, <4>1, <4>3
      <4>4. CASE x # k
        <5>1. waiting'[x] = waiting[x]
          BY <4>1, <4>4
        <5>2. ASSUME NEW b \in 1..Len(waitingOrder), waitingOrder[b] = x
              PROVE  \E a \in 1..Len(waitingOrder') : waitingOrder'[a] = x
          BY <3>1, <4>4, <5>2
        <5>3. ASSUME NEW a \in 1..Len(waitingOrder'), waitingOrder'[a] = x
              PROVE  \E b \in 1..Len(waitingOrder) : waitingOrder[b] = x
          BY <3>1, <5>3
        <5> QED BY <4>2, <5>1, <5>2, <5>3
      <4> QED BY <4>3, <4>4
    <3> QED
      BY <3>1, <3>2 DEF OrderListsWaiting
  <2>6. WaitingKeys' = WaitingKeys \ {k} /\ k \in WaitingKeys
    BY <1>1, <1>2, <1>10 DEF WaitingKeys
  <2>7. EmittedKeys' = EmittedKeys \cup {k}
    BY <1>2, <2>3 DEF EmittedKeys
  <2>8. EachKeyOnce'
    <3>1. \A j \in 1..Len(tasksToRun) : tasksToRun[j].key # k
      BY <1>6 DEF EmittedKeys
    <3>3. \A a, b \in 1..Len(tasksToRun') : tasksToRun'[a].key = tasksToRun'[b].key => a = b
      BY <2>3, <3>1 DEF IInv, EachKeyOnce
    <3>4. \A a \in 1..Len(tasksToRun'), v \in executing' : tasksToRun'[a].key # job'[v].key
      BY <1>4, <1>5, <2>3 DEF IInv, EachKeyOnce
    <3>5. \A u, v \in executing' : job'[u].key = job'[v].key => u = v
      BY <1>4 DEF IInv, EachKeyOnce
    <3> QED
      BY <3>3, <3>4, <3>5 DEF EachKeyOnce
  <2>9. RunningIsExact' /\ WaitingOnlyBehindRunning'
    BY <1>1, <1>6, <1>10, <2>6, <2>7 DEF IInv, RunningIsExact, WaitingOnlyBehindRunning
  <2>10. /\ Cardinality(WaitingKeys') = Cardinality(WaitingKeys) - 1
         /\ Cardinality(EmittedKeys') = Cardinality(EmittedKeys) + 1
    BY <1>6, <2>6, <2>7, FiniteFacts, FS_AddElement, FS_RemoveElement DEF IInv
  <2>11. Counts'
    BY <1>2, <1>10, <2>2, <2>3, <2>10, FiniteFacts DEF IInv, Counts
  <2> QED
    BY <2>4, <2>5, <2>8, <2>9, <2>11 DEF IInv
<1>11. taskDone(k)
  BY DEF Finish
<1> QED
  BY <1>1, <1>9, <1>10, <1>11, DoneCases

\* Every step of the pool keeps the invariant.
LEMMA NextIInv == IInv /\ [Next]_vars => IInv'
<1> SUFFICES ASSUME IInv, [Next]_vars PROVE IInv'
  OBVIOUS
<1>1. ASSUME NEW key \in Keys, NEW f \in Funcs, SubmitWithKey(key, f)
      PROVE  IInv'
  <2>1. CASE coalesce(key) \/ reject(key)
    <3>1. UNCHANGED <<queueVars, workerVars, quit, stopResult>> /\ owed' \in [Keys -> BOOLEAN]
      BY <1>1, <2>1 DEF SubmitWithKey, coalesce, reject, IInv, TypeOK
    <3>2. TypeOK'
      BY <3>1 DEF IInv, TypeOK, queueVars, workerVars
    <3>3. executing' = executing /\ UNCHANGED job
      BY <3>1 DEF executing, workerVars
    <3> QED BY <3>1, <3>2, <3>3, QuietStep
  <2>2. CASE accept(key, f)
    BY <1>1, <2>2, AcceptIInv DEF SubmitWithKey
  <2> QED
    BY <1>1, <2>1, <2>2 DEF SubmitWithKey, tryEnqueue
<1>2. ASSUME NEW w \in Workers, Exit(w)
      PROVE  IInv'
  <2>1. UNCHANGED <<queueVars, job, quit, stopResult, owed>>
    BY <1>2 DEF Exit
  <2>2. executing' = executing
    BY <1>2 DEF Exit, executing, IInv, TypeOK
  <2>3. TypeOK'
    BY <1>2, <2>1 DEF Exit, IInv, TypeOK, queueVars
  <2> QED BY <2>1, <2>2, <2>3, QuietStep
<1>3. CASE Stop \/ StopDone \/ StopTimeout
  <2>1. UNCHANGED <<queueVars, workerVars>> /\ TypeOK'
    BY <1>3 DEF Stop, StopDone, StopTimeout, IInv, TypeOK, queueVars, workerVars
  <2>2. executing' = executing /\ UNCHANGED job
    BY <2>1 DEF executing, workerVars
  <2> QED BY <2>1, <2>2, QuietStep
<1>4. CASE UNCHANGED vars
  <2>1. UNCHANGED <<queueVars, workerVars>> /\ TypeOK'
    BY <1>4 DEF IInv, TypeOK, queueVars, workerVars, vars
  <2>2. executing' = executing /\ UNCHANGED job
    BY <2>1 DEF executing, workerVars
  <2> QED BY <2>1, <2>2, QuietStep
<1> QED
  BY <1>1, <1>2, <1>3, <1>4, ReceiveIInv, FinishIInv DEF Next

\* The inductive invariant holds in every state of the pool: every key is in the
\* channel or with a worker at most once, what waits is behind a running job of its
\* key, and the counts are within maxSize.
THEOREM Invariant == Spec => []IInv
  BY InitIInv, NextIInv, PTL DEF Spec

-----------------------------------------------------------------------------
(***************************************************************************)
(* What follows from the inductive invariant.                              *)
(***************************************************************************)

\* The variables of the pool keep their types.
THEOREM TypeCorrect == Spec => []TypeOK
<1>1. IInv => TypeOK
  BY DEF IInv
<1> QED BY <1>1, Invariant, PTL

\* However many workers there are, two of them never execute jobs of the same key
\* (SubmitWithKey's second promise).
THEOREM MutualExclusion == Spec => []OneRunningPerKey
<1>1. IInv => OneRunningPerKey
  BY DEF IInv, EachKeyOnce, OneRunningPerKey
<1> QED BY <1>1, Invariant, PTL

\* The send of emitNextTask, made with the lock held, never finds the channel full.
THEOREM SendNeverBlocks == Spec => []ChannelNeverBlocks
<1>1. ASSUME IInv PROVE ChannelNeverBlocks
  <2>1. EmittedKeys \subseteq running
    BY <1>1 DEF IInv, RunningIsExact
  <2>2. Cardinality(EmittedKeys) <= Cardinality(running)
    BY <1>1, <2>1, FiniteFacts, FS_Subset DEF IInv
  <2>3. /\ Len(waitingOrder) \in Nat /\ MaxSize \in Nat
        /\ Cardinality(EmittedKeys) \in Nat /\ Cardinality(running) \in Nat
    BY <1>1, FiniteFacts, PoolAssumption DEF IInv, TypeOK
  <2>4. Len(tasksToRun) = Cardinality(EmittedKeys) /\ Len(waitingOrder) + Cardinality(running) <= MaxSize
    BY <1>1 DEF IInv, Counts
  <2> QED
    BY <2>2, <2>3, <2>4 DEF ChannelNeverBlocks
<1> QED BY <1>1, Invariant, PTL

\* No runnable key is ever left in waitingOrder: what waits, waits for a job of its
\* own key that has been emitted and is not done.
THEOREM EmitOftenEnough == Spec => [](WaitingOnlyBehindRunning /\ RunningIsExact)
<1>1. IInv => WaitingOnlyBehindRunning /\ RunningIsExact
  BY DEF IInv
<1> QED BY <1>1, Invariant, PTL

\* A request that was accepted is in the queue or in the channel until an execution
\* of its key starts.
LEMMA NoLostStep == IInv /\ NoLostRequest /\ [Next]_vars => NoLostRequest'
<1> SUFFICES ASSUME IInv, NoLostRequest, [Next]_vars, NEW k \in Keys, owed'[k]
             PROVE  k \in WaitingKeys' \cup EmittedKeys'
  BY DEF NoLostRequest
<1>0. /\ owed \in [Keys -> BOOLEAN] /\ waiting \in [Keys -> Funcs \cup {None}]
      /\ tasksToRun \in Seq(Task)
  BY DEF IInv, TypeOK
<1>q. ASSUME UNCHANGED queueVars
      PROVE  WaitingKeys' = WaitingKeys /\ EmittedKeys' = EmittedKeys
  BY <1>q DEF queueVars, WaitingKeys, EmittedKeys
<1>e. ASSUME NEW t \in Task, tasksToRun' = Append(tasksToRun, t)
      PROVE  EmittedKeys' = EmittedKeys \cup {t.key}
  <2>1. /\ Len(tasksToRun) \in Nat
        /\ Len(tasksToRun') = Len(tasksToRun) + 1
        /\ tasksToRun'[Len(tasksToRun) + 1] = t
        /\ \A j \in 1..Len(tasksToRun) : j \in 1..Len(tasksToRun') /\ tasksToRun'[j] = tasksToRun[j]
        /\ \A j \in 1..Len(tasksToRun') : j = Len(tasksToRun) + 1 \/ j \in 1..Len(tasksToRun)
    <3> HIDE DEF Task
    <3> QED BY <1>0, <1>e, AppendElements
  <2>2. Len(tasksToRun) + 1 \in 1..Len(tasksToRun')
    BY <2>1
  <2> QED BY <2>1, <2>2 DEF EmittedKeys
<1>1. ASSUME NEW key \in Keys, NEW f \in Funcs, SubmitWithKey(key, f)
      PROVE  k \in WaitingKeys' \cup EmittedKeys'
  <2>1. CASE coalesce(key)
    BY <1>0, <1>q, <2>1 DEF coalesce, WaitingKeys, NoLostRequest
  <2>2. CASE reject(key)
    BY <1>q, <2>2 DEF reject, NoLostRequest
  <2>3. CASE accept(key, f)
    <3>1. owed' = [owed EXCEPT ![key] = TRUE]
      BY <2>3 DEF accept
    <3>2. k = key \/ k \in WaitingKeys \cup EmittedKeys
      BY <1>0, <3>1 DEF NoLostRequest
    <3>3. CASE /\ waiting' = [waiting EXCEPT ![key] = f]
               /\ UNCHANGED tasksToRun
      <4>1. EmittedKeys' = EmittedKeys
        BY <3>3 DEF EmittedKeys
      <4>2. WaitingKeys' = WaitingKeys \cup {key}
        BY <1>0, <3>3, PoolAssumption DEF WaitingKeys
      <4> QED BY <3>2, <4>1, <4>2
    <3>4. CASE /\ UNCHANGED waiting
               /\ tasksToRun' = Append(tasksToRun, [key |-> key, fn |-> f])
      <4>1. EmittedKeys' = EmittedKeys \cup {key}
        BY <1>e, <3>4
      <4>2. WaitingKeys' = WaitingKeys
        BY <3>4 DEF WaitingKeys
      <4> QED BY <3>2, <4>1, <4>2
    <3> QED BY <2>3, <3>3, <3>4, AcceptCases
  <2> QED BY <1>1, <2>1, <2>2, <2>3 DEF SubmitWithKey, tryEnqueue
<1>2. ASSUME NEW w \in Workers, Receive(w)
      PROVE  k \in WaitingKeys' \cup EmittedKeys'
  <2>1. /\ tasksToRun # <<>> /\ tasksToRun' = Tail(tasksToRun)
        /\ owed' = [owed EXCEPT ![Head(tasksToRun).key] = FALSE]
        /\ UNCHANGED waiting
    BY <1>2 DEF Receive
  <2>2. /\ Len(tasksToRun) \in Nat \ {0}
        /\ Head(tasksToRun) = tasksToRun[1]
        /\ Len(tasksToRun') = Len(tasksToRun) - 1
        /\ \A i \in 1..Len(tasksToRun') : tasksToRun'[i] = tasksToRun[i + 1]
    <3> HIDE DEF Task
    <3> QED BY <1>0, <2>1
  <2>3. k # tasksToRun[1].key /\ owed[k]
    BY <1>0, <2>1, <2>2
  <2>4. CASE k \in WaitingKeys
    BY <2>1, <2>4 DEF WaitingKeys
  <2>5. CASE k \in EmittedKeys
    <3>1. PICK i \in 1..Len(tasksToRun) : tasksToRun[i].key = k
      BY <2>5 DEF EmittedKeys
    <3>2. i - 1 \in 1..Len(tasksToRun') /\ tasksToRun'[i - 1] = tasksToRun[i]
      BY <2>2, <2>3, <3>1
    <3> QED BY <3>1, <3>2 DEF EmittedKeys
  <2> QED BY <2>3, <2>4, <2>5 DEF NoLostRequest
<1>3. ASSUME NEW w \in Workers, Finish(w)
      PROVE  k \in WaitingKeys' \cup EmittedKeys'
  <2> DEFINE key == job[w].key
  <2>1. key \in running /\ key \in Keys /\ taskDone(key) /\ owed' = owed
    BY <1>3 DEF Finish, IInv, TypeOK, RunningIsExact, ExecutingKeys, executing
  <2> HIDE DEF key
  <2>2. k \in WaitingKeys \cup EmittedKeys
    BY <2>1 DEF NoLostRequest
  <2>3. CASE UNCHANGED <<waiting, tasksToRun>>
    BY <2>2, <2>3 DEF WaitingKeys, EmittedKeys
  <2>4. CASE /\ waiting[key] # None
             /\ waiting' = [waiting EXCEPT ![key] = None]
             /\ tasksToRun' = Append(tasksToRun, [key |-> key, fn |-> waiting[key]])
    <3>1. [key |-> key, fn |-> waiting[key]] \in Task
      BY <1>0, <2>1, <2>4
    <3>2. EmittedKeys' = EmittedKeys \cup {key}
      BY <1>e, <2>4, <3>1
    <3>3. WaitingKeys' = WaitingKeys \ {key}
      BY <1>0, <2>1, <2>4 DEF WaitingKeys
    <3> QED BY <2>2, <3>2, <3>3
  <2> QED BY <2>1, <2>3, <2>4, DoneCases
<1>4. CASE UNCHANGED vars \/ Stop \/ StopDone \/ StopTimeout \/ \E w \in Workers : Exit(w)
  <2>1. UNCHANGED <<queueVars, owed>>
    BY <1>4 DEF vars, queueVars, Stop, StopDone, StopTimeout, Exit
  <2> QED BY <1>q, <2>1 DEF NoLostRequest
<1> QED
  BY <1>1, <1>2, <1>3, <1>4 DEF Next

\* "A request to re-run a task with the same key is not lost", for every pool.
THEOREM RequestsAreKept == Spec => []NoLostRequest
<1>1. Init => NoLostRequest
  BY DEF Init, NoLostRequest
<1> QED BY <1>1, NoLostStep, Invariant, PTL DEF Spec

-----------------------------------------------------------------------------
\* What makes NoStartAfterStop inductive: Stop returns nil only when every worker
\* has returned, and a worker that returned never comes back.
NilMeansExited == stopResult = "nil" => \A w \in Workers : wstate[w] = "exited"

\* No step of the pool breaks it: workers never leave "exited", StopDone checks it.
LEMMA NilMeansExitedStep == NilMeansExited /\ [Next]_vars => NilMeansExited'
<1> SUFFICES ASSUME NilMeansExited, [Next]_vars PROVE NilMeansExited'
  OBVIOUS
<1> USE DEF NilMeansExited
<1>1. ASSUME NEW key \in Keys, NEW f \in Funcs, SubmitWithKey(key, f) PROVE NilMeansExited'
  BY <1>1 DEF SubmitWithKey, workerVars
<1>2. ASSUME NEW w \in Workers, Receive(w) \/ Finish(w) PROVE NilMeansExited'
  <2>1. wstate[w] # "exited" /\ stopResult' = stopResult
    BY <1>2 DEF Receive, Finish
  <2> QED BY <2>1
<1>3. ASSUME NEW w \in Workers, Exit(w) PROVE NilMeansExited'
  <2>1. wstate[w] # "exited" /\ stopResult' = stopResult
    BY <1>3 DEF Exit
  <2> QED BY <2>1
<1>4. CASE Stop \/ StopDone \/ StopTimeout \/ UNCHANGED vars
  BY <1>4 DEF Stop, StopDone, StopTimeout, vars, workerVars
<1> QED
  BY <1>1, <1>2, <1>3, <1>4 DEF Next

\* After Stop has returned nil no task executes and none is started, however many
\* requests are made afterwards and whatever is left in the channel.
THEOREM StopIsFinal == Spec => NoStartAfterStop
<1>1. Init => NilMeansExited
  BY DEF Init, NilMeansExited
<1>2. NilMeansExited => (stopResult = "nil" => executing = {})
  BY DEF NilMeansExited, executing
<1>3. NilMeansExited' => (stopResult' = "nil" => executing' = {})
  BY DEF NilMeansExited, executing
<1>4. [Next]_vars => (stopResult = "nil" => stopResult' = "nil")
  <2> SUFFICES ASSUME [Next]_vars, stopResult = "nil" PROVE stopResult' = "nil"
    OBVIOUS
  <2> QED
    BY DEF Next, SubmitWithKey, Receive, Finish, Exit, Stop, StopDone, StopTimeout, vars
<1>5. NilMeansExited /\ NilMeansExited' /\ [Next]_vars =>
        [stopResult = "nil" => executing = {} /\ executing' = {}]_vars
  BY <1>2, <1>3, <1>4
<1> QED
  BY <1>1, <1>5, NilMeansExitedStep, PTL DEF Spec, NoStartAfterStop

-----------------------------------------------------------------------------
(***************************************************************************)
(* WorkerPool implements KeyedExecutor (safety).                           *)
(***************************************************************************)
dispatchedMap == [k \in Keys |-> dispatchedFn(k)]
executingMap == [k \in Keys |-> executingFn(k)]

\* The abstract maps without CHOOSE.
MapsExplained ==
  /\ \A i \in 1..Len(tasksToRun) : /\ tasksToRun[i].key \in Keys
                                   /\ tasksToRun[i].fn \in Funcs
                                   /\ dispatchedFn(tasksToRun[i].key) = tasksToRun[i].fn
  /\ \A k \in Keys : k \notin EmittedKeys => dispatchedFn(k) = None
  /\ \A w \in executing : /\ job[w].key \in Keys
                          /\ job[w].fn \in Funcs
                          /\ executingFn(job[w].key) = job[w].fn
  /\ \A k \in Keys : k \notin ExecutingKeys => executingFn(k) = None

\* A key has a dispatched function iff it is in the channel, and an executing one
\* iff a worker runs it.
LEMMA MapFacts == IInv => MapsExplained
<1> SUFFICES ASSUME IInv PROVE MapsExplained
  OBVIOUS
<1>1. ASSUME NEW i \in 1..Len(tasksToRun)
      PROVE  /\ tasksToRun[i].key \in Keys /\ tasksToRun[i].fn \in Funcs
             /\ dispatchedFn(tasksToRun[i].key) = tasksToRun[i].fn
  <2>1. tasksToRun[i] \in Task
    <3> HIDE DEF Task
    <3> QED BY DEF IInv, TypeOK
  <2>2. tasksToRun[i].key \in EmittedKeys
    BY DEF EmittedKeys
  <2>3. (CHOOSE j \in 1..Len(tasksToRun) : tasksToRun[j].key = tasksToRun[i].key) = i
    BY DEF IInv, EachKeyOnce
  <2> QED BY <2>1, <2>2, <2>3 DEF dispatchedFn
<1>2. ASSUME NEW w \in executing
      PROVE  /\ job[w].key \in Keys /\ job[w].fn \in Funcs
             /\ executingFn(job[w].key) = job[w].fn
  <2>1. job[w] \in Task
    BY DEF IInv, TypeOK, executing
  <2>2. job[w].key \in ExecutingKeys
    BY DEF ExecutingKeys
  <2>3. (CHOOSE v \in executing : job[v].key = job[w].key) = w
    BY DEF IInv, EachKeyOnce
  <2> QED BY <2>1, <2>2, <2>3 DEF executingFn
<1> QED
  BY <1>1, <1>2 DEF dispatchedFn, executingFn, MapsExplained

\* Where the abstract maps hold a function.
LEMMA HoldingFacts ==
  ASSUME IInv
  PROVE  /\ Abstract!Holding(waiting) = WaitingKeys
         /\ Abstract!Holding(dispatchedMap) = EmittedKeys
         /\ Abstract!Holding(executingMap) = ExecutingKeys
         /\ Abstract!Active = running
<1>1. \A k \in Keys : dispatchedFn(k) # None <=> k \in EmittedKeys
  BY MapFacts, PoolAssumption DEF EmittedKeys, MapsExplained
<1>2. \A k \in Keys : executingFn(k) # None <=> k \in ExecutingKeys
  BY MapFacts, PoolAssumption DEF ExecutingKeys, MapsExplained
<1>3. EmittedKeys \subseteq Keys /\ ExecutingKeys \subseteq Keys
  BY MapFacts DEF EmittedKeys, ExecutingKeys, MapsExplained
<1>4. /\ Abstract!Holding(dispatchedMap) = EmittedKeys
      /\ Abstract!Holding(executingMap) = ExecutingKeys
  BY <1>1, <1>2, <1>3 DEF Abstract!Holding, dispatchedMap, executingMap
<1>5. Abstract!Active = running
  BY <1>4 DEF Abstract!Active, IInv, RunningIsExact, dispatchedMap, executingMap
<1> QED
  BY <1>4, <1>5 DEF Abstract!Holding, WaitingKeys

\* The same facts in the next state.
LEMMA MapFactsNext == IInv' => MapsExplained'
  BY MapFacts, PTL

\* A step that leaves the channel (the workers' jobs) alone leaves the abstract
\* map alone.
LEMMA MapFrame ==
  ASSUME IInv, IInv'
  PROVE  /\ UNCHANGED tasksToRun => UNCHANGED dispatchedMap
         /\ UNCHANGED job /\ executing' = executing => UNCHANGED executingMap
<1>1. MapsExplained /\ MapsExplained'
  BY MapFacts, MapFactsNext
<1>2. ASSUME UNCHANGED tasksToRun, NEW k \in Keys
      PROVE  dispatchedFn(k)' = dispatchedFn(k)
  <2>1. EmittedKeys' = EmittedKeys
    BY <1>2 DEF EmittedKeys
  <2> QED BY <1>1, <1>2, <2>1 DEF MapsExplained, EmittedKeys
<1>3. ASSUME UNCHANGED job, executing' = executing, NEW k \in Keys
      PROVE  executingFn(k)' = executingFn(k)
  <2>1. ExecutingKeys' = ExecutingKeys
    BY <1>3 DEF ExecutingKeys
  <2> QED BY <1>1, <1>3, <2>1 DEF MapsExplained, ExecutingKeys
<1> QED
  BY <1>2, <1>3 DEF dispatchedMap, executingMap

\* Emitting a key that is not in the channel adds it to the abstract map.
LEMMA EmitMap ==
  ASSUME IInv, IInv', NEW t \in Task, t.key \notin EmittedKeys,
         tasksToRun' = Append(tasksToRun, t)
  PROVE  dispatchedMap' = [dispatchedMap EXCEPT ![t.key] = t.fn]
<1>1. /\ Len(tasksToRun) \in Nat
      /\ Len(tasksToRun') = Len(tasksToRun) + 1
      /\ tasksToRun'[Len(tasksToRun) + 1] = t
      /\ \A j \in 1..Len(tasksToRun) : j \in 1..Len(tasksToRun') /\ tasksToRun'[j] = tasksToRun[j]
      /\ \A j \in 1..Len(tasksToRun') : j = Len(tasksToRun) + 1 \/ j \in 1..Len(tasksToRun)
  <2>1. tasksToRun \in Seq(Task)
    BY DEF IInv, TypeOK
  <2> HIDE DEF Task
  <2> QED BY <2>1, AppendElements
<1>2. Len(tasksToRun) + 1 \in 1..Len(tasksToRun')
  BY <1>1
<1>3. t.key \in Keys /\ t.fn \in Funcs
  OBVIOUS
<1>4. \A i \in 1..Len(tasksToRun') : dispatchedFn(tasksToRun[i].key)' = tasksToRun'[i].fn
  BY MapFactsNext DEF MapsExplained
<1>5. \A k \in Keys : k \notin EmittedKeys' => dispatchedFn(k)' = None
  BY MapFactsNext DEF MapsExplained
<1>6. ASSUME NEW k \in Keys
      PROVE  dispatchedFn(k)' = IF k = t.key THEN t.fn ELSE dispatchedFn(k)
  <2>1. CASE k = t.key
    BY <1>1, <1>2, <1>4, <2>1
  <2>2. CASE k # t.key /\ k \in EmittedKeys
    <3>1. PICK i \in 1..Len(tasksToRun) : tasksToRun[i].key = k
      BY <2>2 DEF EmittedKeys
    <3> QED BY <1>1, <1>4, <2>2, <3>1, MapFacts DEF MapsExplained
  <2>3. CASE k # t.key /\ k \notin EmittedKeys
    <3>1. k \notin EmittedKeys'
      BY <1>1, <2>3 DEF EmittedKeys
    <3> QED BY <1>5, <2>3, <3>1, MapFacts DEF MapsExplained
  <2> QED BY <2>1, <2>2, <2>3
<1> QED
  BY <1>3, <1>6 DEF dispatchedMap

\* A worker's receive moves a key from the one abstract map to the other.
LEMMA ReceiveMap ==
  ASSUME IInv, IInv', NEW w \in Workers, Receive(w)
  PROVE  \E k \in Keys :
           /\ dispatchedMap[k] # None
           /\ executingMap[k] = None
           /\ executingMap' = [executingMap EXCEPT ![k] = dispatchedMap[k]]
           /\ dispatchedMap' = [dispatchedMap EXCEPT ![k] = None]
<1> DEFINE t == tasksToRun[1]
<1>1. MapsExplained /\ MapsExplained'
  BY MapFacts, MapFactsNext
<1>2. /\ tasksToRun \in Seq(Task) /\ tasksToRun # <<>> /\ tasksToRun' = Tail(tasksToRun)
      /\ job' = [job EXCEPT ![w] = Head(tasksToRun)] /\ wstate' = [wstate EXCEPT ![w] = "exec"]
      /\ wstate[w] = "select"
      /\ wstate \in [Workers -> {"select", "exec", "exited"}]
      /\ job \in [Workers -> Task \cup {NoJob}]
  BY DEF Receive, IInv, TypeOK
<1>3. /\ Len(tasksToRun) \in Nat \ {0} /\ 1 \in 1..Len(tasksToRun)
      /\ Head(tasksToRun) = t
      /\ Len(tasksToRun') = Len(tasksToRun) - 1
      /\ \A i \in 1..Len(tasksToRun') : i + 1 \in 1..Len(tasksToRun) /\ tasksToRun'[i] = tasksToRun[i + 1]
      /\ \A i \in 2..Len(tasksToRun) : i - 1 \in 1..Len(tasksToRun') /\ tasksToRun'[i - 1] = tasksToRun[i]
      /\ \A i \in 1..Len(tasksToRun) : i = 1 \/ i \in 2..Len(tasksToRun)
  <2>1. Len(tasksToRun) \in Nat \ {0} /\ Head(tasksToRun) = t /\ Len(tasksToRun') = Len(tasksToRun) - 1
    <3> HIDE DEF Task
    <3> QED BY <1>2
  <2>2. \A i \in 1..Len(tasksToRun') : tasksToRun'[i] = tasksToRun[i + 1]
    <3> HIDE DEF Task
    <3> QED BY <1>2
  <2> HIDE DEF t
  <2> QED BY <2>1, <2>2
<1>4. t.key \in Keys /\ t.fn \in Funcs /\ t.fn # None /\ dispatchedFn(t.key) = t.fn
  BY <1>1, <1>3, PoolAssumption DEF MapsExplained
<1>5. /\ executing' = executing \cup {w}
      /\ job'[w] = t /\ \A v \in executing : job'[v] = job[v]
  BY <1>2, <1>3 DEF executing
<1>6. t.key \notin ExecutingKeys
  BY <1>3 DEF IInv, EachKeyOnce, ExecutingKeys
<1> HIDE DEF t
<1>7. ASSUME NEW k \in Keys
      PROVE  dispatchedFn(k)' = IF k = t.key THEN None ELSE dispatchedFn(k)
  <2>1. CASE k = t.key
    <3>1. k \notin EmittedKeys'
      <4>1. \A i \in 1..Len(tasksToRun') : tasksToRun'[i].key # t.key
        <5> SUFFICES ASSUME NEW i \in 1..Len(tasksToRun'), tasksToRun'[i].key = t.key PROVE FALSE
          OBVIOUS
        <5>1. i + 1 = 1
          BY <1>3 DEF IInv, EachKeyOnce, t
        <5> QED BY <1>3, <5>1
      <4> QED BY <2>1, <4>1 DEF EmittedKeys
    <3> QED BY <1>1, <2>1, <3>1 DEF MapsExplained
  <2>2. CASE k # t.key /\ k \in EmittedKeys
    <3>1. PICK i \in 1..Len(tasksToRun) : tasksToRun[i].key = k
      BY <2>2 DEF EmittedKeys
    <3>2. i - 1 \in 1..Len(tasksToRun') /\ tasksToRun'[i - 1] = tasksToRun[i]
      BY <1>3, <2>2, <3>1 DEF t
    <3>3. dispatchedFn(k) = tasksToRun[i].fn
      BY <1>1, <3>1 DEF MapsExplained
    <3>4. dispatchedFn(k)' = tasksToRun'[i - 1].fn
      BY <1>1, <3>1, <3>2 DEF MapsExplained
    <3> QED BY <2>2, <3>2, <3>3, <3>4
  <2>3. CASE k # t.key /\ k \notin EmittedKeys
    <3>1. \A i \in 1..Len(tasksToRun') : tasksToRun'[i].key # k
      <4>1. \A i \in 1..Len(tasksToRun) : tasksToRun[i].key # k
        BY <2>3 DEF EmittedKeys
      <4> QED BY <1>3, <4>1
    <3>2. k \notin EmittedKeys'
      BY <3>1 DEF EmittedKeys
    <3> QED BY <1>1, <2>3, <3>2 DEF MapsExplained
  <2> QED BY <2>1, <2>2, <2>3
<1>8. ASSUME NEW k \in Keys
      PROVE  executingFn(k)' = IF k = t.key THEN t.fn ELSE executingFn(k)
  <2>1. CASE k = t.key
    BY <1>1, <1>5, <2>1 DEF MapsExplained
  <2>2. CASE k # t.key /\ k \in ExecutingKeys
    <3>1. PICK v \in executing : job[v].key = k
      BY <2>2 DEF ExecutingKeys
    <3> QED BY <1>1, <1>5, <2>2, <3>1 DEF MapsExplained
  <2>3. CASE k # t.key /\ k \notin ExecutingKeys
    <3>1. k \notin ExecutingKeys'
      BY <1>5, <2>3 DEF ExecutingKeys
    <3> QED BY <1>1, <2>3, <3>1 DEF MapsExplained
  <2> QED BY <2>1, <2>2, <2>3
<1>9. executingFn(t.key) = None
  BY <1>1, <1>4, <1>6 DEF MapsExplained
<1>10. /\ dispatchedMap[t.key] # None
       /\ executingMap[t.key] = None
       /\ executingMap' = [executingMap EXCEPT ![t.key] = dispatchedMap[t.key]]
       /\ dispatchedMap' = [dispatchedMap EXCEPT ![t.key] = None]
  BY <1>4, <1>7, <1>8, <1>9 DEF dispatchedMap, executingMap
<1> QED
  BY <1>4, <1>10

\* A worker that finishes releases the job that waited under its key.
LEMMA FinishMap ==
  ASSUME IInv, IInv', NEW w \in Workers, Finish(w)
  PROVE  \E k \in Keys :
           /\ executingMap[k] # None
           /\ dispatchedMap[k] = None
           /\ executingMap' = [executingMap EXCEPT ![k] = None]
           /\ dispatchedMap' = [dispatchedMap EXCEPT ![k] = waiting[k]]
           /\ waiting' = [waiting EXCEPT ![k] = None]
<1> DEFINE k == job[w].key
<1>1. MapsExplained /\ MapsExplained'
  BY MapFacts, MapFactsNext
<1>2. /\ w \in executing /\ k \in Keys /\ k \in ExecutingKeys /\ k \in running
      /\ job[w].fn \in Funcs /\ executingFn(k) = job[w].fn
  BY <1>1 DEF Finish, executing, ExecutingKeys, MapsExplained, IInv, RunningIsExact
<1>3. /\ executing' = executing \ {w}
      /\ \A v \in executing \ {w} : job'[v] = job[v] /\ job[v].key # k
  BY <1>2 DEF Finish, executing, IInv, TypeOK, EachKeyOnce
<1>4. k \notin EmittedKeys
  BY <1>2 DEF IInv, EachKeyOnce, EmittedKeys
<1>5. taskDone(k) /\ waiting \in [Keys -> Funcs \cup {None}]
  BY DEF Finish, IInv, TypeOK
<1> HIDE DEF k
<1>6. ASSUME NEW x \in Keys
      PROVE  executingFn(x)' = IF x = k THEN None ELSE executingFn(x)
  <2>1. CASE x = k
    <3>1. x \notin ExecutingKeys'
      BY <1>3, <2>1 DEF ExecutingKeys
    <3> QED BY <1>1, <2>1, <3>1 DEF MapsExplained
  <2>2. CASE x # k /\ x \in ExecutingKeys
    <3>1. PICK v \in executing : job[v].key = x
      BY <2>2 DEF ExecutingKeys
    <3>2. v \in executing' /\ job'[v] = job[v]
      BY <1>3, <2>2, <3>1 DEF k
    <3> QED BY <1>1, <2>2, <3>1, <3>2 DEF MapsExplained
  <2>3. CASE x # k /\ x \notin ExecutingKeys
    <3>1. x \notin ExecutingKeys'
      BY <1>3, <2>3 DEF ExecutingKeys
    <3> QED BY <1>1, <2>3, <3>1 DEF MapsExplained
  <2> QED BY <2>1, <2>2, <2>3
<1>7. /\ executingMap[k] # None /\ dispatchedMap[k] = None
      /\ executingMap' = [executingMap EXCEPT ![k] = None]
  BY <1>1, <1>2, <1>4, <1>6, PoolAssumption DEF MapsExplained, executingMap, dispatchedMap
<1>8. CASE waiting[k] = None /\ UNCHANGED <<waiting, tasksToRun>>
  <2>1. dispatchedMap' = dispatchedMap
    BY <1>8, MapFrame
  <2>2. [dispatchedMap EXCEPT ![k] = waiting[k]] = dispatchedMap
    BY <1>7, <1>8 DEF dispatchedMap
  <2>3. [waiting EXCEPT ![k] = None] = waiting
    BY <1>5, <1>8
  <2> QED BY <1>2, <1>7, <1>8, <2>1, <2>2, <2>3
<1>9. CASE /\ waiting[k] # None
           /\ waiting' = [waiting EXCEPT ![k] = None]
           /\ tasksToRun' = Append(tasksToRun, [key |-> k, fn |-> waiting[k]])
  <2>1. [key |-> k, fn |-> waiting[k]] \in Task
    BY <1>2, <1>5, <1>9
  <2>2. dispatchedMap' = [dispatchedMap EXCEPT ![k] = waiting[k]]
    BY <1>4, <1>9, <2>1, EmitMap
  <2> QED BY <1>2, <1>7, <1>9, <2>2
<1> QED
  BY <1>2, <1>5, <1>8, <1>9, DoneCases

\* Every step of the pool is a step of the abstract machine or leaves it unchanged.
LEMMA RefinementStep ==
  IInv /\ IInv' /\ [Next]_vars => [Abstract!Next]_(Abstract!vars)
<1> SUFFICES ASSUME IInv, IInv', [Next]_vars PROVE [Abstract!Next]_(Abstract!vars)
  OBVIOUS
<1>s. ASSUME UNCHANGED <<waiting, tasksToRun, job, quit>>, executing' = executing
      PROVE  UNCHANGED Abstract!vars
  BY <1>s, MapFrame DEF Abstract!vars, dispatchedMap, executingMap
<1>1. ASSUME NEW key \in Keys, NEW f \in Funcs, SubmitWithKey(key, f)
      PROVE  [Abstract!Next]_(Abstract!vars)
  <2>0. UNCHANGED <<job, quit>> /\ executing' = executing
    BY <1>1 DEF SubmitWithKey, workerVars, executing
  <2>1. CASE coalesce(key) \/ reject(key)
    <3>1. UNCHANGED <<waiting, tasksToRun>>
      BY <2>1 DEF coalesce, reject, queueVars
    <3> QED BY <1>s, <2>0, <3>1
  <2>2. CASE accept(key, f)
    <3>1. /\ waiting[key] = None
          /\ Cardinality(WaitingKeys) + Cardinality(running) < MaxSize
      BY <2>2 DEF accept, queueSize, IInv, Counts
    <3>2. Abstract!Cardinality(Abstract!Holding(waiting)) + Abstract!Cardinality(Abstract!Active) < MaxSize
      <4>1. \A S : Abstract!Cardinality(S) = Cardinality(S)
        BY DEF Abstract!Cardinality, Cardinality
      <4> QED BY <3>1, <4>1, HoldingFacts
    <3>3. UNCHANGED executingMap
      BY <2>0, MapFrame
    <3>4. CASE /\ key \in running
               /\ waiting' = [waiting EXCEPT ![key] = f]
               /\ UNCHANGED tasksToRun
      <4>1. UNCHANGED dispatchedMap
        BY <3>4, MapFrame
      <4>2. key \in Abstract!Active
        BY <3>4, HoldingFacts
      <4>3. Abstract!Request(key, f)
        <5>1. UNCHANGED [k \in Keys |-> dispatchedFn(k)] /\ UNCHANGED [k \in Keys |-> executingFn(k)]
          BY <3>3, <4>1 DEF dispatchedMap, executingMap
        <5> QED BY <2>0, <3>1, <3>2, <3>4, <4>2, <5>1, Zenon DEF Abstract!Request
      <4> QED BY <4>3 DEF Abstract!Next
    <3>5. CASE /\ key \notin running
               /\ UNCHANGED waiting
               /\ tasksToRun' = Append(tasksToRun, [key |-> key, fn |-> f])
      <4>1. key \notin EmittedKeys
        BY <3>5 DEF IInv, RunningIsExact
      <4>2. [key |-> key, fn |-> f] \in Task
        OBVIOUS
      <4>3. dispatchedMap' = [dispatchedMap EXCEPT ![key] = f]
        BY <3>5, <4>1, <4>2, EmitMap
      <4>4. key \notin Abstract!Active
        BY <3>5, HoldingFacts
      <4>5. Abstract!Request(key, f)
        <5>1. /\ [k \in Keys |-> dispatchedFn(k)]' = [[k \in Keys |-> dispatchedFn(k)] EXCEPT ![key] = f]
              /\ UNCHANGED [k \in Keys |-> executingFn(k)]
          BY <3>3, <4>3 DEF dispatchedMap, executingMap
        <5> QED BY <2>0, <3>1, <3>2, <3>5, <4>4, <5>1, Zenon DEF Abstract!Request
      <4> QED BY <4>5 DEF Abstract!Next
    <3> QED BY <2>2, <3>4, <3>5, AcceptCases
  <2> QED BY <1>1, <2>1, <2>2 DEF SubmitWithKey, tryEnqueue
<1>2. ASSUME NEW w \in Workers, Receive(w)
      PROVE  [Abstract!Next]_(Abstract!vars)
  <2>1. UNCHANGED <<waiting, quit>>
    BY <1>2 DEF Receive
  <2>2. \E k \in Keys : Abstract!Begin(k)
    BY <1>2, <2>1, ReceiveMap DEF Abstract!Begin, dispatchedMap, executingMap
  <2> QED BY <2>2 DEF Abstract!Next
<1>3. ASSUME NEW w \in Workers, Finish(w)
      PROVE  [Abstract!Next]_(Abstract!vars)
  <2>1. UNCHANGED quit
    BY <1>3 DEF Finish
  <2>2. \E k \in Keys : Abstract!End(k)
    BY <1>3, <2>1, FinishMap DEF Abstract!End, dispatchedMap, executingMap
  <2> QED BY <2>2 DEF Abstract!Next
<1>4. CASE Stop
  <2>1. /\ UNCHANGED <<waiting, tasksToRun, job>> /\ quit' = TRUE
        /\ executing' = executing
    BY <1>4 DEF Stop, queueVars, workerVars, executing
  <2>2. UNCHANGED <<dispatchedMap, executingMap>>
    BY <2>1, MapFrame
  <2>3. Abstract!Close
    BY <2>1, <2>2 DEF Abstract!Close, dispatchedMap, executingMap
  <2> QED BY <2>3 DEF Abstract!Next
<1>5. CASE StopDone \/ StopTimeout \/ UNCHANGED vars
  <2>1. UNCHANGED <<waiting, tasksToRun, job, quit>> /\ executing' = executing
    BY <1>5 DEF StopDone, StopTimeout, vars, queueVars, workerVars, executing
  <2> QED BY <1>s, <2>1
<1>6. ASSUME NEW w \in Workers, Exit(w)
      PROVE  [Abstract!Next]_(Abstract!vars)
  <2>1. UNCHANGED <<waiting, tasksToRun, job, quit>> /\ executing' = executing
    BY <1>6 DEF Exit, queueVars, executing, IInv, TypeOK
  <2> QED BY <1>s, <2>1
<1> QED
  BY <1>1, <1>2, <1>3, <1>4, <1>5, <1>6 DEF Next

\* The pool of the code, with its queue, channel and workers, behaves as one
\* independent machine per key (safety part; the fairness part is model-checked).
THEOREM Refinement == Spec => Abstract!Spec
<1>1. Init => Abstract!Init
  <2> SUFFICES ASSUME Init PROVE Abstract!Init
    OBVIOUS
  <2>1. EmittedKeys = {} /\ ExecutingKeys = {}
    BY DEF Init, EmittedKeys, ExecutingKeys, executing
  <2>2. \A k \in Keys : dispatchedFn(k) = None /\ executingFn(k) = None
    BY <2>1 DEF dispatchedFn, executingFn
  <2> QED BY <2>2 DEF Init, Abstract!Init
<1> QED
  BY <1>1, RefinementStep, Invariant, PTL DEF Spec, Abstract!Spec
=============================================================================

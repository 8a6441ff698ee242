--------------------------- MODULE LokiWalProofs ---------------------------
(***************************************************************************)
(* Proofs about LokiWal for any number of endpoints, entries and segments, *)
(* any sizes of batches and channel: nothing is left behind, the tracker's *)
(* books are exact, and the segments before the marked one are consumed.   *)
(***************************************************************************)
EXTENDS LokiWal, FiniteSetTheorems, SequenceTheorems, WellFoundedInduction, TLAPS

(***************************************************************************)
(* The inductive invariant.                                                *)
(***************************************************************************)

Update == [seg : Segments, n : Int]

WatcherType ==
  [state : {"running", "draining", "stopping"},
   pc : {"begin", "open", "select", "read", "append", "received", "wait", "done"},
   atStart : Segments, seg : Nat, pos : Nat, final : BOOLEAN,
   series : Segments \cup {None}, rcv : {0, 1}]
QueueType ==
  [batch : Seq(Nat), chan : Seq(Seq(Nat)), closed : BOOLEAN,
   pc : {"select", "send", "exited"}, sending : Seq(Seq(Nat))]
TrackerType ==
  [updates : Seq(Update), counts : [Segments -> Int \cup {None}], marked : Int]

TypeOK ==
  /\ log \in [Segments -> Seq(Nat)]
  /\ first \in Segments /\ last \in Segments /\ first <= last
  /\ marker \in Int /\ marker <= last
  /\ mode \in {"up", "stopping", "down"}
  /\ ppc \in [Endpoints -> {"run", "drain", "stop", "hard", "stopped"}]
  /\ watcher \in [Endpoints -> WatcherType]
  /\ queue \in [Endpoints -> QueueType]
  /\ tracker \in [Endpoints -> TrackerType]
  /\ done \in [Endpoints -> SUBSET Nat] /\ limited \in [Endpoints -> SUBSET Nat]
  /\ aged \subseteq Segments

\* Entries are numbered as they are written, and each is in one place.
LogOK ==
  /\ \A s, t \in Segments : \A i \in 1..Len(log[s]), j \in 1..Len(log[t]) :
       log[s][i] = log[t][j] => s = t /\ i = j
  /\ IsFiniteSet(Written) /\ Written = 1..Cardinality(Written)
  /\ \A s \in Segments : s > last => log[s] = <<>>

\* Where watcher, shard and the goroutine that stops them are together.
Phases(e) ==
  /\ mode = "up" => watcher[e].state = "running"
  /\ mode = "stopping" => watcher[e].state # "running"
  /\ mode = "down" => /\ watcher[e] = NewWatcher /\ queue[e] = NewQueue
                      /\ tracker[e] = NewTracker(marker) /\ limited[e] = {}
  /\ ppc[e] # "run" => mode = "stopping"
  /\ watcher[e].pc = "done" => watcher[e].state = "stopping"
  /\ ppc[e] \in {"hard", "stopped"} => watcher[e].pc = "done"
  /\ queue[e].pc = "send" <=> queue[e].sending # <<>>

Reading(e) == watcher[e].pc \in {"open", "select", "read", "append", "received", "wait"}

\* The position of the watcher.  A watcher that runs is never ahead of the log.
PositionOK(e) ==
  /\ watcher[e].atStart <= last
  /\ watcher[e].pc = "open" => watcher[e].pos = 0
  /\ watcher[e].pc \in {"select", "read", "append", "received"} =>
       watcher[e].seg <= last /\ watcher[e].pos <= Len(log[watcher[e].seg])
  /\ watcher[e].pc \in {"append", "received"} => watcher[e].pos < Len(log[watcher[e].seg])
  /\ watcher[e].state = "running" /\ Reading(e) => watcher[e].seg <= last
  /\ watcher[e].state = "running" /\ watcher[e].pc \in {"read", "append", "received"}
       /\ watcher[e].final => watcher[e].seg < last
  /\ watcher[e].state # "stopping" /\ watcher[e].pc = "wait" => watcher[e].seg < first

\* Entry number i of segment s has been read.
Read(e, s, i) ==
  \/ s < watcher[e].seg
  \/ s = watcher[e].seg /\ i <= watcher[e].pos + (IF watcher[e].pc = "received" THEN 1 ELSE 0)

\* No entry is read twice: what is queued or was dropped at the stream limit has been
\* read, and a watcher that begins again begins behind it.
Handled(e) == InFlight(e) \cup limited[e]
HandledIsRead(e) ==
  /\ Handled(e) \subseteq Written
  /\ \A s \in Segments : \A i \in 1..Len(log[s]) : log[s][i] \in Handled(e) =>
       /\ Reading(e) => Read(e, s, i)
       /\ watcher[e].pc = "begin" /\ watcher[e].state # "stopping" => s < first

\* Every entry is in one place of the queue.
Apart(p) ==
  \A i, j \in 1..Len(p) : \A k \in 1..Len(p[i]), l \in 1..Len(p[j]) :
    p[i][k] = p[j][l] => i = j /\ k = l

\* Segments that the tracker knows of, or will learn of.
Known(e) == {s \in Segments : tracker[e].counts[s] # None}
Told(e) == {tracker[e].updates[i].seg : i \in 1..Len(tracker[e].updates)}
Touched(e) == Known(e) \cup Told(e) \cup {SegmentOf(x) : x \in InFlight(e)}

\* The watcher has come to every segment that is touched, and entries before it are
\* queued or done with.
TouchedIsReached(e) ==
  \A t \in Touched(e) :
    /\ t <= last
    /\ Reading(e) => t <= watcher[e].seg
    /\ watcher[e].pc = "begin" /\ watcher[e].state # "stopping" => t < first
    /\ \A x \in Written : SegmentOf(x) < t => x \in done[e] \cup InFlight(e)

\* Entries of a segment are reported as received before anything of a later segment is
\* reported.
InOrder(e) ==
  \A j \in 1..Len(tracker[e].updates) :
    /\ \A t \in Known(e) : tracker[e].updates[j].seg < t => tracker[e].updates[j].n <= 0
    /\ \A i \in 1..(j - 1) :
         tracker[e].updates[j].seg < tracker[e].updates[i].seg => tracker[e].updates[j].n <= 0

\* The two properties for one endpoint.
LeavesNothing(e) ==
  Reading(e) => \A s \in Segments : \A i \in 1..Len(log[s]) :
    Read(e, s, i) => log[s][i] \in done[e] \cup InFlight(e)
OfSegment(S, s) == {x \in S : SegmentOf(x) = s}
CountsExactly(e) ==
  \A s \in Segments \ aged :
    Counted(e, s) = Cardinality(OfSegment(InFlight(e), s)) + Cardinality(OfSegment(limited[e], s))

EInv(e) ==
  /\ Phases(e) /\ PositionOK(e)
  /\ HandledIsRead(e) /\ Apart(Batches(e))
  /\ TouchedIsReached(e) /\ InOrder(e)
  /\ LeavesNothing(e) /\ CountsExactly(e)

IInv == TypeOK /\ LogOK /\ \A e \in Endpoints : EInv(e)

-----------------------------------------------------------------------------
(***************************************************************************)
(* Sums of updates                                                         *)
(***************************************************************************)

\* Induction over a set of natural numbers.
LEMMA SetInduction ==
  ASSUME NEW S, 0 \in S, \A n \in Nat : n \in S => n + 1 \in S
  PROVE  Nat \subseteq S
<1> SUFFICES ASSUME NEW k \in Nat, k \notin S PROVE FALSE
  OBVIOUS
<1> DEFINE T == {0..n : n \in {m \in Nat : m \notin S}}
<1>1. T \subseteq FiniteSubsetsOf(Nat) /\ T # {}
  <2>1. ASSUME NEW n \in Nat PROVE 0..n \in FiniteSubsetsOf(Nat)
    BY FS_Interval DEF FiniteSubsetsOf
  <2> QED BY <2>1
<1> HIDE DEF T
<1>2. PICK R \in T : \A Q \in T : <<Q, R>> \notin StrictSubsetOrdering(Nat)
  BY <1>1, FS_StrictSubsetOrderingWellFounded, WFMin
<1> USE DEF T
<1>3. PICK m \in Nat : R = 0..m /\ m \notin S
  BY <1>2
<1>4. m # 0 /\ m - 1 \in Nat
  BY <1>3
<1>5. m - 1 \notin S
  <2>1. (m - 1) + 1 = m
    BY <1>4
  <2> QED BY <1>3, <1>4, <2>1
<1>6. 0..(m - 1) \in T
  BY <1>4, <1>5
<1>7. <<0..(m - 1), 0..m>> \in StrictSubsetOrdering(Nat)
  <2>1. 0..(m - 1) \subseteq 0..m /\ m \in 0..m /\ m \notin 0..(m - 1)
    BY <1>3, <1>4
  <2>2. 0..(m - 1) \in SUBSET Nat /\ 0..m \in SUBSET Nat
    BY <1>3, <1>4
  <2> QED BY <2>1, <2>2 DEF StrictSubsetOrdering
<1> QED BY <1>2, <1>3, <1>6, <1>7

\* What an update adds to the count of segment s.
Weight(u, s) == IF u.seg = s THEN u.n ELSE 0

\* f has the partial sums of the updates u.
Partial(u, s, f) ==
  /\ f \in [0..Len(u) -> Int]
  /\ f[0] = 0
  /\ \A i \in 1..Len(u) : f[i] = f[i - 1] + Weight(u[i], s)

LEMMA WeightType ==
  ASSUME NEW u \in Seq(Update), NEW s, NEW i \in 1..Len(u)
  PROVE  Weight(u[i], s) \in Int /\ u[i] \in Update
<1>1. u[i] \in Update
  BY ElementOfSeq
<1> QED BY <1>1 DEF Update, Weight

LEMMA PartialExists ==
  ASSUME NEW u \in Seq(Update), NEW s
  PROVE  \E f : Partial(u, s, f)
<1> DEFINE Upto(n, f) == /\ f \in [0..n -> Int]
                         /\ f[0] = 0
                         /\ \A i \in 1..n : f[i] = f[i - 1] + Weight(u[i], s)
           S == {n \in Nat : n <= Len(u) => \E f : Upto(n, f)}
<1>0. Len(u) \in Nat
  BY LenProperties
<1>1. 0 \in S
  <2> DEFINE z == [i \in 0..0 |-> 0]
  <2>1. z \in [0..0 -> Int] /\ z[0] = 0
    OBVIOUS
  <2> HIDE DEF z
  <2>2. Upto(0, z)
    BY <2>1
  <2> HIDE DEF Upto
  <2> QED BY <2>2
<1> HIDE DEF Upto
<1>2. ASSUME NEW n \in Nat, n \in S PROVE n + 1 \in S
  <2> SUFFICES ASSUME n + 1 <= Len(u) PROVE \E f : Upto(n + 1, f)
    OBVIOUS
  <2>1. PICK f : Upto(n, f)
    BY <1>0, <1>2
  <2> USE DEF Upto
  <2>2. Weight(u[n + 1], s) \in Int
    <3>1. n + 1 \in 1..Len(u)
      BY <1>0
    <3> HIDE DEF Upto, S
    <3> QED BY <3>1, WeightType
  <2> DEFINE g == [i \in 0..(n + 1) |-> IF i = n + 1 THEN f[n] + Weight(u[n + 1], s) ELSE f[i]]
  <2>3. g \in [0..(n + 1) -> Int] /\ g[0] = 0
    BY <2>1, <2>2
  <2>4. ASSUME NEW i \in 1..(n + 1) PROVE g[i] = g[i - 1] + Weight(u[i], s)
    <3>1. i - 1 \in 0..n /\ i \in 0..(n + 1)
      OBVIOUS
    <3> QED BY <2>1, <3>1
  <2>5. Upto(n + 1, g)
    BY <2>3, <2>4
  <2> HIDE DEF Upto
  <2> QED BY <2>5
<1>3. Nat \subseteq S
  BY <1>1, <1>2, SetInduction
<1>4. PICK f : Upto(Len(u), f)
  BY <1>0, <1>3
<1> USE DEF Upto
<1> QED BY <1>4 DEF Partial

LEMMA PartialUnique ==
  ASSUME NEW u \in Seq(Update), NEW s, NEW f, NEW g, Partial(u, s, f), Partial(u, s, g)
  PROVE  f = g
<1> DEFINE S == {n \in Nat : n <= Len(u) => f[n] = g[n]}
<1>0. Len(u) \in Nat
  BY LenProperties
<1>1. 0 \in S
  BY DEF Partial
<1>2. ASSUME NEW n \in Nat, n \in S PROVE n + 1 \in S
  <2> SUFFICES ASSUME n + 1 <= Len(u) PROVE f[n + 1] = g[n + 1]
    OBVIOUS
  <2>1. n + 1 \in 1..Len(u) /\ (n + 1) - 1 = n /\ f[n] = g[n]
    BY <1>0, <1>2
  <2> QED BY <2>1 DEF Partial
<1>3. Nat \subseteq S
  <2> HIDE DEF S
  <2> QED BY <1>1, <1>2, SetInduction
<1>4. \A i \in 0..Len(u) : f[i] = g[i]
  BY <1>0, <1>3
<1> QED BY <1>4 DEF Partial

LEMMA TotalIs ==
  ASSUME NEW u \in Seq(Update), NEW s, NEW f, Partial(u, s, f)
  PROVE  Total(u, s) = f[Len(u)] /\ Total(u, s) \in Int
<1> DEFINE Sum(h) == [i \in 0..Len(u) |-> IF i = 0 THEN 0
                        ELSE h[i - 1] + (IF u[i].seg = s THEN u[i].n ELSE 0)]
           g == CHOOSE h : h = Sum(h)
<1>0. Len(u) \in Nat
  BY LenProperties
<1>1. f = Sum(f)
  <2>1. f \in [0..Len(u) -> Int]
    BY DEF Partial
  <2>2. ASSUME NEW i \in 0..Len(u) PROVE f[i] = Sum(f)[i]
    <3>1. i = 0 \/ i \in 1..Len(u)
      BY <1>0
    <3> QED BY <3>1 DEF Partial, Weight
  <2>3. Sum(f) = [i \in 0..Len(u) |-> Sum(f)[i]] /\ f = [i \in 0..Len(u) |-> f[i]]
    BY <2>1
  <2> HIDE DEF Sum
  <2> QED BY <2>2, <2>3
<1>2. g = Sum(g)
  BY <1>1
<1>3. Total(u, s) = g[Len(u)]
  BY DEF Total
<1> HIDE DEF g
<1>4. g = f
  <2> DEFINE S == {n \in Nat : n <= Len(u) => g[n] = f[n]}
  <2>1. 0 \in S
    <3>1. g[0] = 0
      BY <1>0, <1>2
    <3> QED BY <3>1 DEF Partial
  <2>2. ASSUME NEW n \in Nat, n \in S PROVE n + 1 \in S
    <3> SUFFICES ASSUME n + 1 <= Len(u) PROVE g[n + 1] = f[n + 1]
      OBVIOUS
    <3>1. n + 1 \in 1..Len(u) /\ n + 1 \in 0..Len(u) /\ (n + 1) - 1 = n /\ g[n] = f[n] /\ n + 1 # 0
      BY <1>0, <2>2
    <3>2. g[n + 1] = g[n] + Weight(u[n + 1], s)
      BY <1>2, <3>1 DEF Weight
    <3> QED BY <3>1, <3>2 DEF Partial
  <2>3. Nat \subseteq S
    <3> HIDE DEF S
    <3> QED BY <2>1, <2>2, SetInduction
  <2>4. \A i \in 0..Len(u) : g[i] = f[i]
    BY <1>0, <2>3
  <2>5. g = [i \in 0..Len(u) |-> g[i]]
    BY <1>2
  <2>6. f = [i \in 0..Len(u) |-> f[i]]
    BY DEF Partial
  <2> QED BY <2>4, <2>5, <2>6
<1> QED BY <1>0, <1>3, <1>4 DEF Partial

LEMMA TotalPartial ==
  ASSUME NEW u \in Seq(Update), NEW s
  PROVE  \E f : Partial(u, s, f) /\ Total(u, s) = f[Len(u)] /\ Total(u, s) \in Int
BY PartialExists, TotalIs

LEMMA TotalEmpty == \A s : Total(<<>>, s) = 0
<1> TAKE s
<1>1. <<>> \in Seq(Update) /\ Len(<<>>) = 0
  BY EmptySeq
<1>2. PICK f : Partial(<<>>, s, f) /\ Total(<<>>, s) = f[Len(<<>>)]
  BY <1>1, TotalPartial
<1> QED BY <1>1, <1>2 DEF Partial

LEMMA TotalAppend ==
  ASSUME NEW u \in Seq(Update), NEW x \in Update, NEW s
  PROVE  Total(Append(u, x), s) = Total(u, s) + Weight(x, s)
<1>0. Len(u) \in Nat
  BY LenProperties
<1>1. PICK f : Partial(u, s, f) /\ Total(u, s) = f[Len(u)]
  BY TotalPartial
<1>2. PICK v : v = Append(u, x)
  OBVIOUS
<1>3. v \in Seq(Update) /\ Len(v) = Len(u) + 1 /\ v[Len(u) + 1] = x /\ \A i \in 1..Len(u) : v[i] = u[i]
  BY <1>2, AppendProperties
<1> DEFINE g == [i \in 0..Len(v) |-> IF i = Len(v) THEN f[Len(u)] + Weight(x, s) ELSE f[i]]
<1>4. Weight(x, s) \in Int
  BY DEF Weight, Update
<1>5. Partial(v, s, g)
  <2>1. g \in [0..Len(v) -> Int] /\ g[0] = 0
    BY <1>0, <1>1, <1>3, <1>4 DEF Partial
  <2>2. ASSUME NEW i \in 1..Len(v) PROVE g[i] = g[i - 1] + Weight(v[i], s)
    <3>1. i - 1 \in 0..Len(u) /\ i - 1 \in 0..Len(v) /\ i \in 0..Len(v)
      BY <1>0, <1>3
    <3>2. g[i - 1] = f[i - 1]
      BY <1>0, <1>3, <3>1
    <3>3. CASE i = Len(v)
      <4>1. i = Len(u) + 1 /\ i - 1 = Len(u)
        BY <1>0, <1>3, <3>3
      <4> QED BY <1>3, <3>1, <3>2, <3>3, <4>1
    <3>4. CASE i # Len(v)
      <4>1. i \in 1..Len(u)
        BY <1>0, <1>3, <3>4
      <4>2. g[i] = f[i]
        BY <3>1, <3>4
      <4> QED BY <1>1, <1>3, <3>2, <4>1, <4>2 DEF Partial
    <3> QED BY <3>3, <3>4
  <2> HIDE DEF g
  <2> QED BY <2>1, <2>2 DEF Partial
<1>6. g[Len(v)] = f[Len(u)] + Weight(x, s)
  BY <1>0, <1>3
<1> HIDE DEF g
<1>7. Total(v, s) = g[Len(v)]
  BY <1>3, <1>5, TotalIs
<1> QED BY <1>1, <1>2, <1>6, <1>7

LEMMA TotalTail ==
  ASSUME NEW u \in Seq(Update), u # <<>>, NEW s
  PROVE  Total(u, s) = Weight(Head(u), s) + Total(Tail(u), s)
<1>0. Len(u) \in Nat \ {0} /\ Head(u) = u[1]
  BY EmptySeq
<1>1. PICK f : Partial(u, s, f) /\ Total(u, s) = f[Len(u)]
  BY TotalPartial
<1>2. PICK v : v = Tail(u)
  OBVIOUS
<1>3. v \in Seq(Update) /\ Len(v) = Len(u) - 1 /\ \A i \in 1..Len(v) : v[i] = u[i + 1]
  BY <1>2, HeadTailProperties
<1> DEFINE g == [i \in 0..Len(v) |-> f[i + 1] - f[1]]
<1>4. \A i \in 0..Len(u) : f[i] \in Int
  BY <1>1 DEF Partial
<1>5. Partial(v, s, g)
  <2>1. g \in [0..Len(v) -> Int] /\ g[0] = 0
    BY <1>0, <1>3, <1>4
  <2>2. ASSUME NEW i \in 1..Len(v) PROVE g[i] = g[i - 1] + Weight(v[i], s)
    <3>1. i + 1 \in 1..Len(u) /\ i - 1 \in 0..Len(v) /\ i \in 0..Len(v)
          /\ (i + 1) - 1 = i /\ (i - 1) + 1 = i /\ i \in 0..Len(u) /\ 1 \in 0..Len(u) /\ i + 1 \in 0..Len(u)
      BY <1>0, <1>3
    <3>2. f[i + 1] = f[i] + Weight(u[i + 1], s)
      BY <1>1, <3>1 DEF Partial
    <3>3. g[i] = f[i + 1] - f[1] /\ g[i - 1] = f[i] - f[1] /\ v[i] = u[i + 1]
      BY <1>3, <3>1
    <3>4. Weight(u[i + 1], s) \in Int
      <4> HIDE DEF g
      <4> QED BY <3>1, WeightType
    <3>5. f[i] \in Int /\ f[1] \in Int /\ f[i + 1] \in Int
      BY <1>4, <3>1
    <3> HIDE DEF g
    <3> QED BY <3>2, <3>3, <3>4, <3>5
  <2> HIDE DEF g
  <2> QED BY <2>1, <2>2 DEF Partial
<1>6. g[Len(v)] = f[Len(u)] - f[1]
  BY <1>0, <1>3
<1> HIDE DEF g
<1>7. Total(v, s) = g[Len(v)]
  BY <1>3, <1>5, TotalIs
<1>8. f[1] = f[0] + Weight(u[1], s) /\ f[0] = 0
  BY <1>0, <1>1 DEF Partial
<1>9. Weight(u[1], s) \in Int
  <2>1. 1 \in 1..Len(u)
    BY <1>0
  <2> QED BY <2>1, WeightType
<1> QED BY <1>0, <1>1, <1>2, <1>4, <1>6, <1>7, <1>8, <1>9

\* The sum of updates that take away is not positive.
LEMMA TotalNegative ==
  ASSUME NEW u \in Seq(Update), NEW s, \A i \in 1..Len(u) : u[i].seg = s => u[i].n <= 0
  PROVE  Total(u, s) \in Int /\ Total(u, s) <= 0
<1>0. Len(u) \in Nat
  BY LenProperties
<1>1. PICK f : Partial(u, s, f) /\ Total(u, s) = f[Len(u)] /\ Total(u, s) \in Int
  BY TotalPartial
<1> DEFINE S == {n \in Nat : n <= Len(u) => f[n] <= 0}
<1>2. 0 \in S
  BY <1>1 DEF Partial
<1>3. ASSUME NEW n \in Nat, n \in S PROVE n + 1 \in S
  <2> SUFFICES ASSUME n + 1 <= Len(u) PROVE f[n + 1] <= 0
    OBVIOUS
  <2>1. n + 1 \in 1..Len(u) /\ (n + 1) - 1 = n /\ n \in 0..Len(u) /\ f[n] <= 0
    BY <1>0, <1>3
  <2>2. Weight(u[n + 1], s) \in Int
    <3> HIDE DEF S
    <3> QED BY <2>1, WeightType
  <2>3. Weight(u[n + 1], s) <= 0
    BY <2>1 DEF Weight
  <2>4. f[n + 1] = f[n] + Weight(u[n + 1], s) /\ f[n] \in Int
    BY <1>1, <2>1 DEF Partial
  <2> HIDE DEF S
  <2> QED BY <2>1, <2>2, <2>3, <2>4
<1>4. Nat \subseteq S
  <2> HIDE DEF S
  <2> QED BY <1>2, <1>3, SetInduction
<1> QED BY <1>0, <1>1, <1>4

\* One update for each of some segments, in any order; that of s is by m.
Once(v, s, m) ==
  /\ \A i, j \in 1..Len(v) : v[i].seg = v[j].seg => i = j
  /\ \A i \in 1..Len(v) : v[i].seg = s => v[i].n = m
  /\ (\A i \in 1..Len(v) : v[i].seg # s) => m = 0

LEMMA TotalOrder ==
  ASSUME NEW u \in Seq(Update), NEW v \in Seq(Update), NEW s, NEW m \in Int, Once(v, s, m)
  PROVE  Total(u \o v, s) = Total(u, s) + m
<1>o. /\ \A i, j \in 1..Len(v) : v[i].seg = v[j].seg => i = j
      /\ \A i \in 1..Len(v) : v[i].seg = s => v[i].n = m
      /\ (\A i \in 1..Len(v) : v[i].seg # s) => m = 0
  BY DEF Once
<1>0. Len(u) \in Nat /\ Len(v) \in Nat
  BY LenProperties
<1>1. PICK f : Partial(u, s, f) /\ Total(u, s) = f[Len(u)]
  BY TotalPartial
<1>2. PICK w : w = u \o v
  OBVIOUS
<1>3. w \in Seq(Update) /\ Len(w) = Len(u) + Len(v)
      /\ \A i \in 1..Len(w) : w[i] = IF i <= Len(u) THEN u[i] ELSE v[i - Len(u)]
  BY <1>2, ConcatProperties
<1> DEFINE Seen(k) == \E i \in 1..Len(v) : i <= k /\ v[i].seg = s
           g == [i \in 0..Len(w) |->
                   IF i <= Len(u) THEN f[i] ELSE f[Len(u)] + (IF Seen(i - Len(u)) THEN m ELSE 0)]
<1>4. \A i \in 0..Len(u) : f[i] \in Int
  BY <1>1 DEF Partial
<1>5. Partial(w, s, g)
  <2>1. g \in [0..Len(w) -> Int] /\ g[0] = 0
    <3> HIDE DEF Seen
    <3>1. f[Len(u)] \in Int /\ f[0] = 0 /\ Len(w) \in Nat /\ m \in Int
      BY <1>0, <1>1, <1>3, <1>4 DEF Partial
    <3>2. \A i \in 0..Len(w) : i <= Len(u) => i \in 0..Len(u)
      BY <1>0, <1>3
    <3>3. g \in [0..Len(w) -> Int]
      BY <1>4, <3>1, <3>2
    <3>4. g[0] = 0
      BY <1>0, <3>1
    <3> QED BY <3>3, <3>4
  <2>2. ASSUME NEW i \in 1..Len(w) PROVE g[i] = g[i - 1] + Weight(w[i], s)
    <3>1. i - 1 \in 0..Len(w) /\ i \in 0..Len(w)
      BY <1>0, <1>3
    <3>2. CASE i <= Len(u)
      <4>1. i \in 1..Len(u) /\ i - 1 <= Len(u)
        BY <1>0, <3>2
      <4>2. g[i] = f[i] /\ g[i - 1] = f[i - 1]
        BY <3>1, <3>2, <4>1
      <4>3. w[i] = u[i]
        <5> HIDE DEF g
        <5> QED BY <1>3, <3>2
      <4>4. f[i] = f[i - 1] + Weight(u[i], s)
        BY <1>1, <4>1 DEF Partial
      <4> HIDE DEF g
      <4> QED BY <4>2, <4>3, <4>4
    <3>3. CASE i > Len(u)
      <4>1. PICK k : k = i - Len(u)
        OBVIOUS
      <4>2. k \in 1..Len(v) /\ i = Len(u) + k /\ k - 1 = (i - 1) - Len(u) /\ ~(i <= Len(u))
        BY <1>0, <1>3, <3>3, <4>1
      <4>3. w[i] = v[k]
        <5> HIDE DEF g, Seen
        <5> QED BY <1>3, <4>1, <4>2
      <4>4. g[i] = f[Len(u)] + (IF Seen(k) THEN m ELSE 0)
        <5> HIDE DEF Seen
        <5> QED BY <3>1, <4>1, <4>2
      <4>5. g[i - 1] = f[Len(u)] + (IF Seen(k - 1) THEN m ELSE 0)
        <5>1. CASE i - 1 <= Len(u)
          <6>1. i - 1 = Len(u) /\ k = 1
            BY <1>0, <4>2, <5>1
          <6>2. ~Seen(k - 1)
            BY <6>1
          <6>3. g[i - 1] = f[Len(u)]
            <7> HIDE DEF Seen
            <7> QED BY <3>1, <5>1, <6>1
          <6>4. f[Len(u)] \in Int
            BY <1>0, <1>4
          <6> HIDE DEF Seen, g
          <6> QED BY <6>2, <6>3, <6>4
        <5>2. CASE ~(i - 1 <= Len(u))
          <6> HIDE DEF Seen
          <6> QED BY <3>1, <4>2, <5>2
        <5> QED BY <5>1, <5>2
      <4>6. Weight(v[k], s) = IF v[k].seg = s THEN m ELSE 0
        BY <1>o, <4>2 DEF Weight
      <4>7. Seen(k) <=> Seen(k - 1) \/ v[k].seg = s
        <5>1. \A j \in 1..Len(v) : j <= k <=> j <= k - 1 \/ j = k
          BY <1>0, <4>2
        <5> QED BY <4>2, <5>1
      <4>8. ~(Seen(k - 1) /\ v[k].seg = s)
        <5> SUFFICES ASSUME NEW i1 \in 1..Len(v), i1 <= k - 1, v[i1].seg = s, v[k].seg = s PROVE FALSE
          OBVIOUS
        <5>1. i1 # k
          BY <1>0, <4>2
        <5> QED BY <1>o, <4>2, <5>1
      <4>9. f[Len(u)] \in Int
        BY <1>0, <1>4
      <4> HIDE DEF Seen, g
      <4> QED BY <4>3, <4>4, <4>5, <4>6, <4>7, <4>8, <4>9
    <3> QED BY <1>0, <3>2, <3>3
  <2> HIDE DEF g
  <2> QED BY <2>1, <2>2 DEF Partial
<1>6. g[Len(w)] = f[Len(u)] + m
  <2>1. f[Len(u)] \in Int
    BY <1>0, <1>4
  <2>2. CASE Len(v) = 0
    <3>1. m = 0
      BY <1>o, <2>2
    <3>2. g[Len(w)] = f[Len(u)]
      <4> HIDE DEF Seen
      <4> QED BY <1>0, <1>3, <2>2
    <3> HIDE DEF g
    <3> QED BY <2>1, <3>1, <3>2
  <2>3. CASE Len(v) # 0
    <3>1. g[Len(w)] = f[Len(u)] + (IF Seen(Len(v)) THEN m ELSE 0)
      <4>1. Len(w) \in 0..Len(w) /\ ~(Len(w) <= Len(u)) /\ Len(w) - Len(u) = Len(v)
        BY <1>0, <1>3, <2>3
      <4> HIDE DEF Seen
      <4> QED BY <4>1
    <3>2. ~Seen(Len(v)) => m = 0
      BY <1>0, <1>o
    <3> HIDE DEF g, Seen
    <3> QED BY <2>1, <3>1, <3>2
  <2> QED BY <2>2, <2>3
<1> HIDE DEF g
<1>7. Total(w, s) = g[Len(w)]
  BY <1>3, <1>5, TotalIs
<1> QED BY <1>1, <1>2, <1>6, <1>7

-----------------------------------------------------------------------------
(***************************************************************************)
(* Batches                                                                 *)
(***************************************************************************)

Entries(p) == UNION {ToSet(b) : b \in ToSet(p)}

\* Entry x is number k of batch i.
Cell(p, i, k, x) == i \in 1..Len(p) /\ k \in 1..Len(p[i]) /\ x = p[i][k]

LEMMA SeqFacts ==
  ASSUME NEW S, NEW b \in Seq(S)
  PROVE  /\ Len(b) \in Nat /\ DOMAIN b = 1..Len(b)
         /\ \A k \in 1..Len(b) : b[k] \in S
         /\ \A x : x \in ToSet(b) <=> \E k \in 1..Len(b) : x = b[k]
<1>1. Len(b) \in Nat /\ DOMAIN b = 1..Len(b)
  BY LenProperties
<1>2. \A k \in 1..Len(b) : b[k] \in S
  BY ElementOfSeq
<1>3. \A x : x \in ToSet(b) <=> \E k \in 1..Len(b) : x = b[k]
  BY <1>1 DEF ToSet
<1> QED BY <1>1, <1>2, <1>3

LEMMA EntriesCells ==
  ASSUME NEW p \in Seq(Seq(Nat))
  PROVE  \A x : x \in Entries(p) <=> \E i, k \in Nat : Cell(p, i, k, x)
<1> TAKE x
<1>1. Len(p) \in Nat /\ \A i \in 1..Len(p) : p[i] \in Seq(Nat)
  BY SeqFacts
<1>2. x \in Entries(p) <=> \E b \in ToSet(p) : x \in ToSet(b)
  BY DEF Entries
<1>3. \A b : b \in ToSet(p) <=> \E i \in 1..Len(p) : b = p[i]
  BY SeqFacts
<1>4. ASSUME NEW i \in 1..Len(p)
      PROVE  Len(p[i]) \in Nat /\ (x \in ToSet(p[i]) <=> \E k \in 1..Len(p[i]) : x = p[i][k])
  <2>1. PICK b \in Seq(Nat) : b = p[i]
    BY <1>1
  <2>2. Len(b) \in Nat /\ (x \in ToSet(b) <=> \E k \in 1..Len(b) : x = b[k])
    BY SeqFacts
  <2> QED BY <2>1, <2>2
<1>5. x \in Entries(p) <=> \E i \in 1..Len(p) : x \in ToSet(p[i])
  BY <1>2, <1>3
<1>6. x \in Entries(p) <=> \E i \in 1..Len(p) : \E k \in 1..Len(p[i]) : x = p[i][k]
  BY <1>4, <1>5
<1>7. \A i \in 1..Len(p) : i \in Nat /\ \A k \in 1..Len(p[i]) : k \in Nat
  BY <1>1, <1>4
<1> QED BY <1>6, <1>7 DEF Cell

LEMMA ApartCells ==
  ASSUME NEW p \in Seq(Seq(Nat))
  PROVE  Apart(p) <=> \A i, j, k, l \in Nat : \A x :
                        Cell(p, i, k, x) /\ Cell(p, j, l, x) => i = j /\ k = l
<1>1. Len(p) \in Nat /\ \A i \in 1..Len(p) : p[i] \in Seq(Nat)
  BY SeqFacts
<1>2. ASSUME NEW i \in 1..Len(p) PROVE Len(p[i]) \in Nat
  <2>1. PICK b \in Seq(Nat) : b = p[i]
    BY <1>1
  <2>2. Len(b) \in Nat
    BY SeqFacts
  <2> QED BY <2>1, <2>2
<1>3. \A i \in 1..Len(p) : i \in Nat /\ \A k \in 1..Len(p[i]) : k \in Nat
  BY <1>1, <1>2
<1>4. ASSUME Apart(p), NEW i \in Nat, NEW j \in Nat, NEW k \in Nat, NEW l \in Nat, NEW x,
             Cell(p, i, k, x), Cell(p, j, l, x)
      PROVE  i = j /\ k = l
  <2>1. /\ i \in 1..Len(p) /\ k \in 1..Len(p[i]) /\ x = p[i][k]
        /\ j \in 1..Len(p) /\ l \in 1..Len(p[j]) /\ x = p[j][l]
    BY <1>4 DEF Cell
  <2>2. \A i1, j1 \in 1..Len(p) : \A k1 \in 1..Len(p[i1]), l1 \in 1..Len(p[j1]) :
          p[i1][k1] = p[j1][l1] => i1 = j1 /\ k1 = l1
    BY <1>4 DEF Apart
  <2>3. p[i][k] = p[j][l] => i = j /\ k = l
    BY <2>1, <2>2
  <2> QED BY <2>1, <2>3
<1>5. ASSUME \A i, j, k, l \in Nat : \A x : Cell(p, i, k, x) /\ Cell(p, j, l, x) => i = j /\ k = l,
             NEW i \in 1..Len(p), NEW j \in 1..Len(p),
             NEW k \in 1..Len(p[i]), NEW l \in 1..Len(p[j]), p[i][k] = p[j][l]
      PROVE  i = j /\ k = l
  <2>1. i \in Nat /\ j \in Nat /\ k \in Nat /\ l \in Nat
    BY <1>3
  <2>2. Cell(p, i, k, p[i][k]) /\ Cell(p, j, l, p[i][k])
    BY <1>5 DEF Cell
  <2> QED BY <1>5, <2>1, <2>2
<1> QED BY <1>4, <1>5 DEF Apart

\* A batch is added.
LEMMA BatchesGrow ==
  ASSUME NEW p \in Seq(Seq(Nat)), NEW b \in Seq(Nat), Apart(p),
         \A k, l \in 1..Len(b) : b[k] = b[l] => k = l,
         \A x \in ToSet(b) : x \notin Entries(p)
  PROVE  /\ Append(p, b) \in Seq(Seq(Nat)) /\ Apart(Append(p, b))
         /\ Entries(Append(p, b)) = Entries(p) \cup ToSet(b)
<1>1. PICK q \in Seq(Seq(Nat)) : q = Append(p, b)
  BY AppendProperties
<1>2. Len(q) = Len(p) + 1 /\ q[Len(p) + 1] = b /\ \A i \in 1..Len(p) : q[i] = p[i]
  BY <1>1, AppendProperties
<1>3. PICK n \in Nat : n = Len(p)
  BY SeqFacts
<1>4. \A i \in Nat : i \in 1..Len(q) <=> i \in 1..n \/ i = n + 1
  BY <1>2, <1>3
<1>5. n + 1 \in Nat /\ n + 1 \notin 1..n
  BY <1>3
<1>6. ASSUME NEW i \in Nat, NEW k \in Nat, NEW x
      PROVE  Cell(q, i, k, x) <=> Cell(p, i, k, x) \/ (i = n + 1 /\ k \in 1..Len(b) /\ x = b[k])
  BY <1>2, <1>3, <1>4, <1>5 DEF Cell
<1>7. \A x : x \in ToSet(b) <=> \E k \in 1..Len(b) : x = b[k]
  BY SeqFacts
<1>8. \A k \in 1..Len(b) : k \in Nat
  BY SeqFacts
<1>9. \A i, k \in Nat : \A x : Cell(p, i, k, x) => x \in Entries(p) /\ i # n + 1
  BY <1>3, <1>5, EntriesCells DEF Cell
<1>10. Apart(q)
  <2>1. \A i, j, k, l \in Nat : \A x : Cell(p, i, k, x) /\ Cell(p, j, l, x) => i = j /\ k = l
    BY ApartCells
  <2>2. ASSUME NEW i \in Nat, NEW j \in Nat, NEW k \in Nat, NEW l \in Nat, NEW x,
               Cell(q, i, k, x), Cell(q, j, l, x)
        PROVE  i = j /\ k = l
    <3> DEFINE New(a, c) == a = n + 1 /\ c \in 1..Len(b) /\ x = b[c]
    <3>1. (Cell(p, i, k, x) \/ New(i, k)) /\ (Cell(p, j, l, x) \/ New(j, l))
      BY <1>6, <2>2
    <3>2. CASE Cell(p, i, k, x) /\ Cell(p, j, l, x)
      BY <2>1, <3>2
    <3>3. CASE New(i, k) /\ New(j, l)
      BY <3>3
    <3>4. ASSUME Cell(p, i, k, x) \/ Cell(p, j, l, x), New(i, k) \/ New(j, l) PROVE FALSE
      <4>1. x \in Entries(p)
        BY <1>9, <3>4
      <4>2. x \in ToSet(b)
        BY <1>7, <3>4
      <4> QED BY <4>1, <4>2
    <3> QED BY <3>1, <3>2, <3>3, <3>4
  <2> QED BY <2>2, ApartCells
<1>11. ASSUME NEW x PROVE x \in Entries(q) <=> x \in Entries(p) \/ x \in ToSet(b)
  <2>1. x \in Entries(q) <=> \E i, k \in Nat : Cell(q, i, k, x)
    BY EntriesCells
  <2>2. x \in Entries(p) <=> \E i, k \in Nat : Cell(p, i, k, x)
    BY EntriesCells
  <2> QED BY <1>5, <1>6, <1>7, <1>8, <2>1, <2>2
<1> QED BY <1>1, <1>10, <1>11

\* An entry joins the last batch.
LEMMA BatchGrows ==
  ASSUME NEW p \in Seq(Seq(Nat)), p # <<>>, Apart(p), NEW x \in Nat, x \notin Entries(p),
         NEW q \in Seq(Seq(Nat)), Len(q) = Len(p), q[Len(p)] = Append(p[Len(p)], x),
         \A i \in 1..(Len(p) - 1) : q[i] = p[i]
  PROVE  Apart(q) /\ Entries(q) = Entries(p) \cup {x}
<1>1. PICK n \in Nat \ {0} : n = Len(p)
  BY EmptySeq
<1>2. n \in 1..n /\ \A i \in 1..n : i = n \/ i \in 1..(n - 1)
  BY <1>1
<1>3. PICK b \in Seq(Nat) : b = p[n]
  BY <1>1, <1>2, SeqFacts
<1>4. PICK m \in Nat : m = Len(b)
  BY SeqFacts
<1>5. PICK c \in Seq(Nat) : c = Append(b, x)
  BY AppendProperties
<1>6. Len(c) = m + 1 /\ c[m + 1] = x /\ \A k \in 1..m : c[k] = b[k]
  BY <1>4, <1>5, AppendProperties
<1>7. q[n] = c /\ \A i \in 1..n : i # n => q[i] = p[i]
  BY <1>1, <1>2, <1>3, <1>5
<1>8. \A k \in Nat : k \in 1..Len(c) <=> k \in 1..m \/ k = m + 1
  BY <1>6
<1>9. m + 1 \in Nat /\ m + 1 \notin 1..m
  OBVIOUS
<1>10. ASSUME NEW i \in Nat, NEW k \in Nat, NEW y
       PROVE  Cell(q, i, k, y) <=> Cell(p, i, k, y) \/ (i = n /\ k = m + 1 /\ y = x)
  <2>1. CASE i = n
    <3>1. Cell(q, i, k, y) <=> k \in 1..Len(c) /\ y = c[k]
      BY <1>1, <1>2, <1>7, <2>1 DEF Cell
    <3>2. Cell(p, i, k, y) <=> k \in 1..m /\ y = b[k]
      BY <1>1, <1>2, <1>3, <1>4, <2>1 DEF Cell
    <3> QED BY <1>6, <1>8, <1>9, <2>1, <3>1, <3>2
  <2>2. CASE i # n
    BY <1>1, <1>7, <2>2 DEF Cell
  <2> QED BY <2>1, <2>2
<1>11. \A i, k \in Nat : \A y : Cell(p, i, k, y) => y \in Entries(p)
  BY EntriesCells
<1>12. Apart(q)
  <2>1. \A i, j, k, l \in Nat : \A y : Cell(p, i, k, y) /\ Cell(p, j, l, y) => i = j /\ k = l
    BY ApartCells
  <2>2. ASSUME NEW i \in Nat, NEW j \in Nat, NEW k \in Nat, NEW l \in Nat, NEW y,
               Cell(q, i, k, y), Cell(q, j, l, y)
        PROVE  i = j /\ k = l
    <3> DEFINE New(a, d) == a = n /\ d = m + 1 /\ y = x
    <3>1. (Cell(p, i, k, y) \/ New(i, k)) /\ (Cell(p, j, l, y) \/ New(j, l))
      BY <1>10, <2>2
    <3>2. CASE Cell(p, i, k, y) /\ Cell(p, j, l, y)
      BY <2>1, <3>2
    <3>3. CASE New(i, k) /\ New(j, l)
      BY <3>3
    <3>4. ASSUME Cell(p, i, k, y) \/ Cell(p, j, l, y), New(i, k) \/ New(j, l) PROVE FALSE
      BY <1>11, <3>4
    <3> QED BY <3>1, <3>2, <3>3, <3>4
  <2> QED BY <2>2, ApartCells
<1>13. ASSUME NEW y PROVE y \in Entries(q) <=> y \in Entries(p) \/ y = x
  <2>1. y \in Entries(q) <=> \E i, k \in Nat : Cell(q, i, k, y)
    BY EntriesCells
  <2>2. y \in Entries(p) <=> \E i, k \in Nat : Cell(p, i, k, y)
    BY EntriesCells
  <2> QED BY <1>1, <1>9, <1>10, <2>1, <2>2
<1> QED BY <1>12, <1>13

\* The first batch is taken away.
LEMMA BatchesShrink ==
  ASSUME NEW p \in Seq(Seq(Nat)), p # <<>>, Apart(p)
  PROVE  /\ Tail(p) \in Seq(Seq(Nat)) /\ Apart(Tail(p)) /\ Head(p) \in Seq(Nat)
         /\ Entries(Tail(p)) = Entries(p) \ ToSet(Head(p)) /\ ToSet(Head(p)) \subseteq Entries(p)
         /\ \A k, l \in 1..Len(Head(p)) : Head(p)[k] = Head(p)[l] => k = l
<1>1. PICK q \in Seq(Seq(Nat)) : q = Tail(p)
  BY HeadTailProperties
<1>2. Len(q) = Len(p) - 1 /\ \A i \in 1..Len(q) : q[i] = p[i + 1]
  BY <1>1, HeadTailProperties
<1>3. Len(p) \in Nat \ {0} /\ 1 \in 1..Len(p)
  BY EmptySeq
<1>4. PICK h \in Seq(Nat) : h = Head(p) /\ h = p[1]
  BY HeadTailProperties
<1>5. \A i \in Nat : i \in 1..Len(p) <=> i = 1 \/ (i - 1 \in 1..Len(q))
  BY <1>2, <1>3
<1>6. \A i \in Nat : i \in 1..Len(q) => i # 0 /\ (i + 1) - 1 = i
  BY <1>2, <1>3
<1>7. ASSUME NEW i \in Nat, NEW k \in Nat, NEW y
      PROVE  Cell(q, i, k, y) <=> i # 0 /\ Cell(p, i + 1, k, y)
  <2>1. i \in 1..Len(q) <=> i # 0 /\ i + 1 \in 1..Len(p)
    BY <1>2, <1>3
  <2> QED BY <1>2, <2>1 DEF Cell
<1>8. \A k \in Nat : \A y : Cell(p, 1, k, y) <=> k \in 1..Len(h) /\ y = h[k]
  BY <1>3, <1>4 DEF Cell
<1>9. \A y : y \in ToSet(h) <=> \E k \in Nat : Cell(p, 1, k, y)
  BY <1>8, SeqFacts
<1>10. \A i, j, k, l \in Nat : \A y : Cell(p, i, k, y) /\ Cell(p, j, l, y) => i = j /\ k = l
  BY ApartCells
<1>11. Apart(q)
  <2>2. ASSUME NEW i \in Nat, NEW j \in Nat, NEW k \in Nat, NEW l \in Nat, NEW y,
               Cell(q, i, k, y), Cell(q, j, l, y)
        PROVE  i = j /\ k = l
    <3>1. Cell(p, i + 1, k, y) /\ Cell(p, j + 1, l, y) /\ i + 1 \in Nat /\ j + 1 \in Nat
      BY <1>7, <2>2
    <3>2. i + 1 = j + 1 /\ k = l
      BY <1>10, <3>1
    <3> QED BY <3>2
  <2> QED BY <2>2, ApartCells
<1>12. ASSUME NEW y
       PROVE  /\ y \in Entries(q) <=> y \in Entries(p) /\ y \notin ToSet(h)
              /\ y \in ToSet(h) => y \in Entries(p)
  <2>1. y \in Entries(q) <=> \E i, k \in Nat : Cell(q, i, k, y)
    BY EntriesCells
  <2>2. y \in Entries(p) <=> \E i, k \in Nat : Cell(p, i, k, y)
    BY EntriesCells
  <2>3. ASSUME NEW i \in Nat, NEW k \in Nat, Cell(p, i, k, y), y \notin ToSet(h)
        PROVE  y \in Entries(q)
    <3>1. i # 1 /\ i # 0
      BY <1>9, <2>3 DEF Cell
    <3>2. i - 1 \in Nat /\ i - 1 # 0 /\ (i - 1) + 1 = i
      BY <3>1
    <3>3. Cell(q, i - 1, k, y)
      BY <1>7, <2>3, <3>2
    <3> QED BY <2>1, <3>2, <3>3
  <2>4. ASSUME NEW i \in Nat, NEW k \in Nat, Cell(q, i, k, y)
        PROVE  y \in Entries(p) /\ y \notin ToSet(h)
    <3>1. Cell(p, i + 1, k, y) /\ i + 1 \in Nat /\ i + 1 # 1
      BY <1>7, <2>4
    <3> QED BY <1>9, <1>10, <2>2, <3>1
  <2> QED BY <1>9, <2>1, <2>2, <2>3, <2>4
<1>13. \A k, l \in 1..Len(h) : h[k] = h[l] => k = l
  <2>1. \A k \in 1..Len(h) : k \in Nat
    BY SeqFacts
  <2>2. ASSUME NEW k \in 1..Len(h), NEW l \in 1..Len(h), h[k] = h[l] PROVE k = l
    <3>1. Cell(p, 1, k, h[k]) /\ Cell(p, 1, l, h[k])
      BY <1>8, <2>1, <2>2
    <3> QED BY <1>10, <2>1, <3>1
  <2> QED BY <2>2
<1>14. Entries(q) = Entries(p) \ ToSet(h) /\ ToSet(h) \subseteq Entries(p)
  <2>1. \A y : y \in Entries(q) <=> y \in Entries(p) /\ y \notin ToSet(h)
    BY <1>12
  <2>2. \A y : y \in ToSet(h) => y \in Entries(p)
    BY <1>12
  <2>3. Entries(q) = Entries(p) \ ToSet(h)
    BY <2>1
  <2> QED BY <2>2, <2>3
<1> QED BY <1>1, <1>4, <1>11, <1>13, <1>14

\* Counting the entries of a batch is counting places.
LEMMA CountIsCardinality ==
  ASSUME NEW b \in Seq(Nat), \A k, l \in 1..Len(b) : b[k] = b[l] => k = l, NEW s
  PROVE  /\ CountOf(b, s) \in Nat
         /\ CountOf(b, s) = Cardinality({x \in ToSet(b) : SegmentOf(x) = s})
         /\ IsFiniteSet({x \in ToSet(b) : SegmentOf(x) = s})
<1> DEFINE D == {i \in 1..Len(b) : SegmentOf(b[i]) = s}
           T == {x \in ToSet(b) : SegmentOf(x) = s}
           f == [i \in D |-> b[i]]
<1>1. IsFiniteSet(D) /\ Cardinality(D) \in Nat
  <2>1. IsFiniteSet(1..Len(b)) /\ D \subseteq 1..Len(b)
    BY SeqFacts, FS_Interval
  <2> HIDE DEF D
  <2> QED BY <2>1, FS_Subset, FS_CardinalityType
<1>2. \A x : x \in ToSet(b) <=> \E k \in 1..Len(b) : x = b[k]
  BY SeqFacts
<1>3. f \in Bijection(D, T)
  <2>1. f \in [D -> T]
    BY <1>2
  <2>2. \A i, j \in D : f[i] = f[j] => i = j
    OBVIOUS
  <2>3. \A x \in T : \E i \in D : f[i] = x
    BY <1>2
  <2> HIDE DEF D, T, f
  <2> QED BY <2>1, <2>2, <2>3 DEF Bijection, Injection, Surjection, IsInjective
<1>4. ExistsBijection(D, T)
  <2> HIDE DEF D, T, f
  <2> QED BY <1>3 DEF ExistsBijection
<1>5. IsFiniteSet(T) /\ Cardinality(T) = Cardinality(D)
  <2> HIDE DEF D, T, f
  <2> QED BY <1>1, <1>4, FS_Bijection
<1>6. CountOf(b, s) = Cardinality(D)
  BY DEF CountOf
<1> QED BY <1>1, <1>5, <1>6

-----------------------------------------------------------------------------
(***************************************************************************)
(* The log                                                                 *)
(***************************************************************************)

\* Entry x is number i of segment s.
Place(x, s, i) == s \in Segments /\ i \in 1..Len(log[s]) /\ log[s][i] = x

LEMMA SegmentsAre == Segments \subseteq Nat /\ 0 \in Segments /\ \A s \in Segments : s <= MaxSegment
BY LokiWalAssumption DEF Segments

PlacesOK ==
  /\ \A s \in Segments : Len(log[s]) \in Nat
  /\ \A x, s, i : Place(x, s, i) => /\ x \in Written /\ SegmentOf(x) = s
                                    /\ s \in Segments /\ i \in Nat /\ s <= last
  /\ \A x \in Written : /\ SegmentOf(x) \in Segments /\ SegmentOf(x) \in Nat
                        /\ SegmentOf(x) <= last
                        /\ \E i : Place(x, SegmentOf(x), i)
  /\ \A x, s, i, t, j : Place(x, s, i) /\ Place(x, t, j) => s = t /\ i = j

LEMMA PlaceFacts == TypeOK /\ LogOK => PlacesOK
<1> SUFFICES ASSUME TypeOK, LogOK PROVE PlacesOK
  OBVIOUS
<1>1. \A s \in Segments : log[s] \in Seq(Nat)
  BY DEF TypeOK
<1>2. ASSUME NEW s \in Segments
      PROVE  Len(log[s]) \in Nat /\ \A x : x \in ToSet(log[s]) <=> \E i \in 1..Len(log[s]) : log[s][i] = x
  <2>1. PICK b \in Seq(Nat) : b = log[s]
    BY <1>1
  <2>2. Len(b) \in Nat /\ \A x : x \in ToSet(b) <=> \E i \in 1..Len(b) : x = b[i]
    BY SeqFacts
  <2> QED BY <2>1, <2>2
<1>3. \A x : x \in Written <=> \E s \in Segments : x \in ToSet(log[s])
  BY DEF Written
<1>4. \A x : x \in Written <=> \E s \in Segments : \E i \in 1..Len(log[s]) : log[s][i] = x
  BY <1>2, <1>3
<1>5. \A x, s, i, t, j : Place(x, s, i) /\ Place(x, t, j) => s = t /\ i = j
  BY DEF LogOK, Place
<1>6. ASSUME NEW x, NEW s, NEW i, Place(x, s, i)
      PROVE  x \in Written /\ SegmentOf(x) = s /\ s \in Segments /\ i \in Nat /\ s <= last
  <2>1. s \in Segments /\ i \in 1..Len(log[s]) /\ log[s][i] = x
    BY <1>6 DEF Place
  <2>2. x \in Written
    BY <1>4, <2>1
  <2>3. \A t \in Segments : x \in ToSet(log[t]) <=> t = s
    <3> SUFFICES ASSUME NEW t \in Segments, x \in ToSet(log[t]) PROVE t = s
      BY <1>2, <2>1
    <3>1. PICK j \in 1..Len(log[t]) : log[t][j] = x
      BY <1>2
    <3> QED BY <1>5, <1>6, <3>1 DEF Place
  <2>4. SegmentOf(x) = s
    BY <2>1, <2>3 DEF SegmentOf
  <2>5. i \in Nat
    BY <1>2, <2>1
  <2>6. s <= last
    <3> SUFFICES ASSUME ~(s <= last) PROVE FALSE
      OBVIOUS
    <3>1. s > last
      BY <2>1, SegmentsAre DEF TypeOK
    <3>2. log[s] = <<>>
      BY <2>1, <3>1 DEF LogOK
    <3> QED BY <2>1, <3>2
  <2> QED BY <2>1, <2>2, <2>4, <2>5, <2>6
<1>7. ASSUME NEW x \in Written
      PROVE  /\ SegmentOf(x) \in Segments /\ SegmentOf(x) \in Nat /\ SegmentOf(x) <= last
             /\ \E i : Place(x, SegmentOf(x), i)
  <2>0. PICK s \in Segments : \E i \in 1..Len(log[s]) : log[s][i] = x
    BY <1>4
  <2>1. PICK i \in 1..Len(log[s]) : log[s][i] = x
    BY <2>0
  <2>2. Place(x, s, i)
    BY <2>1 DEF Place
  <2>3. SegmentOf(x) = s /\ s <= last
    BY <1>6, <2>2
  <2> QED BY <2>1, <2>2, <2>3, SegmentsAre
<1> QED BY <1>2, <1>5, <1>6, <1>7 DEF PlacesOK

LEMMA PlaceFactsNext == TypeOK' /\ LogOK' => PlacesOK'
BY PlaceFacts, PTL

-----------------------------------------------------------------------------
(***************************************************************************)
(* Types                                                                   *)
(***************************************************************************)

LEMMA MaxExists ==
  ASSUME NEW n \in Nat, NEW T \in SUBSET (-1..(n - 1)), T # {}
  PROVE  Max(T) \in T /\ \A y \in T : Max(T) >= y
<1> DEFINE HasMax(U) == \E x \in U : \A y \in U : x >= y
           S == {m \in Nat : \A U \in SUBSET (-1..(m - 1)) : U # {} => HasMax(U)}
<1>1. 0 \in S
  <2>1. ASSUME NEW U \in SUBSET (-1..(0 - 1)), U # {} PROVE HasMax(U)
    <3>1. \A x \in -1..(0 - 1) : x = -1
      OBVIOUS
    <3>2. \A x \in U : x = -1
      BY <3>1
    <3>3. PICK x \in U : TRUE
      BY <2>1
    <3>4. \A y \in U : x >= y
      BY <3>2
    <3> QED BY <3>4
  <2> QED BY <2>1
<1>2. ASSUME NEW m \in Nat, m \in S PROVE m + 1 \in S
  <2> SUFFICES ASSUME NEW U \in SUBSET (-1..((m + 1) - 1)), U # {} PROVE HasMax(U)
    OBVIOUS
  <2>1. CASE m \in U
    <3>1. \A y \in U : m >= y
      OBVIOUS
    <3> QED BY <2>1, <3>1
  <2>2. CASE m \notin U
    <3>1. U \in SUBSET (-1..(m - 1))
      BY <2>2
    <3> QED BY <1>2, <3>1
  <2> QED BY <2>1, <2>2
<1>3. Nat \subseteq S
  <2> HIDE DEF S
  <2> QED BY <1>1, <1>2, SetInduction
<1>4. HasMax(T)
  BY <1>3
<1> QED BY <1>4 DEF Max

\* What findMarkableSegment finds: a segment all of whose predecessors, as far as the
\* tracker knows them, are consumed or too old, and it as well.
LEMMA Markable ==
  ASSUME NEW counts \in [Segments -> Int \cup {None}], NEW old,
         NEW f, f = findMarkableSegment(counts, old)
  PROVE  /\ f \in Int
         /\ f = -1 \/ (f \in Segments /\ counts[f] # None)
         /\ \A t \in Segments : t <= f /\ counts[t] # None => counts[t] = 0 \/ t \in old
<1> DEFINE known == {s \in Segments : counts[s] # None}
           consumed == {s \in known : counts[s] = 0 \/ s \in old}
           good == {s \in consumed : \A t \in known : t <= s => t \in consumed}
           T == good \cup {-1}
<1>1. f = Max(T)
  BY DEF findMarkableSegment
<1>2. T \in SUBSET (-1..((MaxSegment + 1) - 1)) /\ T # {} /\ MaxSegment + 1 \in Nat
  BY LokiWalAssumption DEF Segments
<1>3. f \in T
  <2> HIDE DEF T
  <2> QED BY <1>1, <1>2, MaxExists
<1>4. CASE f \in good
  <2>1. f \in Segments /\ counts[f] # None /\ \A t \in known : t <= f => t \in consumed
    BY <1>4
  <2> QED BY <2>1, SegmentsAre
<1>5. CASE f = -1
  <2>1. \A t \in Segments : ~(t <= f)
    BY <1>5, SegmentsAre
  <2> QED BY <1>5, <2>1
<1> QED BY <1>3, <1>4, <1>5

LEMMA MaxOfTwo ==
  ASSUME NEW a \in Int, NEW b \in Int
  PROVE  Max({a, b}) \in Int
<1>1. \E x \in {a, b} : \A y \in {a, b} : x >= y
  <2>1. CASE a >= b
    <3>1. a >= a
      OBVIOUS
    <3> QED BY <2>1, <3>1
  <2>2. CASE b >= a
    <3>1. b >= b
      OBVIOUS
    <3> QED BY <2>2, <3>1
  <2>3. a >= b \/ b >= a
    OBVIOUS
  <2> QED BY <2>1, <2>2, <2>3
<1> QED BY <1>1 DEF Max

-----------------------------------------------------------------------------
(***************************************************************************)
(* Steps that leave what is in flight, and the books, as they are          *)
(***************************************************************************)

LEMMA BatchesType ==
  ASSUME NEW q \in QueueType
  PROVE  /\ q.sending \o q.chan \o <<q.batch>> \in Seq(Seq(Nat))
         /\ q.sending \o q.chan \o <<q.batch>> # <<>>
         /\ q.sending \in Seq(Seq(Nat)) /\ q.chan \in Seq(Seq(Nat)) /\ q.batch \in Seq(Nat)
<1>1. q.sending \in Seq(Seq(Nat)) /\ q.chan \in Seq(Seq(Nat)) /\ q.batch \in Seq(Nat)
  BY DEF QueueType
<1>2. <<q.batch>> \in Seq(Seq(Nat)) /\ Len(<<q.batch>>) = 1
  BY <1>1
<1>3. PICK c \in Seq(Seq(Nat)) : c = q.sending \o q.chan
  BY <1>1, ConcatProperties
<1>4. PICK d \in Seq(Seq(Nat)) : d = c \o <<q.batch>> /\ Len(d) = Len(c) + Len(<<q.batch>>)
  BY <1>2, <1>3, ConcatProperties
<1>5. Len(c) \in Nat
  BY LenProperties
<1>6. d # <<>>
  BY <1>2, <1>4, <1>5, EmptySeq
<1> QED BY <1>1, <1>3, <1>4, <1>6

\* The watcher keeps its position.
Stays(e) ==
  /\ watcher'[e].seg = watcher[e].seg /\ watcher'[e].pos = watcher[e].pos
  /\ watcher'[e].rcv = watcher[e].rcv
  /\ watcher'[e].pc = "received" <=> watcher[e].pc = "received"
  /\ Reading(e)' => Reading(e)
  /\ watcher'[e].pc = "begin" => watcher[e].pc \in {"begin", "wait"}

\* It goes on to the next segment.
Advances(e) ==
  /\ watcher[e].pc = "read" /\ watcher[e].pos = Len(log[watcher[e].seg])
  /\ watcher'[e].pc = "open" /\ watcher'[e].pos = 0
  /\ watcher'[e].seg = watcher[e].seg + 1

Stops(e) == watcher[e].pc # "received" /\ watcher'[e].pc = "done"

Moves(e) ==
  /\ log' = log /\ first <= first' /\ last <= last' /\ aged \subseteq aged'
  /\ InFlight(e)' = InFlight(e) /\ Apart(Batches(e))'
  /\ tracker'[e] = tracker[e] /\ done'[e] = done[e] /\ limited'[e] = limited[e]
  /\ watcher'[e].state # "stopping" => watcher[e].state # "stopping"
  /\ Stays(e) \/ Advances(e) \/ Stops(e)

LEMMA SameLog ==
  ASSUME log' = log
  PROVE  Written' = Written /\ \A x : SegmentOf(x)' = SegmentOf(x)
BY DEF Written, SegmentOf

LEMMA MovesKeeps ==
  ASSUME TypeOK, TypeOK', LogOK, NEW e \in Endpoints, EInv(e), Moves(e), Phases(e)', PositionOK(e)'
  PROVE  EInv(e)'
<1> USE DEF Moves
<1>0. /\ watcher[e] \in WatcherType /\ watcher'[e] \in WatcherType
      /\ first \in Nat /\ first' \in Nat /\ last \in Nat /\ last' \in Nat
  BY SegmentsAre DEF TypeOK
<1>1. Written' = Written /\ \A x : SegmentOf(x)' = SegmentOf(x)
  BY SameLog
<1>2. PlacesOK
  BY PlaceFacts
<1>3. Reading(e)' =>
        /\ Reading(e)
        /\ watcher[e].seg <= watcher'[e].seg
        /\ \A s \in Segments : \A i \in 1..Len(log[s]) : Read(e, s, i)' <=> Read(e, s, i)
  <2>1. CASE Stays(e)
    BY <1>0, <2>1 DEF Stays, Read, WatcherType
  <2>2. CASE Advances(e)
    <3>1. Reading(e) /\ watcher[e].seg <= watcher'[e].seg
      BY <1>0, <2>2 DEF Advances, Reading, WatcherType
    <3>2. ASSUME NEW s \in Segments, NEW i \in 1..Len(log[s]) PROVE Read(e, s, i)' <=> Read(e, s, i)
      <4>1. s \in Nat /\ i \in Nat /\ i # 0 /\ i <= Len(log[s]) /\ Len(log[s]) \in Nat
        BY <1>2, SegmentsAre DEF PlacesOK
      <4>2. watcher[e].seg \in Nat /\ watcher'[e].seg = watcher[e].seg + 1 /\ watcher'[e].pos = 0
            /\ watcher'[e].pc # "received" /\ watcher[e].pc # "received"
            /\ watcher[e].pos = Len(log[watcher[e].seg]) /\ watcher[e].pos \in Nat
        BY <1>0, <2>2 DEF Advances, WatcherType
      <4>3. CASE s = watcher[e].seg
        BY <4>1, <4>2, <4>3 DEF Read
      <4>4. CASE s # watcher[e].seg
        BY <4>1, <4>2, <4>4 DEF Read
      <4> QED BY <4>3, <4>4
    <3> QED BY <3>1, <3>2
  <2>3. CASE Stops(e)
    BY <2>3 DEF Stops, Reading
  <2> QED BY <2>1, <2>2, <2>3
<1>4. watcher'[e].pc = "begin" /\ watcher'[e].state # "stopping" =>
        /\ watcher[e].state # "stopping"
        /\ watcher[e].pc = "begin" \/ (Reading(e) /\ watcher[e].pc = "wait" /\ watcher[e].seg < first)
  <2>1. watcher'[e].pc = "begin" => watcher[e].pc \in {"begin", "wait"}
    BY DEF Stays, Advances, Stops
  <2>2. watcher[e].state # "stopping" /\ watcher[e].pc = "wait" => watcher[e].seg < first
    BY DEF EInv, PositionOK
  <2>3. watcher[e].pc = "wait" => Reading(e)
    BY DEF Reading
  <2> QED BY <2>1, <2>2, <2>3
<1>5. HandledIsRead(e)'
  <2>1. Handled(e)' = Handled(e)
    BY DEF Handled
  <2>2. Handled(e) \subseteq Written
    BY DEF EInv, HandledIsRead
  <2>3. ASSUME NEW s \in Segments, NEW i \in 1..Len(log[s]), log[s][i] \in Handled(e)
        PROVE  /\ Reading(e)' => Read(e, s, i)'
               /\ watcher'[e].pc = "begin" /\ watcher'[e].state # "stopping" => s < first'
    <3>1. /\ Reading(e) => Read(e, s, i)
          /\ watcher[e].pc = "begin" /\ watcher[e].state # "stopping" => s < first
      BY <2>3 DEF EInv, HandledIsRead
    <3>2. ASSUME watcher[e].pc = "wait", Read(e, s, i), watcher[e].seg < first PROVE s < first
      BY <1>0, <3>2, SegmentsAre DEF Read, WatcherType
    <3>3. s \in Nat
      BY SegmentsAre
    <3> QED BY <1>0, <1>3, <1>4, <3>1, <3>2, <3>3
  <2> QED BY <1>1, <2>1, <2>2, <2>3 DEF HandledIsRead
<1>6. TouchedIsReached(e)'
  <2>1. Touched(e)' = Touched(e)
    BY <1>1 DEF Touched, Known, Told
  <2>2. ASSUME NEW t \in Touched(e)
        PROVE  /\ t <= last'
               /\ Reading(e)' => t <= watcher'[e].seg
               /\ watcher'[e].pc = "begin" /\ watcher'[e].state # "stopping" => t < first'
               /\ \A x \in Written : SegmentOf(x) < t => x \in done[e] \cup InFlight(e)
    <3>1. /\ t <= last
          /\ Reading(e) => t <= watcher[e].seg
          /\ watcher[e].pc = "begin" /\ watcher[e].state # "stopping" => t < first
          /\ \A x \in Written : SegmentOf(x) < t => x \in done[e] \cup InFlight(e)
      BY DEF EInv, TouchedIsReached
    <3>2. t \in Nat
      <4>1. \A x \in InFlight(e) : SegmentOf(x) \in Nat
        BY <1>2 DEF EInv, HandledIsRead, Handled, PlacesOK
      <4>2. \A i \in 1..Len(tracker[e].updates) : tracker[e].updates[i].seg \in Nat
        <5>1. PICK u \in Seq(Update) : u = tracker[e].updates
          BY DEF TypeOK, TrackerType
        <5>2. \A i \in 1..Len(u) : u[i].seg \in Nat
          BY WeightType, SegmentsAre DEF Update
        <5> QED BY <5>1, <5>2
      <4> QED BY <4>1, <4>2, SegmentsAre DEF Touched, Known, Told
    <3>3. watcher[e].seg \in Nat /\ watcher'[e].seg \in Nat
      BY <1>0 DEF WatcherType
    <3> QED BY <1>0, <1>3, <1>4, <3>1, <3>2, <3>3
  <2> QED BY <1>1, <2>1, <2>2 DEF TouchedIsReached
<1>7. InOrder(e)'
  BY DEF EInv, InOrder, Known
<1>8. LeavesNothing(e)'
  BY <1>3 DEF EInv, LeavesNothing
<1>9. CountsExactly(e)'
  <2>1. ASSUME NEW s \in Segments PROVE Counted(e, s)' = Counted(e, s)
    <3>1. (watcher'[e].pc = "received" /\ watcher'[e].seg = s) <=> (watcher[e].pc = "received" /\ watcher[e].seg = s)
      BY DEF Stays, Advances, Stops
    <3>2. watcher[e].pc = "received" => watcher'[e].rcv = watcher[e].rcv
      BY DEF Stays, Advances, Stops
    <3> QED BY <3>1, <3>2 DEF Counted
  <2>2. ASSUME NEW s \in Segments
        PROVE  OfSegment(InFlight(e), s)' = OfSegment(InFlight(e), s)
               /\ OfSegment(limited[e], s)' = OfSegment(limited[e], s)
    BY <1>1 DEF OfSegment
  <2> QED BY <2>1, <2>2 DEF EInv, CountsExactly
<1> QED BY <1>5, <1>6, <1>7, <1>8, <1>9 DEF EInv

-----------------------------------------------------------------------------
(***************************************************************************)
(* Every step keeps the types                                              *)
(***************************************************************************)

\* The entry that is being handled, and where it is.
LEMMA EntryPlace ==
  ASSUME TypeOK, LogOK, NEW e \in Endpoints, PositionOK(e), watcher[e].pc \in {"append", "received"}
  PROVE  /\ watcher[e].seg \in Segments /\ watcher[e].pos + 1 \in Nat
         /\ Place(Entry(e), watcher[e].seg, watcher[e].pos + 1)
         /\ Entry(e) \in Written /\ Entry(e) \in Nat /\ SegmentOf(Entry(e)) = watcher[e].seg
<1>1. watcher[e].seg \in Nat /\ watcher[e].pos \in Nat /\ last \in Segments
  BY DEF TypeOK, WatcherType
<1>2. watcher[e].seg <= last /\ watcher[e].pos < Len(log[watcher[e].seg])
  BY DEF PositionOK
<1>3. watcher[e].seg \in Segments
  BY <1>1, <1>2, LokiWalAssumption DEF Segments
<1>4. PICK b \in Seq(Nat) : b = log[watcher[e].seg]
  BY <1>3 DEF TypeOK
<1>5. Len(b) \in Nat
  BY SeqFacts
<1>6. watcher[e].pos + 1 \in 1..Len(b) /\ watcher[e].pos + 1 \in Nat
  BY <1>1, <1>2, <1>4, <1>5
<1>7. b[watcher[e].pos + 1] \in Nat
  BY <1>6, SeqFacts
<1>8. Place(Entry(e), watcher[e].seg, watcher[e].pos + 1)
  BY <1>3, <1>4, <1>6 DEF Place, Entry
<1>9. PlacesOK
  BY PlaceFacts
<1> QED BY <1>3, <1>4, <1>6, <1>7, <1>8, <1>9 DEF PlacesOK, Entry

LEMMA SegmentType ==
  ASSUME TypeOK, NEW e \in Endpoints, PositionOK(e),
         watcher[e].pc \in {"select", "read", "append", "received"}
  PROVE  watcher[e].seg \in Segments
BY LokiWalAssumption DEF TypeOK, PositionOK, WatcherType, Segments

LEMMA UpdatesType ==
  ASSUME NEW s \in Segments, NEW n \in Int PROVE [seg |-> s, n |-> n] \in Update
BY DEF Update

LEMMA WriterTypes == IInv /\ WriterStep => TypeOK'
<1> SUFFICES ASSUME TypeOK, LogOK, WriterStep PROVE TypeOK'
  BY DEF IInv
<1>1. CASE WriteEntry
  <2>1. Cardinality(Written) + 1 \in Nat
    BY FS_CardinalityType DEF LogOK
  <2>2. PICK b \in Seq(Nat) : b = log[last]
    BY DEF TypeOK
  <2>3. Append(b, Cardinality(Written) + 1) \in Seq(Nat)
    BY <2>1, AppendProperties
  <2>4. log' \in [Segments -> Seq(Nat)]
    BY <1>1, <2>2, <2>3 DEF TypeOK, WriteEntry
  <2> QED BY <1>1, <2>4 DEF TypeOK, WriteEntry, history
<1>2. CASE NextSegment
  <2>1. last' \in Segments /\ last < last'
    BY <1>2, LokiWalAssumption DEF NextSegment, TypeOK, Segments
  <2>2. first' = first /\ marker' = marker /\ first \in Nat /\ last \in Nat /\ last' \in Nat
    BY <1>2, <2>1, SegmentsAre DEF NextSegment, TypeOK
  <2>3. first' <= last' /\ marker' <= last'
    BY <2>1, <2>2 DEF TypeOK
  <2> QED BY <1>2, <2>1, <2>3 DEF TypeOK, NextSegment, history
<1>3. ASSUME NEW k \in Segments, CleanSegments(k) PROVE TypeOK'
  <2>1. watcher' \in [Endpoints -> WatcherType]
    <3>1. watcher \in [Endpoints -> WatcherType]
      BY DEF TypeOK
    <3> QED BY <1>3, <3>1 DEF WatcherType, CleanSegments
  <2> QED BY <1>3, <2>1 DEF TypeOK, CleanSegments, history
<1> QED BY <1>1, <1>2, <1>3 DEF WriterStep

LEMMA WatcherTypes ==
  ASSUME IInv, NEW e \in Endpoints, WatcherStep(e) \/ AppendOverflow(e) \/ DrainOver(e)
  PROVE  TypeOK'
<1>0. TypeOK /\ LogOK /\ PositionOK(e)
  BY DEF IInv, EInv
<1>w. watcher \in [Endpoints -> WatcherType]
  BY <1>0 DEF TypeOK
<1>v. watcher[e] \in WatcherType
  BY <1>w
<1>p. watcher[e].seg + 1 \in Nat /\ watcher[e].pos + 1 \in Nat /\ 0 \in Nat
  BY <1>v DEF WatcherType
<1>d. done \in [Endpoints -> SUBSET Nat] /\ limited \in [Endpoints -> SUBSET Nat]
  BY <1>0 DEF TypeOK
<1>q. queue \in [Endpoints -> QueueType] /\ queue[e] \in QueueType
  BY <1>0 DEF TypeOK
<1>1. ASSUME WatcherOnly, watcher' \in [Endpoints -> WatcherType] PROVE TypeOK'
  BY <1>0, <1>1 DEF TypeOK, WatcherOnly, disk, history
<1>2. CASE RunWatcher(e)
  <2>1. StartSegment(marker) \in Nat /\ last \in Segments
    BY <1>0, SegmentsAre DEF TypeOK, StartSegment
  <2>2. watcher' \in [Endpoints -> WatcherType]
    <3> DEFINE v == [watcher[e] EXCEPT !.atStart = last, !.seg = StartSegment(marker), !.pos = 0, !.pc = "open"]
    <3>1. v \in WatcherType
      BY <1>v, <2>1 DEF WatcherType
    <3>2. watcher' = [watcher EXCEPT ![e] = v]
      BY <1>2, <1>v, <1>w DEF WatcherType, RunWatcher
    <3> HIDE DEF v
    <3> QED BY <1>w, <3>1, <3>2
  <2>3. Written \subseteq Nat
    BY <1>0, FS_CardinalityType DEF LogOK
  <2>4. done' \in [Endpoints -> SUBSET Nat]
    BY <1>2, <1>d, <2>3 DEF RunWatcher
  <2> QED BY <1>0, <1>2, <2>2, <2>4 DEF TypeOK, RunWatcher, disk
<1>3. CASE OpenSegment(e)
  <2>1. watcher' \in [Endpoints -> WatcherType]
    BY <1>3, <1>w DEF WatcherType, OpenSegment
  <2> QED BY <1>1, <1>3, <2>1 DEF OpenSegment
<1>4. CASE OpenFails(e)
  <2>1. watcher' \in [Endpoints -> WatcherType]
    <3> DEFINE v == [watcher[e] EXCEPT !.state = IF @ = "draining" THEN "stopping" ELSE @, !.pc = "wait"]
    <3>1. v \in WatcherType
      BY <1>v DEF WatcherType
    <3>2. watcher' = [watcher EXCEPT ![e] = v]
      BY <1>4, <1>v, <1>w DEF WatcherType, OpenFails
    <3> HIDE DEF v
    <3> QED BY <1>w, <3>1, <3>2
  <2> QED BY <1>1, <1>4, <2>1 DEF OpenFails
<1>5. CASE WaitOver(e)
  <2>1. watcher' \in [Endpoints -> WatcherType]
    BY <1>5, <1>w DEF WatcherType, WaitOver
  <2> QED BY <1>1, <1>5, <2>1 DEF WaitOver
<1>6. CASE StopReading(e)
  <2>1. [NewWatcher EXCEPT !.state = "stopping", !.pc = "done"] \in WatcherType
    BY SegmentsAre DEF NewWatcher, WatcherType
  <2>2. watcher' \in [Endpoints -> WatcherType]
    BY <1>6, <1>w, <2>1 DEF StopReading
  <2> QED BY <1>1, <1>6, <2>2 DEF StopReading
<1>7. CASE PollSegment(e)
  <2>1. (watcher[e].seg < watcher[e].atStart) \in BOOLEAN
    OBVIOUS
  <2>2. watcher' \in [Endpoints -> WatcherType]
    <3> DEFINE v == [watcher[e] EXCEPT !.final = watcher[e].seg < watcher[e].atStart, !.pc = "read"]
    <3>1. v \in WatcherType
      BY <1>v, <2>1 DEF WatcherType
    <3>2. watcher' = [watcher EXCEPT ![e] = v]
      BY <1>7, <1>v, <1>w DEF WatcherType, PollSegment
    <3> HIDE DEF v
    <3> QED BY <1>w, <3>1, <3>2
  <2> QED BY <1>1, <1>7, <2>2 DEF PollSegment
<1>8. CASE SegmentTick(e)
  <2>1. watcher' \in [Endpoints -> WatcherType]
    <3> DEFINE v == [watcher[e] EXCEPT !.final = TRUE, !.pc = "read"]
    <3>1. v \in WatcherType
      BY <1>v DEF WatcherType
    <3>2. watcher' = [watcher EXCEPT ![e] = v]
      BY <1>8, <1>v, <1>w DEF WatcherType, SegmentTick
    <3> HIDE DEF v
    <3> QED BY <1>w, <3>1, <3>2
  <2> QED BY <1>1, <1>8, <2>1 DEF SegmentTick
<1>9. CASE EndRead(e)
  <2>1. watcher' \in [Endpoints -> WatcherType]
    <3> DEFINE v == IF watcher[e].final
                      THEN [watcher[e] EXCEPT !.seg = @ + 1, !.pos = 0, !.pc = "open"]
                      ELSE [watcher[e] EXCEPT !.pc = "select"]
    <3>1. v \in WatcherType
      BY <1>v, <1>p DEF WatcherType
    <3>2. watcher' = [watcher EXCEPT ![e] = v]
      BY <1>9, <1>v, <1>w DEF WatcherType, EndRead
    <3> HIDE DEF v
    <3> QED BY <1>w, <3>1, <3>2
  <2> QED BY <1>1, <1>9, <2>1 DEF EndRead
<1>10. CASE StoreSeries(e)
  <2>1. watcher[e].seg \in Segments
    BY <1>0, <1>10, SegmentType DEF StoreSeries, At
  <2>2. watcher' \in [Endpoints -> WatcherType]
    <3> DEFINE v == [watcher[e] EXCEPT !.series = watcher[e].seg, !.pc = "append"]
    <3>1. v \in WatcherType
      BY <1>v, <2>1 DEF WatcherType
    <3>2. watcher' = [watcher EXCEPT ![e] = v]
      BY <1>10, <1>v, <1>w DEF WatcherType, StoreSeries
    <3> HIDE DEF v
    <3> QED BY <1>w, <3>1, <3>2
  <2> QED BY <1>1, <1>10, <2>2 DEF StoreSeries
<1>11. ASSUME watcher[e].pc = "append", GiveUpEntry(e) \/ UNCHANGED done,
              limited' \in [Endpoints -> SUBSET Nat], queue' \in [Endpoints -> QueueType],
              watcher' \in [Endpoints -> WatcherType], UNCHANGED <<disk, mode, ppc, tracker, aged>>
       PROVE  TypeOK'
  <2>1. Entry(e) \in Nat
    BY <1>0, <1>11, EntryPlace
  <2>2. done' \in [Endpoints -> SUBSET Nat]
    BY <1>11, <1>d, <2>1 DEF GiveUpEntry
  <2> QED BY <1>0, <1>11, <2>2 DEF TypeOK, disk
<1>12. ASSUME NEW n \in {0, 1}, Appended(e, n)
       PROVE  watcher' \in [Endpoints -> WatcherType] /\ UNCHANGED <<disk, mode, ppc, tracker, aged>>
  <2> DEFINE v == [watcher[e] EXCEPT !.rcv = n, !.pc = "received"]
  <2>1. v \in WatcherType
    BY <1>v DEF WatcherType
  <2>2. watcher' = [watcher EXCEPT ![e] = v]
    BY <1>12, <1>v, <1>w DEF WatcherType, Appended
  <2> HIDE DEF v
  <2> QED BY <1>12, <1>w, <2>1, <2>2 DEF Appended
<1>13. CASE SeriesNotFound(e)
  <2>1. watcher' \in [Endpoints -> WatcherType]
    <3> DEFINE v == [watcher[e] EXCEPT !.pos = @ + 1, !.pc = "read"]
    <3>1. v \in WatcherType
      BY <1>v, <1>p DEF WatcherType
    <3>2. watcher' = [watcher EXCEPT ![e] = v]
      BY <1>13, <1>v, <1>w DEF WatcherType, SeriesNotFound
    <3> HIDE DEF v
    <3> QED BY <1>w, <3>1, <3>2
  <2> QED BY <1>11, <1>13, <1>d, <1>q, <2>1 DEF SeriesNotFound, At
<1>14. Appending(e) => watcher[e].pc = "append"
  BY DEF Appending, At
<1>15. watcher[e].pc = "append" => Entry(e) \in Nat
  BY <1>0, EntryPlace
<1>16. queue[e].batch \in Seq(Nat) /\ queue[e].chan \in Seq(Seq(Nat))
  BY <1>q DEF QueueType
<1>17. CASE AppendToBatch(e)
  <2>1. Append(queue[e].batch, Entry(e)) \in Seq(Nat)
    BY <1>14, <1>15, <1>16, <1>17, AppendProperties DEF AppendToBatch
  <2>2. queue' \in [Endpoints -> QueueType]
    BY <1>17, <1>q, <2>1 DEF AppendToBatch, QueueType
  <2> QED BY <1>11, <1>12, <1>14, <1>17, <1>d, <2>2 DEF AppendToBatch
<1>18. CASE AppendToNext(e)
  <2>1. Append(queue[e].chan, queue[e].batch) \in Seq(Seq(Nat)) /\ <<Entry(e)>> \in Seq(Nat)
    BY <1>14, <1>15, <1>16, <1>18, AppendProperties DEF AppendToNext
  <2>2. queue' \in [Endpoints -> QueueType]
    BY <1>18, <1>q, <2>1 DEF AppendToNext, QueueType
  <2> QED BY <1>11, <1>12, <1>14, <1>18, <1>d, <2>2 DEF AppendToNext
<1>19. CASE AppendLimited(e)
  <2>1. limited' \in [Endpoints -> SUBSET Nat]
    BY <1>14, <1>15, <1>19, <1>d DEF AppendLimited
  <2> QED BY <1>11, <1>12, <1>14, <1>19, <1>q, <2>1 DEF AppendLimited
<1>20. CASE AppendOverflow(e)
  BY <1>11, <1>12, <1>14, <1>20, <1>d, <1>q DEF AppendOverflow
<1>21. CASE UpdateReceivedData(e)
  <2>1. watcher[e].seg \in Segments /\ watcher[e].rcv \in Int
    <3>1. watcher[e].seg \in Segments
      BY <1>0, <1>21, SegmentType DEF UpdateReceivedData, At
    <3>2. watcher[e].rcv \in {0, 1}
      BY <1>w DEF WatcherType
    <3> QED BY <3>1, <3>2
  <2>2. [seg |-> watcher[e].seg, n |-> watcher[e].rcv] \in Update
    BY <2>1, UpdatesType
  <2>3. tracker \in [Endpoints -> TrackerType] /\ tracker[e].updates \in Seq(Update)
    BY <1>0 DEF TypeOK, TrackerType
  <2>4. Append(tracker[e].updates, [seg |-> watcher[e].seg, n |-> watcher[e].rcv]) \in Seq(Update)
    BY <2>2, <2>3, AppendProperties
  <2>5. tracker' \in [Endpoints -> TrackerType]
    BY <1>21, <2>3, <2>4 DEF UpdateReceivedData, TrackerType
  <2>6. watcher' \in [Endpoints -> WatcherType]
    <3> DEFINE v == [watcher[e] EXCEPT !.rcv = 0, !.pos = @ + 1, !.pc = "read"]
    <3>1. v \in WatcherType
      BY <1>v, <1>p DEF WatcherType
    <3>2. watcher' = [watcher EXCEPT ![e] = v]
      BY <1>21, <1>v, <1>w DEF WatcherType, UpdateReceivedData
    <3> HIDE DEF v
    <3> QED BY <1>w, <3>1, <3>2
  <2> QED BY <1>0, <1>21, <2>5, <2>6 DEF UpdateReceivedData, TypeOK, disk, history
<1>22. CASE DrainOver(e)
  <2>1. watcher' \in [Endpoints -> WatcherType]
    BY <1>22, <1>w DEF DrainOver, WatcherType
  <2> QED BY <1>0, <1>22, <2>1 DEF DrainOver, TypeOK, PairOnly, disk, history
<1> QED
  BY <1>2, <1>3, <1>4, <1>5, <1>6, <1>7, <1>8, <1>9, <1>10, <1>13, <1>17, <1>18, <1>19, <1>20,
     <1>21, <1>22 DEF WatcherStep

\* What an update does to the tracker.
Tracks(e, old, u, counts, found) ==
  /\ u = Head(tracker[e].updates)
  /\ \A s \in Segments : s # u.seg => counts[s] = tracker[e].counts[s]
  /\ counts[u.seg] = (IF tracker[e].counts[u.seg] # None THEN tracker[e].counts[u.seg] ELSE 0) + u.n
  /\ found = -1 \/ (found \in Segments /\ counts[found] # None)
  /\ \A t \in Segments : t <= found /\ counts[t] # None => counts[t] = 0 \/ t \in old
  /\ tracker' = [tracker EXCEPT ![e] = [tracker[e] EXCEPT
       !.updates = Tail(@),
       !.counts = [s \in Segments |-> IF s <= found THEN None ELSE counts[s]],
       !.marked = Max({@, found})]]
  /\ marker' = IF found > tracker[e].marked THEN found ELSE marker

LEMMA TrackFacts ==
  ASSUME TypeOK, NEW e \in Endpoints, NEW tick \in BOOLEAN, NEW old \in SUBSET Segments,
         TrackUpdate(e, tick, old)
  PROVE  \E u \in Update, counts \in [Segments -> Int \cup {None}], found \in Int :
           Tracks(e, old, u, counts, found)
<1>0. tracker \in [Endpoints -> TrackerType] /\ tracker[e] \in TrackerType
  BY DEF TypeOK
<1>1. /\ tracker[e].updates \in Seq(Update) /\ tracker[e].updates # <<>>
      /\ tracker[e].counts \in [Segments -> Int \cup {None}] /\ tracker[e].marked \in Int
  BY <1>0 DEF TrackerType, TrackUpdate
<1> DEFINE known == {s \in Segments : tracker[e].counts[s] # None}
           h == Head(tracker[e].updates)
           c == [tracker[e].counts EXCEPT ![h.seg] = (IF h.seg \in known THEN @ ELSE 0) + h.n]
           find == tick \/ (h.seg \in known /\ c[h.seg] = 0)
           g == IF find THEN findMarkableSegment(c, old) ELSE -1
<1>2. /\ tracker' = [tracker EXCEPT
           ![e].updates = Tail(@),
           ![e].counts = [s \in Segments |-> IF s <= g THEN None ELSE c[s]],
           ![e].marked = Max({@, g})]
      /\ marker' = IF g > tracker[e].marked THEN g ELSE marker
  BY Zenon DEF TrackUpdate
<1> HIDE DEF g
<1>3. PICK u \in Update : u = h
  BY <1>1, HeadTailProperties
<1>4. u.seg \in Segments /\ u.n \in Int
  BY <1>3 DEF Update
<1>5. (IF u.seg \in known THEN tracker[e].counts[u.seg] ELSE 0) + u.n \in Int
  BY <1>1, <1>4
<1>6. PICK counts \in [Segments -> Int \cup {None}] : counts = c
  BY <1>1, <1>3, <1>4, <1>5
<1>7. /\ \A s \in Segments : s # u.seg => counts[s] = tracker[e].counts[s]
      /\ counts[u.seg] = (IF tracker[e].counts[u.seg] # None THEN tracker[e].counts[u.seg] ELSE 0) + u.n
  BY <1>1, <1>3, <1>4, <1>6
<1> HIDE DEF c, known, h, find
<1>8. PICK found : found = g /\ found = IF find THEN findMarkableSegment(counts, old) ELSE -1
  BY <1>6 DEF g
<1>9. /\ found \in Int
      /\ found = -1 \/ (found \in Segments /\ counts[found] # None)
      /\ \A t \in Segments : t <= found /\ counts[t] # None => counts[t] = 0 \/ t \in old
  <2>1. CASE find
    <3>1. found = findMarkableSegment(counts, old)
      BY <1>8, <2>1
    <3> QED BY <3>1, Markable
  <2>2. CASE ~find
    <3>1. found = -1 /\ \A t \in Segments : ~(t <= found)
      BY <1>8, <2>2, SegmentsAre
    <3> QED BY <3>1
  <2> QED BY <2>1, <2>2
<1>10. tracker' = [tracker EXCEPT ![e] = [tracker[e] EXCEPT
         !.updates = Tail(@),
         !.counts = [s \in Segments |-> IF s <= found THEN None ELSE counts[s]],
         !.marked = Max({@, found})]]
  <2>1. PICK T, K, M : /\ T = Tail(tracker[e].updates) /\ M = Max({tracker[e].marked, found})
                       /\ K = [s \in Segments |-> IF s <= found THEN None ELSE counts[s]]
    OBVIOUS
  <2>2. tracker' = [tracker EXCEPT ![e].updates = T, ![e].counts = K, ![e].marked = M]
    BY <1>2, <1>6, <1>8, <2>1
  <2>3. tracker' = [tracker EXCEPT ![e] = [tracker[e] EXCEPT !.updates = T, !.counts = K, !.marked = M]]
    BY <1>0, <2>2
  <2> QED BY <2>1, <2>3
<1>11. Tracks(e, old, u, counts, found)
  BY <1>2, <1>3, <1>7, <1>8, <1>9, <1>10 DEF Tracks, h
<1> QED BY <1>9, <1>11

\* The updates v report batch b as sent, segment by segment.
Reports(v, b) ==
  /\ \A i, j \in 1..Len(v) : v[i].seg = v[j].seg => i = j
  /\ \A i \in 1..Len(v) : v[i].n = -CountOf(b, v[i].seg) /\ \E x \in ToSet(b) : v[i].seg = SegmentOf(x)
  /\ \A x \in ToSet(b) : \E i \in 1..Len(v) : v[i].seg = SegmentOf(x)

\* The oldest batch is sent.
Sends(e, b, v) ==
  /\ queue[e].sending # <<>> /\ b = Head(queue[e].sending)
  /\ Reports(v, b)
  /\ tracker' = [tracker EXCEPT ![e].updates = @ \o v]
  /\ Batches(e)' = Tail(Batches(e)) /\ b = Head(Batches(e))

LEMMA SequencesOfSet ==
  ASSUME NEW S, IsFiniteSet(S), NEW f \in SetToSeqs(S)
  PROVE  /\ f \in Seq(S) /\ \A i, j \in 1..Len(f) : f[i] = f[j] => i = j
         /\ \A x \in S : \E i \in 1..Len(f) : f[i] = x
<1>1. PICK n \in Nat : n = Cardinality(S)
  BY FS_CardinalityType
<1>2. f \in [1..n -> S] /\ \A i, j \in 1..n : i # j => f[i] # f[j]
  BY <1>1 DEF SetToSeqs
<1>3. f \in Seq(S) /\ Len(f) = n
  BY <1>2
<1>4. f \in Injection(1..n, S)
  BY <1>2 DEF Injection, IsInjective
<1>5. Cardinality(1..n) = n
  BY FS_Interval
<1>6. f \in Surjection(1..n, S)
  BY <1>1, <1>4, <1>5, FS_Injection
<1>7. \A x \in S : \E i \in 1..n : f[i] = x
  BY <1>6 DEF Surjection
<1> QED BY <1>2, <1>3, <1>7

LEMMA FiniteSegments == \A S : S \subseteq Segments => IsFiniteSet(S)
<1>1. IsFiniteSet(Segments)
  BY LokiWalAssumption, FS_Interval DEF Segments
<1> QED BY <1>1, FS_Subset

LEMMA HeadTailConcat ==
  ASSUME NEW S, NEW p \in Seq(S), p # <<>>, NEW c \in Seq(S)
  PROVE  Head(p \o c) = Head(p) /\ Tail(p \o c) = Tail(p) \o c /\ p \o c # <<>>
<1>1. PICK t \in Seq(S) : t = Tail(p)
  BY HeadTailProperties
<1>2. Len(p) \in Nat \ {0} /\ Len(c) \in Nat /\ Len(t) = Len(p) - 1 /\ \A i \in 1..Len(t) : t[i] = p[i + 1]
  BY <1>1, EmptySeq, LenProperties, HeadTailProperties
<1>3. PICK d \in Seq(S) : d = p \o c
  BY ConcatProperties
<1>4. /\ Len(d) = Len(p) + Len(c)
      /\ \A i \in 1..(Len(p) + Len(c)) : d[i] = IF i <= Len(p) THEN p[i] ELSE c[i - Len(p)]
  BY <1>3, ConcatProperties
<1>5. d # <<>>
  BY <1>2, <1>4, EmptySeq
<1>6. PICK y \in Seq(S) : y = Tail(d)
  BY <1>5, HeadTailProperties
<1>7. Len(y) = Len(d) - 1 /\ \A i \in 1..Len(y) : y[i] = d[i + 1]
  BY <1>5, <1>6, HeadTailProperties
<1>8. PICK z \in Seq(S) : z = t \o c
  BY ConcatProperties
<1>9. /\ Len(z) = Len(t) + Len(c)
      /\ \A i \in 1..(Len(t) + Len(c)) : z[i] = IF i <= Len(t) THEN t[i] ELSE c[i - Len(t)]
  BY <1>8, ConcatProperties
<1>10. Len(y) = Len(z)
  BY <1>2, <1>4, <1>7, <1>9
<1>11. ASSUME NEW i \in 1..Len(y) PROVE y[i] = z[i]
  <2>1. i + 1 \in 1..(Len(p) + Len(c)) /\ i \in 1..(Len(t) + Len(c))
    BY <1>2, <1>4, <1>7
  <2>2. y[i] = d[i + 1]
    BY <1>7
  <2>3. CASE i <= Len(t)
    <3>1. i + 1 <= Len(p) /\ i \in 1..Len(t)
      BY <1>2, <2>3
    <3> QED BY <1>2, <1>4, <1>9, <2>1, <2>2, <2>3, <3>1
  <2>4. CASE ~(i <= Len(t))
    <3>1. ~(i + 1 <= Len(p)) /\ (i + 1) - Len(p) = i - Len(t)
      BY <1>2, <2>4
    <3> QED BY <1>4, <1>9, <2>1, <2>2, <2>4, <3>1
  <2> QED BY <2>3, <2>4
<1>12. y = z
  BY <1>10, <1>11, SeqEqual
<1>13. Head(d) = Head(p)
  <2>1. 1 \in 1..(Len(p) + Len(c)) /\ 1 <= Len(p)
    BY <1>2
  <2> QED BY <1>4, <1>5, <2>1
<1> QED BY <1>1, <1>3, <1>5, <1>6, <1>8, <1>12, <1>13

LEMMA Singleton ==
  ASSUME NEW S, NEW x \in S
  PROVE  <<x>> \in Seq(S) /\ Len(<<x>>) = 1 /\ <<x>>[1] = x
OBVIOUS

LEMMA HeadAndTail ==
  ASSUME NEW S, NEW p \in Seq(S), p # <<>>
  PROVE  <<Head(p)>> \o Tail(p) = p
<1>1. PICK t \in Seq(S) : t = Tail(p)
  BY HeadTailProperties
<1>2. Len(p) \in Nat \ {0} /\ Len(t) = Len(p) - 1 /\ \A i \in 1..Len(t) : t[i] = p[i + 1]
  BY <1>1, EmptySeq, HeadTailProperties
<1>3. PICK h \in Seq(S) : h = <<Head(p)>>
  <2>1. Head(p) \in S
    BY HeadTailProperties
  <2> QED BY <2>1, Singleton
<1>4. Len(h) = 1 /\ h[1] = p[1]
  BY <1>3
<1>5. PICK d \in Seq(S) : d = h \o t
  BY ConcatProperties
<1>6. /\ Len(d) = Len(h) + Len(t)
      /\ \A i \in 1..(Len(h) + Len(t)) : d[i] = IF i <= Len(h) THEN h[i] ELSE t[i - Len(h)]
  BY <1>5, ConcatProperties
<1>7. Len(d) = Len(p)
  BY <1>2, <1>4, <1>6
<1>8. ASSUME NEW i \in 1..Len(d) PROVE d[i] = p[i]
  <2>1. CASE i = 1
    BY <1>2, <1>4, <1>6, <2>1
  <2>2. CASE i # 1
    <3>1. ~(i <= Len(h)) /\ i - Len(h) = i - 1 /\ i - 1 \in 1..Len(t) /\ (i - 1) + 1 = i
      BY <1>2, <1>4, <1>7, <2>2
    <3>2. d[i] = t[i - 1]
      BY <1>6, <3>1
    <3> QED BY <1>2, <3>1, <3>2
  <2> QED BY <2>1, <2>2
<1>9. d = p
  BY <1>7, <1>8, SeqEqual
<1> QED BY <1>1, <1>3, <1>5, <1>9

LEMMA SendFacts ==
  ASSUME IInv, NEW e \in Endpoints, SendBatch(e)
  PROVE  \E b \in Seq(Nat), v \in Seq(Update) : Sends(e, b, v)
<1>0. TypeOK /\ LogOK /\ EInv(e)
  BY DEF IInv
<1>1. queue \in [Endpoints -> QueueType] /\ queue[e] \in QueueType
  BY <1>0 DEF TypeOK
<1>2. PICK p \in Seq(Seq(Nat)), c \in Seq(Seq(Nat)), a \in Seq(Nat) :
        p = queue[e].sending /\ c = queue[e].chan /\ a = queue[e].batch
  BY <1>1 DEF QueueType
<1>3. p # <<>>
  BY <1>0, <1>2 DEF EInv, Phases, SendBatch, ShardAt
<1>4. PICK b \in Seq(Nat) : b = Head(p)
  BY <1>3, HeadTailProperties
<1>5. Batches(e) = p \o c \o <<a>>
  BY <1>2 DEF Batches
<1>6. PICK r \in Seq(Seq(Nat)) : r = <<a>>
  BY Singleton
<1>7. PICK q \in Seq(Seq(Nat)) : q = p \o c
  BY ConcatProperties
<1>8. q # <<>> /\ Head(q) = b /\ Tail(q) = Tail(p) \o c
  BY <1>3, <1>4, <1>7, HeadTailConcat
<1>9. PICK w \in Seq(Seq(Nat)) : w = q \o r
  BY ConcatProperties
<1>10. w # <<>> /\ Head(w) = b /\ Tail(w) = Tail(q) \o r
  BY <1>8, <1>9, HeadTailConcat
<1>11. w = Batches(e)
  BY <1>5, <1>6, <1>7, <1>9
<1>12. Batches(e)' = Tail(w)
  <2>1. queue'[e].sending = Tail(p) /\ queue'[e].chan = c /\ queue'[e].batch = a
    BY <1>1, <1>2 DEF SendBatch, QueueType
  <2>2. Batches(e)' = Tail(p) \o c \o <<a>>
    BY <2>1 DEF Batches
  <2> QED BY <1>6, <1>8, <1>10, <2>2
<1>13. ToSet(b) \subseteq InFlight(e) /\ \A k, l \in 1..Len(b) : b[k] = b[l] => k = l
  <2>1. Apart(w) /\ Entries(w) = InFlight(e)
    BY <1>0, <1>11 DEF EInv, Entries, InFlight
  <2>2. ToSet(Head(w)) \subseteq Entries(w) /\ \A k, l \in 1..Len(Head(w)) : Head(w)[k] = Head(w)[l] => k = l
    BY <1>10, <2>1, BatchesShrink
  <2>3. b = Head(w)
    BY <1>10
  <2> QED BY <2>1, <2>2, <2>3
<1>14. \A x \in ToSet(b) : SegmentOf(x) \in Segments
  <2>1. InFlight(e) \subseteq Written
    BY <1>0 DEF EInv, HandledIsRead, Handled
  <2>2. PlacesOK
    BY <1>0, PlaceFacts
  <2> QED BY <1>13, <2>1, <2>2 DEF PlacesOK
<1> DEFINE segments == {SegmentOf(x) : x \in ToSet(b)}
<1>15. segments \subseteq Segments /\ IsFiniteSet(segments)
  BY <1>14, FiniteSegments
<1>16. PICK order \in SetToSeqs(segments) :
         tracker' = [tracker EXCEPT
            ![e].updates = @ \o [i \in 1..Len(order) |-> SentUpdate(b, order[i])]]
  BY <1>2, <1>4 DEF SendBatch
<1> HIDE DEF segments
<1>17. /\ order \in Seq(segments) /\ \A i, j \in 1..Len(order) : order[i] = order[j] => i = j
       /\ \A x \in segments : \E i \in 1..Len(order) : order[i] = x
  BY <1>15, SequencesOfSet
<1>18. PICK n \in Nat : n = Len(order)
  BY <1>17, SeqFacts
<1>19. \A i \in 1..n : order[i] \in segments
  BY <1>17, <1>18, SeqFacts
<1>20. ASSUME NEW s \in Segments PROVE SentUpdate(b, s) \in Update
  <2>1. CountOf(b, s) \in Nat
    BY <1>13, CountIsCardinality
  <2>2. -CountOf(b, s) \in Int
    BY <2>1
  <2> QED BY <2>2, UpdatesType DEF SentUpdate
<1> DEFINE g == [i \in 1..n |-> SentUpdate(b, order[i])]
<1>21. PICK v \in Seq(Update) : v = g
  <2>1. \A i \in 1..n : SentUpdate(b, order[i]) \in Update
    BY <1>15, <1>19, <1>20
  <2>2. g \in Seq(Update)
    BY <2>1
  <2> QED BY <2>2
<1>22. Len(v) = n /\ \A i \in 1..n : v[i].seg = order[i] /\ v[i].n = -CountOf(b, order[i])
  BY <1>21 DEF SentUpdate
<1>23. tracker' = [tracker EXCEPT ![e].updates = @ \o v]
  BY <1>16, <1>18, <1>21
<1> HIDE DEF g
<1>24. \A i, j \in 1..n : v[i].seg = v[j].seg => i = j
  BY <1>17, <1>18, <1>22
<1>25. \A i \in 1..n : v[i].n = -CountOf(b, v[i].seg) /\ \E x \in ToSet(b) : v[i].seg = SegmentOf(x)
  BY <1>19, <1>22 DEF segments
<1>26. \A x \in ToSet(b) : \E i \in 1..n : v[i].seg = SegmentOf(x)
  <2> SUFFICES ASSUME NEW x \in ToSet(b) PROVE \E i \in 1..n : v[i].seg = SegmentOf(x)
    OBVIOUS
  <2>1. SegmentOf(x) \in segments
    BY DEF segments
  <2>2. PICK i \in 1..n : order[i] = SegmentOf(x)
    BY <1>17, <1>18, <2>1
  <2> QED BY <1>22, <2>2
<1>27. Sends(e, b, v)
  BY <1>2, <1>3, <1>4, <1>10, <1>11, <1>12, <1>22, <1>23, <1>24, <1>25, <1>26 DEF Sends, Reports
<1> QED BY <1>27

LEMMA QueueTypes ==
  ASSUME IInv, NEW e \in Endpoints, ShardStep(e) \/ FlushAndShutdown(e)
  PROVE  TypeOK'
<1>0. TypeOK /\ LogOK /\ EInv(e)
  BY DEF IInv
<1>1. queue \in [Endpoints -> QueueType] /\ queue[e] \in QueueType
  BY <1>0 DEF TypeOK
<1>2. PICK p \in Seq(Seq(Nat)), c \in Seq(Seq(Nat)), a \in Seq(Nat) :
        p = queue[e].sending /\ c = queue[e].chan /\ a = queue[e].batch
  BY <1>1 DEF QueueType
<1>3. ASSUME QueueOnly, queue' \in [Endpoints -> QueueType] PROVE TypeOK'
  BY <1>0, <1>3 DEF TypeOK, QueueOnly, disk, history
<1>4. <<>> \in Seq(Nat) /\ <<>> \in Seq(Seq(Nat))
  BY EmptySeq
<1>5. CASE TakeBatch(e)
  <2> DEFINE v == [queue[e] EXCEPT !.sending = <<Head(c)>>, !.chan = Tail(c), !.pc = "send"]
  <2>1. Head(c) \in Seq(Nat) /\ Tail(c) \in Seq(Seq(Nat))
    BY <1>2, <1>5, HeadTailProperties DEF TakeBatch
  <2>2. <<Head(c)>> \in Seq(Seq(Nat))
    BY <2>1, Singleton
  <2>3. v \in QueueType
    BY <1>1, <2>1, <2>2 DEF QueueType
  <2>4. queue' = [queue EXCEPT ![e] = v]
    BY <1>1, <1>2, <1>5 DEF QueueType, TakeBatch
  <2> HIDE DEF v
  <2>5. queue' \in [Endpoints -> QueueType]
    BY <1>1, <2>3, <2>4
  <2> QED BY <1>3, <1>5, <2>5 DEF TakeBatch
<1>6. CASE SendBatch(e)
  <2>1. PICK b \in Seq(Nat), w \in Seq(Update) : Sends(e, b, w)
    BY <1>6, SendFacts
  <2>2. Tail(p) \in Seq(Seq(Nat))
    BY <1>2, <2>1, HeadTailProperties DEF Sends
  <2>3. queue' \in [Endpoints -> QueueType]
    <3> DEFINE v == [queue[e] EXCEPT !.sending = Tail(p), !.pc = IF Len(p) > 1 THEN "send" ELSE "select"]
    <3>1. v \in QueueType
      BY <1>1, <2>2 DEF QueueType
    <3>2. queue' = [queue EXCEPT ![e] = v]
      BY <1>1, <1>2, <1>6 DEF QueueType, SendBatch
    <3> HIDE DEF v
    <3> QED BY <1>1, <3>1, <3>2
  <2>4. tracker' \in [Endpoints -> TrackerType]
    <3>1. tracker \in [Endpoints -> TrackerType] /\ tracker[e] \in TrackerType
      BY <1>0 DEF TypeOK
    <3>2. tracker[e].updates \in Seq(Update)
      BY <3>1 DEF TrackerType
    <3>3. PICK u \in Seq(Update) : u = tracker[e].updates \o w
      BY <3>2, ConcatProperties
    <3>4. tracker' = [tracker EXCEPT ![e].updates = u]
      BY <2>1, <3>3 DEF Sends
    <3> QED BY <3>1, <3>4 DEF TrackerType
  <2>5. done' \in [Endpoints -> SUBSET Nat]
    <3>1. b = Head(p) /\ done' = [done EXCEPT ![e] = @ \cup ToSet(b)]
      BY <1>2, <1>6, <2>1 DEF Sends, SendBatch
    <3>2. ToSet(b) \subseteq Nat
      <4>1. \A x : x \in ToSet(b) <=> \E k \in 1..Len(b) : x = b[k]
        BY SeqFacts
      <4>2. \A k \in 1..Len(b) : b[k] \in Nat
        BY SeqFacts
      <4> QED BY <4>1, <4>2
    <3>3. done \in [Endpoints -> SUBSET Nat]
      BY <1>0 DEF TypeOK
    <3> QED BY <3>1, <3>2, <3>3
  <2> QED BY <1>0, <1>6, <2>3, <2>4, <2>5 DEF TypeOK, SendBatch, disk
<1>7. CASE ShardExit(e)
  <2>1. queue' \in [Endpoints -> QueueType]
    BY <1>1, <1>7 DEF QueueType, ShardExit
  <2> QED BY <1>3, <1>7, <2>1 DEF ShardExit
<1>8. ASSUME NEW isOld \in BOOLEAN, DrainQueue(e, isOld) PROVE TypeOK'
  <2>1. PICK o \in Seq(Seq(Nat)) : o = IF isOld /\ a # <<>> THEN <<a>> ELSE <<>>
    BY <1>4, Singleton
  <2>2. PICK t \in Seq(Seq(Nat)) : t = c \o o
    BY ConcatProperties
  <2>3. PICK n \in Seq(Nat) : n = IF isOld THEN <<>> ELSE a
    BY <1>4
  <2> DEFINE v == [queue[e] EXCEPT !.sending = t, !.chan = <<>>, !.pc = "send", !.batch = n]
  <2>4. v \in QueueType
    BY <1>1, <1>4 DEF QueueType
  <2>5. queue' = [queue EXCEPT ![e].sending = t, ![e].chan = <<>>, ![e].pc = "send", ![e].batch = n]
    BY <1>1, <1>2, <1>8, <2>1, <2>2, <2>3 DEF DrainQueue, QueueType
  <2>6. queue' = [queue EXCEPT ![e] = v]
    BY <1>1, <2>5 DEF QueueType
  <2> HIDE DEF v
  <2>7. queue' \in [Endpoints -> QueueType]
    BY <1>1, <2>4, <2>6
  <2> QED BY <1>3, <1>8, <2>7 DEF DrainQueue
<1>9. CASE FlushAndShutdown(e)
  <2>1. PICK d \in Seq(Seq(Nat)) : d = IF a = <<>> THEN c ELSE Append(c, a)
    BY AppendProperties
  <2> DEFINE v == [queue[e] EXCEPT !.chan = d, !.batch = <<>>, !.closed = TRUE]
  <2>2. v \in QueueType
    BY <1>1, <1>4 DEF QueueType
  <2>3. queue' = [queue EXCEPT ![e].chan = d, ![e].batch = <<>>, ![e].closed = TRUE]
    BY <1>1, <1>2, <1>9, <2>1 DEF FlushAndShutdown, QueueType
  <2>4. queue' = [queue EXCEPT ![e] = v]
    BY <1>1, <2>3 DEF QueueType
  <2> HIDE DEF v
  <2>5. queue' \in [Endpoints -> QueueType]
    BY <1>1, <2>2, <2>4
  <2> QED BY <1>3, <1>9, <2>5 DEF FlushAndShutdown
<1> QED BY <1>5, <1>6, <1>7, <1>8, <1>9 DEF ShardStep

LEMMA NewTypes ==
  /\ NewWatcher \in WatcherType /\ NewQueue \in QueueType
  /\ \A m \in Int : NewTracker(m) \in TrackerType
<1>1. NewWatcher \in WatcherType
  BY SegmentsAre DEF NewWatcher, WatcherType
<1>2. <<>> \in Seq(Nat) /\ <<>> \in Seq(Seq(Nat)) /\ <<>> \in Seq(Update)
  BY EmptySeq
<1>3. NewQueue \in QueueType
  BY <1>2 DEF NewQueue, QueueType
<1>4. \A m \in Int : NewTracker(m) \in TrackerType
  BY <1>2 DEF NewTracker, TrackerType
<1> QED BY <1>1, <1>3, <1>4

LEMMA TrackTypes ==
  ASSUME IInv, NEW e \in Endpoints, TrackStep(e)
  PROVE  TypeOK'
<1>0. TypeOK /\ LogOK /\ EInv(e)
  BY DEF IInv
<1>1. PICK tick \in BOOLEAN, old \in SUBSET Segments : TrackUpdate(e, tick, old)
  BY DEF TrackStep
<1>2. PICK u \in Update, counts \in [Segments -> Int \cup {None}], found \in Int :
        Tracks(e, old, u, counts, found)
  BY <1>0, <1>1, TrackFacts
<1>3. tracker \in [Endpoints -> TrackerType] /\ tracker[e] \in TrackerType
  BY <1>0 DEF TypeOK
<1>4. /\ tracker[e].updates \in Seq(Update) /\ tracker[e].updates # <<>>
      /\ tracker[e].counts \in [Segments -> Int \cup {None}] /\ tracker[e].marked \in Int
  BY <1>1, <1>3 DEF TrackerType, TrackUpdate
<1>5. tracker' \in [Endpoints -> TrackerType]
  <2>1. PICK T \in Seq(Update) : T = Tail(tracker[e].updates)
    BY <1>4, HeadTailProperties
  <2>2. PICK M \in Int : M = Max({tracker[e].marked, found})
    BY <1>4, MaxOfTwo
  <2>3. PICK K \in [Segments -> Int \cup {None}] : K = [s \in Segments |-> IF s <= found THEN None ELSE counts[s]]
    OBVIOUS
  <2> DEFINE v == [tracker[e] EXCEPT !.updates = T, !.counts = K, !.marked = M]
  <2>4. v \in TrackerType
    BY <1>3 DEF TrackerType
  <2>5. tracker' = [tracker EXCEPT ![e] = v]
    BY <1>2, <2>1, <2>2, <2>3 DEF Tracks
  <2> HIDE DEF v
  <2> QED BY <1>3, <2>4, <2>5
<1>6. marker' \in Int /\ marker' <= last
  <2>1. marker \in Int /\ marker <= last /\ last \in Nat
    BY <1>0, SegmentsAre DEF TypeOK
  <2>2. CASE found = -1
    BY <1>2, <2>1, <2>2 DEF Tracks
  <2>3. CASE found \in Segments /\ counts[found] # None
    <3>1. found \in Touched(e)
      <4>1. CASE found = u.seg
        <5>1. 1 \in 1..Len(tracker[e].updates) /\ u = tracker[e].updates[1]
          BY <1>2, <1>4, EmptySeq DEF Tracks
        <5> QED BY <4>1, <5>1 DEF Touched, Told
      <4>2. CASE found # u.seg
        BY <1>2, <2>3, <4>2 DEF Tracks, Touched, Known
      <4> QED BY <4>1, <4>2
    <3>2. found <= last
      BY <1>0, <3>1 DEF EInv, TouchedIsReached
    <3> QED BY <1>2, <2>1, <3>2 DEF Tracks
  <2> QED BY <1>2, <2>2, <2>3 DEF Tracks
<1> QED BY <1>0, <1>1, <1>5, <1>6 DEF TypeOK, TrackUpdate

LEMMA StopTypes ==
  ASSUME IInv
  PROVE  /\ \A e \in Endpoints : HardShutdown(e) \/ TrackerStop(e) => TypeOK'
         /\ \A drain \in BOOLEAN : StopConsumer(drain) => TypeOK'
         /\ \A crash \in BOOLEAN : Down(crash) => TypeOK'
         /\ Restart => TypeOK'
<1>0. TypeOK
  BY DEF IInv
<1>1. ASSUME NEW e \in Endpoints, HardShutdown(e) PROVE TypeOK'
  BY <1>0, <1>1 DEF TypeOK, HardShutdown, PairOnly, disk, history
<1>2. ASSUME NEW e \in Endpoints, TrackerStop(e) PROVE TypeOK'
  <2>1. NewQueue \in QueueType /\ NewTracker(marker) \in TrackerType
    BY <1>0, NewTypes DEF TypeOK
  <2>2. /\ queue \in [Endpoints -> QueueType] /\ tracker \in [Endpoints -> TrackerType]
        /\ limited \in [Endpoints -> SUBSET Nat]
    BY <1>0 DEF TypeOK
  <2>3. /\ queue' \in [Endpoints -> QueueType] /\ tracker' \in [Endpoints -> TrackerType]
        /\ limited' \in [Endpoints -> SUBSET Nat]
    BY <1>2, <2>1, <2>2 DEF TrackerStop
  <2> QED BY <1>0, <1>2, <2>3 DEF TypeOK, TrackerStop, disk
<1>3. ASSUME NEW drain \in BOOLEAN, StopConsumer(drain) PROVE TypeOK'
  <2>1. watcher \in [Endpoints -> WatcherType]
    BY <1>0 DEF TypeOK
  <2>2. watcher' \in [Endpoints -> WatcherType]
    BY <1>3, <2>1 DEF StopConsumer, WatcherType
  <2>3. ppc' \in [Endpoints -> {"run", "drain", "stop", "hard", "stopped"}]
    BY <1>3 DEF StopConsumer
  <2> QED BY <1>0, <1>3, <2>2, <2>3 DEF TypeOK, StopConsumer, disk, history
<1>4. ASSUME NEW crash \in BOOLEAN, Down(crash) PROVE TypeOK'
  <2>1. NewWatcher \in WatcherType /\ NewQueue \in QueueType /\ NewTracker(marker) \in TrackerType
    BY <1>0, NewTypes DEF TypeOK
  <2>2. /\ queue' \in [Endpoints -> QueueType] /\ tracker' \in [Endpoints -> TrackerType]
        /\ limited' \in [Endpoints -> SUBSET Nat] /\ watcher' \in [Endpoints -> WatcherType]
        /\ ppc' \in [Endpoints -> {"run", "drain", "stop", "hard", "stopped"}]
    BY <1>4, <2>1 DEF Down
  <2> QED BY <1>0, <1>4, <2>2 DEF TypeOK, Down, disk
<1>5. ASSUME Restart PROVE TypeOK'
  <2>1. last' \in Segments /\ last < last'
    BY <1>0, <1>5, LokiWalAssumption DEF Restart, TypeOK, Segments
  <2>2. first' = first /\ marker' = marker /\ first \in Nat /\ last \in Nat /\ last' \in Nat
    BY <1>0, <1>5, <2>1, SegmentsAre DEF Restart, TypeOK
  <2>3. first' <= last' /\ marker' <= last'
    BY <1>0, <2>1, <2>2 DEF TypeOK
  <2> QED BY <1>0, <1>5, <2>1, <2>3 DEF TypeOK, Restart, history
<1> QED BY <1>1, <1>2, <1>3, <1>4, <1>5

LEMMA TypeNext == IInv /\ [Next]_vars => TypeOK'
<1> SUFFICES ASSUME IInv, [Next]_vars PROVE TypeOK'
  OBVIOUS
<1>1. ASSUME NEW e \in Endpoints,
             \/ WatcherStep(e) \/ AppendOverflow(e) \/ ShardStep(e) \/ TrackStep(e)
             \/ StopStep(e) \/ HardShutdown(e)
      PROVE  TypeOK'
  BY <1>1, WatcherTypes, QueueTypes, TrackTypes, StopTypes DEF StopStep
<1>2. CASE UNCHANGED vars
  BY <1>2 DEF IInv, TypeOK, vars
<1>3. CASE Halted
  BY <1>2, <1>3 DEF Halted
<1>4. CASE WriterStep
  BY <1>4, WriterTypes
<1> QED BY <1>1, <1>2, <1>3, <1>4, StopTypes DEF Next

-----------------------------------------------------------------------------
(***************************************************************************)
(* The log grows at its end                                                *)
(***************************************************************************)

LEMMA SameLogOK ==
  ASSUME TypeOK, TypeOK', LogOK, log' = log, last <= last'
  PROVE  LogOK'
<1>1. Written' = Written
  BY SameLog
<1>2. \A s \in Segments : s > last' => s > last
  BY SegmentsAre DEF TypeOK
<1> QED BY <1>1, <1>2 DEF LogOK

\* Entry x is written, at the end of the last segment.
Writes(x) ==
  /\ x \notin Written /\ Written' = Written \cup {x}
  /\ \A s \in Segments : \A i \in 1..Len(log[s]) : i \in 1..Len(log'[s]) /\ log'[s][i] = log[s][i]
  /\ \A s \in Segments : \A i \in 1..Len(log'[s]) :
       i \in 1..Len(log[s]) \/ (s = last /\ i = Len(log[last]) + 1 /\ log'[s][i] = x)
  /\ \A s \in Segments : Len(log[s]) <= Len(log'[s])
  /\ \A y \in Written : SegmentOf(y)' = SegmentOf(y)
  /\ SegmentOf(x)' = last

LEMMA WriteFacts ==
  ASSUME TypeOK, TypeOK', LogOK, WriteEntry
  PROVE  LogOK' /\ \E x \in Nat : Writes(x)
<1>0. PlacesOK
  BY PlaceFacts
<1>1. PICK n \in Nat : n = Cardinality(Written) /\ Written = 1..n
  BY FS_CardinalityType DEF LogOK
<1>2. PICK x \in Nat : x = n + 1
  OBVIOUS
<1>3. x \notin Written /\ log' = [log EXCEPT ![last] = Append(@, x)] /\ last' = last
  <2>1. x \notin Written
    <3>1. x \notin 1..n
      BY <1>2
    <3> QED BY <1>1, <3>1
  <2>2. x = Cardinality(Written) + 1
    BY <1>1, <1>2
  <2>3. /\ log' = [log EXCEPT ![last] = Append(@, Cardinality(Written) + 1)]
        /\ last' = last
    BY DEF WriteEntry
  <2> QED BY <2>1, <2>2, <2>3
<1>4. last \in Segments /\ log \in [Segments -> Seq(Nat)]
  BY DEF TypeOK
<1>5. PICK b \in Seq(Nat) : b = log[last]
  BY <1>4
<1>6. PICK c \in Seq(Nat) : c = Append(b, x)
  BY AppendProperties
<1>7. Len(b) \in Nat /\ Len(c) = Len(b) + 1 /\ c[Len(b) + 1] = x /\ \A i \in 1..Len(b) : c[i] = b[i]
  BY <1>6, AppendProperties, SeqFacts
<1>8. log'[last] = c /\ \A s \in Segments : s # last => log'[s] = log[s]
  BY <1>3, <1>4, <1>5, <1>6
<1>9. \A s \in Segments : \A i \in 1..Len(log[s]) : i \in 1..Len(log'[s]) /\ log'[s][i] = log[s][i]
  <2> SUFFICES ASSUME NEW s \in Segments, NEW i \in 1..Len(log[s])
               PROVE  i \in 1..Len(log'[s]) /\ log'[s][i] = log[s][i]
    OBVIOUS
  <2>1. CASE s = last
    BY <1>5, <1>7, <1>8, <2>1
  <2>2. CASE s # last
    BY <1>8, <2>2
  <2> QED BY <2>1, <2>2
<1>10. \A s \in Segments : \A i \in 1..Len(log'[s]) :
         i \in 1..Len(log[s]) \/ (s = last /\ i = Len(log[last]) + 1 /\ log'[s][i] = x)
  <2> SUFFICES ASSUME NEW s \in Segments, NEW i \in 1..Len(log'[s])
               PROVE  i \in 1..Len(log[s]) \/ (s = last /\ i = Len(log[last]) + 1 /\ log'[s][i] = x)
    OBVIOUS
  <2>1. CASE s = last
    BY <1>5, <1>7, <1>8, <2>1
  <2>2. CASE s # last
    BY <1>8, <2>2
  <2> QED BY <2>1, <2>2
<1>11. \A s \in Segments : Len(log[s]) <= Len(log'[s])
  <2> SUFFICES ASSUME NEW s \in Segments PROVE Len(log[s]) <= Len(log'[s])
    OBVIOUS
  <2>0. Len(log[s]) \in Nat
    BY <1>0 DEF PlacesOK
  <2>1. CASE s = last
    BY <1>5, <1>7, <1>8, <2>1
  <2>2. CASE s # last
    BY <1>8, <2>0, <2>2
  <2> QED BY <2>1, <2>2
<1>12. \A s \in Segments : \A y : y \in ToSet(log'[s]) <=> y \in ToSet(log[s]) \/ (s = last /\ y = x)
  <2> SUFFICES ASSUME NEW s \in Segments, NEW y
               PROVE  y \in ToSet(log'[s]) <=> y \in ToSet(log[s]) \/ (s = last /\ y = x)
    OBVIOUS
  <2>1. CASE s = last
    <3>1. y \in ToSet(c) <=> \E k \in 1..Len(c) : y = c[k]
      BY SeqFacts
    <3>2. y \in ToSet(b) <=> \E k \in 1..Len(b) : y = b[k]
      BY SeqFacts
    <3>3. \A k \in 1..Len(c) : k \in 1..Len(b) \/ k = Len(b) + 1
      BY <1>7
    <3>4. Len(b) + 1 \in 1..Len(c) /\ \A k \in 1..Len(b) : k \in 1..Len(c)
      BY <1>7
    <3>5. y \in ToSet(c) <=> y \in ToSet(b) \/ y = x
      BY <1>7, <3>1, <3>2, <3>3, <3>4
    <3> QED BY <1>5, <1>8, <2>1, <3>5
  <2>2. CASE s # last
    BY <1>8, <2>2
  <2> QED BY <2>1, <2>2
<1>13. Written' = Written \cup {x}
  <2>1. \A y : y \in Written <=> \E s \in Segments : y \in ToSet(log[s])
    BY DEF Written
  <2>2. \A y : y \in Written' <=> \E s \in Segments : y \in ToSet(log'[s])
    BY DEF Written
  <2>3. \A y : y \in Written' <=> y \in Written \/ y = x
    <3> TAKE y
    <3>1. ASSUME y \in Written' PROVE y \in Written \/ y = x
      <4>1. PICK s \in Segments : y \in ToSet(log'[s])
        BY <2>2, <3>1
      <4> QED BY <1>12, <2>1, <4>1
    <3>2. ASSUME y \in Written PROVE y \in Written'
      <4>1. PICK s \in Segments : y \in ToSet(log[s])
        BY <2>1, <3>2
      <4> QED BY <1>12, <2>2, <4>1
    <3>3. x \in Written'
      BY <1>4, <1>12, <2>2
    <3> QED BY <3>1, <3>2, <3>3
  <2> QED BY <2>3
<1>14. LogOK'
  <2>1. ASSUME NEW s \in Segments, NEW t \in Segments, NEW i \in 1..Len(log'[s]), NEW j \in 1..Len(log'[t]),
               log'[s][i] = log'[t][j]
        PROVE  s = t /\ i = j
    <3>1. \A s1 \in Segments : \A i1 \in 1..Len(log[s1]) : log'[s1][i1] \in Written
      BY <1>0, <1>9 DEF PlacesOK, Place
    <3>2. CASE i \in 1..Len(log[s]) /\ j \in 1..Len(log[t])
      BY <1>9, <2>1, <3>2 DEF LogOK
    <3>3. CASE i \notin 1..Len(log[s]) \/ j \notin 1..Len(log[t])
      BY <1>3, <1>10, <2>1, <3>1, <3>3
    <3> QED BY <3>2, <3>3
  <2>2. IsFiniteSet(Written') /\ Cardinality(Written') = n + 1
    BY <1>1, <1>3, <1>13, FS_AddElement DEF LogOK
  <2>3. Written' = 1..Cardinality(Written')
    <3>1. \A y : y \in 1..(n + 1) <=> y \in 1..n \/ y = n + 1
      OBVIOUS
    <3>2. \A y : y \in Written' <=> y \in 1..n \/ y = n + 1
      BY <1>1, <1>2, <1>13
    <3>3. Written' = 1..(n + 1)
      BY <3>1, <3>2
    <3> QED BY <2>2, <3>3
  <2>4. ASSUME NEW s \in Segments, s > last' PROVE log'[s] = <<>>
    <3>1. s # last /\ s > last
      BY <1>3, <1>4, <2>4, SegmentsAre
    <3> QED BY <1>8, <3>1 DEF LogOK
  <2> QED BY <2>1, <2>2, <2>3, <2>4 DEF LogOK
<1>15. PlacesOK'
  BY <1>14, PlaceFactsNext
<1>16. ASSUME NEW y \in Written PROVE SegmentOf(y)' = SegmentOf(y)
  <2>1. PICK i : Place(y, SegmentOf(y), i)
    BY <1>0 DEF PlacesOK
  <2>2. PICK s \in Segments : s = SegmentOf(y)
    BY <1>0 DEF PlacesOK
  <2>3. i \in 1..Len(log[s]) /\ log[s][i] = y
    BY <2>1, <2>2 DEF Place
  <2>4. Place(y, s, i)'
    BY <1>9, <2>2, <2>3 DEF Place
  <2> QED BY <1>15, <2>2, <2>4 DEF PlacesOK
<1>17. SegmentOf(x)' = last
  <2>1. Len(b) + 1 \in 1..Len(c)
    BY <1>7
  <2>2. Place(x, last, Len(b) + 1)'
    BY <1>3, <1>4, <1>7, <1>8, <2>1 DEF Place
  <2>3. \A y, s, i : Place(y, s, i)' => SegmentOf(y)' = s
    BY <1>15 DEF PlacesOK
  <2> QED BY <1>3, <2>2, <2>3
<1>18. Writes(x)
  BY <1>3, <1>9, <1>10, <1>11, <1>13, <1>16, <1>17 DEF Writes
<1> QED BY <1>14, <1>18

LEMMA WriteKeeps ==
  ASSUME TypeOK, TypeOK', LogOK, WriteEntry, NEW e \in Endpoints, EInv(e)
  PROVE  EInv(e)'
<1>0. PICK x \in Nat : Writes(x)
  BY WriteFacts
<1>1. LogOK'
  BY WriteFacts
<1>2. /\ mode = "up" /\ mode' = mode /\ first' = first /\ last' = last /\ marker' = marker /\ ppc' = ppc
      /\ watcher' = watcher /\ queue' = queue /\ tracker' = tracker
      /\ done' = done /\ limited' = limited /\ aged' = aged
  BY DEF WriteEntry, history
<1>3. InFlight(e)' = InFlight(e) /\ Batches(e)' = Batches(e) /\ Handled(e)' = Handled(e)
  BY <1>2 DEF InFlight, Batches, Handled
<1>4. PlacesOK /\ PlacesOK'
  BY <1>1, PlaceFacts, PlaceFactsNext
<1>5. Handled(e) \subseteq Written /\ InFlight(e) \subseteq Written /\ limited[e] \subseteq Written
  BY DEF EInv, HandledIsRead, Handled
<1>6. watcher[e] \in WatcherType /\ watcher[e].seg \in Nat /\ watcher[e].pos \in Nat
      /\ last \in Nat /\ first \in Nat /\ first <= last
  BY SegmentsAre DEF TypeOK, WatcherType
<1>7. watcher[e].state = "running"
  BY <1>2 DEF EInv, Phases
<1>8. Reading(e) => watcher[e].seg \in Segments /\ watcher[e].seg <= last
  BY <1>6, <1>7, LokiWalAssumption DEF EInv, PositionOK, TypeOK, Segments
<1>9. \A s \in Segments : Len(log[s]) \in Nat /\ Len(log'[s]) \in Nat /\ Len(log[s]) <= Len(log'[s])
  BY <1>0, <1>4 DEF PlacesOK, Writes
<1>10. Phases(e)'
  BY <1>2 DEF EInv, Phases
<1>11. PositionOK(e)'
  <2>1. watcher[e].pc \in {"select", "read", "append", "received"} =>
          Reading(e) /\ watcher[e].pos <= Len(log[watcher[e].seg])
    BY DEF EInv, PositionOK, Reading
  <2>2. watcher[e].pc \in {"select", "read", "append", "received"} => watcher[e].pos <= Len(log'[watcher[e].seg])
    BY <1>6, <1>8, <1>9, <2>1
  <2>3. watcher[e].pc \in {"append", "received"} => watcher[e].pos < Len(log'[watcher[e].seg])
    <3>1. watcher[e].pc \in {"append", "received"} => watcher[e].pos < Len(log[watcher[e].seg])
      BY DEF EInv, PositionOK
    <3> QED BY <1>6, <1>8, <1>9, <2>1, <3>1
  <2>4. Reading(e)' <=> Reading(e)
    BY <1>2 DEF Reading
  <2> QED BY <1>2, <2>2, <2>3, <2>4 DEF EInv, PositionOK
<1>12. HandledIsRead(e)'
  <2>1. ASSUME NEW s \in Segments, NEW i \in 1..Len(log'[s]), log'[s][i] \in Handled(e)
        PROVE  i \in 1..Len(log[s]) /\ log[s][i] \in Handled(e)
    BY <1>0, <1>5, <2>1 DEF Writes
  <2>2. Handled(e)' \subseteq Written'
    BY <1>0, <1>3, <1>5 DEF Writes
  <2>3. ASSUME NEW s \in Segments, NEW i \in 1..Len(log'[s]), log'[s][i] \in Handled(e)
        PROVE  /\ Reading(e)' => Read(e, s, i)'
               /\ watcher'[e].pc = "begin" /\ watcher'[e].state # "stopping" => s < first'
    <3>1. i \in 1..Len(log[s]) /\ log[s][i] \in Handled(e)
      BY <2>1, <2>3
    <3> QED BY <1>2, <3>1 DEF EInv, HandledIsRead, Reading, Read
  <2> QED BY <1>3, <2>2, <2>3 DEF HandledIsRead
<1>13. Apart(Batches(e))'
  <2>1. Apart(Batches(e))' <=> Apart(Batches(e)')
    BY DEF Apart
  <2> QED BY <1>3, <2>1 DEF EInv
<1>14. TouchedIsReached(e)'
  <2>1. Touched(e)' = Touched(e)
    <3>1. {SegmentOf(y) : y \in InFlight(e)}' = {SegmentOf(y) : y \in InFlight(e)}
      BY <1>0, <1>3, <1>5 DEF Writes
    <3> QED BY <1>2, <3>1 DEF Touched, Known, Told
  <2>2. ASSUME NEW t \in Touched(e), NEW y \in Written', SegmentOf(y)' < t PROVE y \in done[e] \cup InFlight(e)
    <3>1. t <= last
      BY DEF EInv, TouchedIsReached
    <3>2. t \in Int
      <4>1. \A y1 \in InFlight(e) : SegmentOf(y1) \in Nat
        BY <1>4, <1>5 DEF PlacesOK
      <4>2. \A i \in 1..Len(tracker[e].updates) : tracker[e].updates[i].seg \in Nat
        <5>1. PICK u \in Seq(Update) : u = tracker[e].updates
          BY DEF TypeOK, TrackerType
        <5>2. \A i \in 1..Len(u) : u[i].seg \in Nat
          BY WeightType, SegmentsAre DEF Update
        <5> QED BY <5>1, <5>2
      <4> QED BY <4>1, <4>2, SegmentsAre DEF Touched, Known, Told
    <3>3. y # x
      BY <1>0, <1>6, <2>2, <3>1, <3>2 DEF Writes
    <3>4. y \in Written /\ SegmentOf(y) < t
      BY <1>0, <2>2, <3>3 DEF Writes
    <3> QED BY <3>4 DEF EInv, TouchedIsReached
  <2> QED BY <1>2, <1>3, <2>1, <2>2 DEF EInv, TouchedIsReached, Reading
<1>15. InOrder(e)'
  BY <1>2 DEF EInv, InOrder, Known
<1>16. LeavesNothing(e)'
  <2> SUFFICES ASSUME Reading(e), NEW s \in Segments, NEW i \in 1..Len(log'[s]), Read(e, s, i)
               PROVE  log'[s][i] \in done[e] \cup InFlight(e)
    BY <1>2, <1>3 DEF LeavesNothing, Reading, Read
  <2>1. CASE i \in 1..Len(log[s])
    <3>1. log'[s][i] = log[s][i]
      BY <1>0, <2>1 DEF Writes
    <3> QED BY <2>1, <3>1 DEF EInv, LeavesNothing
  <2>2. CASE i \notin 1..Len(log[s])
    <3>1. s = last /\ i = Len(log[last]) + 1
      BY <1>0, <2>2 DEF Writes
    <3>2. last \in Segments /\ Len(log[last]) \in Nat
      BY <1>9 DEF TypeOK
    <3>3. watcher[e].seg = last /\ i <= watcher[e].pos + (IF watcher[e].pc = "received" THEN 1 ELSE 0)
      BY <1>6, <1>8, <3>1 DEF Read
    <3>4. CASE watcher[e].pc = "received"
      BY <1>6, <3>1, <3>2, <3>3, <3>4 DEF EInv, PositionOK
    <3>5. CASE watcher[e].pc \in {"select", "read", "append"}
      BY <1>6, <3>1, <3>2, <3>3, <3>5 DEF EInv, PositionOK
    <3>6. CASE watcher[e].pc = "open"
      <4>1. watcher[e].pos = 0
        BY <3>6 DEF EInv, PositionOK
      <4>2. i <= 0
        BY <3>3, <3>6, <4>1
      <4> QED BY <3>1, <3>2, <4>2
    <3>7. CASE watcher[e].pc = "wait"
      BY <1>6, <1>7, <3>3, <3>7 DEF EInv, PositionOK
    <3> QED BY <3>4, <3>5, <3>6, <3>7 DEF Reading
  <2> QED BY <2>1, <2>2
<1>17. CountsExactly(e)'
  <2>1. ASSUME NEW s \in Segments PROVE Counted(e, s)' = Counted(e, s)
    BY <1>2 DEF Counted
  <2>2. ASSUME NEW s \in Segments
        PROVE  OfSegment(InFlight(e), s)' = OfSegment(InFlight(e), s)
               /\ OfSegment(limited[e], s)' = OfSegment(limited[e], s)
    BY <1>0, <1>2, <1>3, <1>5 DEF OfSegment, Writes
  <2> QED BY <1>2, <2>1, <2>2 DEF EInv, CountsExactly
<1> QED BY <1>10, <1>11, <1>12, <1>13, <1>14, <1>15, <1>16, <1>17 DEF EInv

-----------------------------------------------------------------------------
(***************************************************************************)
(* The steps of the watcher and of the queue that are moves                *)
(***************************************************************************)

\* Nothing happens to endpoint f.
Rests(f) ==
  /\ log' = log /\ first' = first /\ last' = last /\ mode' = mode /\ mode # "down"
  /\ aged \subseteq aged'
  /\ watcher'[f] = watcher[f] /\ queue'[f] = queue[f] /\ tracker'[f] = tracker[f]
  /\ ppc'[f] = ppc[f] /\ done'[f] = done[f] /\ limited'[f] = limited[f]

LEMMA RestsKeeps ==
  ASSUME TypeOK, TypeOK', LogOK, NEW f \in Endpoints, EInv(f), Rests(f)
  PROVE  EInv(f)'
<1> USE DEF Rests
<1>1. Phases(f)'
  BY DEF EInv, Phases
<1>2. PositionOK(f)'
  BY DEF EInv, PositionOK, Reading
<1>3. InFlight(f)' = InFlight(f) /\ Batches(f)' = Batches(f)
  BY DEF InFlight, Batches
<1>4. Apart(Batches(f))'
  <2>1. Apart(Batches(f))' <=> Apart(Batches(f)')
    BY DEF Apart
  <2> QED BY <1>3, <2>1 DEF EInv
<1>5. Stays(f)
  BY DEF Stays, Reading
<1>6. first <= first' /\ last <= last'
  BY SegmentsAre DEF TypeOK
<1>7. Moves(f)
  BY <1>3, <1>4, <1>5, <1>6 DEF Moves
<1> QED BY <1>1, <1>2, <1>7, MovesKeeps

\* Only the watcher of e changes, and where endpointWatcherPair.Stop is.
WatcherMoves(e) ==
  /\ log' = log /\ first' = first /\ last' = last /\ aged' = aged /\ mode' = mode /\ mode # "down"
  /\ queue' = queue /\ tracker' = tracker /\ done' = done /\ limited' = limited
  /\ watcher'[e].state # "stopping" => watcher[e].state # "stopping"
  /\ Stays(e) \/ Advances(e) \/ Stops(e)

LEMMA WatcherMovesKeeps ==
  ASSUME TypeOK, TypeOK', LogOK, NEW e \in Endpoints, EInv(e), WatcherMoves(e),
         Phases(e)', PositionOK(e)'
  PROVE  EInv(e)'
<1> USE DEF WatcherMoves
<1>1. InFlight(e)' = InFlight(e) /\ Batches(e)' = Batches(e)
  BY DEF InFlight, Batches
<1>2. Apart(Batches(e))'
  <2>1. Apart(Batches(e))' <=> Apart(Batches(e)')
    BY DEF Apart
  <2> QED BY <1>1, <2>1 DEF EInv
<1>3. first <= first' /\ last <= last'
  BY SegmentsAre DEF TypeOK
<1>4. Moves(e)
  BY <1>1, <1>2, <1>3 DEF Moves
<1> QED BY <1>4, MovesKeeps

\* What holds of the fields when only some of them change.
LEMMA WatcherFields ==
  ASSUME TypeOK, NEW e \in Endpoints, NEW v, watcher' = [watcher EXCEPT ![e] = v]
  PROVE  watcher'[e] = v /\ \A f \in Endpoints : f # e => watcher'[f] = watcher[f]
BY DEF TypeOK

WatcherMove(e) ==
  \/ OpenSegment(e) \/ OpenFails(e) \/ WaitOver(e) \/ StopReading(e)
  \/ PollSegment(e) \/ SegmentTick(e) \/ EndRead(e) \/ StoreSeries(e)

LEMMA WatcherOnlyFacts ==
  ASSUME TypeOK, NEW e \in Endpoints, NEW v, watcher' = [watcher EXCEPT ![e] = v], WatcherOnly, Up
  PROVE  /\ log' = log /\ first' = first /\ last' = last /\ aged' = aged /\ mode' = mode /\ mode # "down"
         /\ queue' = queue /\ tracker' = tracker /\ done' = done /\ limited' = limited /\ ppc' = ppc
         /\ marker' = marker
         /\ watcher'[e] = v
         /\ \A f \in Endpoints : f # e => Rests(f)
<1>1. watcher'[e] = v /\ \A f \in Endpoints : f # e => watcher'[f] = watcher[f]
  BY WatcherFields
<1>2. /\ log' = log /\ first' = first /\ last' = last /\ aged' = aged /\ mode' = mode /\ mode # "down"
      /\ queue' = queue /\ tracker' = tracker /\ done' = done /\ limited' = limited /\ ppc' = ppc
      /\ marker' = marker
  BY DEF WatcherOnly, disk, history, Up
<1> QED BY <1>1, <1>2 DEF Rests

\* Where watcher w may be.
Placed(w) ==
  /\ w.atStart <= last
  /\ w.pc = "open" => w.pos = 0
  /\ w.pc \in {"select", "read", "append", "received"} => w.seg <= last /\ w.pos <= Len(log[w.seg])
  /\ w.pc \in {"append", "received"} => w.pos < Len(log[w.seg])
  /\ w.state = "running" /\ w.pc \in {"open", "select", "read", "append", "received", "wait"} => w.seg <= last
  /\ w.state = "running" /\ w.pc \in {"read", "append", "received"} /\ w.final => w.seg < last
  /\ w.state # "stopping" /\ w.pc = "wait" => w.seg < first

LEMMA PlacedIs ==
  \A e : /\ PositionOK(e) <=> Placed(watcher[e])
         /\ log' = log /\ first' = first /\ last' = last => (PositionOK(e)' <=> Placed(watcher'[e]))
BY DEF PositionOK, Placed, Reading

\* Watcher w becomes v.
Step(w, v) ==
  /\ w.pc \notin {"done", "received"}
  /\ v.state # "stopping" => w.state # "stopping"
  /\ v.state = w.state \/ (w.state = "draining" /\ v.state = "stopping")
  /\ v.pc = "done" => v.state = "stopping"
  /\ \/ /\ v.seg = w.seg /\ v.pos = w.pos /\ v.rcv = w.rcv
        /\ v.pc \notin {"done", "received"}
        /\ v.pc \in {"open", "select", "read", "append", "wait"} => w.pc # "begin"
        /\ v.pc = "begin" => w.pc = "wait"
     \/ /\ w.pc = "read" /\ w.pos = Len(log[w.seg])
        /\ v.pc = "open" /\ v.pos = 0 /\ v.seg = w.seg + 1
     \/ v.pc = "done"

LEMMA StepKeeps ==
  ASSUME IInv, TypeOK', NEW e \in Endpoints, NEW v, watcher' = [watcher EXCEPT ![e] = v],
         WatcherOnly, Up, Placed(v), Step(watcher[e], v)
  PROVE  EInv(e)' /\ \A f \in Endpoints : f # e => Rests(f)
<1>0. TypeOK /\ LogOK /\ EInv(e) /\ Phases(e)
  BY DEF IInv, EInv
<1>1. /\ log' = log /\ first' = first /\ last' = last /\ aged' = aged /\ mode' = mode /\ mode # "down"
      /\ queue' = queue /\ tracker' = tracker /\ done' = done /\ limited' = limited /\ ppc' = ppc
      /\ watcher'[e] = v
      /\ \A f \in Endpoints : f # e => Rests(f)
  BY <1>0, WatcherOnlyFacts
<1>2. watcher[e] \in WatcherType
  BY <1>0 DEF TypeOK
<1>3. Phases(e)'
  BY <1>0, <1>1 DEF Phases, Step
<1>4. Stays(e) \/ Advances(e) \/ Stops(e)
  BY <1>1, <1>2 DEF Step, Stays, Advances, Stops, Reading, WatcherType
<1>5. WatcherMoves(e)
  BY <1>1, <1>4 DEF WatcherMoves, Step
<1>6. PositionOK(e)'
  BY <1>1, PlacedIs
<1> QED BY <1>0, <1>1, <1>3, <1>5, <1>6, WatcherMovesKeeps

LEMMA WatcherMoveKeeps ==
  ASSUME IInv, TypeOK', NEW e \in Endpoints, WatcherMove(e)
  PROVE  EInv(e)' /\ \A f \in Endpoints : f # e => Rests(f)
<1>0. TypeOK /\ LogOK /\ Phases(e)
  BY DEF IInv, EInv
<1>1. PICK w \in WatcherType : w = watcher[e]
  BY <1>0 DEF TypeOK
<1>2. watcher \in [Endpoints -> WatcherType] /\ first \in Nat /\ last \in Nat /\ first <= last
  BY <1>0, SegmentsAre DEF TypeOK
<1>3. Placed(w)
  BY <1>1, PlacedIs DEF IInv, EInv
<1>4. \A s \in Nat : s <= last => Len(log[s]) \in Nat
  <2>1. PlacesOK
    BY <1>0, PlaceFacts
  <2>2. \A s \in Nat : s <= last => s \in Segments
    BY <1>0, LokiWalAssumption DEF TypeOK, Segments
  <2> QED BY <2>1, <2>2 DEF PlacesOK
<1>5. /\ w.state \in {"running", "draining", "stopping"} /\ w.seg \in Nat /\ w.pos \in Nat /\ w.atStart \in Nat
      /\ w.final \in BOOLEAN
  BY <1>1, SegmentsAre DEF WatcherType
<1>6. CASE OpenSegment(e)
  <2>1. PICK v : v = [w EXCEPT !.pc = "select"]
    OBVIOUS
  <2>2. /\ v.pc = "select" /\ v.state = w.state /\ v.atStart = w.atStart /\ v.seg = w.seg
        /\ v.pos = w.pos /\ v.final = w.final /\ v.rcv = w.rcv
    BY <1>1, <2>1 DEF WatcherType
  <2>3. w.pc = "open" /\ w.state # "stopping" /\ w.seg <= last /\ Up /\ WatcherOnly
    BY <1>1, <1>6 DEF OpenSegment, At, IsStopping, Exists
  <2>4. watcher' = [watcher EXCEPT ![e] = v]
    BY <1>1, <1>2, <1>6, <2>1 DEF OpenSegment
  <2>5. Placed(v)
    BY <1>3, <1>4, <1>5, <2>2, <2>3 DEF Placed
  <2>6. Step(w, v)
    BY <2>2, <2>3 DEF Step
  <2> QED BY <1>1, <2>3, <2>4, <2>5, <2>6, StepKeeps
<1>7. CASE OpenFails(e)
  <2>1. PICK v : v = [w EXCEPT !.state = IF w.state = "draining" THEN "stopping" ELSE w.state, !.pc = "wait"]
    OBVIOUS
  <2>2. /\ v.pc = "wait" /\ v.state = (IF w.state = "draining" THEN "stopping" ELSE w.state)
        /\ v.atStart = w.atStart /\ v.seg = w.seg /\ v.pos = w.pos /\ v.final = w.final /\ v.rcv = w.rcv
    BY <1>1, <2>1 DEF WatcherType
  <2>3. w.pc = "open" /\ w.state # "stopping" /\ ~(first <= w.seg /\ w.seg <= last) /\ Up /\ WatcherOnly
    BY <1>1, <1>7 DEF OpenFails, At, IsStopping, Exists
  <2>4. watcher' = [watcher EXCEPT ![e] = v]
    BY <1>1, <1>2, <1>7, <2>1 DEF OpenFails
  <2>5. Placed(v)
    BY <1>2, <1>3, <1>5, <2>2, <2>3 DEF Placed
  <2>6. Step(w, v)
    BY <1>5, <2>2, <2>3 DEF Step
  <2> QED BY <1>1, <2>3, <2>4, <2>5, <2>6, StepKeeps
<1>8. CASE WaitOver(e)
  <2>1. PICK v : v = [w EXCEPT !.pc = "begin"]
    OBVIOUS
  <2>2. /\ v.pc = "begin" /\ v.state = w.state /\ v.atStart = w.atStart /\ v.seg = w.seg
        /\ v.pos = w.pos /\ v.final = w.final /\ v.rcv = w.rcv
    BY <1>1, <2>1 DEF WatcherType
  <2>3. w.pc = "wait" /\ w.state # "stopping" /\ Up /\ WatcherOnly
    BY <1>1, <1>8 DEF WaitOver, At, IsStopping
  <2>4. watcher' = [watcher EXCEPT ![e] = v]
    BY <1>1, <1>2, <1>8, <2>1 DEF WaitOver
  <2>5. Placed(v)
    BY <1>3, <2>2, <2>3 DEF Placed
  <2>6. Step(w, v)
    BY <2>2, <2>3 DEF Step
  <2> QED BY <1>1, <2>3, <2>4, <2>5, <2>6, StepKeeps
<1>9. CASE StopReading(e)
  <2>1. PICK v : v = [NewWatcher EXCEPT !.state = "stopping", !.pc = "done"]
    OBVIOUS
  <2>2. v.pc = "done" /\ v.state = "stopping" /\ v.atStart = 0
    BY <2>1 DEF NewWatcher
  <2>3. /\ w.pc \in {"begin", "open", "select", "read", "wait"} /\ w.state = "stopping" /\ Up /\ WatcherOnly
        /\ watcher' = [watcher EXCEPT ![e] = v]
    BY <1>1, <1>9, <2>1 DEF StopReading, IsStopping
  <2>4. Placed(v)
    BY <1>2, <2>2 DEF Placed
  <2>5. Step(w, v)
    BY <2>2, <2>3 DEF Step
  <2> QED BY <1>1, <2>3, <2>4, <2>5, StepKeeps
<1>10. CASE PollSegment(e)
  <2>1. PICK v : v = [w EXCEPT !.final = w.seg < w.atStart, !.pc = "read"]
    OBVIOUS
  <2>2. /\ v.pc = "read" /\ v.state = w.state /\ v.atStart = w.atStart /\ v.seg = w.seg
        /\ v.pos = w.pos /\ (v.final => w.seg < w.atStart) /\ v.rcv = w.rcv
    BY <1>1, <2>1 DEF WatcherType
  <2>3. w.pc = "select" /\ Up /\ WatcherOnly
    BY <1>1, <1>10 DEF PollSegment, At
  <2>4. watcher' = [watcher EXCEPT ![e] = v]
    BY <1>1, <1>2, <1>10, <2>1 DEF PollSegment
  <2>5. Placed(v)
    BY <1>2, <1>3, <1>5, <2>2, <2>3 DEF Placed
  <2>6. Step(w, v)
    BY <2>2, <2>3 DEF Step
  <2> QED BY <1>1, <2>3, <2>4, <2>5, <2>6, StepKeeps
<1>11. CASE SegmentTick(e)
  <2>1. PICK v : v = [w EXCEPT !.final = TRUE, !.pc = "read"]
    OBVIOUS
  <2>2. /\ v.pc = "read" /\ v.state = w.state /\ v.atStart = w.atStart /\ v.seg = w.seg
        /\ v.pos = w.pos /\ v.rcv = w.rcv
    BY <1>1, <2>1 DEF WatcherType
  <2>3. w.pc = "select" /\ Up /\ WatcherOnly /\ (last > w.seg \/ w.state = "draining")
    BY <1>1, <1>11 DEF SegmentTick, At
  <2>4. watcher' = [watcher EXCEPT ![e] = v]
    BY <1>1, <1>2, <1>11, <2>1 DEF SegmentTick
  <2>5. Placed(v)
    BY <1>2, <1>3, <1>5, <2>2, <2>3 DEF Placed
  <2>6. Step(w, v)
    BY <2>2, <2>3 DEF Step
  <2> QED BY <1>1, <2>3, <2>4, <2>5, <2>6, StepKeeps
<1>12. CASE EndRead(e)
  <2>1. w.pc = "read" /\ w.state # "stopping" /\ w.pos = Len(log[w.seg]) /\ Up /\ WatcherOnly
    BY <1>1, <1>12 DEF EndRead, At, IsStopping
  <2>2. CASE w.final
    <3>1. PICK v : v = [w EXCEPT !.seg = w.seg + 1, !.pos = 0, !.pc = "open"]
      OBVIOUS
    <3>2. /\ v.pc = "open" /\ v.state = w.state /\ v.atStart = w.atStart /\ v.seg = w.seg + 1
          /\ v.pos = 0 /\ v.final = w.final /\ v.rcv = w.rcv
      BY <1>1, <3>1 DEF WatcherType
    <3>3. watcher' = [watcher EXCEPT ![e] = v]
      BY <1>1, <1>2, <1>12, <2>2, <3>1 DEF EndRead
    <3>4. Placed(v)
      BY <1>2, <1>3, <1>5, <2>1, <2>2, <3>2 DEF Placed
    <3>5. Step(w, v)
      BY <2>1, <3>2 DEF Step
    <3> QED BY <1>1, <2>1, <3>3, <3>4, <3>5, StepKeeps
  <2>3. CASE ~w.final
    <3>1. PICK v : v = [w EXCEPT !.pc = "select"]
      OBVIOUS
    <3>2. /\ v.pc = "select" /\ v.state = w.state /\ v.atStart = w.atStart /\ v.seg = w.seg
          /\ v.pos = w.pos /\ v.final = w.final /\ v.rcv = w.rcv
      BY <1>1, <3>1 DEF WatcherType
    <3>3. watcher' = [watcher EXCEPT ![e] = v]
      BY <1>1, <1>2, <1>12, <2>3, <3>1 DEF EndRead
    <3>4. Placed(v)
      BY <1>3, <2>1, <3>2 DEF Placed
    <3>5. Step(w, v)
      BY <2>1, <3>2 DEF Step
    <3> QED BY <1>1, <2>1, <3>3, <3>4, <3>5, StepKeeps
  <2> QED BY <2>2, <2>3
<1>13. CASE StoreSeries(e)
  <2>1. PICK v : v = [w EXCEPT !.series = w.seg, !.pc = "append"]
    OBVIOUS
  <2>2. /\ v.pc = "append" /\ v.state = w.state /\ v.atStart = w.atStart /\ v.seg = w.seg
        /\ v.pos = w.pos /\ v.final = w.final /\ v.rcv = w.rcv
    BY <1>1, <2>1 DEF WatcherType
  <2>3. w.pc = "read" /\ w.state # "stopping" /\ w.pos < Len(log[w.seg]) /\ Up /\ WatcherOnly
    BY <1>1, <1>13 DEF StoreSeries, At, IsStopping
  <2>4. watcher' = [watcher EXCEPT ![e] = v]
    BY <1>1, <1>2, <1>13, <2>1 DEF StoreSeries
  <2>5. Placed(v)
    BY <1>3, <2>2, <2>3 DEF Placed
  <2>6. Step(w, v)
    BY <2>2, <2>3 DEF Step
  <2> QED BY <1>1, <2>3, <2>4, <2>5, <2>6, StepKeeps
<1> QED BY <1>6, <1>7, <1>8, <1>9, <1>10, <1>11, <1>12, <1>13 DEF WatcherMove

LEMMA PairMoveKeeps ==
  ASSUME IInv, TypeOK', NEW e \in Endpoints, DrainOver(e) \/ HardShutdown(e)
  PROVE  EInv(e)' /\ \A f \in Endpoints : f # e => Rests(f)
<1>0. TypeOK /\ LogOK /\ EInv(e) /\ Phases(e) /\ PositionOK(e)
  BY DEF IInv, EInv
<1>1. /\ log' = log /\ first' = first /\ last' = last /\ aged' = aged /\ mode' = mode /\ mode # "down"
      /\ queue' = queue /\ tracker' = tracker /\ done' = done /\ limited' = limited
  BY DEF DrainOver, HardShutdown, PairOnly, disk, history, Flushing, At, Up
<1>2. watcher \in [Endpoints -> WatcherType] /\ ppc \in [Endpoints -> {"run", "drain", "stop", "hard", "stopped"}]
  BY <1>0 DEF TypeOK
<1>3. \A f \in Endpoints : f # e => Rests(f)
  BY <1>1, <1>2 DEF Rests, DrainOver, HardShutdown
<1>4. CASE DrainOver(e)
  <2>1. /\ watcher'[e].state = "stopping" /\ watcher'[e].pc = watcher[e].pc /\ watcher'[e].seg = watcher[e].seg
        /\ watcher'[e].pos = watcher[e].pos /\ watcher'[e].rcv = watcher[e].rcv
        /\ watcher'[e].atStart = watcher[e].atStart /\ ppc[e] = "drain" /\ ppc'[e] = "stop"
    BY <1>2, <1>4 DEF DrainOver, WatcherType
  <2>2. Phases(e)'
    BY <1>0, <1>1, <2>1 DEF Phases
  <2>3. PositionOK(e)'
    BY <1>0, <1>1, <2>1 DEF PositionOK
  <2>4. Stays(e)
    BY <2>1 DEF Stays, Reading
  <2>5. WatcherMoves(e)
    BY <1>1, <2>1, <2>4 DEF WatcherMoves
  <2> QED BY <1>0, <1>3, <2>2, <2>3, <2>5, WatcherMovesKeeps
<1>5. CASE HardShutdown(e)
  <2>1. watcher' = watcher /\ ppc[e] = "stop" /\ ppc'[e] = "hard" /\ watcher[e].pc = "done"
    BY <1>2, <1>5 DEF HardShutdown, Flushing, At
  <2>2. Phases(e)'
    BY <1>0, <1>1, <2>1 DEF Phases
  <2>3. PositionOK(e)'
    BY <1>0, <1>1, <2>1 DEF PositionOK, Reading
  <2>4. Stays(e)
    BY <2>1 DEF Stays, Reading
  <2>5. WatcherMoves(e)
    BY <1>1, <2>1, <2>4 DEF WatcherMoves
  <2> QED BY <1>0, <1>3, <2>2, <2>3, <2>5, WatcherMovesKeeps
<1> QED BY <1>4, <1>5

\* The watchers keep their positions while segments begin or are deleted.
LEMMA AllMove ==
  ASSUME TypeOK, TypeOK', LogOK, NEW e \in Endpoints, EInv(e), Phases(e)',
         log' = log, first <= first', last <= last', aged' = aged,
         queue' = queue, tracker' = tracker, done' = done, limited' = limited,
         watcher'[e].pc = watcher[e].pc, watcher'[e].seg = watcher[e].seg,
         watcher'[e].pos = watcher[e].pos, watcher'[e].rcv = watcher[e].rcv,
         watcher'[e].atStart = watcher[e].atStart, watcher'[e].final = watcher[e].final,
         watcher'[e].state = "running" => watcher[e].state = "running",
         watcher'[e].state # "stopping" => watcher[e].state # "stopping"
  PROVE  EInv(e)'
<1>0. /\ first \in Nat /\ first' \in Nat /\ last \in Nat /\ last' \in Nat
      /\ watcher[e].seg \in Nat /\ watcher[e].atStart \in Nat
  BY SegmentsAre DEF TypeOK, WatcherType
<1>1. InFlight(e)' = InFlight(e) /\ Batches(e)' = Batches(e)
  BY DEF InFlight, Batches
<1>2. Apart(Batches(e))'
  <2>1. Apart(Batches(e))' <=> Apart(Batches(e)')
    BY DEF Apart
  <2> QED BY <1>1, <2>1 DEF EInv
<1>3. Stays(e)
  BY DEF Stays, Reading
<1>4. Moves(e)
  BY <1>1, <1>2, <1>3 DEF Moves
<1>5. PositionOK(e)'
  <2>1. Reading(e)' <=> Reading(e)
    BY DEF Reading
  <2> QED BY <1>0, <2>1 DEF EInv, PositionOK
<1> QED BY <1>4, <1>5, MovesKeeps

LEMMA SegmentStepsKeep ==
  ASSUME IInv, TypeOK', NEW e \in Endpoints
  PROVE  /\ NextSegment => EInv(e)'
         /\ \A k \in Segments : CleanSegments(k) => EInv(e)'
         /\ \A drain \in BOOLEAN : StopConsumer(drain) => EInv(e)'
         /\ Restart => EInv(e)'
<1>0. TypeOK /\ LogOK /\ EInv(e) /\ Phases(e)
  BY DEF IInv, EInv
<1>1. /\ watcher \in [Endpoints -> WatcherType] /\ first \in Nat /\ last \in Nat
      /\ watcher[e] \in WatcherType
  BY <1>0, SegmentsAre DEF TypeOK
<1>2. CASE NextSegment
  <2>1. /\ log' = log /\ first' = first /\ last' = last + 1 /\ aged' = aged /\ marker' = marker
        /\ queue' = queue /\ tracker' = tracker /\ done' = done /\ limited' = limited
        /\ watcher' = watcher /\ mode' = mode /\ ppc' = ppc
    BY <1>2 DEF NextSegment, history
  <2>2. Phases(e)'
    BY <1>0, <2>1 DEF Phases
  <2>3. first <= first' /\ last <= last'
    BY <1>1, <2>1
  <2> QED BY <1>0, <2>1, <2>2, <2>3, AllMove
<1>3. ASSUME NEW k \in Segments, CleanSegments(k) PROVE EInv(e)'
  <2>1. /\ log' = log /\ first' = k /\ first < k /\ last' = last /\ aged' = aged /\ marker' = marker
        /\ queue' = queue /\ tracker' = tracker /\ done' = done /\ limited' = limited
        /\ mode' = mode /\ mode = "up" /\ ppc' = ppc
    BY <1>3 DEF CleanSegments, history
  <2>2. /\ watcher'[e].pc = watcher[e].pc /\ watcher'[e].seg = watcher[e].seg
        /\ watcher'[e].pos = watcher[e].pos /\ watcher'[e].rcv = watcher[e].rcv
        /\ watcher'[e].atStart = watcher[e].atStart /\ watcher'[e].final = watcher[e].final
        /\ watcher'[e].state = watcher[e].state
    <3>1. watcher'[e] = watcher[e] \/ watcher'[e] = [watcher[e] EXCEPT !.series = None]
      BY <1>3 DEF CleanSegments
    <3> QED BY <1>1, <3>1 DEF WatcherType
  <2>3. Phases(e)'
    BY <1>0, <2>1, <2>2 DEF Phases
  <2>4. first <= first' /\ last <= last'
    BY <1>1, <2>1, SegmentsAre
  <2> QED BY <1>0, <2>1, <2>2, <2>3, <2>4, AllMove
<1>4. ASSUME NEW drain \in BOOLEAN, StopConsumer(drain) PROVE EInv(e)'
  <2>1. /\ log' = log /\ first' = first /\ last' = last /\ aged' = aged /\ marker' = marker
        /\ queue' = queue /\ tracker' = tracker /\ done' = done /\ limited' = limited
        /\ mode = "up" /\ mode' = "stopping" /\ ppc'[e] \in {"drain", "stop"}
    BY <1>4 DEF StopConsumer, history, disk
  <2>2. /\ watcher'[e].pc = watcher[e].pc /\ watcher'[e].seg = watcher[e].seg
        /\ watcher'[e].pos = watcher[e].pos /\ watcher'[e].rcv = watcher[e].rcv
        /\ watcher'[e].atStart = watcher[e].atStart /\ watcher'[e].final = watcher[e].final
        /\ watcher'[e].state \in {"draining", "stopping"}
    <3>1. watcher'[e] = [watcher[e] EXCEPT !.state = IF drain THEN "draining" ELSE "stopping"]
      BY <1>4 DEF StopConsumer
    <3> QED BY <1>1, <3>1 DEF WatcherType
  <2>3. watcher[e].state = "running"
    BY <1>0, <2>1 DEF Phases
  <2>4. Phases(e)'
    BY <1>0, <2>1, <2>2, <2>3 DEF Phases
  <2>5. first <= first' /\ last <= last'
    BY <1>1, <2>1
  <2> QED BY <1>0, <2>1, <2>2, <2>3, <2>4, <2>5, AllMove
<1>5. CASE Restart
  <2>1. /\ log' = log /\ first' = first /\ last' = last + 1 /\ aged' = aged /\ marker' = marker
        /\ queue' = queue /\ tracker' = tracker /\ done' = done /\ limited' = limited
        /\ watcher' = watcher /\ mode = "down" /\ mode' = "up" /\ ppc' = ppc
    BY <1>5 DEF Restart, history
  <2>2. watcher[e] = NewWatcher /\ ppc[e] = "run"
    BY <1>0, <2>1 DEF Phases
  <2>3. watcher[e].state = "running" /\ watcher[e].pc = "begin"
    BY <2>2 DEF NewWatcher
  <2>4. Phases(e)'
    BY <1>0, <2>1, <2>2, <2>3 DEF Phases
  <2>5. first <= first' /\ last <= last'
    BY <1>1, <2>1
  <2> QED BY <1>0, <2>1, <2>4, <2>5, AllMove
<1> QED BY <1>2, <1>3, <1>4, <1>5

LEMMA BatchesAssociative ==
  ASSUME NEW p \in Seq(Seq(Nat)), NEW c \in Seq(Seq(Nat)), NEW o \in Seq(Seq(Nat))
  PROVE  (p \o c) \o o = p \o (c \o o)
BY ConcatAssociative

\* The shard takes batches, or the open batch goes to the channel.
LEMMA QueueMoveKeeps ==
  ASSUME IInv, TypeOK', NEW e \in Endpoints,
         TakeBatch(e) \/ ShardExit(e) \/ FlushAndShutdown(e) \/ \E isOld \in BOOLEAN : DrainQueue(e, isOld)
  PROVE  EInv(e)' /\ \A f \in Endpoints : f # e => Rests(f)
<1>0. TypeOK /\ LogOK /\ EInv(e) /\ Phases(e) /\ PositionOK(e)
  BY DEF IInv, EInv
<1>1. /\ log' = log /\ first' = first /\ last' = last /\ aged' = aged /\ mode' = mode /\ mode # "down"
      /\ watcher' = watcher /\ tracker' = tracker /\ done' = done /\ limited' = limited /\ ppc' = ppc
      /\ marker' = marker
  BY DEF TakeBatch, ShardExit, FlushAndShutdown, DrainQueue, QueueOnly, disk, history, Flushing, At, ShardAt, Up
<1>2. queue \in [Endpoints -> QueueType] /\ queue[e] \in QueueType
  BY <1>0 DEF TypeOK
<1>3. \A f \in Endpoints : f # e => Rests(f)
  <2>1. \A f \in Endpoints : f # e => queue'[f] = queue[f]
    BY <1>2 DEF TakeBatch, ShardExit, FlushAndShutdown, DrainQueue
  <2> QED BY <1>1, <2>1 DEF Rests
<1>4. PICK p \in Seq(Seq(Nat)), c \in Seq(Seq(Nat)), a \in Seq(Nat) :
        p = queue[e].sending /\ c = queue[e].chan /\ a = queue[e].batch
  BY <1>2 DEF QueueType
<1>5. PICK b \in Seq(Seq(Nat)) : b = p \o c \o <<a>> /\ b = Batches(e)
  BY <1>2, <1>4, BatchesType DEF Batches
<1>6. Apart(b) /\ Entries(b) = InFlight(e)
  BY <1>0, <1>5 DEF EInv, Entries, InFlight
\* The sequence of batches stays, or an empty batch is added.
<1>7. ASSUME NEW d, d = b \/ d = Append(b, <<>>) PROVE Apart(d) /\ Entries(d) = Entries(b)
  <2>1. CASE d = b
    BY <1>6, <2>1
  <2>2. CASE d = Append(b, <<>>)
    <3>1. PICK z \in Seq(Nat) : z = <<>>
      BY EmptySeq
    <3>2. Len(z) = 0
      BY <3>1
    <3>3. \A k \in 1..Len(z) : FALSE
      BY <3>2
    <3>4. \A x : x \notin ToSet(z)
      <4>1. \A x : x \in ToSet(z) <=> \E k \in 1..Len(z) : x = z[k]
        BY SeqFacts
      <4> QED BY <3>3, <4>1
    <3>5. Apart(Append(b, z)) /\ Entries(Append(b, z)) = Entries(b) \cup ToSet(z)
      BY <1>6, <3>3, <3>4, BatchesGrow
    <3> QED BY <2>2, <3>1, <3>4, <3>5
  <2> QED BY <1>7, <2>1, <2>2
<1>8. Phases(e)' /\ (Batches(e)' = b \/ Batches(e)' = Append(b, <<>>))
  <2>1. PICK o \in Seq(Seq(Nat)) : o = <<a>>
    BY Singleton
  <2>2. b = (p \o c) \o o /\ Batches(e)' = (queue'[e].sending \o queue'[e].chan) \o <<queue'[e].batch>>
    BY <1>5, <2>1 DEF Batches
  <2>3. PICK n \in Seq(Seq(Nat)) : n = <<<<>>>>
    BY EmptySeq, Singleton
  <2>4. PICK z \in Seq(Nat) : z = <<>>
    BY EmptySeq
  <2>5. Append(b, <<>>) = b \o n
    BY <2>3, <2>4, AppendIsConcat
  <2>6. ASSUME queue'[e].pc = "send" <=> queue'[e].sending # <<>> PROVE Phases(e)'
    BY <1>0, <1>1, <2>6 DEF Phases
  <2>7. queue[e].pc = "select" => p = <<>> /\ b = c \o o
    <3>1. queue[e].pc = "select" => p = <<>>
      BY <1>0, <1>4 DEF Phases
    <3>2. <<>> \o c = c
      BY ConcatEmptySeq
    <3> QED BY <2>2, <3>1, <3>2
  <2>8. CASE TakeBatch(e)
    <3>1. /\ queue'[e].sending = <<Head(c)>> /\ queue'[e].chan = Tail(c) /\ queue'[e].batch = a
          /\ queue'[e].pc = "send" /\ queue[e].pc = "select" /\ c # <<>>
      BY <1>2, <1>4, <2>8 DEF TakeBatch, ShardAt, QueueType
    <3>2. <<Head(c)>> \o Tail(c) = c
      BY <3>1, HeadAndTail
    <3>3. Batches(e)' = b
      BY <2>1, <2>2, <2>7, <3>1, <3>2
    <3>4. <<Head(c)>> # <<>>
      OBVIOUS
    <3> QED BY <2>6, <3>1, <3>3, <3>4
  <2>9. CASE ShardExit(e)
    <3>1. /\ queue'[e].sending = p /\ queue'[e].chan = c /\ queue'[e].batch = a
          /\ queue'[e].pc = "exited" /\ queue[e].pc = "select"
      BY <1>2, <1>4, <2>9 DEF ShardExit, ShardAt, QueueType
    <3>2. Batches(e)' = b
      BY <2>1, <2>2, <3>1
    <3> QED BY <2>6, <2>7, <3>1, <3>2
  <2>10. ASSUME NEW isOld \in BOOLEAN, DrainQueue(e, isOld)
         PROVE  Phases(e)' /\ (Batches(e)' = b \/ Batches(e)' = Append(b, <<>>))
    <3>1. PICK t : t = c \o (IF isOld /\ a # <<>> THEN <<a>> ELSE <<>>)
      OBVIOUS
    <3>2. /\ queue'[e].sending = t /\ t # <<>> /\ queue'[e].chan = <<>>
          /\ queue'[e].batch = (IF isOld THEN <<>> ELSE a)
          /\ queue'[e].pc = "send" /\ queue[e].pc = "select"
      BY <1>2, <1>4, <2>10, <3>1 DEF DrainQueue, ShardAt, QueueType
    <3>3. Phases(e)'
      BY <2>6, <3>2
    <3>4. CASE isOld /\ a # <<>>
      <4>1. t = b
        BY <2>1, <2>7, <3>1, <3>2, <3>4
      <4>2. t \o <<>> = t
        BY <4>1, ConcatEmptySeq
      <4>3. Batches(e)' = b \o n
        BY <2>2, <2>3, <3>2, <3>4, <4>1, <4>2
      <4> QED BY <2>5, <3>3, <4>3
    <3>5. CASE ~(isOld /\ a # <<>>)
      <4>1. t = c /\ queue'[e].batch = a
        <5>1. t = c \o <<>>
          BY <3>1, <3>5
        <5>2. t = c
          BY <5>1, ConcatEmptySeq
        <5> QED BY <3>2, <3>5, <5>2
      <4>2. c \o <<>> = c
        BY ConcatEmptySeq
      <4>3. Batches(e)' = b
        BY <2>1, <2>2, <2>7, <3>2, <4>1, <4>2
      <4> QED BY <3>3, <4>3
    <3> QED BY <3>4, <3>5
  <2>11. CASE FlushAndShutdown(e)
    <3>1. /\ queue'[e].sending = p /\ queue'[e].chan = (IF a = <<>> THEN c ELSE Append(c, a))
          /\ queue'[e].batch = <<>> /\ queue'[e].pc = queue[e].pc
      BY <1>2, <1>4, <2>11 DEF FlushAndShutdown, QueueType
    <3>2. Phases(e)'
      BY <1>0, <1>4, <2>6, <3>1 DEF Phases
    <3>3. CASE a = <<>>
      BY <2>1, <2>2, <3>1, <3>2, <3>3
    <3>4. CASE a # <<>>
      <4>1. Append(c, a) = c \o o
        BY <2>1, AppendIsConcat
      <4>2. p \o (c \o o) = b
        <5>1. (p \o c) \o o = p \o (c \o o)
          BY BatchesAssociative
        <5> QED BY <2>2, <5>1
      <4>3. Batches(e)' = b \o n
        BY <2>2, <2>3, <3>1, <3>4, <4>1, <4>2
      <4> QED BY <2>5, <3>2, <4>3
    <3> QED BY <3>3, <3>4
  <2> QED BY <2>8, <2>9, <2>10, <2>11
<1>9. InFlight(e)' = InFlight(e) /\ Apart(Batches(e))'
  <2>1. Apart(Batches(e))' <=> Apart(Batches(e)')
    BY DEF Apart
  <2>2. InFlight(e)' = Entries(Batches(e)')
    BY DEF InFlight, Entries
  <2> QED BY <1>6, <1>7, <1>8, <2>1, <2>2
<1>10. PositionOK(e)'
  BY <1>0, <1>1 DEF PositionOK, Reading
<1>11. Stays(e)
  BY <1>1 DEF Stays, Reading
<1>12. first <= first' /\ last <= last'
  BY <1>0, <1>1, SegmentsAre DEF TypeOK
<1>13. Moves(e)
  BY <1>1, <1>9, <1>11, <1>12 DEF Moves
<1> QED BY <1>0, <1>3, <1>8, <1>10, <1>13, MovesKeeps

-----------------------------------------------------------------------------
(***************************************************************************)
(* The steps of the watcher that handle entries                            *)
(***************************************************************************)

LEMMA TouchedNat ==
  ASSUME TypeOK, LogOK, NEW e \in Endpoints, HandledIsRead(e)
  PROVE  Touched(e) \subseteq Nat
<1>1. \A y \in InFlight(e) : SegmentOf(y) \in Nat
  BY PlaceFacts DEF HandledIsRead, Handled, PlacesOK
<1>2. \A i \in 1..Len(tracker[e].updates) : tracker[e].updates[i].seg \in Nat
  <2>1. PICK u \in Seq(Update) : u = tracker[e].updates
    BY DEF TypeOK, TrackerType
  <2>2. \A i \in 1..Len(u) : u[i].seg \in Nat
    BY WeightType, SegmentsAre DEF Update
  <2> QED BY <2>1, <2>2
<1> QED BY <1>1, <1>2, SegmentsAre DEF Touched, Known, Told

LEMMA FiniteHandled ==
  ASSUME LogOK, NEW e, HandledIsRead(e), NEW s
  PROVE  /\ IsFiniteSet(OfSegment(InFlight(e), s)) /\ Cardinality(OfSegment(InFlight(e), s)) \in Nat
         /\ IsFiniteSet(OfSegment(limited[e], s)) /\ Cardinality(OfSegment(limited[e], s)) \in Nat
<1>1. IsFiniteSet(Written) /\ OfSegment(InFlight(e), s) \subseteq Written /\ OfSegment(limited[e], s) \subseteq Written
  BY DEF LogOK, HandledIsRead, Handled, OfSegment
<1> QED BY <1>1, FS_Subset, FS_CardinalityType

LEMMA RunWatcherKeeps ==
  ASSUME IInv, TypeOK', NEW e \in Endpoints, RunWatcher(e)
  PROVE  EInv(e)' /\ \A f \in Endpoints : f # e => Rests(f)
<1>0. TypeOK /\ LogOK /\ EInv(e) /\ Phases(e) /\ HandledIsRead(e)
  BY DEF IInv, EInv
<1>1. /\ watcher \in [Endpoints -> WatcherType] /\ watcher[e] \in WatcherType
      /\ first \in Nat /\ last \in Nat /\ first <= last /\ done \in [Endpoints -> SUBSET Nat]
      /\ marker \in Int
  BY <1>0, SegmentsAre DEF TypeOK
<1>2. /\ log' = log /\ first' = first /\ last' = last /\ aged' = aged /\ mode' = mode /\ mode # "down"
      /\ queue' = queue /\ tracker' = tracker /\ limited' = limited /\ ppc' = ppc /\ marker' = marker
      /\ watcher[e].pc = "begin" /\ watcher[e].state # "stopping"
  BY DEF RunWatcher, disk, At, Up, IsStopping
<1>3. PICK start \in Nat : start = StartSegment(marker) /\ first <= start /\ start <= last
  BY <1>1 DEF StartSegment
<1>4. /\ watcher'[e].pc = "open" /\ watcher'[e].state = watcher[e].state /\ watcher'[e].atStart = last
      /\ watcher'[e].seg = start /\ watcher'[e].pos = 0 /\ watcher'[e].final = watcher[e].final
  BY <1>1, <1>3 DEF RunWatcher, WatcherType
<1>5. \A f \in Endpoints : f # e => watcher'[f] = watcher[f] /\ done'[f] = done[f]
  BY <1>1 DEF RunWatcher
<1>6. done'[e] = done[e] \cup ({x \in Written : SegmentOf(x) < start} \ InFlight(e))
  BY <1>1, <1>3 DEF RunWatcher
<1>7. \A f \in Endpoints : f # e => Rests(f)
  BY <1>2, <1>5 DEF Rests
<1>8. InFlight(e)' = InFlight(e) /\ Batches(e)' = Batches(e) /\ Handled(e)' = Handled(e)
  BY <1>2 DEF InFlight, Batches, Handled
<1>9. Written' = Written /\ \A x : SegmentOf(x)' = SegmentOf(x)
  BY <1>2, SameLog
<1>10. Apart(Batches(e))'
  <2>1. Apart(Batches(e))' <=> Apart(Batches(e)')
    BY DEF Apart
  <2> QED BY <1>0, <1>8, <2>1 DEF EInv
<1>11. Phases(e)'
  BY <1>0, <1>2, <1>4 DEF Phases
<1>12. PositionOK(e)'
  BY <1>1, <1>2, <1>3, <1>4 DEF PositionOK
<1>13. Reading(e)' /\ watcher'[e].pc # "begin"
  BY <1>4 DEF Reading
<1>14. HandledIsRead(e)'
  <2>1. ASSUME NEW s \in Segments, NEW i \in 1..Len(log[s]), log[s][i] \in Handled(e) PROVE Read(e, s, i)'
    <3>1. s < first /\ s \in Nat
      BY <1>0, <1>2, <2>1, SegmentsAre DEF HandledIsRead
    <3> QED BY <1>1, <1>3, <1>4, <3>1 DEF Read
  <2> QED BY <1>0, <1>2, <1>8, <1>9, <1>13, <2>1 DEF HandledIsRead
<1>15. TouchedIsReached(e)'
  <2>1. Touched(e)' = Touched(e)
    BY <1>2, <1>8, <1>9 DEF Touched, Known, Told
  <2>2. ASSUME NEW t \in Touched(e)
        PROVE  t <= last /\ t <= start /\ \A x \in Written : SegmentOf(x) < t => x \in done'[e] \cup InFlight(e)
    <3>1. t <= last /\ t < first /\ \A x \in Written : SegmentOf(x) < t => x \in done[e] \cup InFlight(e)
      BY <1>0, <1>2 DEF EInv, TouchedIsReached
    <3>2. t \in Nat
      BY <1>0, TouchedNat
    <3> QED BY <1>1, <1>3, <1>6, <3>1, <3>2
  <2> QED BY <1>2, <1>4, <1>8, <1>9, <1>13, <2>1, <2>2 DEF TouchedIsReached
<1>16. InOrder(e)'
  BY <1>0, <1>2 DEF EInv, InOrder, Known
<1>17. LeavesNothing(e)'
  <2> SUFFICES ASSUME NEW s \in Segments, NEW i \in 1..Len(log[s]), Read(e, s, i)'
               PROVE  log[s][i] \in done'[e] \cup InFlight(e)
    BY <1>2, <1>8 DEF LeavesNothing
  <2>1. PlacesOK
    BY <1>0, PlaceFacts
  <2>2. Place(log[s][i], s, i)
    BY DEF Place
  <2>3. log[s][i] \in Written /\ SegmentOf(log[s][i]) = s /\ i \in Nat
    BY <2>1, <2>2 DEF PlacesOK
  <2>4. s < start
    <3>1. i # 0
      BY <2>1 DEF PlacesOK
    <3> QED BY <1>4, <2>3, <3>1 DEF Read
  <2> QED BY <1>6, <2>3, <2>4
<1>18. CountsExactly(e)'
  <2>1. ASSUME NEW s \in Segments PROVE Counted(e, s)' = Counted(e, s)
    BY <1>2, <1>4 DEF Counted
  <2>2. ASSUME NEW s \in Segments
        PROVE  OfSegment(InFlight(e), s)' = OfSegment(InFlight(e), s)
               /\ OfSegment(limited[e], s)' = OfSegment(limited[e], s)
    BY <1>2, <1>8, <1>9 DEF OfSegment
  <2> QED BY <1>0, <1>2, <2>1, <2>2 DEF EInv, CountsExactly
<1> QED BY <1>7, <1>10, <1>11, <1>12, <1>14, <1>15, <1>16, <1>17, <1>18 DEF EInv

\* An entry that is passed over.
LEMMA SeriesNotFoundKeeps ==
  ASSUME IInv, TypeOK', NEW e \in Endpoints, SeriesNotFound(e)
  PROVE  EInv(e)' /\ \A f \in Endpoints : f # e => Rests(f)
<1>0. TypeOK /\ LogOK /\ EInv(e) /\ Phases(e) /\ PositionOK(e) /\ HandledIsRead(e)
  BY DEF IInv, EInv
<1>1. /\ watcher \in [Endpoints -> WatcherType] /\ watcher[e] \in WatcherType
      /\ last \in Nat /\ done \in [Endpoints -> SUBSET Nat]
      /\ watcher[e].seg \in Nat /\ watcher[e].pos \in Nat
  BY <1>0, SegmentsAre DEF TypeOK, WatcherType
<1>2. /\ log' = log /\ first' = first /\ last' = last /\ aged' = aged /\ mode' = mode /\ mode # "down"
      /\ queue' = queue /\ tracker' = tracker /\ limited' = limited /\ ppc' = ppc /\ marker' = marker
      /\ watcher[e].pc = "append"
  BY DEF SeriesNotFound, disk, At, Up
<1>3. /\ watcher'[e].pc = "read" /\ watcher'[e].state = watcher[e].state
      /\ watcher'[e].atStart = watcher[e].atStart /\ watcher'[e].seg = watcher[e].seg
      /\ watcher'[e].pos = watcher[e].pos + 1 /\ watcher'[e].final = watcher[e].final
  BY <1>1 DEF SeriesNotFound, WatcherType
<1>4. \A f \in Endpoints : f # e => watcher'[f] = watcher[f] /\ done'[f] = done[f]
  BY <1>1 DEF SeriesNotFound, GiveUpEntry
<1>5. done'[e] = done[e] \cup {Entry(e)}
  BY <1>1 DEF SeriesNotFound, GiveUpEntry
<1>6. \A f \in Endpoints : f # e => Rests(f)
  BY <1>2, <1>4 DEF Rests
<1>7. InFlight(e)' = InFlight(e) /\ Batches(e)' = Batches(e) /\ Handled(e)' = Handled(e)
  BY <1>2 DEF InFlight, Batches, Handled
<1>8. Written' = Written /\ \A x : SegmentOf(x)' = SegmentOf(x)
  BY <1>2, SameLog
<1>9. Apart(Batches(e))'
  <2>1. Apart(Batches(e))' <=> Apart(Batches(e)')
    BY DEF Apart
  <2> QED BY <1>0, <1>7, <2>1 DEF EInv
<1>10. Phases(e)'
  BY <1>0, <1>2, <1>3 DEF Phases
<1>11. Place(Entry(e), watcher[e].seg, watcher[e].pos + 1)
  BY <1>0, <1>2, EntryPlace
<1>12. PlacesOK
  BY <1>0, PlaceFacts
<1>13. PositionOK(e)'
  <2>1. watcher[e].pos < Len(log[watcher[e].seg]) /\ watcher[e].seg <= last
    BY <1>0, <1>2 DEF PositionOK
  <2>2. Len(log[watcher[e].seg]) \in Nat
    BY <1>11, <1>12 DEF Place, PlacesOK
  <2>3. watcher[e].pos + 1 <= Len(log[watcher[e].seg])
    BY <1>1, <2>1, <2>2
  <2> QED BY <1>0, <1>2, <1>3, <2>1, <2>3 DEF PositionOK, Reading
<1>14. Reading(e) /\ Reading(e)' /\ watcher'[e].pc # "begin"
  BY <1>2, <1>3 DEF Reading
<1>15. ASSUME NEW s \in Segments, NEW i \in 1..Len(log[s])
       PROVE  Read(e, s, i)' <=> Read(e, s, i) \/ (s = watcher[e].seg /\ i = watcher[e].pos + 1)
  <2>1. s \in Nat /\ i \in Nat
    BY <1>12, SegmentsAre DEF PlacesOK
  <2> QED BY <1>1, <1>2, <1>3, <2>1 DEF Read
<1>16. HandledIsRead(e)'
  <2>1. ASSUME NEW s \in Segments, NEW i \in 1..Len(log[s]), log[s][i] \in Handled(e) PROVE Read(e, s, i)'
    BY <1>0, <1>14, <1>15, <2>1 DEF HandledIsRead
  <2> QED BY <1>0, <1>2, <1>7, <1>8, <1>14, <2>1 DEF HandledIsRead
<1>17. TouchedIsReached(e)'
  <2>1. Touched(e)' = Touched(e)
    BY <1>2, <1>7, <1>8 DEF Touched, Known, Told
  <2> QED BY <1>0, <1>2, <1>3, <1>5, <1>7, <1>8, <1>14, <2>1 DEF EInv, TouchedIsReached
<1>18. InOrder(e)'
  BY <1>0, <1>2 DEF EInv, InOrder, Known
<1>19. LeavesNothing(e)'
  <2> SUFFICES ASSUME NEW s \in Segments, NEW i \in 1..Len(log[s]), Read(e, s, i)'
               PROVE  log[s][i] \in done'[e] \cup InFlight(e)
    BY <1>2, <1>7 DEF LeavesNothing
  <2>1. CASE Read(e, s, i)
    BY <1>0, <1>5, <1>14, <2>1 DEF EInv, LeavesNothing
  <2>2. CASE s = watcher[e].seg /\ i = watcher[e].pos + 1
    BY <1>5, <2>2 DEF Entry
  <2> QED BY <1>15, <2>1, <2>2
<1>20. CountsExactly(e)'
  <2>1. ASSUME NEW s \in Segments PROVE Counted(e, s)' = Counted(e, s)
    BY <1>2, <1>3 DEF Counted
  <2>2. ASSUME NEW s \in Segments
        PROVE  OfSegment(InFlight(e), s)' = OfSegment(InFlight(e), s)
               /\ OfSegment(limited[e], s)' = OfSegment(limited[e], s)
    BY <1>2, <1>7, <1>8 DEF OfSegment
  <2> QED BY <1>0, <1>2, <2>1, <2>2 DEF EInv, CountsExactly
<1> QED BY <1>6, <1>9, <1>10, <1>13, <1>16, <1>17, <1>18, <1>19, <1>20 DEF EInv

\* The three terms of a count.
LEMMA CountedIs ==
  ASSUME TypeOK, NEW e \in Endpoints, NEW s \in Segments
  PROVE  \E c \in Int, t \in Int, r \in Int :
           /\ c = (IF tracker[e].counts[s] = None THEN 0 ELSE tracker[e].counts[s])
           /\ t = Total(tracker[e].updates, s)
           /\ r = (IF watcher[e].pc = "received" /\ watcher[e].seg = s THEN watcher[e].rcv ELSE 0)
           /\ Counted(e, s) = c + t + r
<1>1. tracker[e] \in TrackerType /\ watcher[e] \in WatcherType
  BY DEF TypeOK
<1>2. PICK u \in Seq(Update) : u = tracker[e].updates
  BY <1>1 DEF TrackerType
<1>3. PICK t \in Int : t = Total(tracker[e].updates, s)
  BY <1>2, TotalPartial
<1>4. PICK c \in Int : c = (IF tracker[e].counts[s] = None THEN 0 ELSE tracker[e].counts[s])
  BY <1>1 DEF TrackerType
<1>5. PICK r \in Int : r = (IF watcher[e].pc = "received" /\ watcher[e].seg = s THEN watcher[e].rcv ELSE 0)
  <2>1. watcher[e].rcv \in {0, 1}
    BY <1>1 DEF WatcherType
  <2> QED BY <2>1
<1>6. Counted(e, s) = c + t + r
  BY <1>3, <1>4, <1>5 DEF Counted
<1> QED BY <1>3, <1>4, <1>5, <1>6

LEMMA AddOne ==
  ASSUME NEW S, NEW x, x \notin S, NEW s, IsFiniteSet(OfSegment(S, s)), NEW D, D = S \cup {x}
  PROVE  Cardinality(OfSegment(D, s)) = Cardinality(OfSegment(S, s)) + (IF SegmentOf(x) = s THEN 1 ELSE 0)
<1>0. Cardinality(OfSegment(S, s)) \in Nat
  BY FS_CardinalityType
<1>1. CASE SegmentOf(x) = s
  <2>1. OfSegment(D, s) = OfSegment(S, s) \cup {x}
    BY <1>1 DEF OfSegment
  <2>2. x \notin OfSegment(S, s)
    BY DEF OfSegment
  <2> QED BY <1>1, <2>1, <2>2, FS_AddElement
<1>2. CASE SegmentOf(x) # s
  <2>1. OfSegment(D, s) = OfSegment(S, s)
    BY <1>2 DEF OfSegment
  <2> QED BY <1>0, <1>2, <2>1
<1> QED BY <1>1, <1>2

\* The entry is queued, dropped at the stream limit, or dropped at once.
Handles(e, n) ==
  \/ /\ n = 1 /\ InFlight(e)' = InFlight(e) \cup {Entry(e)}
     /\ limited'[e] = limited[e] /\ done'[e] = done[e]
  \/ /\ n = 1 /\ InFlight(e)' = InFlight(e)
     /\ limited'[e] = limited[e] \cup {Entry(e)} /\ done'[e] = done[e] \cup {Entry(e)}
  \/ /\ n = 0 /\ InFlight(e)' = InFlight(e)
     /\ limited'[e] = limited[e] /\ done'[e] = done[e] \cup {Entry(e)}

LEMMA EntryIsNew ==
  ASSUME TypeOK, LogOK, NEW e \in Endpoints, EInv(e), watcher[e].pc = "append"
  PROVE  /\ Entry(e) \notin Handled(e) /\ Entry(e) \notin InFlight(e) /\ Entry(e) \notin limited[e]
         /\ Entry(e) \in Nat
<1>1. PositionOK(e) /\ HandledIsRead(e)
  BY DEF EInv
<1>2. Place(Entry(e), watcher[e].seg, watcher[e].pos + 1) /\ Entry(e) \in Nat
  BY <1>1, EntryPlace
<1>3. watcher[e].seg \in Nat /\ watcher[e].pos \in Nat
  BY DEF TypeOK, WatcherType
<1>4. ~Read(e, watcher[e].seg, watcher[e].pos + 1)
  BY <1>3 DEF Read
<1>5. Reading(e)
  BY DEF Reading
<1>6. Entry(e) \notin Handled(e)
  BY <1>1, <1>2, <1>4, <1>5 DEF HandledIsRead, Place
<1> QED BY <1>2, <1>6 DEF Handled

LEMMA HandlesKeeps ==
  ASSUME TypeOK, TypeOK', LogOK, NEW e \in Endpoints, EInv(e), NEW n \in {0, 1},
         Appending(e), Appended(e, n), Handles(e, n), Apart(Batches(e))',
         queue'[e].pc = "send" <=> queue'[e].sending # <<>>
  PROVE  EInv(e)'
<1>0. Phases(e) /\ PositionOK(e) /\ HandledIsRead(e)
  BY DEF EInv
<1>1. /\ watcher \in [Endpoints -> WatcherType] /\ watcher[e] \in WatcherType
      /\ last \in Nat /\ watcher[e].seg \in Nat /\ watcher[e].pos \in Nat
  BY SegmentsAre DEF TypeOK, WatcherType
<1>2. /\ log' = log /\ first' = first /\ last' = last /\ aged' = aged /\ mode' = mode /\ mode # "down"
      /\ tracker' = tracker /\ ppc' = ppc /\ marker' = marker
      /\ watcher[e].pc = "append"
  BY DEF Appending, Appended, disk, At, Up
<1>3. /\ watcher'[e].pc = "received" /\ watcher'[e].state = watcher[e].state
      /\ watcher'[e].atStart = watcher[e].atStart /\ watcher'[e].seg = watcher[e].seg
      /\ watcher'[e].pos = watcher[e].pos /\ watcher'[e].final = watcher[e].final
      /\ watcher'[e].rcv = n
  BY <1>1 DEF Appended, WatcherType
<1>4. PICK x : x = Entry(e)
  OBVIOUS
<1>5. /\ Place(x, watcher[e].seg, watcher[e].pos + 1) /\ x \in Written /\ SegmentOf(x) = watcher[e].seg
      /\ x = log[watcher[e].seg][watcher[e].pos + 1]
  BY <1>0, <1>2, <1>4, EntryPlace DEF Entry
<1>6. x \notin Handled(e) /\ x \notin InFlight(e) /\ x \notin limited[e]
  BY <1>2, <1>4, EntryIsNew
<1>7. Written' = Written /\ \A y : SegmentOf(y)' = SegmentOf(y)
  BY <1>2, SameLog
<1>8. PlacesOK
  BY PlaceFacts
<1>9. /\ InFlight(e) \subseteq InFlight(e)' /\ InFlight(e)' \subseteq InFlight(e) \cup {x}
      /\ done[e] \subseteq done'[e] /\ x \in done'[e] \cup InFlight(e)'
      /\ Handled(e)' \subseteq Handled(e) \cup {x}
  BY <1>4 DEF Handles, Handled
<1>10. Phases(e)'
  BY <1>0, <1>2, <1>3 DEF Phases
<1>11. PositionOK(e)'
  BY <1>0, <1>2, <1>3 DEF PositionOK, Reading
<1>12. Reading(e) /\ Reading(e)' /\ watcher'[e].pc # "begin"
  BY <1>2, <1>3 DEF Reading
<1>13. ASSUME NEW s \in Segments, NEW i \in 1..Len(log[s])
       PROVE  Read(e, s, i)' <=> Read(e, s, i) \/ (s = watcher[e].seg /\ i = watcher[e].pos + 1)
  <2>1. s \in Nat /\ i \in Nat
    BY <1>8, SegmentsAre DEF PlacesOK
  <2> QED BY <1>1, <1>2, <1>3, <2>1 DEF Read
<1>14. HandledIsRead(e)'
  <2>1. ASSUME NEW s \in Segments, NEW i \in 1..Len(log[s]), log[s][i] \in Handled(e)' PROVE Read(e, s, i)'
    <3>1. CASE log[s][i] \in Handled(e)
      BY <1>0, <1>12, <1>13, <3>1 DEF HandledIsRead
    <3>2. CASE log[s][i] = x
      <4>1. Place(x, s, i)
        BY <3>2 DEF Place
      <4>2. s = watcher[e].seg /\ i = watcher[e].pos + 1
        BY <1>5, <1>8, <4>1 DEF PlacesOK
      <4> QED BY <1>13, <4>2
    <3> QED BY <1>9, <2>1, <3>1, <3>2
  <2>2. Handled(e)' \subseteq Written'
    BY <1>0, <1>5, <1>7, <1>9 DEF HandledIsRead
  <2> QED BY <1>2, <1>12, <2>1, <2>2 DEF HandledIsRead
<1>15. TouchedIsReached(e)'
  <2>1. Touched(e)' \subseteq Touched(e) \cup {watcher[e].seg}
    BY <1>2, <1>5, <1>7, <1>9 DEF Touched, Known, Told
  <2>2. ASSUME NEW t \in Touched(e)
        PROVE  t <= last /\ t <= watcher[e].seg /\ \A y \in Written : SegmentOf(y) < t => y \in done'[e] \cup InFlight(e)'
    BY <1>9, <1>12 DEF EInv, TouchedIsReached
  <2>3. watcher[e].seg <= last
    BY <1>0, <1>2 DEF PositionOK
  <2>4. ASSUME NEW y \in Written, SegmentOf(y) < watcher[e].seg PROVE y \in done'[e] \cup InFlight(e)'
    <3>1. PICK i : Place(y, SegmentOf(y), i)
      BY <1>8 DEF PlacesOK
    <3>2. Read(e, SegmentOf(y), i)
      BY <2>4 DEF Read
    <3>3. y \in done[e] \cup InFlight(e)
      BY <1>12, <3>1, <3>2 DEF EInv, LeavesNothing, Place
    <3> QED BY <1>9, <3>3
  <2>5. watcher[e].seg <= watcher[e].seg
    BY <1>1
  <2> QED BY <1>2, <1>3, <1>7, <1>12, <2>1, <2>2, <2>3, <2>4, <2>5 DEF TouchedIsReached
<1>16. InOrder(e)'
  BY <1>2 DEF EInv, InOrder, Known
<1>17. LeavesNothing(e)'
  <2> SUFFICES ASSUME NEW s \in Segments, NEW i \in 1..Len(log[s]), Read(e, s, i)'
               PROVE  log[s][i] \in done'[e] \cup InFlight(e)'
    BY <1>2 DEF LeavesNothing
  <2>1. CASE Read(e, s, i)
    BY <1>9, <1>12, <2>1 DEF EInv, LeavesNothing
  <2>2. CASE s = watcher[e].seg /\ i = watcher[e].pos + 1
    BY <1>5, <1>9, <2>2
  <2> QED BY <1>13, <2>1, <2>2
<1>18. CountsExactly(e)'
  <2> SUFFICES ASSUME NEW s \in Segments \ aged
               PROVE  Counted(e, s)' = Cardinality(OfSegment(InFlight(e), s)') + Cardinality(OfSegment(limited[e], s)')
    BY <1>2 DEF CountsExactly
  <2>1. PICK a \in Nat, b \in Nat : /\ a = Cardinality(OfSegment(InFlight(e), s))
                                    /\ b = Cardinality(OfSegment(limited[e], s))
    BY <1>0, FiniteHandled
  <2>2. IsFiniteSet(OfSegment(InFlight(e), s)) /\ IsFiniteSet(OfSegment(limited[e], s))
    BY <1>0, FiniteHandled
  <2>3. PICK c \in Int, t \in Int, r \in Int :
           /\ c = (IF tracker[e].counts[s] = None THEN 0 ELSE tracker[e].counts[s])
           /\ t = Total(tracker[e].updates, s)
           /\ r = (IF watcher[e].pc = "received" /\ watcher[e].seg = s THEN watcher[e].rcv ELSE 0)
           /\ Counted(e, s) = c + t + r
    BY CountedIs
  <2>4. c + t = a + b
    <3>1. r = 0
      BY <1>2, <2>3
    <3>2. Counted(e, s) = a + b
      BY <2>1 DEF EInv, CountsExactly
    <3> QED BY <2>3, <3>1, <3>2
  <2> DEFINE k == IF watcher[e].seg = s THEN n ELSE 0
  <2>5. Counted(e, s)' = c + t + k
    BY <1>2, <1>3, <2>3 DEF Counted
  <2>6. /\ OfSegment(InFlight(e), s)' = OfSegment(InFlight(e)', s)
        /\ OfSegment(limited[e], s)' = OfSegment(limited'[e], s)
    BY <1>7 DEF OfSegment
  <2> DEFINE one == IF SegmentOf(x) = s THEN 1 ELSE 0
  <2>7. \A D : D = InFlight(e) \cup {x} => Cardinality(OfSegment(D, s)) = a + one
    BY <1>6, <2>1, <2>2, AddOne
  <2>8. \A D : D = limited[e] \cup {x} => Cardinality(OfSegment(D, s)) = b + one
    BY <1>6, <2>1, <2>2, AddOne
  <2>9. (n = 1 => k = one) /\ (n = 0 => k = 0) /\ k \in Int /\ one \in Int
    BY <1>5
  <2> HIDE DEF k, one
  <2>10. CASE n = 1 /\ InFlight(e)' = InFlight(e) \cup {x} /\ limited'[e] = limited[e]
    <3>1. Cardinality(OfSegment(InFlight(e)', s)) = a + one /\ Cardinality(OfSegment(limited'[e], s)) = b
      BY <2>1, <2>7, <2>10
    <3> QED BY <2>4, <2>5, <2>6, <2>9, <2>10, <3>1
  <2>11. CASE n = 1 /\ InFlight(e)' = InFlight(e) /\ limited'[e] = limited[e] \cup {x}
    <3>1. Cardinality(OfSegment(InFlight(e)', s)) = a /\ Cardinality(OfSegment(limited'[e], s)) = b + one
      BY <2>1, <2>8, <2>11
    <3> QED BY <2>4, <2>5, <2>6, <2>9, <2>11, <3>1
  <2>12. CASE n = 0 /\ InFlight(e)' = InFlight(e) /\ limited'[e] = limited[e]
    <3>1. Cardinality(OfSegment(InFlight(e)', s)) = a /\ Cardinality(OfSegment(limited'[e], s)) = b
      BY <2>1, <2>12
    <3> QED BY <2>4, <2>5, <2>6, <2>9, <2>12, <3>1
  <2> QED BY <1>4, <2>10, <2>11, <2>12 DEF Handles
<1> QED BY <1>10, <1>11, <1>14, <1>15, <1>16, <1>17, <1>18 DEF EInv

\* The batches b become g when entry x joins the last one, which is a.
Joins(b, g, d, a, x) == b = d \o <<a>> /\ g = d \o <<Append(a, x)>>

LEMMA LastBatchGrows ==
  ASSUME NEW d \in Seq(Seq(Nat)), NEW a \in Seq(Nat), NEW x \in Nat,
         NEW b, NEW g, Joins(b, g, d, a, x), Apart(b), x \notin Entries(b)
  PROVE  Apart(g) /\ Entries(g) = Entries(b) \cup {x}
<1>0. b = d \o <<a>> /\ g = d \o <<Append(a, x)>>
  BY DEF Joins
<1>1. PICK c \in Seq(Nat) : c = Append(a, x)
  BY AppendProperties
<1>2. PICK p \in Seq(Seq(Nat)) : p = Append(d, a) /\ p = d \o <<a>>
  <2>1. Append(d, a) \in Seq(Seq(Nat)) /\ Append(d, a) = d \o <<a>>
    BY AppendProperties, AppendIsConcat
  <2> QED BY <2>1
<1>3. PICK q \in Seq(Seq(Nat)) : q = Append(d, c) /\ q = d \o <<c>>
  <2>1. Append(d, c) \in Seq(Seq(Nat)) /\ Append(d, c) = d \o <<c>>
    BY AppendProperties, AppendIsConcat
  <2> QED BY <2>1
<1>4. Len(p) = Len(d) + 1 /\ p[Len(d) + 1] = a /\ \A i \in 1..Len(d) : p[i] = d[i]
  BY <1>2, AppendProperties
<1>5. Len(q) = Len(d) + 1 /\ q[Len(d) + 1] = c /\ \A i \in 1..Len(d) : q[i] = d[i]
  BY <1>3, AppendProperties
<1>6. Len(d) \in Nat /\ (Len(d) + 1) - 1 = Len(d) /\ Len(p) - 1 = Len(d)
  BY <1>4, LenProperties
<1>7. p # <<>>
  <2>1. Len(p) # 0
    BY <1>4, <1>6
  <2> QED BY <2>1, EmptySeq
<1>8. q[Len(p)] = Append(p[Len(p)], x) /\ Len(q) = Len(p) /\ \A i \in 1..(Len(p) - 1) : q[i] = p[i]
  BY <1>1, <1>4, <1>5, <1>6
<1>9. Apart(p) /\ x \notin Entries(p)
  BY <1>0, <1>2
<1>10. Apart(q) /\ Entries(q) = Entries(p) \cup {x}
  BY <1>7, <1>8, <1>9, BatchGrows
<1> QED BY <1>0, <1>1, <1>2, <1>3, <1>10

LEMMA NextBatchBegins ==
  ASSUME NEW p \in Seq(Seq(Nat)), NEW c \in Seq(Seq(Nat)), NEW a \in Seq(Nat), NEW x \in Nat,
         Apart(p \o c \o <<a>>), x \notin Entries(p \o c \o <<a>>)
  PROVE  /\ Apart(p \o Append(c, a) \o <<<<x>>>>)
         /\ Entries(p \o Append(c, a) \o <<<<x>>>>) = Entries(p \o c \o <<a>>) \cup {x}
<1>1. PICK o \in Seq(Seq(Nat)) : o = <<a>>
  BY Singleton
<1>2. PICK b \in Seq(Nat) : b = <<x>> /\ Len(b) = 1 /\ b[1] = x
  BY Singleton
<1>3. PICK q \in Seq(Seq(Nat)) : q = (p \o c) \o o
  BY ConcatProperties
<1>4. p \o Append(c, a) = q
  <2>1. Append(c, a) = c \o o
    BY <1>1, AppendIsConcat
  <2>2. (p \o c) \o o = p \o (c \o o)
    BY BatchesAssociative
  <2> QED BY <1>3, <2>1, <2>2
<1>5. \A k, l \in 1..Len(b) : b[k] = b[l] => k = l
  BY <1>2
<1>6. \A y : y \in ToSet(b) <=> y = x
  <2>1. \A y : y \in ToSet(b) <=> \E k \in 1..Len(b) : y = b[k]
    BY SeqFacts
  <2>2. \A k : k \in 1..Len(b) <=> k = 1
    BY <1>2
  <2> QED BY <1>2, <2>1, <2>2
<1>7. Apart(q) /\ x \notin Entries(q)
  BY <1>1, <1>3
<1>8. Apart(Append(q, b)) /\ Entries(Append(q, b)) = Entries(q) \cup ToSet(b)
  BY <1>5, <1>6, <1>7, BatchesGrow
<1>9. Append(q, b) = q \o <<b>>
  BY AppendIsConcat
<1>10. ToSet(b) = {x}
  BY <1>6
<1> QED BY <1>1, <1>2, <1>3, <1>4, <1>8, <1>9, <1>10

LEMMA AppendKeeps ==
  ASSUME IInv, TypeOK', NEW e \in Endpoints,
         AppendToBatch(e) \/ AppendToNext(e) \/ AppendLimited(e) \/ AppendOverflow(e)
  PROVE  EInv(e)' /\ \A f \in Endpoints : f # e => Rests(f)
<1>0. TypeOK /\ LogOK /\ EInv(e) /\ Phases(e) /\ Apart(Batches(e))
  BY DEF IInv, EInv
<1>1. Appending(e) /\ watcher[e].pc = "append" /\ mode # "down"
  BY DEF AppendToBatch, AppendToNext, AppendLimited, AppendOverflow, Appending, At, Up
<1>2. PICK n \in {0, 1} : Appended(e, n)
  BY DEF AppendToBatch, AppendToNext, AppendLimited, AppendOverflow
<1>3. PICK x \in Nat : x = Entry(e) /\ x \notin InFlight(e)
  BY <1>0, <1>1, EntryIsNew
<1>4. /\ queue \in [Endpoints -> QueueType] /\ queue[e] \in QueueType
      /\ done \in [Endpoints -> SUBSET Nat] /\ limited \in [Endpoints -> SUBSET Nat]
      /\ watcher \in [Endpoints -> WatcherType]
  BY <1>0 DEF TypeOK
<1>5. PICK p \in Seq(Seq(Nat)), c \in Seq(Seq(Nat)), a \in Seq(Nat) :
        p = queue[e].sending /\ c = queue[e].chan /\ a = queue[e].batch
  BY <1>4 DEF QueueType
<1>6. Batches(e) = p \o c \o <<a>> /\ InFlight(e) = Entries(Batches(e)) /\ InFlight(e)' = Entries(Batches(e)')
  BY <1>5 DEF Batches, InFlight, Entries
<1>7. Apart(Batches(e))' <=> Apart(Batches(e)')
  BY DEF Apart
<1>8. \A f \in Endpoints : f # e => Rests(f)
  <2>1. ASSUME NEW f \in Endpoints, f # e
        PROVE  /\ queue'[f] = queue[f] /\ done'[f] = done[f] /\ limited'[f] = limited[f]
               /\ watcher'[f] = watcher[f]
    BY <1>4, <2>1 DEF AppendToBatch, AppendToNext, AppendLimited, AppendOverflow, Appended, GiveUpEntry
  <2>2. /\ log' = log /\ first' = first /\ last' = last /\ mode' = mode /\ aged' = aged
        /\ tracker' = tracker /\ ppc' = ppc
    BY <1>2 DEF Appended, disk
  <2> QED BY <1>1, <2>1, <2>2 DEF Rests
<1>9. CASE AppendToBatch(e)
  <2>1. /\ queue'[e].sending = p /\ queue'[e].chan = c /\ queue'[e].batch = Append(a, x)
        /\ queue'[e].pc = queue[e].pc /\ done' = done /\ limited' = limited /\ Appended(e, 1)
    BY <1>3, <1>4, <1>5, <1>9 DEF AppendToBatch, QueueType
  <2>2. Batches(e)' = p \o c \o <<Append(a, x)>>
    BY <2>1 DEF Batches
  <2>3. PICK d \in Seq(Seq(Nat)) : d = p \o c
    BY ConcatProperties
  <2>4. PICK b, g : b = Batches(e) /\ g = Batches(e)' /\ Joins(b, g, d, a, x)
    BY <1>6, <2>2, <2>3 DEF Joins
  <2>5. Apart(b) /\ x \notin Entries(b)
    BY <1>0, <1>3, <1>6, <2>4
  <2>6. Apart(Batches(e))' /\ InFlight(e)' = InFlight(e) \cup {x}
    <3>1. Apart(g) /\ Entries(g) = Entries(b) \cup {x}
      BY <2>4, <2>5, LastBatchGrows
    <3> QED BY <1>6, <1>7, <2>4, <3>1
  <2>7. Handles(e, 1)
    BY <1>3, <2>1, <2>6 DEF Handles
  <2>8. queue'[e].pc = "send" <=> queue'[e].sending # <<>>
    BY <1>0, <1>5, <2>1 DEF Phases
  <2> QED BY <1>0, <1>1, <1>8, <2>1, <2>6, <2>7, <2>8, HandlesKeeps
<1>10. CASE AppendToNext(e)
  <2>1. /\ queue'[e].sending = p /\ queue'[e].chan = Append(c, a) /\ queue'[e].batch = <<x>>
        /\ queue'[e].pc = queue[e].pc /\ done' = done /\ limited' = limited /\ Appended(e, 1)
    BY <1>3, <1>4, <1>5, <1>10 DEF AppendToNext, QueueType
  <2>2. Batches(e)' = p \o Append(c, a) \o <<<<x>>>>
    BY <2>1 DEF Batches
  <2>3. Apart(p \o c \o <<a>>) /\ x \notin Entries(p \o c \o <<a>>)
    BY <1>0, <1>3, <1>6
  <2>4. /\ Apart(p \o Append(c, a) \o <<<<x>>>>)
        /\ Entries(p \o Append(c, a) \o <<<<x>>>>) = Entries(p \o c \o <<a>>) \cup {x}
    BY <2>3, NextBatchBegins
  <2>5. Apart(Batches(e))' /\ InFlight(e)' = InFlight(e) \cup {x}
    BY <1>6, <1>7, <2>2, <2>4
  <2>6. Handles(e, 1)
    BY <1>3, <2>1, <2>5 DEF Handles
  <2>7. queue'[e].pc = "send" <=> queue'[e].sending # <<>>
    BY <1>0, <1>5, <2>1 DEF Phases
  <2> QED BY <1>0, <1>1, <1>8, <2>1, <2>5, <2>6, <2>7, HandlesKeeps
<1>11. ASSUME queue' = queue
       PROVE  /\ Apart(Batches(e))' /\ InFlight(e)' = InFlight(e)
              /\ queue'[e].pc = "send" <=> queue'[e].sending # <<>>
  <2>1. Batches(e)' = Batches(e)
    BY <1>11 DEF Batches
  <2> QED BY <1>0, <1>6, <1>7, <1>11, <2>1 DEF Phases
<1>12. CASE AppendLimited(e)
  <2>1. /\ queue' = queue /\ Appended(e, 1) /\ done'[e] = done[e] \cup {Entry(e)}
        /\ limited'[e] = limited[e] \cup {Entry(e)}
    BY <1>4, <1>12 DEF AppendLimited, GiveUpEntry
  <2>2. Handles(e, 1)
    BY <1>11, <2>1 DEF Handles
  <2> QED BY <1>0, <1>1, <1>8, <1>11, <2>1, <2>2, HandlesKeeps
<1>13. CASE AppendOverflow(e)
  <2>1. /\ queue' = queue /\ Appended(e, 0) /\ done'[e] = done[e] \cup {Entry(e)}
        /\ limited' = limited
    BY <1>4, <1>13 DEF AppendOverflow, GiveUpEntry
  <2>2. Handles(e, 0)
    BY <1>11, <2>1 DEF Handles
  <2> QED BY <1>0, <1>1, <1>8, <1>11, <2>1, <2>2, HandlesKeeps
<1> QED BY <1>9, <1>10, <1>12, <1>13

\* The tracker is told of the entry that was handled.
LEMMA UpdateReceivedDataKeeps ==
  ASSUME IInv, TypeOK', NEW e \in Endpoints, UpdateReceivedData(e)
  PROVE  EInv(e)' /\ \A f \in Endpoints : f # e => Rests(f)
<1>0. TypeOK /\ LogOK /\ EInv(e) /\ Phases(e) /\ PositionOK(e) /\ HandledIsRead(e)
  BY DEF IInv, EInv
<1>1. /\ watcher \in [Endpoints -> WatcherType] /\ watcher[e] \in WatcherType
      /\ tracker \in [Endpoints -> TrackerType] /\ tracker[e] \in TrackerType
      /\ last \in Nat /\ watcher[e].seg \in Nat /\ watcher[e].pos \in Nat /\ watcher[e].rcv \in {0, 1}
  BY <1>0, SegmentsAre DEF TypeOK, WatcherType
<1>2. /\ log' = log /\ first' = first /\ last' = last /\ aged' = aged /\ mode' = mode /\ mode # "down"
      /\ queue' = queue /\ done' = done /\ limited' = limited /\ ppc' = ppc /\ marker' = marker
      /\ watcher[e].pc = "received"
  BY DEF UpdateReceivedData, disk, history, At, Up
<1>3. /\ watcher'[e].pc = "read" /\ watcher'[e].state = watcher[e].state
      /\ watcher'[e].atStart = watcher[e].atStart /\ watcher'[e].seg = watcher[e].seg
      /\ watcher'[e].pos = watcher[e].pos + 1 /\ watcher'[e].final = watcher[e].final
  BY <1>1 DEF UpdateReceivedData, WatcherType
<1>4. PICK u \in Seq(Update) : u = tracker[e].updates
  BY <1>1 DEF TrackerType
<1>5. watcher[e].seg \in Segments
  BY <1>0, <1>2, EntryPlace
<1>6. PICK y \in Update : y = [seg |-> watcher[e].seg, n |-> watcher[e].rcv]
  <2>1. watcher[e].rcv \in Int
    BY <1>1
  <2> QED BY <1>5, <2>1, UpdatesType
<1>7. y.seg = watcher[e].seg /\ y.n = watcher[e].rcv
  BY <1>6
<1>8. tracker'[e].updates = Append(u, y) /\ tracker'[e].counts = tracker[e].counts
  BY <1>1, <1>4, <1>6 DEF UpdateReceivedData, TrackerType
<1>9. \A f \in Endpoints : f # e => Rests(f)
  <2>1. \A f \in Endpoints : f # e => watcher'[f] = watcher[f] /\ tracker'[f] = tracker[f]
    BY <1>1 DEF UpdateReceivedData
  <2> QED BY <1>2, <2>1 DEF Rests
<1>10. InFlight(e)' = InFlight(e) /\ Batches(e)' = Batches(e) /\ Handled(e)' = Handled(e)
  BY <1>2 DEF InFlight, Batches, Handled
<1>11. Written' = Written /\ \A x : SegmentOf(x)' = SegmentOf(x)
  BY <1>2, SameLog
<1>12. PlacesOK
  BY <1>0, PlaceFacts
<1>13. Reading(e) /\ Reading(e)' /\ watcher'[e].pc # "begin"
  BY <1>2, <1>3 DEF Reading
<1>14. ASSUME NEW s \in Segments, NEW i \in 1..Len(log[s]) PROVE Read(e, s, i)' <=> Read(e, s, i)
  <2>1. s \in Nat /\ i \in Nat
    BY <1>12, SegmentsAre DEF PlacesOK
  <2> QED BY <1>1, <1>2, <1>3, <2>1 DEF Read
<1>15. PICK k \in Nat : k = Len(u)
  BY LenProperties
<1>16. PICK v \in Seq(Update) : /\ v = Append(u, y) /\ Len(v) = k + 1 /\ v[k + 1] = y
                                /\ \A i \in 1..k : v[i] = u[i]
  <2>1. PICK v : v = Append(u, y)
    OBVIOUS
  <2>2. v \in Seq(Update) /\ Len(v) = Len(u) + 1 /\ v[Len(u) + 1] = y /\ \A i \in 1..Len(u) : v[i] = u[i]
    BY <2>1, AppendProperties
  <2> QED BY <1>15, <2>1, <2>2
<1>17. \A i : i \in 1..(k + 1) <=> i \in 1..k \/ i = k + 1
  BY <1>15
<1>18. Apart(Batches(e))'
  <2>1. Apart(Batches(e))' <=> Apart(Batches(e)')
    BY DEF Apart
  <2> QED BY <1>0, <1>10, <2>1 DEF EInv
<1>19. Phases(e)'
  BY <1>0, <1>2, <1>3 DEF Phases
<1>20. PositionOK(e)'
  <2>1. watcher[e].pos < Len(log[watcher[e].seg]) /\ watcher[e].seg <= last
    BY <1>0, <1>2 DEF PositionOK
  <2>2. Len(log[watcher[e].seg]) \in Nat
    BY <1>5, <1>12 DEF PlacesOK
  <2>3. watcher[e].pos + 1 <= Len(log[watcher[e].seg])
    BY <1>1, <2>1, <2>2
  <2> QED BY <1>0, <1>2, <1>3, <2>1, <2>3 DEF PositionOK, Reading
<1>21. HandledIsRead(e)'
  <2>1. ASSUME NEW s \in Segments, NEW i \in 1..Len(log[s]), log[s][i] \in Handled(e) PROVE Read(e, s, i)'
    BY <1>0, <1>13, <1>14, <2>1 DEF HandledIsRead
  <2> QED BY <1>0, <1>2, <1>10, <1>11, <1>13, <2>1 DEF HandledIsRead
<1>22. ASSUME NEW t \in Touched(e)
       PROVE  /\ t <= last /\ t <= watcher[e].seg /\ t \in Nat
              /\ \A x \in Written : SegmentOf(x) < t => x \in done[e] \cup InFlight(e)
  BY <1>0, <1>13, TouchedNat DEF EInv, TouchedIsReached
<1>23. TouchedIsReached(e)'
  <2>1. Told(e) = {u[i].seg : i \in 1..k} /\ Told(e)' = {v[i].seg : i \in 1..(k + 1)}
    BY <1>4, <1>8, <1>15, <1>16 DEF Told
  <2>2. ASSUME NEW t \in Told(e)' PROVE t \in Told(e) \/ t = watcher[e].seg
    <3>1. PICK i \in 1..(k + 1) : t = v[i].seg
      BY <2>1
    <3>2. CASE i \in 1..k
      BY <1>16, <2>1, <3>1, <3>2
    <3>3. CASE i = k + 1
      BY <1>7, <1>16, <3>1, <3>3
    <3> QED BY <1>17, <3>2, <3>3
  <2>3. Known(e)' = Known(e)
    BY <1>8 DEF Known
  <2>4. Touched(e)' \subseteq Touched(e) \cup {watcher[e].seg}
    BY <1>10, <1>11, <2>2, <2>3 DEF Touched
  <2>5. watcher[e].seg <= last /\ watcher[e].seg <= watcher[e].seg
    BY <1>0, <1>1, <1>2 DEF PositionOK
  <2>6. ASSUME NEW y1 \in Written, SegmentOf(y1) < watcher[e].seg PROVE y1 \in done[e] \cup InFlight(e)
    <3>1. PICK i : Place(y1, SegmentOf(y1), i)
      BY <1>12 DEF PlacesOK
    <3>2. Read(e, SegmentOf(y1), i)
      BY <2>6 DEF Read
    <3> QED BY <1>0, <1>13, <3>1, <3>2 DEF EInv, LeavesNothing, Place
  <2> QED BY <1>2, <1>3, <1>10, <1>11, <1>13, <1>22, <2>4, <2>5, <2>6 DEF TouchedIsReached
<1>24. InOrder(e)'
  <2> SUFFICES ASSUME NEW j \in 1..(k + 1)
               PROVE  /\ \A t \in Known(e) : v[j].seg < t => v[j].n <= 0
                      /\ \A i \in 1..(j - 1) : v[j].seg < v[i].seg => v[j].n <= 0
    BY <1>8, <1>16 DEF InOrder, Known
  <2>1. CASE j \in 1..k
    <3>1. \A i \in 1..(j - 1) : i \in 1..k
      BY <1>15, <2>1
    <3>2. /\ \A t \in Known(e) : u[j].seg < t => u[j].n <= 0
          /\ \A i \in 1..(j - 1) : u[j].seg < u[i].seg => u[j].n <= 0
      BY <1>0, <1>4, <1>15, <2>1 DEF EInv, InOrder
    <3> QED BY <1>16, <2>1, <3>1, <3>2
  <2>2. CASE j = k + 1
    <3>1. \A t \in Touched(e) : ~(watcher[e].seg < t)
      BY <1>1, <1>22
    <3>2. Known(e) \subseteq Touched(e) /\ \A i \in 1..k : u[i].seg \in Touched(e)
      BY <1>4, <1>15 DEF Touched, Told
    <3>3. \A i \in 1..(j - 1) : i \in 1..k
      BY <1>15, <2>2
    <3> QED BY <1>7, <1>16, <2>2, <3>1, <3>2, <3>3
  <2> QED BY <1>17, <2>1, <2>2
<1>25. LeavesNothing(e)'
  BY <1>0, <1>2, <1>10, <1>13, <1>14 DEF EInv, LeavesNothing
<1>26. CountsExactly(e)'
  <2>1. ASSUME NEW s \in Segments PROVE Counted(e, s)' = Counted(e, s)
    <3>1. PICK c \in Int, t \in Int, r \in Int :
           /\ c = (IF tracker[e].counts[s] = None THEN 0 ELSE tracker[e].counts[s])
           /\ t = Total(tracker[e].updates, s)
           /\ r = (IF watcher[e].pc = "received" /\ watcher[e].seg = s THEN watcher[e].rcv ELSE 0)
           /\ Counted(e, s) = c + t + r
      BY <1>0, CountedIs
    <3>2. Total(v, s) = t + Weight(y, s)
      BY <1>4, <1>16, <3>1, TotalAppend
    <3>3. Weight(y, s) = r
      BY <1>2, <1>7, <3>1 DEF Weight
    <3>4. Total(tracker[e].updates, s)' = Total(v, s)
      BY <1>8, <1>16 DEF Total
    <3>5. Counted(e, s)' = c + Total(v, s) + 0
      BY <1>3, <1>8, <3>1, <3>4 DEF Counted
    <3> QED BY <3>1, <3>2, <3>3, <3>5
  <2>2. ASSUME NEW s \in Segments
        PROVE  OfSegment(InFlight(e), s)' = OfSegment(InFlight(e), s)
               /\ OfSegment(limited[e], s)' = OfSegment(limited[e], s)
    BY <1>2, <1>10, <1>11 DEF OfSegment
  <2> QED BY <1>0, <1>2, <2>1, <2>2 DEF EInv, CountsExactly
<1> QED BY <1>9, <1>18, <1>19, <1>20, <1>21, <1>23, <1>24, <1>25, <1>26 DEF EInv

-----------------------------------------------------------------------------
(***************************************************************************)
(* A batch is sent                                                         *)
(***************************************************************************)

\* Batch b has z entries of segment s.
Counts(z, b, s) == z = CountOf(b, s) /\ z = Cardinality(OfSegment(ToSet(b), s))

LEMMA SentTotal ==
  ASSUME NEW u \in Seq(Update), NEW v \in Seq(Update), NEW b, NEW s, NEW z \in Nat,
         Counts(z, b, s), Reports(v, b)
  PROVE  \E m \in Int : m = -z /\ Total(u \o v, s) = Total(u, s) + m
<1>0. z = CountOf(b, s) /\ z = Cardinality(OfSegment(ToSet(b), s))
  BY DEF Counts
<1>1. PICK m \in Int : m = -z /\ (z = 0 => m = 0)
  OBVIOUS
<1>2. \A i \in 1..Len(v) : v[i].seg = s => v[i].n = m
  BY <1>0, <1>1 DEF Reports
<1>3. (\A i \in 1..Len(v) : v[i].seg # s) => m = 0
  <2> HAVE \A i \in 1..Len(v) : v[i].seg # s
  <2>1. \A x \in ToSet(b) : SegmentOf(x) # s
    BY DEF Reports
  <2>2. OfSegment(ToSet(b), s) = {}
    BY <2>1 DEF OfSegment
  <2> QED BY <1>0, <1>1, <2>2, FS_EmptySet
<1>4. Once(v, s, m)
  BY <1>2, <1>3 DEF Reports, Once
<1>5. Total(u \o v, s) = Total(u, s) + m
  BY <1>4, TotalOrder
<1> QED BY <1>1, <1>5

LEMMA SendKeeps ==
  ASSUME IInv, TypeOK', NEW e \in Endpoints, SendBatch(e)
  PROVE  EInv(e)' /\ \A f \in Endpoints : f # e => Rests(f)
<1>0. TypeOK /\ LogOK /\ EInv(e) /\ Phases(e) /\ PositionOK(e) /\ HandledIsRead(e) /\ Apart(Batches(e))
  BY DEF IInv, EInv
<1>1. /\ tracker \in [Endpoints -> TrackerType] /\ tracker[e] \in TrackerType
      /\ queue \in [Endpoints -> QueueType] /\ queue[e] \in QueueType
      /\ done \in [Endpoints -> SUBSET Nat]
  BY <1>0 DEF TypeOK
<1>2. /\ log' = log /\ first' = first /\ last' = last /\ aged' = aged /\ mode' = mode /\ mode # "down"
      /\ watcher' = watcher /\ limited' = limited /\ ppc' = ppc /\ marker' = marker
  BY DEF SendBatch, disk, ShardAt, Up
<1>25. \A s \in Segments : \E c \in Int, t \in Int, r \in Int :
           /\ c = (IF tracker[e].counts[s] = None THEN 0 ELSE tracker[e].counts[s])
           /\ t = Total(tracker[e].updates, s)
           /\ r = (IF watcher[e].pc = "received" /\ watcher[e].seg = s THEN watcher[e].rcv ELSE 0)
           /\ Counted(e, s) = c + t + r
  BY <1>0, CountedIs
<1>3. PICK b \in Seq(Nat), v \in Seq(Update) : Sends(e, b, v)
  BY SendFacts
<1>4. PICK u \in Seq(Update) : u = tracker[e].updates
  BY <1>1 DEF TrackerType
<1>5. tracker'[e].updates = u \o v /\ tracker'[e].counts = tracker[e].counts
  BY <1>1, <1>3, <1>4 DEF Sends, TrackerType
<1>6. done'[e] = done[e] \cup ToSet(b)
  BY <1>1, <1>3 DEF SendBatch, Sends
<1>7. \A f \in Endpoints : f # e => Rests(f)
  <2>1. \A f \in Endpoints : f # e => tracker'[f] = tracker[f]
    BY <1>1, <1>3 DEF Sends
  <2>2. \A f \in Endpoints : f # e => queue'[f] = queue[f] /\ done'[f] = done[f]
    BY <1>1 DEF SendBatch
  <2> QED BY <1>2, <2>1, <2>2 DEF Rests
<1>8. PICK p \in Seq(Seq(Nat)) : p = Batches(e) /\ p # <<>>
  BY <1>1, BatchesType DEF Batches
<1>9. /\ Batches(e)' = Tail(p) /\ Apart(Tail(p)) /\ b = Head(p)
      /\ Entries(Tail(p)) = Entries(p) \ ToSet(b) /\ ToSet(b) \subseteq Entries(p)
      /\ \A k, l \in 1..Len(b) : b[k] = b[l] => k = l
  <2>1. Batches(e)' = Tail(p) /\ b = Head(p)
    BY <1>3, <1>8 DEF Sends
  <2>2. /\ Apart(Tail(p)) /\ Entries(Tail(p)) = Entries(p) \ ToSet(Head(p))
        /\ ToSet(Head(p)) \subseteq Entries(p)
        /\ \A k, l \in 1..Len(Head(p)) : Head(p)[k] = Head(p)[l] => k = l
    BY <1>0, <1>8, BatchesShrink
  <2> QED BY <2>1, <2>2
<1>10. InFlight(e)' = InFlight(e) \ ToSet(b) /\ ToSet(b) \subseteq InFlight(e)
  <2>1. InFlight(e) = Entries(p) /\ InFlight(e)' = Entries(Tail(p))
    BY <1>8, <1>9 DEF InFlight, Entries
  <2> QED BY <1>9, <2>1
<1>11. /\ Handled(e)' \subseteq Handled(e)
       /\ done'[e] \cup InFlight(e)' = done[e] \cup InFlight(e)
  BY <1>2, <1>6, <1>10 DEF Handled
<1>12. Apart(Batches(e))'
  <2>1. Apart(Batches(e))' <=> Apart(Batches(e)')
    BY DEF Apart
  <2> QED BY <1>9, <2>1
<1>13. Written' = Written /\ \A x : SegmentOf(x)' = SegmentOf(x)
  BY <1>2, SameLog
<1>14. Phases(e)'
  <2>1. PICK q \in Seq(Seq(Nat)) : q = queue[e].sending
    BY <1>1 DEF QueueType
  <2>2. q # <<>>
    BY <1>3, <2>1 DEF Sends
  <2>3. queue'[e].sending = Tail(q) /\ queue'[e].pc = (IF Len(q) > 1 THEN "send" ELSE "select")
    BY <1>1, <2>1 DEF SendBatch, QueueType
  <2>4. Tail(q) \in Seq(Seq(Nat)) /\ Len(Tail(q)) = Len(q) - 1 /\ Len(q) \in Nat
    BY <2>2, HeadTailProperties, LenProperties
  <2>5. Tail(q) = <<>> <=> Len(Tail(q)) = 0
    BY <2>4, EmptySeq
  <2>6. Len(q) # 0
    BY <2>2, EmptySeq
  <2>7. queue'[e].pc = "send" <=> queue'[e].sending # <<>>
    <3>1. PICK n \in Nat : n = Len(q)
      BY <2>4
    <3>2. CASE n > 1
      <4>1. n - 1 # 0
        BY <3>2
      <4> QED BY <2>3, <2>4, <2>5, <3>1, <3>2, <4>1
    <3>3. CASE ~(n > 1)
      <4>1. n - 1 = 0
        BY <2>6, <3>1, <3>3
      <4>2. queue'[e].pc = "select"
        BY <2>3, <3>1, <3>3
      <4> QED BY <2>3, <2>4, <2>5, <3>1, <4>1, <4>2
    <3> QED BY <3>2, <3>3
  <2> QED BY <1>0, <1>2, <2>7 DEF Phases
<1>15. PositionOK(e)' /\ (Reading(e)' <=> Reading(e)) /\ \A s, i : Read(e, s, i)' <=> Read(e, s, i)
  BY <1>0, <1>2 DEF PositionOK, Reading, Read
<1>16. HandledIsRead(e)'
  BY <1>0, <1>2, <1>11, <1>13, <1>15 DEF HandledIsRead
<1>17. PICK k \in Nat, m \in Nat : k = Len(u) /\ m = Len(v)
  BY LenProperties
<1>18. PICK w \in Seq(Update) : /\ w = u \o v /\ Len(w) = k + m
                                /\ \A i \in 1..(k + m) : w[i] = IF i <= k THEN u[i] ELSE v[i - k]
  <2>1. /\ u \o v \in Seq(Update) /\ Len(u \o v) = Len(u) + Len(v)
        /\ \A i \in 1..(Len(u) + Len(v)) : (u \o v)[i] = IF i <= Len(u) THEN u[i] ELSE v[i - Len(u)]
    BY ConcatProperties
  <2> QED BY <1>17, <2>1
<1>19. ASSUME NEW i \in 1..(k + m)
       PROVE  (i \in 1..k /\ w[i] = u[i]) \/ (i - k \in 1..m /\ w[i] = v[i - k])
  BY <1>18
<1>20. \A i \in 1..m : v[i].n = -CountOf(b, v[i].seg) /\ \E x \in ToSet(b) : v[i].seg = SegmentOf(x)
  BY <1>3, <1>17 DEF Sends, Reports
<1>21. TouchedIsReached(e)'
  <2>1. Told(e) = {u[i].seg : i \in 1..k} /\ Told(e)' = {w[i].seg : i \in 1..(k + m)}
    BY <1>4, <1>5, <1>17, <1>18 DEF Told
  <2>2. ASSUME NEW t \in Told(e)' PROVE t \in Told(e) \/ t \in {SegmentOf(x) : x \in InFlight(e)}
    <3>1. PICK i \in 1..(k + m) : t = w[i].seg
      BY <2>1
    <3>2. CASE i \in 1..k /\ w[i] = u[i]
      BY <2>1, <3>1, <3>2
    <3>3. CASE i - k \in 1..m /\ w[i] = v[i - k]
      BY <1>10, <1>20, <3>1, <3>3
    <3> QED BY <1>19, <3>2, <3>3
  <2>3. Known(e)' = Known(e)
    BY <1>5 DEF Known
  <2>4. Touched(e)' \subseteq Touched(e)
    BY <1>10, <1>13, <2>2, <2>3 DEF Touched
  <2> QED BY <1>0, <1>2, <1>11, <1>13, <1>15, <2>4 DEF EInv, TouchedIsReached
<1>22. InOrder(e)'
  <2> SUFFICES ASSUME NEW j \in 1..(k + m)
               PROVE  /\ \A t \in Known(e) : w[j].seg < t => w[j].n <= 0
                      /\ \A i \in 1..(j - 1) : w[j].seg < w[i].seg => w[j].n <= 0
    BY <1>5, <1>18 DEF InOrder, Known
  <2>1. CASE j \in 1..k /\ w[j] = u[j]
    <3>1. \A i \in 1..(j - 1) : i \in 1..k /\ i \in 1..(k + m) /\ i <= k
      BY <2>1
    <3>2. \A i \in 1..(j - 1) : w[i] = u[i]
      BY <1>18, <3>1
    <3>3. /\ \A t \in Known(e) : u[j].seg < t => u[j].n <= 0
          /\ \A i \in 1..(j - 1) : u[j].seg < u[i].seg => u[j].n <= 0
      BY <1>0, <1>4, <1>17, <2>1 DEF EInv, InOrder
    <3> QED BY <2>1, <3>2, <3>3
  <2>2. CASE j - k \in 1..m /\ w[j] = v[j - k]
    <3>1. CountOf(b, v[j - k].seg) \in Nat
      BY <1>9, CountIsCardinality
    <3>2. w[j].n <= 0
      BY <1>20, <2>2, <3>1
    <3> QED BY <3>2
  <2> QED BY <1>19, <2>1, <2>2
<1>23. LeavesNothing(e)'
  BY <1>0, <1>2, <1>11, <1>15 DEF EInv, LeavesNothing
<1>24. CountsExactly(e)'
  <2> SUFFICES ASSUME NEW s \in Segments, s \notin aged
               PROVE  Counted(e, s)' = Cardinality(OfSegment(InFlight(e), s)') + Cardinality(OfSegment(limited[e], s)')
    BY <1>2 DEF CountsExactly
  <2>1. PICK z \in Nat : z = CountOf(b, s) /\ z = Cardinality(OfSegment(ToSet(b), s))
    <3>1. \A k1, l \in 1..Len(b) : b[k1] = b[l] => k1 = l
      BY <1>9
    <3>2. CountOf(b, s) \in Nat /\ CountOf(b, s) = Cardinality({x \in ToSet(b) : SegmentOf(x) = s})
      BY <3>1, CountIsCardinality
    <3> QED BY <3>2 DEF OfSegment
  <2>2. PICK y \in Int : y = -z /\ Total(u \o v, s) = Total(u, s) + y
    <3>1. Reports(v, b)
      BY <1>3 DEF Sends
    <3>2. Counts(z, b, s)
      BY <2>1 DEF Counts
    <3> QED BY <3>1, <3>2, SentTotal
  <2>3. PICK c \in Int, t \in Int, r \in Int :
           /\ c = (IF tracker[e].counts[s] = None THEN 0 ELSE tracker[e].counts[s])
           /\ t = Total(tracker[e].updates, s)
           /\ r = (IF watcher[e].pc = "received" /\ watcher[e].seg = s THEN watcher[e].rcv ELSE 0)
           /\ Counted(e, s) = c + t + r
    BY <1>25
  <2>4. Total(tracker[e].updates, s)' = t + y
    <3>1. Total(tracker[e].updates, s)' = Total(u \o v, s)
      BY <1>5 DEF Total
    <3> QED BY <1>4, <2>2, <2>3, <3>1
  <2>5. Counted(e, s)' = c + (t + y) + r
    BY <1>2, <1>5, <2>3, <2>4 DEF Counted
  <2>6. PICK a \in Nat, d \in Nat : /\ a = Cardinality(OfSegment(InFlight(e), s))
                                    /\ d = Cardinality(OfSegment(limited[e], s))
    BY <1>0, FiniteHandled
  <2>7. Counted(e, s) = a + d
    BY <1>0, <2>6 DEF EInv, CountsExactly
  <2>8. Cardinality(OfSegment(InFlight(e), s)') = a - z
    <3>1. IsFiniteSet(OfSegment(InFlight(e), s))
      BY <1>0, FiniteHandled
    <3>2. OfSegment(InFlight(e), s)' = OfSegment(InFlight(e), s) \ OfSegment(ToSet(b), s)
      BY <1>10, <1>13 DEF OfSegment
    <3>3. OfSegment(InFlight(e), s) \cap OfSegment(ToSet(b), s) = OfSegment(ToSet(b), s)
      BY <1>10 DEF OfSegment
    <3>4. PICK A, B : A = OfSegment(InFlight(e), s) /\ B = OfSegment(ToSet(b), s)
      OBVIOUS
    <3>5. Cardinality(A \ B) = Cardinality(A) - Cardinality(A \cap B)
      BY <3>1, <3>4, FS_Difference
    <3> QED BY <2>1, <2>6, <3>2, <3>3, <3>4, <3>5
  <2>9. Cardinality(OfSegment(limited[e], s)') = d
    <3>1. OfSegment(limited[e], s)' = OfSegment(limited[e], s)
      BY <1>2, <1>13 DEF OfSegment
    <3> QED BY <2>6, <3>1
  <2>10. c + t + r = a + d
    BY <2>3, <2>7
  <2>11. c + (t + y) + r = (a - z) + d
    BY <2>2, <2>10
  <2> QED BY <2>5, <2>8, <2>9, <2>11
<1> QED BY <1>7, <1>12, <1>14, <1>15, <1>16, <1>21, <1>22, <1>23, <1>24 DEF EInv

-----------------------------------------------------------------------------
(***************************************************************************)
(* The tracker takes an update                                             *)
(***************************************************************************)

LEMMA TrackKeeps ==
  ASSUME IInv, TypeOK', NEW e \in Endpoints, NEW tick \in BOOLEAN, NEW old \in SUBSET Segments,
         TrackUpdate(e, tick, old)
  PROVE  EInv(e)' /\ \A f \in Endpoints : f # e => Rests(f)
<1>0. TypeOK /\ LogOK /\ EInv(e) /\ Phases(e) /\ PositionOK(e) /\ HandledIsRead(e) /\ Apart(Batches(e))
  BY DEF IInv, EInv
<1>1. tracker \in [Endpoints -> TrackerType] /\ tracker[e] \in TrackerType
  BY <1>0 DEF TypeOK
<1>2. /\ log' = log /\ first' = first /\ last' = last /\ aged' = aged \cup old /\ mode' = mode /\ mode # "down"
      /\ watcher' = watcher /\ queue' = queue /\ done' = done /\ limited' = limited /\ ppc' = ppc
      /\ tracker[e].updates # <<>>
  BY DEF TrackUpdate, Up
<1>25. \A s \in Segments : \E c \in Int, t \in Int, r \in Int :
           /\ c = (IF tracker[e].counts[s] = None THEN 0 ELSE tracker[e].counts[s])
           /\ t = Total(tracker[e].updates, s)
           /\ r = (IF watcher[e].pc = "received" /\ watcher[e].seg = s THEN watcher[e].rcv ELSE 0)
           /\ Counted(e, s) = c + t + r
  BY <1>0, CountedIs
<1>3. PICK y \in Update, counts \in [Segments -> Int \cup {None}], found \in Int :
        Tracks(e, old, y, counts, found)
  BY <1>0, TrackFacts
<1>4. PICK u \in Seq(Update) : u = tracker[e].updates /\ u # <<>> /\ y = Head(u)
  BY <1>1, <1>2, <1>3 DEF TrackerType, Tracks
<1>5. /\ tracker'[e].updates = Tail(u)
      /\ tracker'[e].counts = [s \in Segments |-> IF s <= found THEN None ELSE counts[s]]
  BY <1>1, <1>3, <1>4 DEF Tracks, TrackerType
<1>6. /\ \A s \in Segments : s # y.seg => counts[s] = tracker[e].counts[s]
      /\ counts[y.seg] = (IF tracker[e].counts[y.seg] # None THEN tracker[e].counts[y.seg] ELSE 0) + y.n
      /\ \A t \in Segments : t <= found /\ counts[t] # None => counts[t] = 0 \/ t \in old
  BY <1>3 DEF Tracks
<1>7. y.seg \in Segments /\ y.n \in Int
  BY DEF Update
<1>8. \A f \in Endpoints : f # e => Rests(f)
  <2>1. \A f \in Endpoints : f # e => tracker'[f] = tracker[f]
    BY <1>1, <1>3 DEF Tracks
  <2> QED BY <1>2, <2>1 DEF Rests
<1>9. InFlight(e)' = InFlight(e) /\ Batches(e)' = Batches(e) /\ Handled(e)' = Handled(e)
  BY <1>2 DEF InFlight, Batches, Handled
<1>10. Written' = Written /\ \A x : SegmentOf(x)' = SegmentOf(x)
  BY <1>2, SameLog
<1>11. Apart(Batches(e))'
  <2>1. Apart(Batches(e))' <=> Apart(Batches(e)')
    BY DEF Apart
  <2> QED BY <1>0, <1>9, <2>1
<1>12. Phases(e)'
  BY <1>0, <1>2 DEF Phases
<1>13. PositionOK(e)' /\ (Reading(e)' <=> Reading(e)) /\ \A s, i : Read(e, s, i)' <=> Read(e, s, i)
  BY <1>0, <1>2 DEF PositionOK, Reading, Read
<1>14. HandledIsRead(e)'
  BY <1>0, <1>2, <1>9, <1>10, <1>13 DEF HandledIsRead
<1>15. LeavesNothing(e)'
  BY <1>0, <1>2, <1>9, <1>13 DEF EInv, LeavesNothing
<1>16. PICK k \in Nat : k = Len(u) /\ k # 0
  <2>1. Len(u) \in Nat /\ Len(u) # 0
    BY <1>4, LenProperties, EmptySeq
  <2> QED BY <2>1
<1>17. PICK w \in Seq(Update) : /\ w = Tail(u) /\ Len(w) = k - 1
                                /\ \A i \in 1..(k - 1) : w[i] = u[i + 1]
  <2>1. Tail(u) \in Seq(Update) /\ Len(Tail(u)) = Len(u) - 1 /\ \A i \in 1..Len(Tail(u)) : Tail(u)[i] = u[i + 1]
    BY <1>4, HeadTailProperties
  <2> QED BY <1>16, <2>1
<1>18. y = u[1]
  BY <1>4
<1>19. Known(e)' \subseteq Known(e) \cup {y.seg}
  BY <1>5, <1>6 DEF Known
<1>20. TouchedIsReached(e)'
  <2>1. Told(e) = {u[i].seg : i \in 1..k} /\ Told(e)' = {w[i].seg : i \in 1..(k - 1)}
    BY <1>4, <1>5, <1>16, <1>17 DEF Told
  <2>2. y.seg \in Told(e)
    <3>1. 1 \in 1..k
      BY <1>16
    <3> QED BY <1>18, <2>1, <3>1
  <2>3. Told(e)' \subseteq Told(e)
    <3>1. ASSUME NEW i \in 1..(k - 1) PROVE w[i].seg \in Told(e)
      <4>1. i + 1 \in 1..k
        BY <1>16
      <4> QED BY <1>17, <2>1, <4>1
    <3> QED BY <2>1, <3>1
  <2>4. Touched(e)' \subseteq Touched(e)
    BY <1>9, <1>10, <1>19, <2>2, <2>3 DEF Touched
  <2> QED BY <1>0, <1>2, <1>9, <1>10, <1>13, <2>4 DEF EInv, TouchedIsReached
<1>21. InOrder(e)'
  <2> SUFFICES ASSUME NEW j \in 1..(k - 1)
               PROVE  /\ \A t \in Known(e)' : w[j].seg < t => w[j].n <= 0
                      /\ \A i \in 1..(j - 1) : w[j].seg < w[i].seg => w[j].n <= 0
    BY <1>5, <1>17 DEF InOrder
  <2>1. j + 1 \in 1..k /\ 1 \in 1..((j + 1) - 1) /\ \A i \in 1..(j - 1) : i + 1 \in 1..((j + 1) - 1) /\ i \in 1..(k - 1)
    BY <1>16
  <2>2. PICK z \in 1..k : z = j + 1
    BY <2>1
  <2>3. /\ \A t \in Known(e) : u[z].seg < t => u[z].n <= 0
        /\ \A i \in 1..(z - 1) : u[z].seg < u[i].seg => u[z].n <= 0
    BY <1>0, <1>4, <1>16 DEF EInv, InOrder
  <2>4. w[j] = u[z] /\ \A i \in 1..(j - 1) : w[i] = u[i + 1]
    BY <1>17, <2>1, <2>2
  <2>5. ASSUME NEW t \in Known(e)', w[j].seg < t PROVE w[j].n <= 0
    <3>1. CASE t \in Known(e)
      BY <2>3, <2>4, <2>5, <3>1
    <3>2. CASE t = u[1].seg
      <4>1. 1 \in 1..(z - 1)
        BY <2>1, <2>2
      <4> QED BY <2>3, <2>4, <2>5, <3>2, <4>1
    <3> QED BY <1>18, <1>19, <3>1, <3>2
  <2>6. ASSUME NEW i \in 1..(j - 1), w[j].seg < w[i].seg PROVE w[j].n <= 0
    <3>1. i + 1 \in 1..(z - 1) /\ w[i] = u[i + 1]
      BY <2>1, <2>2, <2>4
    <3> QED BY <2>3, <2>4, <2>6, <3>1
  <2> QED BY <2>5, <2>6
<1>22. CountsExactly(e)'
  <2> SUFFICES ASSUME NEW s \in Segments, s \notin aged, s \notin old
               PROVE  Counted(e, s)' = Cardinality(OfSegment(InFlight(e), s)') + Cardinality(OfSegment(limited[e], s)')
    BY <1>2 DEF CountsExactly
  <2>1. PICK c \in Int, t \in Int, r \in Int :
           /\ c = (IF tracker[e].counts[s] = None THEN 0 ELSE tracker[e].counts[s])
           /\ t = Total(tracker[e].updates, s)
           /\ r = (IF watcher[e].pc = "received" /\ watcher[e].seg = s THEN watcher[e].rcv ELSE 0)
           /\ Counted(e, s) = c + t + r
    BY <1>25
  <2>2. PICK h \in Int, z \in Int : h = Weight(y, s) /\ z = Total(w, s) /\ t = h + z
    <3>1. t = Weight(y, s) + Total(w, s)
      <4>1. Total(u, s) = Weight(Head(u), s) + Total(Tail(u), s)
        BY <1>4, TotalTail
      <4> QED BY <1>4, <1>17, <2>1, <4>1
    <3>2. Weight(y, s) \in Int
      BY <1>7 DEF Weight
    <3>3. Total(w, s) \in Int
      BY TotalPartial
    <3> QED BY <3>1, <3>2, <3>3
  <2>3. PICK g : g = tracker'[e].counts[s] /\ g = IF s <= found THEN None ELSE counts[s]
    BY <1>5
  <2>4. PICK a : a = (IF counts[s] = None THEN 0 ELSE counts[s]) /\ a = c + h
    <3>1. CASE s # y.seg
      BY <1>6, <2>1, <2>2, <3>1 DEF Weight
    <3>2. CASE s = y.seg
      <4>1. counts[s] = c + y.n /\ h = y.n
        BY <1>6, <2>1, <2>2, <3>2 DEF Weight
      <4>2. counts[s] # None
        <5>1. c + y.n \in Int
          BY <1>7
        <5> QED BY <4>1, <5>1, LokiWalAssumption
      <4> QED BY <4>1, <4>2
    <3> QED BY <3>1, <3>2
  <2>5. (IF g = None THEN 0 ELSE g) = a
    <3>1. CASE s <= found
      BY <1>6, <2>3, <2>4, <3>1
    <3>2. CASE ~(s <= found)
      BY <2>3, <2>4, <3>2
    <3> QED BY <3>1, <3>2
  <2>6. Total(tracker[e].updates, s)' = z
    <3>1. Total(tracker[e].updates, s)' = Total(w, s)
      BY <1>5, <1>17 DEF Total
    <3> QED BY <2>2, <3>1
  <2>7. Counted(e, s)' = (c + h) + z + r
    BY <1>2, <2>1, <2>3, <2>4, <2>5, <2>6 DEF Counted
  <2>8. Counted(e, s)' = Counted(e, s)
    BY <2>1, <2>2, <2>7
  <2>9. OfSegment(InFlight(e), s)' = OfSegment(InFlight(e), s)
        /\ OfSegment(limited[e], s)' = OfSegment(limited[e], s)
    BY <1>2, <1>9, <1>10 DEF OfSegment
  <2> QED BY <1>0, <2>8, <2>9 DEF EInv, CountsExactly
<1> QED BY <1>8, <1>11, <1>12, <1>13, <1>14, <1>15, <1>20, <1>21, <1>22 DEF EInv

-----------------------------------------------------------------------------
(***************************************************************************)
(* A pair is stopped, the process goes down, and the start                 *)
(***************************************************************************)

\* Queue and tracker are new, and the watcher reads nothing.
Fresh(e) ==
  /\ queue[e] = NewQueue /\ limited[e] = {}
  /\ tracker[e].updates = <<>> /\ \A s \in Segments : tracker[e].counts[s] = None
  /\ watcher[e].pc \in {"begin", "done"} /\ watcher[e].atStart <= last

FreshIsSettled ==
  \A e \in Endpoints : Fresh(e) =>
    /\ PositionOK(e) /\ HandledIsRead(e) /\ Apart(Batches(e))
    /\ TouchedIsReached(e) /\ InOrder(e) /\ LeavesNothing(e) /\ CountsExactly(e)

LEMMA FreshFacts == FreshIsSettled
<1> SUFFICES ASSUME NEW e \in Endpoints, Fresh(e)
             PROVE  /\ PositionOK(e) /\ HandledIsRead(e) /\ Apart(Batches(e))
                    /\ TouchedIsReached(e) /\ InOrder(e) /\ LeavesNothing(e) /\ CountsExactly(e)
  BY DEF FreshIsSettled
<1>1. ~Reading(e) /\ watcher[e].pc # "received"
  BY DEF Fresh, Reading
<1>2. PositionOK(e)
  BY <1>1 DEF Fresh, PositionOK, Reading
<1>3. PICK z \in Seq(Nat) : z = <<>> /\ Len(z) = 0
  BY EmptySeq
<1>4. PICK p \in Seq(Seq(Nat)) : p = <<z>> /\ Len(p) = 1 /\ p[1] = z
  BY Singleton
<1>5. Batches(e) = p
  <2>1. queue[e].sending = <<>> /\ queue[e].chan = <<>> /\ queue[e].batch = <<>>
    BY DEF Fresh, NewQueue
  <2>2. PICK n \in Seq(Seq(Nat)) : n = <<>>
    BY EmptySeq
  <2>3. n \o n = n /\ n \o p = p
    BY <2>2, ConcatEmptySeq
  <2> QED BY <1>3, <1>4, <2>1, <2>2, <2>3 DEF Batches
<1>6. \A i \in 1..Len(p) : p[i] = z
  BY <1>4
<1>7. \A k \in 1..Len(z) : FALSE
  BY <1>3
<1>8. Apart(Batches(e))
  BY <1>5, <1>6, <1>7 DEF Apart
<1>9. InFlight(e) = {} /\ Handled(e) = {}
  <2>1. \A x : x \notin Entries(p)
    BY <1>6, <1>7, EntriesCells DEF Cell
  <2>2. InFlight(e) = Entries(p)
    BY <1>5 DEF InFlight, Entries
  <2> QED BY <2>1, <2>2 DEF Handled, Fresh
<1>10. HandledIsRead(e)
  BY <1>9 DEF HandledIsRead
<1>11. Len(tracker[e].updates) = 0
  BY DEF Fresh
<1>12. \A i \in 1..Len(tracker[e].updates) : FALSE
  BY <1>11
<1>13. TouchedIsReached(e)
  <2>1. Known(e) = {} /\ Told(e) = {}
    BY <1>12 DEF Known, Told, Fresh
  <2>2. Touched(e) = {}
    BY <1>9, <2>1 DEF Touched
  <2> QED BY <2>2 DEF TouchedIsReached
<1>14. InOrder(e)
  BY <1>12 DEF InOrder
<1>15. LeavesNothing(e)
  BY <1>1 DEF LeavesNothing
<1>16. CountsExactly(e)
  <2> SUFFICES ASSUME NEW s \in Segments
               PROVE  Counted(e, s) = Cardinality(OfSegment(InFlight(e), s)) + Cardinality(OfSegment(limited[e], s))
    BY DEF CountsExactly
  <2>1. Total(tracker[e].updates, s) = 0 /\ tracker[e].counts[s] = None
    BY TotalEmpty DEF Fresh
  <2>2. Counted(e, s) = 0
    BY <1>1, <2>1 DEF Counted
  <2>3. OfSegment(InFlight(e), s) = {} /\ OfSegment(limited[e], s) = {}
    BY <1>9 DEF OfSegment, Fresh
  <2>4. Cardinality({}) = 0
    BY FS_EmptySet
  <2> QED BY <2>2, <2>3, <2>4
<1> QED BY <1>2, <1>8, <1>10, <1>13, <1>14, <1>15, <1>16

LEMMA FreshFactsNext == FreshIsSettled'
BY FreshFacts, PTL

LEMMA NewTrackerIs ==
  \A m : /\ NewTracker(m).updates = <<>> /\ NewTracker(m).marked = m
         /\ \A s \in Segments : NewTracker(m).counts[s] = None
BY DEF NewTracker

LEMMA TrackerStopKeeps ==
  ASSUME IInv, TypeOK', NEW e \in Endpoints, TrackerStop(e)
  PROVE  EInv(e)' /\ \A f \in Endpoints : f # e => Rests(f)
<1>0. TypeOK /\ EInv(e) /\ Phases(e) /\ PositionOK(e)
  BY DEF IInv, EInv
<1>1. /\ ppc \in [Endpoints -> {"run", "drain", "stop", "hard", "stopped"}]
      /\ queue \in [Endpoints -> QueueType] /\ tracker \in [Endpoints -> TrackerType]
      /\ limited \in [Endpoints -> SUBSET Nat]
  BY <1>0 DEF TypeOK
<1>2. /\ log' = log /\ first' = first /\ last' = last /\ aged' = aged /\ mode' = mode /\ mode # "down"
      /\ watcher' = watcher /\ done' = done
  BY DEF TrackerStop, disk, ShardAt, Up
<1>3. \A f \in Endpoints : f # e => Rests(f)
  <2>1. \A f \in Endpoints : f # e => /\ queue'[f] = queue[f] /\ tracker'[f] = tracker[f]
                                      /\ ppc'[f] = ppc[f] /\ limited'[f] = limited[f]
    BY <1>1 DEF TrackerStop
  <2> QED BY <1>2, <2>1 DEF Rests
<1>4. queue'[e] = NewQueue /\ tracker'[e] = NewTracker(marker) /\ limited'[e] = {} /\ ppc'[e] = "stopped"
  BY <1>1 DEF TrackerStop
<1>5. watcher[e].pc = "done" /\ ppc[e] # "run"
  BY <1>0 DEF TrackerStop, Flushing, At, Phases
<1>6. Fresh(e)'
  <2>1. watcher[e].atStart <= last
    BY <1>0 DEF PositionOK
  <2> QED BY <1>2, <1>4, <1>5, <2>1, NewTrackerIs DEF Fresh
<1>7. Phases(e)'
  <2>1. NewQueue.pc = "select" /\ NewQueue.sending = <<>>
    BY DEF NewQueue
  <2> QED BY <1>0, <1>2, <1>4, <1>5, <2>1 DEF Phases
<1> QED BY <1>3, <1>6, <1>7, FreshFactsNext DEF EInv, FreshIsSettled

LEMMA DownKeeps ==
  ASSUME IInv, TypeOK', NEW e \in Endpoints, NEW crash \in BOOLEAN, Down(crash)
  PROVE  EInv(e)'
<1>1. /\ queue'[e] = NewQueue /\ tracker'[e] = NewTracker(marker) /\ limited'[e] = {}
      /\ watcher'[e] = NewWatcher /\ ppc'[e] = "run" /\ mode' = "down" /\ marker' = marker /\ last' = last
  BY DEF Down, disk
<1>2. /\ NewWatcher.pc = "begin" /\ NewWatcher.state = "running" /\ NewWatcher.atStart = 0
      /\ NewQueue.pc = "select" /\ NewQueue.sending = <<>>
  BY DEF NewWatcher, NewQueue
<1>3. Fresh(e)'
  <2>1. 0 <= last'
    BY SegmentsAre DEF TypeOK
  <2> QED BY <1>1, <1>2, <2>1, NewTrackerIs DEF Fresh
<1>4. Phases(e)'
  BY <1>1, <1>2 DEF Phases
<1> QED BY <1>3, <1>4, FreshFactsNext DEF EInv, FreshIsSettled

LEMMA InitIInv == Init => IInv
<1> SUFFICES ASSUME Init PROVE IInv
  OBVIOUS
<1>1. TypeOK
  <2>1. first \in Segments /\ last \in Segments /\ first <= last /\ marker \in Int /\ marker <= last
    BY LokiWalAssumption DEF Init, Segments
  <2>2. log \in [Segments -> Seq(Nat)]
    BY EmptySeq DEF Init
  <2>3. FirstMarker \in Int
    BY LokiWalAssumption
  <2>4. /\ watcher \in [Endpoints -> WatcherType] /\ queue \in [Endpoints -> QueueType]
        /\ tracker \in [Endpoints -> TrackerType]
    BY <2>3, NewTypes DEF Init
  <2>5. /\ mode \in {"up", "stopping", "down"}
        /\ ppc \in [Endpoints -> {"run", "drain", "stop", "hard", "stopped"}]
        /\ done \in [Endpoints -> SUBSET Nat] /\ limited \in [Endpoints -> SUBSET Nat]
        /\ aged \subseteq Segments
    BY DEF Init
  <2> QED BY <2>1, <2>2, <2>4, <2>5 DEF TypeOK
<1>2. LogOK
  <2>1. \A s \in Segments : log[s] = <<>> /\ Len(log[s]) = 0
    BY DEF Init
  <2>2. \A s \in Segments : \A i \in 1..Len(log[s]) : FALSE
    BY <2>1
  <2>3. Written = {}
    <3>1. \A s \in Segments : ToSet(log[s]) = {}
      <4>1. \A s \in Segments : log[s] \in Seq(Nat)
        BY <1>1 DEF TypeOK
      <4>2. ASSUME NEW s \in Segments PROVE \A x : x \notin ToSet(log[s])
        <5>1. PICK b \in Seq(Nat) : b = log[s]
          BY <4>1
        <5>2. \A x : x \in ToSet(b) <=> \E k \in 1..Len(b) : x = b[k]
          BY SeqFacts
        <5> QED BY <2>2, <5>1, <5>2
      <4> QED BY <4>2
    <3> QED BY <3>1 DEF Written
  <2>4. IsFiniteSet({}) /\ Cardinality({}) = 0 /\ 1..0 = {}
    BY FS_EmptySet
  <2> QED BY <2>1, <2>2, <2>3, <2>4 DEF LogOK
<1>3. ASSUME NEW e \in Endpoints PROVE EInv(e)
  <2>1. /\ queue[e] = NewQueue /\ tracker[e] = NewTracker(FirstMarker) /\ limited[e] = {}
        /\ watcher[e] = NewWatcher /\ ppc[e] = "run" /\ mode = "up"
    BY DEF Init
  <2>2. /\ NewWatcher.pc = "begin" /\ NewWatcher.state = "running" /\ NewWatcher.atStart = 0
        /\ NewQueue.pc = "select" /\ NewQueue.sending = <<>>
    BY DEF NewWatcher, NewQueue
  <2>3. Fresh(e)
    <3>1. 0 <= last
      BY <1>1, SegmentsAre DEF TypeOK
    <3> QED BY <2>1, <2>2, <3>1, NewTrackerIs DEF Fresh
  <2>4. Phases(e)
    BY <2>1, <2>2 DEF Phases
  <2> QED BY <2>3, <2>4, FreshFacts DEF EInv, FreshIsSettled
<1> QED BY <1>1, <1>2, <1>3 DEF IInv

-----------------------------------------------------------------------------
(***************************************************************************)
(* The invariant is inductive                                              *)
(***************************************************************************)

\* What a step of the threads of one endpoint is.
ActorStep(e) ==
  \/ WatcherStep(e) \/ AppendOverflow(e) \/ ShardStep(e) \/ TrackStep(e)
  \/ StopStep(e) \/ HardShutdown(e)

LEMMA ActorKeeps ==
  ASSUME IInv, TypeOK', NEW e \in Endpoints, ActorStep(e)
  PROVE  EInv(e)' /\ \A f \in Endpoints : f # e => Rests(f)
<1>1. CASE WatcherStep(e) \/ AppendOverflow(e)
  BY <1>1, RunWatcherKeeps, WatcherMoveKeeps, SeriesNotFoundKeeps, AppendKeeps, UpdateReceivedDataKeeps
     DEF WatcherStep, WatcherMove
<1>2. CASE ShardStep(e)
  BY <1>2, QueueMoveKeeps, SendKeeps DEF ShardStep
<1>3. CASE TrackStep(e)
  BY <1>3, TrackKeeps DEF TrackStep
<1>4. CASE StopStep(e) \/ HardShutdown(e)
  BY <1>4, PairMoveKeeps, QueueMoveKeeps, TrackerStopKeeps DEF StopStep
<1> QED BY <1>1, <1>2, <1>3, <1>4 DEF ActorStep

LEMMA ActorLog ==
  ASSUME NEW e \in Endpoints, ActorStep(e)
  PROVE  log' = log /\ last' = last
<1>1. CASE WatcherStep(e) \/ AppendOverflow(e)
  BY <1>1 DEF WatcherStep, RunWatcher, OpenSegment, OpenFails, WaitOver, StopReading, PollSegment,
     SegmentTick, EndRead, StoreSeries, SeriesNotFound, AppendToBatch, AppendToNext, AppendLimited,
     AppendOverflow, UpdateReceivedData, Appended, WatcherOnly, disk
<1>2. CASE ShardStep(e)
  BY <1>2 DEF ShardStep, TakeBatch, SendBatch, ShardExit, DrainQueue, QueueOnly, disk
<1>3. CASE TrackStep(e)
  BY <1>3 DEF TrackStep, TrackUpdate
<1>4. CASE StopStep(e) \/ HardShutdown(e)
  BY <1>4 DEF StopStep, DrainOver, FlushAndShutdown, TrackerStop, HardShutdown, PairOnly, QueueOnly, disk
<1> QED BY <1>1, <1>2, <1>3, <1>4 DEF ActorStep

\* A step is one of the log's, of an endpoint's threads, or of the whole process.
LEMMA NextIs ==
  ASSUME [Next]_vars
  PROVE  \/ WriteEntry
         \/ NextSegment \/ (\E k \in Segments : CleanSegments(k))
         \/ (\E e \in Endpoints : ActorStep(e))
         \/ (\E drain \in BOOLEAN : StopConsumer(drain)) \/ (\E crash \in BOOLEAN : Down(crash))
         \/ Restart
         \/ UNCHANGED vars
BY DEF Next, WriterStep, ActorStep, Halted

LEMMA NextIInv == IInv /\ [Next]_vars => IInv'
<1> SUFFICES ASSUME IInv, [Next]_vars PROVE IInv'
  OBVIOUS
<1>0. TypeOK' /\ TypeOK /\ LogOK
  BY TypeNext DEF IInv
<1>1. last \in Nat /\ last' \in Nat
  BY <1>0, SegmentsAre DEF TypeOK
<1>2. CASE WriteEntry
  <2>1. LogOK'
    BY <1>0, <1>2, WriteFacts
  <2>2. ASSUME NEW e \in Endpoints PROVE EInv(e)'
    BY <1>0, <1>2, WriteKeeps DEF IInv
  <2> QED BY <1>0, <2>1, <2>2 DEF IInv
<1>3. ASSUME log' = log, last <= last', \A e \in Endpoints : EInv(e)' PROVE IInv'
  <2>1. LogOK'
    BY <1>0, <1>3, SameLogOK
  <2> QED BY <1>0, <1>3, <2>1 DEF IInv
<1>4. CASE NextSegment \/ Restart
  <2>1. log' = log /\ last <= last'
    BY <1>1, <1>4 DEF NextSegment, Restart
  <2> QED BY <1>0, <1>3, <1>4, <2>1, SegmentStepsKeep
<1>5. ASSUME NEW k \in Segments, CleanSegments(k) PROVE IInv'
  <2>1. log' = log /\ last <= last'
    BY <1>1, <1>5 DEF CleanSegments
  <2> QED BY <1>0, <1>3, <1>5, <2>1, SegmentStepsKeep
<1>6. ASSUME NEW drain \in BOOLEAN, StopConsumer(drain) PROVE IInv'
  <2>1. log' = log /\ last <= last'
    BY <1>1, <1>6 DEF StopConsumer, disk
  <2> QED BY <1>0, <1>3, <1>6, <2>1, SegmentStepsKeep
<1>7. ASSUME NEW crash \in BOOLEAN, Down(crash) PROVE IInv'
  <2>1. log' = log /\ last <= last'
    BY <1>1, <1>7 DEF Down, disk
  <2> QED BY <1>0, <1>3, <1>7, <2>1, DownKeeps
<1>8. ASSUME NEW e \in Endpoints, ActorStep(e) PROVE IInv'
  <2>1. log' = log /\ last <= last'
    BY <1>1, <1>8, ActorLog
  <2>2. EInv(e)' /\ \A f \in Endpoints : f # e => Rests(f)
    BY <1>0, <1>8, ActorKeeps
  <2>3. ASSUME NEW f \in Endpoints, f # e PROVE EInv(f)'
    <3>1. EInv(f) /\ Rests(f)
      BY <2>2, <2>3 DEF IInv
    <3> QED BY <1>0, <3>1, RestsKeeps
  <2> QED BY <1>3, <2>1, <2>2, <2>3
<1>9. CASE UNCHANGED vars
  <2>1. ASSUME NEW e \in Endpoints PROVE EInv(e)'
    <3>1. EInv(e)
      BY DEF IInv
    <3>2. Batches(e)' = Batches(e) /\ InFlight(e)' = InFlight(e) /\ Handled(e)' = Handled(e)
      BY <1>9 DEF vars, Batches, InFlight, Handled
    <3>3. log' = log /\ Written' = Written /\ \A x : SegmentOf(x)' = SegmentOf(x)
      BY <1>9, SameLog DEF vars
    <3>4. Phases(e)' /\ PositionOK(e)'
      BY <1>9, <3>1 DEF vars, EInv, Phases, PositionOK, Reading
    <3>5. Moves(e)
      <4>1. Apart(Batches(e))' <=> Apart(Batches(e)')
        BY DEF Apart
      <4>2. Stays(e)
        BY <1>9 DEF vars, Stays, Reading
      <4>3. first <= first' /\ last <= last'
        BY <1>0, <1>9, SegmentsAre DEF vars, TypeOK
      <4> QED BY <1>9, <3>1, <3>2, <4>1, <4>2, <4>3 DEF vars, Moves, EInv
    <3> QED BY <1>0, <3>1, <3>4, <3>5, MovesKeeps
  <2>2. log' = log /\ last <= last'
    BY <1>1, <1>9 DEF vars
  <2> QED BY <1>3, <2>1, <2>2
<1> QED BY <1>2, <1>4, <1>5, <1>6, <1>7, <1>8, <1>9, NextIs

\* The inductive invariant holds: types, phases, positions and books of every endpoint
\* fit together, whatever the writer, the watchers, shards and trackers, crashes and
\* restarts do (component/common/loki/wal and client).
THEOREM InvariantHolds == Spec => []IInv
<1>1. Init => IInv
  BY InitIInv
<1>2. IInv /\ [Next]_vars => IInv'
  BY NextIInv
<1> QED BY <1>1, <1>2, PTL DEF Spec

\* The watcher leaves nothing behind (readSegment, AppendEntries): an entry before its
\* position is in flight, done with, or was passed over when it began to read.
THEOREM NothingIsLeftBehind == Spec => []NothingLeftBehind
<1>1. IInv => NothingLeftBehind
  <2> SUFFICES ASSUME IInv, NEW e \in Endpoints, watcher[e].pc \notin {"begin", "done"},
                      NEW x \in Written \ (done[e] \cup InFlight(e)), ~(SegmentOf(x) > watcher[e].seg)
               PROVE  \E i \in (watcher[e].pos + 1)..Len(log[watcher[e].seg]) : log[watcher[e].seg][i] = x
    BY DEF NothingLeftBehind
  <2>1. TypeOK /\ LogOK /\ LeavesNothing(e)
    BY DEF IInv, EInv
  <2>2. watcher[e].seg \in Nat /\ watcher[e].pos \in Nat /\ Reading(e)
    BY <2>1 DEF TypeOK, WatcherType, Reading
  <2>3. PlacesOK
    BY <2>1, PlaceFacts
  <2>4. PICK s \in Nat : s = SegmentOf(x)
    BY <2>3 DEF PlacesOK
  <2>9. PICK i : Place(x, s, i)
    BY <2>3, <2>4 DEF PlacesOK
  <2>5. i \in Nat /\ s \in Segments /\ i \in 1..Len(log[s]) /\ log[s][i] = x /\ Len(log[s]) \in Nat
    BY <2>3, <2>9 DEF PlacesOK, Place
  <2>6. ~Read(e, s, i)
    BY <2>1, <2>2, <2>5 DEF LeavesNothing
  <2>7. s = watcher[e].seg /\ i >= watcher[e].pos + 1
    BY <2>2, <2>4, <2>5, <2>6 DEF Read
  <2>8. i \in (watcher[e].pos + 1)..Len(log[watcher[e].seg])
    BY <2>2, <2>5, <2>7
  <2> QED BY <2>5, <2>7, <2>8
<1> QED BY <1>1, InvariantHolds, PTL

\* The tracker's books are exact (marker.SegmentTracker): what it has counted, is told
\* and will be told of a segment comes to the entries that are in flight, plus those
\* dropped at the stream limit.
THEOREM TrackerCountsAreExact == Spec => []CountsAreExact
<1>1. IInv => CountsAreExact
  <2> SUFFICES ASSUME IInv, NEW e \in Endpoints, NEW s \in Segments \ aged
               PROVE  Counted(e, s) = Cardinality({x \in InFlight(e) : SegmentOf(x) = s})
                                        + Cardinality({x \in limited[e] : SegmentOf(x) = s})
    BY DEF CountsAreExact
  <2>1. CountsExactly(e)
    BY DEF IInv, EInv
  <2> QED BY <2>1 DEF CountsExactly, OfSegment
<1> QED BY <1>1, InvariantHolds, PTL

-----------------------------------------------------------------------------
(***************************************************************************)
(* The marked segment                                                      *)
(***************************************************************************)

\* The segment the tracker finds has been touched, so that the entries of the segments
\* before it are done with or in flight; were one in flight, its segment would have a
\* count that is not zero.
LEMMA FoundIsConsumed ==
  ASSUME IInv, IInv', NEW e \in Endpoints, NEW old \in SUBSET Segments, aged' = aged \cup old,
         log' = log, queue' = queue, watcher' = watcher, done' = done, limited' = limited,
         NEW y \in Update, NEW counts \in [Segments -> Int \cup {None}], NEW found \in Int,
         tracker[e].updates # <<>>, Tracks(e, old, y, counts, found),
         NEW x \in Written, SegmentOf(x) < found
  PROVE  x \in done[e] \/ SegmentOf(x) \in aged'
<1>0. /\ TypeOK /\ LogOK /\ EInv(e) /\ HandledIsRead(e) /\ TypeOK' /\ LogOK' /\ EInv(e)'
      /\ TouchedIsReached(e) /\ InOrder(e) /\ CountsExactly(e)' /\ HandledIsRead(e)'
  BY DEF IInv, EInv
<1>1. tracker \in [Endpoints -> TrackerType] /\ tracker[e] \in TrackerType
  BY <1>0 DEF TypeOK
<1>2. PICK s \in Nat : s = SegmentOf(x) /\ s \in Segments
  BY <1>0, PlaceFacts DEF PlacesOK
<1>3. found \in Segments /\ counts[found] # None
  BY <1>2, LokiWalAssumption DEF Tracks
<1>4. PICK u \in Seq(Update) : u = tracker[e].updates /\ u # <<>> /\ y = Head(u) /\ y = u[1]
  BY <1>1 DEF TrackerType, Tracks
<1>5. /\ tracker'[e].updates = Tail(u)
      /\ tracker'[e].counts = [t \in Segments |-> IF t <= found THEN None ELSE counts[t]]
  BY <1>1, <1>4 DEF Tracks, TrackerType
<1>6. PICK k \in Nat : k = Len(u) /\ k # 0
  <2>1. Len(u) \in Nat /\ Len(u) # 0
    BY <1>4, LenProperties, EmptySeq
  <2> QED BY <2>1
<1>7. found \in Known(e) \/ found = u[1].seg
  BY <1>3, <1>4 DEF Known, Tracks
<1>8. found \in Touched(e)
  <2>1. 1 \in 1..Len(u)
    BY <1>6
  <2>2. u[1].seg \in Told(e)
    BY <1>4, <2>1 DEF Told
  <2> QED BY <1>7, <2>2 DEF Touched
<1>9. x \in done[e] \cup InFlight(e)
  BY <1>0, <1>8 DEF TouchedIsReached
<1> SUFFICES ASSUME x \in InFlight(e), s \notin aged'
             PROVE  FALSE
  BY <1>2, <1>9
<1>10. PICK w \in Seq(Update) : /\ w = Tail(u) /\ Len(w) = k - 1
                                /\ \A i \in 1..(k - 1) : w[i] = u[i + 1]
  <2>1. Tail(u) \in Seq(Update) /\ Len(Tail(u)) = Len(u) - 1 /\ \A i \in 1..Len(Tail(u)) : Tail(u)[i] = u[i + 1]
    BY <1>4, HeadTailProperties
  <2> QED BY <1>6, <2>1
<1>11. ASSUME NEW j \in 1..(k - 1), w[j].seg = s PROVE w[j].n <= 0
  <2>1. PICK z \in 1..k : z = j + 1
    <3>1. j + 1 \in 1..k
      BY <1>6
    <3> QED BY <3>1
  <2>2. u[z].seg = s /\ w[j] = u[z]
    BY <1>10, <1>11, <2>1
  <2>3. /\ \A t \in Known(e) : u[z].seg < t => u[z].n <= 0
        /\ \A i \in 1..(z - 1) : u[z].seg < u[i].seg => u[z].n <= 0
    BY <1>0, <1>4, <1>6 DEF InOrder
  <2>4. 1 \in 1..(z - 1)
    BY <2>1
  <2> QED BY <1>2, <1>7, <2>2, <2>3, <2>4
<1>12. Total(w, s) \in Int /\ Total(w, s) <= 0
  <2>1. \A i \in 1..Len(w) : w[i].seg = s => w[i].n <= 0
    BY <1>10, <1>11
  <2> QED BY <2>1, TotalNegative
<1>13. ~(watcher[e].pc = "received" /\ watcher[e].seg = s)
  <2> SUFFICES ASSUME watcher[e].pc = "received", watcher[e].seg = s PROVE FALSE
    OBVIOUS
  <2>1. Reading(e)
    BY DEF Reading
  <2>2. found <= s
    BY <1>0, <1>8, <2>1 DEF TouchedIsReached
  <2> QED BY <1>2, <2>2
<1>14. Counted(e, s)' = Total(w, s)
  <2>1. tracker'[e].counts[s] = None
    BY <1>2, <1>5
  <2>2. Total(tracker[e].updates, s)' = Total(w, s)
    BY <1>5, <1>10 DEF Total
  <2>3. Counted(e, s)' = 0 + Total(w, s) + 0
    BY <1>13, <2>1, <2>2 DEF Counted
  <2> QED BY <1>12, <2>3
<1>15. PICK a \in Nat, d \in Nat : a # 0 /\ Counted(e, s)' = a + d
  <2>1. InFlight(e)' = InFlight(e) /\ \A z : SegmentOf(z)' = SegmentOf(z)
    BY SameLog DEF InFlight, Batches
  <2>2. /\ OfSegment(InFlight(e), s)' = OfSegment(InFlight(e), s)
        /\ OfSegment(limited[e], s)' = OfSegment(limited[e], s)
    BY <2>1 DEF OfSegment
  <2>3. /\ IsFiniteSet(OfSegment(InFlight(e), s)) /\ Cardinality(OfSegment(InFlight(e), s)) \in Nat
        /\ Cardinality(OfSegment(limited[e], s)) \in Nat
    BY <1>0, FiniteHandled
  <2>4. x \in OfSegment(InFlight(e), s)
    BY <1>2 DEF OfSegment
  <2>5. Cardinality(OfSegment(InFlight(e), s)) # 0
    BY <2>3, <2>4, FS_EmptySet
  <2>6. Counted(e, s)' = Cardinality(OfSegment(InFlight(e), s)') + Cardinality(OfSegment(limited[e], s)')
    BY <1>0, <1>2 DEF CountsExactly
  <2> QED BY <2>2, <2>3, <2>5, <2>6
<1> QED BY <1>12, <1>14, <1>15

\* No step takes back what is done with, or forgets that a segment was too old, and
\* only the tracker writes the marker file.
LEMMA OthersKeepTheMarker ==
  ASSUME TypeOK, TypeOK', [Next]_vars
  PROVE  /\ \A e \in Endpoints : done[e] \subseteq done'[e]
         /\ aged \subseteq aged'
         /\ WriteEntry \/ log' = log
         /\ marker' = marker \/ \E e \in Endpoints : TrackStep(e)
<1>0. done \in [Endpoints -> SUBSET Nat]
  BY DEF TypeOK
<1>1. CASE \E e \in Endpoints : WatcherStep(e) \/ AppendOverflow(e)
  <2>1. PICK e \in Endpoints : WatcherStep(e) \/ AppendOverflow(e)
    BY <1>1
  <2>2. \A f \in Endpoints : done[f] \subseteq done'[f]
    BY <1>0, <2>1 DEF WatcherStep, RunWatcher, OpenSegment, OpenFails, WaitOver, StopReading, PollSegment,
       SegmentTick, EndRead, StoreSeries, SeriesNotFound, AppendToBatch, AppendToNext, AppendLimited,
       AppendOverflow, UpdateReceivedData, WatcherOnly, GiveUpEntry, history
  <2>3. aged' = aged /\ log' = log /\ marker' = marker
    BY <2>1 DEF WatcherStep, RunWatcher, OpenSegment, OpenFails, WaitOver, StopReading, PollSegment,
       SegmentTick, EndRead, StoreSeries, SeriesNotFound, AppendToBatch, AppendToNext, AppendLimited,
       AppendOverflow, UpdateReceivedData, Appended, WatcherOnly, disk, history
  <2> QED BY <2>2, <2>3
<1>2. CASE \E e \in Endpoints : ShardStep(e) \/ StopStep(e) \/ HardShutdown(e)
  <2>1. PICK e \in Endpoints : ShardStep(e) \/ StopStep(e) \/ HardShutdown(e)
    BY <1>2
  <2>2. \A f \in Endpoints : done[f] \subseteq done'[f]
    BY <1>0, <2>1 DEF ShardStep, TakeBatch, SendBatch, ShardExit, DrainQueue, StopStep, DrainOver,
       FlushAndShutdown, TrackerStop, HardShutdown, PairOnly, QueueOnly, history
  <2>3. aged' = aged /\ log' = log /\ marker' = marker
    BY <2>1 DEF ShardStep, TakeBatch, SendBatch, ShardExit, DrainQueue, StopStep, DrainOver,
       FlushAndShutdown, TrackerStop, HardShutdown, PairOnly, QueueOnly, disk, history
  <2> QED BY <2>2, <2>3
<1>3. CASE \E e \in Endpoints : TrackStep(e)
  <2>1. PICK e \in Endpoints, tick \in BOOLEAN, old \in SUBSET Segments : TrackUpdate(e, tick, old)
    BY <1>3 DEF TrackStep
  <2>2. done' = done /\ log' = log /\ aged' = aged \cup old
    BY <2>1 DEF TrackUpdate
  <2> QED BY <1>3, <2>2
<1>4. CASE \/ WriteEntry \/ NextSegment \/ (\E k \in Segments : CleanSegments(k))
           \/ (\E drain \in BOOLEAN : StopConsumer(drain)) \/ (\E crash \in BOOLEAN : Down(crash))
           \/ Restart \/ UNCHANGED vars
  <2>1. done' = done /\ aged' = aged /\ marker' = marker
    BY <1>4 DEF WriteEntry, NextSegment, CleanSegments, StopConsumer, Down, Restart, disk, history, vars
  <2>2. WriteEntry \/ log' = log
    BY <1>4 DEF NextSegment, CleanSegments, StopConsumer, Down, Restart, disk, vars
  <2> QED BY <2>1, <2>2
<1> QED BY <1>1, <1>2, <1>3, <1>4, NextIs DEF ActorStep

\* "the highest numbered segment that is considered as consumed, with its all
\* predecessors consumed as well" (marker.SegmentTracker): with one endpoint, every
\* entry of a segment before the marked one is done with, unless its segment was taken
\* for too old.
THEOREM MarkedPredecessorsAreConsumed ==
  ASSUME \A e, f \in Endpoints : e = f
  PROVE  Spec => []PredecessorsAreConsumed
<1>1. Init => PredecessorsAreConsumed
  <2> SUFFICES ASSUME Init PROVE \A x \in Written : FALSE
    BY DEF PredecessorsAreConsumed
  <2>1. IInv
    BY InitIInv
  <2>2. PlacesOK
    BY <2>1, PlaceFacts DEF IInv
  <2>3. \A s \in Segments : Len(log[s]) = 0
    BY DEF Init
  <2>4. \A s \in Segments : \A i \in 1..Len(log[s]) : FALSE
    BY <2>3
  <2> QED BY <2>2, <2>4 DEF PlacesOK, Place
<1>2. IInv /\ IInv' /\ PredecessorsAreConsumed /\ [Next]_vars => PredecessorsAreConsumed'
  <2> SUFFICES ASSUME IInv, IInv', PredecessorsAreConsumed, [Next]_vars
               PROVE  PredecessorsAreConsumed'
    OBVIOUS
  <2>0. TypeOK /\ TypeOK' /\ LogOK /\ LogOK'
    BY DEF IInv
  <2>1. /\ \A e \in Endpoints : done[e] \subseteq done'[e]
        /\ aged \subseteq aged'
        /\ WriteEntry \/ log' = log
        /\ marker' = marker \/ \E e \in Endpoints : TrackStep(e)
    BY <2>0, OthersKeepTheMarker
  <2>2. CASE WriteEntry
    <3>1. PICK z \in Nat : Writes(z)
      BY <2>0, <2>2, WriteFacts
    <3>2. marker' = marker /\ marker \in Int /\ marker <= last /\ last \in Nat
      BY <2>0, <2>2, SegmentsAre DEF WriteEntry, TypeOK
    <3>3. ASSUME NEW e \in Endpoints, NEW x \in Written', SegmentOf(x)' < marker'
          PROVE  x \in done'[e] \/ SegmentOf(x)' \in aged'
      <4>1. CASE x \in Written
        <5>1. SegmentOf(x)' = SegmentOf(x)
          BY <3>1, <4>1 DEF Writes
        <5> QED BY <2>1, <3>2, <3>3, <4>1, <5>1 DEF PredecessorsAreConsumed
      <4>2. CASE x = z
        <5>1. SegmentOf(x)' = last
          BY <3>1, <4>2 DEF Writes
        <5> QED BY <3>2, <3>3, <5>1
      <4> QED BY <3>1, <4>1, <4>2 DEF Writes
    <3> QED BY <3>3 DEF PredecessorsAreConsumed
  <2>3. CASE log' = log /\ marker' = marker
    <3>1. Written' = Written /\ \A x : SegmentOf(x)' = SegmentOf(x)
      BY <2>3, SameLog
    <3> QED BY <2>1, <2>3, <3>1 DEF PredecessorsAreConsumed
  <2>4. CASE \E e \in Endpoints : TrackStep(e)
    <3>1. PICK e \in Endpoints, tick \in BOOLEAN, old \in SUBSET Segments : TrackUpdate(e, tick, old)
      BY <2>4 DEF TrackStep
    <3>2. /\ log' = log /\ queue' = queue /\ watcher' = watcher /\ done' = done /\ limited' = limited
          /\ aged' = aged \cup old /\ tracker[e].updates # <<>>
      BY <3>1 DEF TrackUpdate
    <3>3. PICK y \in Update, counts \in [Segments -> Int \cup {None}], found \in Int :
            Tracks(e, old, y, counts, found)
      BY <2>0, <3>1, TrackFacts
    <3>4. marker' = marker \/ marker' = found
      BY <3>3 DEF Tracks
    <3>5. Written' = Written /\ \A x : SegmentOf(x)' = SegmentOf(x)
      BY <3>2, SameLog
    <3>6. CASE marker' = marker
      BY <2>3, <3>2, <3>6
    <3>7. CASE marker' = found
      <4>1. ASSUME NEW f \in Endpoints, NEW x \in Written, SegmentOf(x) < found
            PROVE  x \in done'[f] \/ SegmentOf(x) \in aged'
        <5>1. f = e
          OBVIOUS
        <5>2. x \in done[e] \/ SegmentOf(x) \in aged'
          BY <3>2, <3>3, <4>1, FoundIsConsumed
        <5> QED BY <3>2, <5>1, <5>2
      <4> QED BY <3>5, <3>7, <4>1 DEF PredecessorsAreConsumed
    <3> QED BY <3>4, <3>6, <3>7
  <2> QED BY <2>1, <2>2, <2>3, <2>4
<1> QED BY <1>1, <1>2, InvariantHolds, PTL DEF Spec
=============================================================================

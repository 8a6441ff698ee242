------------------------------ MODULE LokiWal ------------------------------
(***************************************************************************)
(* The write-ahead log of loki.write (component/common/loki): the writer   *)
(* appends entries to numbered segments (wal/writer.go); for every         *)
(* endpoint a watcher reads them (wal/watcher.go) and an adapter hands     *)
(* them to the endpoint's queue (client/consumer_wal.go), whose shard      *)
(* sends them in batches, with retries (client/shards.go, batch.go); a     *)
(* tracker counts what of each segment is in flight and marks the last     *)
(* segment that is consumed in a file (client/internal/marker).  After a   *)
(* restart the watcher begins behind the marked segment.                   *)
(*                                                                         *)
(* Segments and marker survive a crash, everything else is lost.  Entry n  *)
(* is the n-th one written.  The entries are those of one tenant, a queue  *)
(* has one shard (min_shards is 1 by default).  Whether a batch is         *)
(* delivered or given up after its retries makes no difference to what the *)
(* code does next.                                                         *)
(*                                                                         *)
(* Left out: a read error, a record that cannot be decoded, and a failure  *)
(* to list the segments or to get the size of one (a watcher that tails    *)
(* then begins again behind the marker, one that replays skips the rest of *)
(* the segment); and the bound of 100 updates on the channel to the        *)
(* tracker, at which a sender would wait for it.                           *)
(***************************************************************************)
EXTENDS Integers, Sequences, FiniteSets, SequencesExt

CONSTANTS
  Endpoints,
  MaxEntries,  \* bound: entries written
  MaxSegment,  \* bound: the highest segment number
  BatchSize,   \* entries that fit in a batch
  Capacity,    \* batches that fit in the queue's channel
  FirstMarker, \* the segment the marker file has at the start, -1 if there is none
  CanLimit,    \* the stream limit of a batch may be reached
  CanAge,      \* segments may become older than max_segment_age
  None

ASSUME LokiWalAssumption ==
  /\ IsFiniteSet(Endpoints)
  /\ MaxEntries \in Nat /\ MaxSegment \in Nat
  /\ BatchSize \in Nat \ {0} /\ Capacity \in Nat \ {0}
  /\ FirstMarker \in -1..(MaxSegment - 1) /\ CanLimit \in BOOLEAN /\ CanAge \in BOOLEAN
  /\ None \notin Int

Segments == 0..MaxSegment

VARIABLES
  log,      \* the entries of each segment
  first,    \* the segments first..last exist
  last,
  marker,   \* the segment in the marker file, -1 if there is none
  mode,     \* up, stopping (the writer is stopped), down
  ppc,      \* where endpointWatcherPair.Stop of each endpoint is
  watcher,  \* each watcher, with its adapter
  queue,    \* each queue, with its shard
  tracker,  \* each tracker
  done,     \* history: entries delivered, given up, or passed over by a watcher that
            \* began to read behind them
  limited,  \* history: the entries given up at the stream limit since the start
  aged      \* history: segments a tracker has taken for too old

disk == <<log, first, last, marker>>
history == <<done, limited, aged>>
vars == <<log, first, last, marker, mode, ppc, watcher, queue, tracker,
          done, limited, aged>>

\* state: WatcherState; atStart: lastSegment of run; seg, pos:
\* the current segment and the entries read of it; final: the next EOF ends it;
\* series: the segment whose record cached the series, None if it is not cached;
\* rcv: queuedEntries.
NewWatcher ==
  [state |-> "running", pc |-> "begin", atStart |-> 0, seg |-> 0, pos |-> 0,
   final |-> FALSE, series |-> None, rcv |-> 0]

\* batch: the open batch; chan: the channel; sending: the batches the shard has taken.
NewQueue == [batch |-> <<>>, chan |-> <<>>, closed |-> FALSE, pc |-> "select", sending |-> <<>>]

\* updates: the channel; counts: segmentDataCount, None where a segment has no item;
\* marked: lastMarkedSegment.
NewTracker(m) == [updates |-> <<>>, counts |-> [s \in Segments |-> None], marked |-> m]

Written == UNION {ToSet(log[s]) : s \in Segments}
SegmentOf(x) == CHOOSE s \in Segments : x \in ToSet(log[s])
\* How many of a sequence of entries are of segment s.
CountOf(entries, s) == Cardinality({i \in 1..Len(entries) : SegmentOf(entries[i]) = s})

\* The batches of endpoint e, the oldest first and the open one last, and the entries
\* that are queued or being sent.
Batches(e) == queue[e].sending \o queue[e].chan \o <<queue[e].batch>>
InFlight(e) == UNION {ToSet(b) : b \in ToSet(Batches(e))}

Up == mode # "down"

(***************************************************************************)
(* Writer                                                                  *)
(***************************************************************************)

\* An entry is written with its series.  The notification of the watchers only
\* makes them read earlier; it is dropped when they are busy.
WriteEntry ==
  LET x == Cardinality(Written) + 1
  IN /\ mode = "up"
     /\ x <= MaxEntries
     /\ log' = [log EXCEPT ![last] = Append(@, x)]
     /\ UNCHANGED <<first, last, marker, mode, ppc, watcher, queue, tracker, history>>

\* The log begins a new segment when the current one is full.
NextSegment ==
  /\ mode = "up"
  /\ last < MaxSegment /\ log[last] # <<>>
  /\ last' = last + 1
  /\ UNCHANGED <<log, first, marker, mode, ppc, watcher, queue, tracker, history>>

\* cleanSegments deletes old segments, but not the last one, and has the adapters
\* forget the series that were stored for them (SeriesReset).
CleanSegments(k) ==
  /\ CanAge /\ mode = "up"
  /\ first < k /\ k <= last
  /\ first' = k
  /\ watcher' = [e \in Endpoints |->
       IF watcher[e].series # None /\ watcher[e].series < k
         THEN [watcher[e] EXCEPT !.series = None] ELSE watcher[e]]
  /\ UNCHANGED <<log, last, marker, mode, ppc, queue, tracker, history>>

(***************************************************************************)
(* Watcher                                                                 *)
(***************************************************************************)
At(e, pc) == Up /\ watcher[e].pc = pc
IsStopping(e) == watcher[e].state = "stopping"
Exists(s) == first <= s /\ s <= last
WatcherOnly == UNCHANGED <<disk, mode, ppc, queue, tracker, history>>

\* The first segment after the marked one; the last one if there is no marker or no
\* such segment.
StartSegment(saved) ==
  IF saved # -1 /\ saved < last THEN (IF saved < first THEN first ELSE saved + 1) ELSE last

\* mainLoop reads the marker and run chooses the segment to begin with.
RunWatcher(e) ==
  LET start == StartSegment(marker)
      before == {x \in Written : SegmentOf(x) < start}
  IN /\ At(e, "begin") /\ ~IsStopping(e)
     /\ watcher' = [watcher EXCEPT ![e].atStart = last, ![e].seg = start, ![e].pos = 0, ![e].pc = "open"]
     /\ done' = [done EXCEPT ![e] = @ \cup (before \ InFlight(e))]
     /\ UNCHANGED <<disk, mode, ppc, queue, tracker, limited, aged>>

\* watch opens the segment.
OpenSegment(e) ==
  /\ At(e, "open") /\ ~IsStopping(e)
  /\ Exists(watcher[e].seg)
  /\ watcher' = [watcher EXCEPT ![e].pc = "select"]
  /\ WatcherOnly

\* It does not exist: it was deleted, or the watcher drains and is at the end.
OpenFails(e) ==
  /\ At(e, "open") /\ ~IsStopping(e)
  /\ ~Exists(watcher[e].seg)
  /\ watcher' = [watcher EXCEPT ![e].state = IF @ = "draining" THEN "stopping" ELSE @, ![e].pc = "wait"]
  /\ WatcherOnly

\* After an error the main loop begins again, five seconds later.
WaitOver(e) ==
  /\ At(e, "wait") /\ ~IsStopping(e)
  /\ watcher' = [watcher EXCEPT ![e].pc = "begin"]
  /\ WatcherOnly

\* A stopping watcher leaves its loops where it looks at its state; nothing uses its
\* position any more.
StopReading(e) ==
  /\ Up /\ watcher[e].pc \in {"begin", "open", "select", "read", "wait"}
  /\ IsStopping(e)
  /\ watcher' = [watcher EXCEPT ![e] = [NewWatcher EXCEPT !.state = "stopping", !.pc = "done"]]
  /\ WatcherOnly

\* The read timer or a notification.  A segment older than the last one at the start
\* is read once and left.  A read that finds nothing changes nothing.
PollSegment(e) ==
  /\ At(e, "select")
  /\ watcher[e].pos < Len(log[watcher[e].seg]) \/ watcher[e].seg < watcher[e].atStart
  /\ watcher' = [watcher EXCEPT ![e].final = watcher[e].seg < watcher[e].atStart, ![e].pc = "read"]
  /\ WatcherOnly

\* Mutant: the segment is left, without another read, when a newer one exists.
SegmentTickNoRest(e) ==
  /\ At(e, "select")
  /\ watcher[e].seg >= watcher[e].atStart
  /\ last > watcher[e].seg \/ watcher[e].state = "draining"
  /\ watcher' = [watcher EXCEPT ![e].seg = @ + 1, ![e].pos = 0, ![e].pc = "open"]
  /\ WatcherOnly

\* The segment ticker of a segment that is tailed: what is left of it is read when a
\* newer segment exists or the log is drained.
SegmentTick(e) ==
  /\ At(e, "select")
  /\ watcher[e].seg >= watcher[e].atStart
  /\ last > watcher[e].seg \/ watcher[e].state = "draining"
  /\ watcher' = [watcher EXCEPT ![e].final = TRUE, ![e].pc = "read"]
  /\ WatcherOnly

\* EOF.  Other errors of reading are left out.
EndRead(e) ==
  /\ At(e, "read") /\ ~IsStopping(e)
  /\ watcher[e].pos = Len(log[watcher[e].seg])
  /\ watcher' = IF watcher[e].final
                  THEN [watcher EXCEPT ![e].seg = @ + 1, ![e].pos = 0, ![e].pc = "open"]
                  ELSE [watcher EXCEPT ![e].pc = "select"]
  /\ WatcherOnly

\* The series record of the next entry is read and cached.
StoreSeries(e) ==
  /\ At(e, "read") /\ ~IsStopping(e)
  /\ watcher[e].pos < Len(log[watcher[e].seg])
  /\ watcher' = [watcher EXCEPT ![e].series = watcher[e].seg, ![e].pc = "append"]
  /\ WatcherOnly

(***************************************************************************)
(* walEndpointAdapter.AppendEntries                                        *)
(***************************************************************************)
Entry(e) == log[watcher[e].seg][watcher[e].pos + 1]
Appending(e) == At(e, "append") /\ watcher[e].series # None

\* n entries will be reported to the tracker.
Appended(e, n) ==
  /\ watcher' = [watcher EXCEPT ![e].rcv = n, ![e].pc = "received"]
  /\ UNCHANGED <<disk, mode, ppc, tracker, aged>>

GiveUpEntry(e) == done' = [done EXCEPT ![e] = @ \cup {Entry(e)}]

\* The series was reset in between: the entry is passed over.
SeriesNotFound(e) ==
  /\ At(e, "append") /\ watcher[e].series = None
  /\ GiveUpEntry(e)
  /\ watcher' = [watcher EXCEPT ![e].pos = @ + 1, ![e].pc = "read"]
  /\ UNCHANGED <<disk, mode, ppc, queue, tracker, limited, aged>>

\* queue.append: the entry begins a batch, or joins the open one if it fits.
AppendToBatch(e) ==
  /\ Appending(e)
  /\ Len(queue[e].batch) < BatchSize
  /\ queue' = [queue EXCEPT ![e].batch = Append(@, Entry(e))]
  /\ Appended(e, 1)
  /\ UNCHANGED <<done, limited>>

\* It does not fit: it begins a new batch while the open one goes to the channel.
AppendToNext(e) ==
  /\ Appending(e)
  /\ queue[e].batch # <<>> /\ Len(queue[e].chan) < Capacity
  /\ queue' = [queue EXCEPT ![e].chan = Append(@, queue[e].batch), ![e].batch = <<Entry(e)>>]
  /\ Appended(e, 1)
  /\ UNCHANGED <<done, limited>>

\* The stream of the entry would be one too many: it is dropped, and yet reported to
\* the tracker as received.
AppendLimited(e) ==
  /\ CanLimit
  /\ Appending(e)
  /\ queue[e].batch # <<>>
  /\ GiveUpEntry(e)
  /\ limited' = [limited EXCEPT ![e] = @ \cup {Entry(e)}]
  /\ Appended(e, 1)
  /\ UNCHANGED queue

\* It does not fit and the channel is full, possibly of the batches of other tenants:
\* with block_on_overflow enqueue tries again and again, otherwise the entry is
\* dropped.
AppendOverflow(e) ==
  /\ Appending(e)
  /\ queue[e].batch # <<>>
  /\ GiveUpEntry(e)
  /\ Appended(e, 0)
  /\ UNCHANGED <<queue, limited>>

\* Only now the tracker is told, with the number of entries that were queued.  Its
\* channel is taken never to be full.
UpdateReceivedData(e) ==
  /\ At(e, "received")
  /\ tracker' = [tracker EXCEPT ![e].updates = Append(@, [seg |-> watcher[e].seg, n |-> watcher[e].rcv])]
  /\ watcher' = [watcher EXCEPT ![e].rcv = 0, ![e].pos = @ + 1, ![e].pc = "read"]
  /\ UNCHANGED <<disk, mode, ppc, queue, history>>

(***************************************************************************)
(* runShard                                                                *)
(***************************************************************************)
ShardAt(e, pc) == Up /\ queue[e].pc = pc
QueueOnly == UNCHANGED <<disk, mode, ppc, watcher, tracker, history>>

\* A batch is received from the channel.
TakeBatch(e) ==
  /\ ShardAt(e, "select")
  /\ queue[e].chan # <<>>
  /\ queue' = [queue EXCEPT ![e].sending = <<Head(queue[e].chan)>>, ![e].chan = Tail(@), ![e].pc = "send"]
  /\ QueueOnly

\* Mutant: only the batches in the channel are taken.
DrainQueueFullOnly(e, isOld) ==
  /\ ShardAt(e, "select")
  /\ queue[e].chan # <<>>
  /\ queue' = [queue EXCEPT ![e].sending = queue[e].chan, ![e].chan = <<>>, ![e].pc = "send"]
  /\ QueueOnly

\* The ticker: everything in the channel is taken, and the open batch if it is older
\* than batch_wait.
DrainQueue(e, isOld) ==
  LET open == IF isOld /\ queue[e].batch # <<>> THEN <<queue[e].batch>> ELSE <<>>
      taken == queue[e].chan \o open
  IN /\ ShardAt(e, "select")
     /\ taken # <<>>
     /\ queue' = [queue EXCEPT ![e].sending = taken, ![e].chan = <<>>, ![e].pc = "send",
                               ![e].batch = IF isOld THEN <<>> ELSE @]
     /\ QueueOnly

\* Mutant: a batch is reported as one entry of each segment.
SentUpdateOne(entries, s) == [seg |-> s, n |-> -1]

SentUpdate(entries, s) == [seg |-> s, n |-> -CountOf(entries, s)]

\* sendBatch: the batch is accepted, refused for good, or given up after its retries
\* or at the hard shutdown.  In any case (defer) it is reported to the tracker as
\* sent, segment by segment, in any order.
SendBatch(e) ==
  LET entries == Head(queue[e].sending)
      segments == {SegmentOf(x) : x \in ToSet(entries)}
  IN /\ ShardAt(e, "send")
     /\ done' = [done EXCEPT ![e] = @ \cup ToSet(entries)]
     /\ \E order \in SetToSeqs(segments) :
          tracker' = [tracker EXCEPT
            ![e].updates = @ \o [i \in 1..Len(order) |-> SentUpdate(entries, order[i])]]
     /\ queue' = [queue EXCEPT
          ![e].sending = Tail(@), ![e].pc = IF Len(queue[e].sending) > 1 THEN "send" ELSE "select"]
     /\ UNCHANGED <<disk, mode, ppc, watcher, limited, aged>>

\* The channel is closed and empty, or the hard shutdown has begun.
ShardExit(e) ==
  /\ ShardAt(e, "select")
  /\ ppc[e] = "hard" \/ (queue[e].closed /\ queue[e].chan = <<>>)
  /\ queue' = [queue EXCEPT ![e].pc = "exited"]
  /\ QueueOnly

(***************************************************************************)
(* SegmentTracker                                                          *)
(***************************************************************************)

\* Mutant: any segment without entries in flight.
findAnySegment(counts, old) ==
  LET zero == {s \in Segments : counts[s] # None /\ (counts[s] = 0 \/ s \in old)}
  IN Max(zero \cup {-1})

\* The highest segment that is consumed together with all before it, -1 if none is.
findMarkableSegment(counts, old) ==
  LET known == {s \in Segments : counts[s] # None}
      consumed == {s \in known : counts[s] = 0 \/ s \in old}
  IN Max({s \in consumed : \A t \in known : t <= s => t \in consumed} \cup {-1})

\* An update is counted.  When that brings a count to zero, or the ticker has fired,
\* the markable segment is found, its items are deleted, and it is marked.  The
\* segments in old have had no update for max_segment_age.
TrackUpdate(e, tick, old) ==
  LET u == Head(tracker[e].updates)
      known == {s \in Segments : tracker[e].counts[s] # None}
      counts == [tracker[e].counts EXCEPT ![u.seg] = (IF u.seg \in known THEN @ ELSE 0) + u.n]
      find == tick \/ (u.seg \in known /\ counts[u.seg] = 0)
      found == IF find THEN findMarkableSegment(counts, old) ELSE -1
  IN /\ Up /\ ppc[e] # "stopped"
     /\ tracker[e].updates # <<>>
     /\ old \subseteq known \ {u.seg} /\ (old # {} => CanAge /\ find)
     /\ tracker' = [tracker EXCEPT
          ![e].updates = Tail(@),
          ![e].counts = [s \in Segments |-> IF s <= found THEN None ELSE counts[s]],
          ![e].marked = Max({@, found})]
     /\ marker' = IF found > tracker[e].marked THEN found ELSE marker
     /\ aged' = aged \cup old
     /\ UNCHANGED <<log, first, last, mode, ppc, watcher, queue, done, limited>>

(***************************************************************************)
(* Stop, crash and restart                                                 *)
(***************************************************************************)
PairOnly == UNCHANGED <<disk, mode, queue, tracker, history>>

\* WALConsumer.stop: writer and cleaner are stopped, then all pairs concurrently:
\* Drain, or at once Stop of the watcher.
StopConsumer(drain) ==
  /\ mode = "up"
  /\ mode' = "stopping"
  /\ ppc' = [e \in Endpoints |-> IF drain THEN "drain" ELSE "stop"]
  /\ watcher' = [e \in Endpoints |->
       [watcher[e] EXCEPT !.state = IF drain THEN "draining" ELSE "stopping"]]
  /\ UNCHANGED <<disk, queue, tracker, history>>

\* The drain timeout, or the watcher has stopped by itself.
DrainOver(e) ==
  /\ Up /\ ppc[e] = "drain"
  /\ ppc' = [ppc EXCEPT ![e] = "stop"]
  /\ watcher' = [watcher EXCEPT ![e].state = "stopping"]
  /\ PairOnly

\* The watcher is done: the endpoint is being stopped.
Flushing(e) == At(e, "done") /\ ppc[e] = "stop"

\* Mutant: the channel is not closed while a batch is open.
FlushNoRetry(e) ==
  /\ Flushing(e) /\ ~queue[e].closed
  /\ queue[e].batch # <<>> /\ Len(queue[e].chan) < Capacity
  /\ queue' = [queue EXCEPT ![e].chan = Append(@, queue[e].batch), ![e].batch = <<>>]
  /\ QueueOnly

\* flushAndShutdown: the open batch goes to the channel once there is room, then the
\* channel is closed.
FlushAndShutdown(e) ==
  /\ Flushing(e) /\ ~queue[e].closed
  /\ queue[e].batch # <<>> => Len(queue[e].chan) < Capacity
  /\ queue' = [queue EXCEPT
       ![e].chan = IF queue[e].batch = <<>> THEN @ ELSE Append(@, queue[e].batch),
       ![e].batch = <<>>,
       ![e].closed = TRUE]
  /\ QueueOnly

\* The queue's drain timeout: the context of the shard is cancelled.
HardShutdown(e) ==
  /\ Flushing(e)
  /\ ppc' = [ppc EXCEPT ![e] = "hard"]
  /\ UNCHANGED watcher
  /\ PairOnly

\* The shard is done: the tracker quits, whatever updates it has not taken, and the
\* pair is garbage.
TrackerStop(e) ==
  /\ ShardAt(e, "exited") /\ (Flushing(e) \/ ppc[e] = "hard")
  /\ ppc' = [ppc EXCEPT ![e] = "stopped"]
  /\ queue' = [queue EXCEPT ![e] = NewQueue]
  /\ tracker' = [tracker EXCEPT ![e] = NewTracker(marker)]
  /\ limited' = [limited EXCEPT ![e] = {}]
  /\ UNCHANGED <<disk, mode, watcher, done, aged>>

\* All pairs are stopped, or the process crashes.  What follows starts afresh.
Down(crash) ==
  /\ Up
  /\ crash \/ \A e \in Endpoints : ppc[e] = "stopped"
  /\ mode' = "down"
  /\ ppc' = [e \in Endpoints |-> "run"]
  /\ watcher' = [e \in Endpoints |-> NewWatcher]
  /\ queue' = [e \in Endpoints |-> NewQueue]
  /\ tracker' = [e \in Endpoints |-> NewTracker(marker)]
  /\ limited' = [e \in Endpoints |-> {}]
  /\ UNCHANGED <<disk, done, aged>>

\* NewWALConsumer, after a restart or an update of the component: the log is opened
\* with a new segment.
Restart ==
  /\ mode = "down"
  /\ last < MaxSegment
  /\ mode' = "up"
  /\ last' = last + 1
  /\ UNCHANGED <<log, first, marker, ppc, watcher, queue, tracker, history>>

-----------------------------------------------------------------------------
Init ==
  /\ log = [s \in Segments |-> <<>>]
  /\ first = FirstMarker + 1 /\ last = FirstMarker + 1
  /\ marker = FirstMarker
  /\ mode = "up"
  /\ ppc = [e \in Endpoints |-> "run"]
  /\ watcher = [e \in Endpoints |-> NewWatcher]
  /\ queue = [e \in Endpoints |-> NewQueue]
  /\ tracker = [e \in Endpoints |-> NewTracker(FirstMarker)]
  /\ done = [e \in Endpoints |-> {}]
  /\ limited = [e \in Endpoints |-> {}]
  /\ aged = {}

WriterStep == WriteEntry \/ NextSegment \/ \E k \in Segments : CleanSegments(k)

WatcherStep(e) ==
  \/ RunWatcher(e) \/ OpenSegment(e) \/ OpenFails(e) \/ WaitOver(e)
  \/ StopReading(e) \/ PollSegment(e) \/ SegmentTick(e) \/ EndRead(e) \/ StoreSeries(e)
  \/ SeriesNotFound(e) \/ AppendToBatch(e) \/ AppendToNext(e) \/ AppendLimited(e)
  \/ UpdateReceivedData(e)

ShardStep(e) ==
  \/ TakeBatch(e) \/ SendBatch(e) \/ ShardExit(e)
  \/ \E isOld \in BOOLEAN : DrainQueue(e, isOld)

TrackStep(e) == \E tick \in BOOLEAN, old \in SUBSET Segments : TrackUpdate(e, tick, old)

StopStep(e) == DrainOver(e) \/ FlushAndShutdown(e) \/ TrackerStop(e)

Halted == mode = "down" /\ last = MaxSegment /\ UNCHANGED vars

Next ==
  \/ WriterStep
  \/ \E e \in Endpoints :
       WatcherStep(e) \/ AppendOverflow(e) \/ ShardStep(e) \/ TrackStep(e) \/ StopStep(e) \/ HardShutdown(e)
  \/ \E drain \in BOOLEAN : StopConsumer(drain)
  \/ \E crash \in BOOLEAN : Down(crash)
  \/ Restart
  \/ Halted

Spec == Init /\ [][Next]_vars

(***************************************************************************)
(* Goroutines run, timers and tickers fire, and a batch is at last sent or *)
(* given up (max_backoff_retries is not 0).  Entries, crashes, calls of    *)
(* Stop and restarts are left open.  So are the hard shutdown, because the *)
(* soft one must do, the drop of an entry, because of block_on_overflow,   *)
(* and the tracker, for which nobody waits while its channel has room.     *)
(***************************************************************************)
Fairness ==
  /\ \A e \in Endpoints :
       WF_vars(WatcherStep(e)) /\ WF_vars(ShardStep(e)) /\ WF_vars(StopStep(e))
  /\ WF_vars(Down(FALSE))

FairSpec == Spec /\ Fairness

-----------------------------------------------------------------------------
(***************************************************************************)
(* Properties                                                              *)
(***************************************************************************)

\* What the tracker will have counted for segment s when it has taken all updates
\* and the watcher has sent the one it owes.
Total(updates, s) ==
  LET sum[i \in 0..Len(updates)] ==
        IF i = 0 THEN 0 ELSE sum[i - 1] + (IF updates[i].seg = s THEN updates[i].n ELSE 0)
  IN sum[Len(updates)]
Counted(e, s) ==
  LET c == tracker[e].counts[s]
      owed == IF watcher[e].pc = "received" /\ watcher[e].seg = s THEN watcher[e].rcv ELSE 0
  IN (IF c = None THEN 0 ELSE c) + Total(tracker[e].updates, s) + owed

\* The tracker's books: although entries are reported as received after they are
\* queued, and possibly after they are reported as sent, the count of a segment comes
\* to what is in flight, plus the entries dropped at the stream limit, which are
\* never reported as sent.  A segment taken for too old has lost its count.
CountsAreExact ==
  \A e \in Endpoints, s \in Segments \ aged :
    Counted(e, s) = Cardinality({x \in InFlight(e) : SegmentOf(x) = s})
                      + Cardinality({x \in limited[e] : SegmentOf(x) = s})

\* The watcher leaves nothing behind: an entry before its position is in flight, done
\* with, or was passed over when it began to read.
NothingLeftBehind ==
  \A e \in Endpoints : watcher[e].pc \notin {"begin", "done"} =>
    \A x \in Written \ (done[e] \cup InFlight(e)) :
      \/ SegmentOf(x) > watcher[e].seg
      \/ \E i \in (watcher[e].pos + 1)..Len(log[watcher[e].seg]) : log[watcher[e].seg][i] = x

\* "the highest numbered segment that is considered as consumed, with its all
\* predecessors consumed as well": with one endpoint, every entry of a segment before
\* the marked one is done with, unless its segment was taken for too old.
PredecessorsAreConsumed ==
  \A e \in Endpoints, x \in Written :
    SegmentOf(x) < marker => x \in done[e] \/ SegmentOf(x) \in aged

\* "When a segment reaches zero, it means that is has been consumed": every entry of
\* the marked segment is done with.
MarkedIsConsumed ==
  \A e \in Endpoints, x \in Written : SegmentOf(x) <= marker => x \in done[e]

\* Entries that are written are sent or given up in the end (their number is
\* bounded), unless the consumer is stopped or the watcher has passed over them.
EntriesAreSent ==
  <>[](mode = "up" => \A e \in Endpoints : Written \subseteq done[e])

\* Stop and StopAndDrain return (restarts are bounded): pairs stop in the order
\* watcher, queue, tracker, and none waits for one that is already stopped.
StopReturns == <>[](mode \in {"up", "down"})
=============================================================================

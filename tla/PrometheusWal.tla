--------------------------- MODULE PrometheusWal ---------------------------
(***************************************************************************)
(* The write-ahead log of prometheus.remote_write                          *)
(* (static/metrics/wal/wal.go, series.go): appenders create series in      *)
(* memory and log series, metadata and samples when they commit; Truncate  *)
(* collects series without recent samples, and replaces old segments by a  *)
(* checkpoint; NewStorage replays checkpoint and segments.                 *)
(*                                                                         *)
(* Checkpoint and segments survive a crash.  A transaction appends one     *)
(* sample, which stands for floats and histograms; replay ignores          *)
(* exemplars.  Label sets have different hashes.                           *)
(***************************************************************************)
EXTENDS Integers, Sequences, FiniteSets, SequencesExt

CONSTANTS
  Labels,        \* label sets
  Appenders,     \* appenders in use at the same time
  MaxRef,        \* bound: series references
  MaxTime,       \* bound: timestamps are 1..MaxTime
  MaxSegment,    \* bound: the highest segment number
  MaxSamples,    \* bound: transactions begun
  MaxDetours,    \* bound: transactions with metadata, rollbacks and failures
  FirstSegment,  \* the segment the storage is opened with
  None

ASSUME PrometheusWalAssumption ==
  /\ IsFiniteSet(Labels) /\ IsFiniteSet(Appenders)
  /\ MaxRef \in Nat \ {0} /\ MaxTime \in Nat \ {0} /\ MaxSamples \in Nat /\ MaxDetours \in Nat
  /\ MaxSegment \in Nat /\ FirstSegment \in 0..MaxSegment
  /\ None \notin Int /\ None \notin Labels

Refs == 1..MaxRef
Times == 1..MaxTime
Segments == 0..MaxSegment

VARIABLES
  segs,     \* the records of each segment; the segments first..last exist
  first,
  last,
  cp,       \* the last checkpoint: it replaces the segments up to upto (-1: none)
  up,       \* the storage is open
  mem,      \* series and deleted, in memory
  app,      \* the appenders
  trunc,    \* the goroutine that calls Truncate
  begun,    \* transactions begun
  detours   \* transactions with metadata, rollbacks and failures so far

disk == <<segs, first, last, cp>>
vars == <<segs, first, last, cp, up, mem, app, trunc, begun, detours>>

\* A bound: a detour is left.
Detour == detours < MaxDetours /\ detours' = detours + 1

NoCheckpoint == [upto |-> -1, recs |-> <<>>]

\* refs: stripeSeries.series; hashes: the reference of each label set; lset and lastTs
\* of each series, 0 for no timestamp; deleted: the segment until which a deleted
\* series is kept; dup: duplicateRefToValidRef, during replay.
EmptyMemory ==
  [refs |-> {}, hashes |-> [l \in Labels |-> None], lset |-> [r \in Refs |-> None],
   lastTs |-> [r \in Refs |-> 0], deleted |-> [r \in Refs |-> None],
   dup |-> [r \in Refs |-> None], nextRef |-> 0]

\* lbl, t: what is appended; ref: its series; new: pendingSeries is not empty;
\* todo: the records still to be logged.
Idle == [pc |-> "idle", lbl |-> None, t |-> 0, ref |-> None, new |-> FALSE, todo |-> <<>>]

NoTruncate == [pc |-> "idle", mint |-> 0, upto |-> 0]

\* Records.  The label set of a sample, and whether its series was in memory and in
\* the log when it was logged, are history.
Series(r, l) == [kind |-> "series", ref |-> r, lbl |-> l]
Metadata(r) == [kind |-> "metadata", ref |-> r]
Sample(r, t, l) == [kind |-> "sample", ref |-> r, t |-> t, lbl |-> l, known |-> FALSE]

\* What a replay reads, in order, as <<record, segment>>; a checkpoint counts as the
\* last segment it replaces.
Stamped(recs, s) == [i \in 1..Len(recs) |-> <<recs[i], s>>]
ReplayLog(c, sg, n) ==
  LET log[s \in -1..MaxSegment] ==
        IF s <= c.upto THEN Stamped(c.recs, c.upto) ELSE log[s - 1] \o Stamped(sg[s], s)
  IN log[n]
Log == ReplayLog(cp, segs, last)

(***************************************************************************)
(* Appenders                                                               *)
(***************************************************************************)
AppOnly == UNCHANGED <<disk, up, trunc>>

\* Append finds its series, by a reference the caller has cached or by its labels.
AppendFound(a, r, t) ==
  /\ up /\ app[a].pc = "idle" /\ begun < MaxSamples
  /\ r \in mem.refs
  /\ app' = [app EXCEPT ![a] = [Idle EXCEPT !.pc = "pending", !.lbl = mem.lset[r], !.t = t, !.ref = r]]
  /\ begun' = begun + 1
  /\ UNCHANGED mem
  /\ AppOnly /\ UNCHANGED detours

\* getOrCreate does not find it.
AppendNotFound(a, l, t) ==
  /\ up /\ app[a].pc = "idle" /\ begun < MaxSamples
  /\ mem.hashes[l] = None
  /\ app' = [app EXCEPT ![a] = [Idle EXCEPT !.pc = "create", !.lbl = l, !.t = t]]
  /\ begun' = begun + 1
  /\ UNCHANGED mem
  /\ AppOnly /\ UNCHANGED detours

\* The series takes the next reference.  Set stores it under the reference and, in
\* place of what it holds, for the labels: under two locks, but until the second one is
\* released nobody has the reference, and gc looks for series by their labels.
Set(a) ==
  LET r == mem.nextRef + 1
  IN /\ up /\ app[a].pc = "create" /\ r \in Refs
     /\ mem' = [mem EXCEPT !.nextRef = r, !.refs = @ \cup {r}, !.lset[r] = app[a].lbl, !.lastTs[r] = 0,
                           !.hashes[app[a].lbl] = r]
     /\ app' = [app EXCEPT ![a].pc = "pending", ![a].ref = r, ![a].new = TRUE]
     /\ UNCHANGED begun
     /\ AppOnly /\ UNCHANGED detours

SeriesIsLogged(log, r, l) == \E i \in 1..Len(log) : log[i][1] = Series(r, l)

\* wal.Log of the first of the records.
LogFirst(a, records) ==
  LET rec == Head(records)
      known == app[a].ref \in mem.refs /\ SeriesIsLogged(Log, app[a].ref, app[a].lbl)
  IN segs' = [segs EXCEPT ![last] =
       Append(@, IF rec.kind = "sample" THEN [rec EXCEPT !.known = known] ELSE rec)]

NewSeries(a) == IF app[a].new THEN <<Series(app[a].ref, app[a].lbl)>> ELSE <<>>

\* log: series first, then metadata (if UpdateMetadata has found any that is new),
\* then samples.
Commit(a, hasMetadata) ==
  LET records == NewSeries(a)
                   \o (IF hasMetadata THEN <<Metadata(app[a].ref)>> ELSE <<>>)
                   \o <<Sample(app[a].ref, app[a].t, app[a].lbl)>>
  IN /\ up /\ app[a].pc = "pending"
     /\ LogFirst(a, records)
     /\ app' = [app EXCEPT ![a].pc = "commit", ![a].todo = Tail(records)]
     /\ IF hasMetadata THEN Detour ELSE UNCHANGED detours
     /\ UNCHANGED <<first, last, cp, up, mem, trunc, begun>>

LogRecord(a) ==
  /\ up /\ app[a].todo # <<>>
  /\ LogFirst(a, app[a].todo)
  /\ app' = [app EXCEPT ![a].todo = Tail(@)]
  /\ UNCHANGED <<first, last, cp, up, mem, trunc, begun, detours>>

\* logSeries: series were created in memory whatever happens to the transaction.
Rollback(a) ==
  /\ up /\ app[a].pc = "pending"
  /\ IF app[a].new THEN LogFirst(a, NewSeries(a)) ELSE UNCHANGED segs
  /\ app' = [app EXCEPT ![a] = Idle]
  /\ Detour
  /\ UNCHANGED <<first, last, cp, up, mem, trunc, begun>>

\* wal.Log of the first or of a later record fails: the transaction is given up.
LogFails(a) ==
  /\ up /\ (app[a].pc = "pending" \/ app[a].todo # <<>>)
  /\ app' = [app EXCEPT ![a] = Idle]
  /\ Detour
  /\ UNCHANGED <<mem, begun>>
  /\ AppOnly

\* Only when everything is logged the timestamp of the series is updated.
EndTransaction(a) ==
  /\ up /\ app[a].pc = "commit" /\ app[a].todo = <<>>
  /\ mem' = IF app[a].ref \in mem.refs /\ app[a].t > mem.lastTs[app[a].ref]
              THEN [mem EXCEPT !.lastTs[app[a].ref] = app[a].t] ELSE mem
  /\ app' = [app EXCEPT ![a] = Idle]
  /\ UNCHANGED begun
  /\ AppOnly /\ UNCHANGED detours

\* The log begins a new segment when the current one is full.
NextSegment ==
  /\ up /\ last < MaxSegment /\ segs[last] # <<>>
  /\ last' = last + 1
  /\ UNCHANGED <<segs, first, cp, up, mem, app, trunc, begun, detours>>

(***************************************************************************)
(* Truncate                                                                *)
(***************************************************************************)
TruncateAt(pc) == up /\ trunc.pc = pc

\* gc: series without a sample since mint are deleted, and kept in the log until the
\* current segment is checkpointed.  It looks at the series it finds by their labels.
GC(mint) ==
  LET old == {r \in mem.refs : mem.lastTs[r] < mint /\ \E l \in Labels : mem.hashes[l] = r}
  IN /\ TruncateAt("idle") /\ last < MaxSegment
     /\ mem' = [mem EXCEPT
          !.refs = @ \ old,
          !.hashes = [l \in Labels |-> IF mem.hashes[l] \in old THEN None ELSE mem.hashes[l]],
          !.lset = [r \in Refs |-> IF r \in old THEN None ELSE mem.lset[r]],
          !.lastTs = [r \in Refs |-> IF r \in old THEN 0 ELSE mem.lastTs[r]],
          !.deleted = [r \in Refs |-> IF r \in old THEN last ELSE mem.deleted[r]]]
     /\ trunc' = [trunc EXCEPT !.pc = "segment", !.mint = mint]
     /\ UNCHANGED <<disk, up, app, begun, detours>>

\* A new segment is begun.  The lower two thirds of the others, without the last one,
\* are to be checkpointed, if that is more than one.
TruncateSegment ==
  LET upto == first + ((last - 1 - first) * 2) \div 3
  IN /\ TruncateAt("segment") /\ last < MaxSegment
     /\ last' = last + 1
     /\ trunc' = IF last - 1 >= first /\ upto > first
                   THEN [trunc EXCEPT !.pc = "checkpoint", !.upto = upto] ELSE NoTruncate
     /\ UNCHANGED <<segs, first, cp, up, mem, app, begun, detours>>

\* Mutant: deleted series are not kept.
keepLive(r, upto) == r \in mem.refs

keep(r, upto) == r \in mem.refs \/ (mem.deleted[r] # None /\ mem.deleted[r] > upto)

\* Of a log the series to be kept stay, with their metadata, and the samples since mint.
Stays(rec) == IF rec.kind = "sample" THEN rec.t >= trunc.mint ELSE keep(rec.ref, trunc.upto)
Kept(log) ==
  LET kept[i \in 0..Len(log)] ==
        IF i = 0 THEN <<>>
        ELSE IF Stays(log[i][1]) THEN Append(kept[i - 1], log[i][1]) ELSE kept[i - 1]
  IN kept[Len(log)]

\* wlog.Checkpoint filters the last checkpoint and the segments behind it.
Checkpoint ==
  /\ TruncateAt("checkpoint")
  /\ cp' = IF trunc.upto > cp.upto
             THEN [upto |-> trunc.upto, recs |-> Kept(ReplayLog(cp, segs, trunc.upto))] ELSE cp
  /\ trunc' = [trunc EXCEPT !.pc = "truncate"]
  /\ UNCHANGED <<segs, first, last, up, mem, app, begun, detours>>

\* The checkpoint may fail.
CheckpointFails ==
  /\ TruncateAt("checkpoint")
  /\ trunc' = NoTruncate
  /\ Detour
  /\ UNCHANGED <<disk, up, mem, app, begun>>

\* The segments are deleted (this may fail), and deleted series forgotten.
DropSegments(fails) ==
  /\ TruncateAt("truncate")
  /\ IF fails THEN Detour /\ UNCHANGED <<segs, first>>
              ELSE /\ UNCHANGED detours
                   /\ first' = trunc.upto + 1
                   /\ segs' = [s \in Segments |-> IF s <= trunc.upto THEN <<>> ELSE segs[s]]
  /\ mem' = [mem EXCEPT !.deleted = [r \in Refs |->
       IF @[r] # None /\ @[r] <= trunc.upto THEN None ELSE @[r]]]
  /\ trunc' = NoTruncate
  /\ UNCHANGED <<last, cp, up, app, begun>>

(***************************************************************************)
(* Close, crash and replay                                                 *)
(***************************************************************************)

\* Close waits for the calls that use the log; a crash does not.  What is not logged
\* is lost in either case.
Down ==
  /\ up
  /\ up' = FALSE
  /\ mem' = EmptyMemory
  /\ app' = [a \in Appenders |-> Idle]
  /\ trunc' = NoTruncate
  /\ UNCHANGED <<disk, begun, detours>>

\* Mutants: replay does not count the references it finds, does not map duplicates.
maxRefNone(m, r) == m.nextRef
validRefSelf(m, r) == r

\* References are not used again.
maxRef(m, r) == Max({m.nextRef, r})

\* The reference under which the labels of r are stored.
validRef(m, r) == IF m.dup[r] # None THEN m.dup[r] ELSE r

\* The last segment with the duplicate r.
keepUntil(m, r, s) == IF m.deleted[r] = None THEN s ELSE Max({m.deleted[r], s})

\* A series record: the first reference of a label set is stored, others are mapped
\* to it.
LoadSeries(m, rec, s) ==
  LET n == [m EXCEPT !.nextRef = maxRef(m, rec.ref)]
  IN IF m.hashes[rec.lbl] = None
       THEN [n EXCEPT !.refs = @ \cup {rec.ref}, !.hashes[rec.lbl] = rec.ref,
                      !.lset[rec.ref] = rec.lbl]
       ELSE [n EXCEPT !.dup[rec.ref] = m.hashes[rec.lbl], !.deleted[rec.ref] = keepUntil(m, rec.ref, s)]

\* A sample record updates the timestamp of its series, if that is known.
LoadSample(m, rec, s) ==
  LET n == IF m.dup[rec.ref] # None THEN [m EXCEPT !.deleted[rec.ref] = keepUntil(m, rec.ref, s)] ELSE m
      r == validRef(m, rec.ref)
  IN IF r \in m.refs /\ rec.t > m.lastTs[r] THEN [n EXCEPT !.lastTs[r] = rec.t] ELSE n

Load(m, entry) ==
  IF entry[1].kind = "series" THEN LoadSeries(m, entry[1], entry[2]) ELSE LoadSample(m, entry[1], entry[2])

\* loadWAL of the entries of a log; duplicateRefToValidRef is dropped in the end.
replayWAL(log) ==
  LET loaded[i \in 0..Len(log)] == IF i = 0 THEN EmptyMemory ELSE Load(loaded[i - 1], log[i])
  IN [loaded[Len(log)] EXCEPT !.dup = EmptyMemory.dup]

\* The first record that loadWAL takes for corrupt: it has no case for metadata.
Corrupt(log) == SelectInSeq(log, LAMBDA entry : entry[1].kind = "metadata")

\* NewStorage opens a new segment and replays the log.
Open ==
  /\ ~up
  /\ last < MaxSegment
  /\ Corrupt(Log) = 0
  /\ last' = last + 1
  /\ mem' = replayWAL(Log)
  /\ up' = TRUE
  /\ UNCHANGED <<segs, first, cp, app, trunc, begun, detours>>

\* Repair: the segment of the corrupt record is cut off before it, those behind are
\* deleted, and a new one is begun.
OpenRepair ==
  LET log == Log
      i == Corrupt(log)
      s == log[i][2]
      before == i - 1 - Len(ReplayLog(cp, segs, s - 1))
  IN /\ ~up
     /\ last < MaxSegment
     /\ i > Len(cp.recs)
     /\ segs' = [t \in Segments |-> IF t < s THEN segs[t]
                                    ELSE IF t = s THEN SubSeq(segs[s], 1, before) ELSE <<>>]
     /\ last' = s + 1
     /\ mem' = replayWAL(SubSeq(log, 1, i - 1))
     /\ up' = TRUE
     /\ UNCHANGED <<first, cp, app, trunc, begun, detours>>

\* Repair does not know about checkpoints: it fails, everything is deleted, and
\* NewStorage returns an error.
OpenFails ==
  /\ ~up
  /\ Corrupt(Log) \in 1..Len(cp.recs)
  /\ segs' = [s \in Segments |-> <<>>]
  /\ first' = 0 /\ last' = 0
  /\ cp' = NoCheckpoint
  /\ UNCHANGED <<up, mem, app, trunc, begun, detours>>

-----------------------------------------------------------------------------
Init ==
  /\ segs = [s \in Segments |-> <<>>]
  /\ first = 0 /\ last = FirstSegment
  /\ cp = NoCheckpoint
  /\ up = TRUE
  /\ mem = EmptyMemory
  /\ app = [a \in Appenders |-> Idle]
  /\ trunc = NoTruncate
  /\ begun = 0 /\ detours = 0

AppenderStep(a) ==
  \/ \E t \in Times : \/ \E r \in Refs : AppendFound(a, r, t)
                      \/ \E l \in Labels : AppendNotFound(a, l, t)
  \/ Set(a) \/ Rollback(a)
  \/ \E hasMetadata \in BOOLEAN : Commit(a, hasMetadata)
  \/ LogRecord(a) \/ LogFails(a) \/ EndTransaction(a)

TruncateStep ==
  \/ \E mint \in 1..(MaxTime + 1) : GC(mint)
  \/ TruncateSegment \/ Checkpoint \/ CheckpointFails
  \/ \E fails \in BOOLEAN : DropSegments(fails)

Next ==
  \/ \E a \in Appenders : AppenderStep(a)
  \/ NextSegment \/ TruncateStep
  \/ Down \/ Open \/ OpenRepair \/ OpenFails

Spec == Init /\ [][Next]_vars

-----------------------------------------------------------------------------
(***************************************************************************)
(* Properties                                                              *)
(***************************************************************************)

\* "Make sure we don't try to reuse a Ref that already exists in the WAL": replayed
\* after any crash, the log never gives a sample to a series with other labels than
\* it was appended for.
SamplesKeepTheirSeries ==
  LET log == Log
  IN \A j \in 1..Len(log) : log[j][1].kind = "sample" =>
       \A i \in 1..(j - 1) :
         log[i][1].kind = "series" /\ log[i][1].ref = log[j][1].ref => log[i][1].lbl = log[j][1].lbl

\* "This prevents the WAL having samples for series records that no longer exist":
\* checkpoints, garbage collection and repairs never take away the series of a sample
\* that a segment still holds, if the series was there when the sample was logged.
SegmentsHaveSeries ==
  LET log == Log
  IN \A j \in (Len(cp.recs) + 1)..Len(log) :
       log[j][1].kind = "sample" /\ log[j][1].known =>
         SeriesIsLogged(SubSeq(log, 1, j - 1), log[j][1].ref, log[j][1].lbl)

\* What a replay should find: of each label set that has a series record, the newest
\* sample behind such a record with the same reference.
Newest(log, l) ==
  Max({0} \cup {log[j][1].t : j \in {k \in 1..Len(log) :
    /\ log[k][1].kind = "sample"
    /\ \E i \in 1..(k - 1) : log[i][1] = Series(log[k][1].ref, l)}})

\* A replay restores every series that is in the log, under one reference, with the
\* timestamp of its newest sample, whichever duplicate reference that was logged for.
ReplayIsExact ==
  [][~up /\ up' => \A l \in Labels :
       LET r == mem'.hashes[l]
       IN IF \E i \in 1..Len(Log') : Log'[i][1].kind = "series" /\ Log'[i][1].lbl = l
            THEN r \in mem'.refs /\ mem'.lset[r] = l /\ mem'.lastTs[r] = Newest(Log', l)
            ELSE r = None]_vars
=============================================================================

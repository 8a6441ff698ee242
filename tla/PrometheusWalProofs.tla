------------------------ MODULE PrometheusWalProofs ------------------------
(***************************************************************************)
(* Proofs about PrometheusWal for any number of label sets, appenders,     *)
(* references and segments: the log never gives a sample to another        *)
(* series, segments keep the series of their samples, and a replay         *)
(* restores what the log says.                                             *)
(***************************************************************************)
EXTENDS PrometheusWal, FiniteSetTheorems, SequenceTheorems, WellFoundedInduction, TLAPS

(***************************************************************************)
(* The inductive invariant.                                                *)
(***************************************************************************)

SeriesRecord == [kind : {"series"}, ref : Refs, lbl : Labels]
MetadataRecord == [kind : {"metadata"}, ref : Refs]
SampleRecord == [kind : {"sample"}, ref : Refs, t : Times, lbl : Labels, known : BOOLEAN]
Record == SeriesRecord \cup MetadataRecord \cup SampleRecord
Entry == Record \X Int

MemoryType ==
  [refs : SUBSET Refs, hashes : [Labels -> Refs \cup {None}],
   lset : [Refs -> Labels \cup {None}], lastTs : [Refs -> Nat],
   deleted : [Refs -> Int \cup {None}], dup : [Refs -> Refs \cup {None}],
   nextRef : 0..MaxRef]
AppenderType ==
  [pc : {"idle", "create", "pending", "commit"}, lbl : Labels \cup {None}, t : Nat,
   ref : Refs \cup {None}, new : BOOLEAN, todo : Seq(Record)]
TruncateType ==
  [pc : {"idle", "segment", "checkpoint", "truncate"}, mint : Nat, upto : Int]

TypeOK ==
  /\ segs \in [Segments -> Seq(Record)]
  /\ first \in Nat /\ last \in Segments
  /\ cp \in [upto : -1..MaxSegment, recs : Seq(Record)]
  /\ up \in BOOLEAN
  /\ mem \in MemoryType
  /\ app \in [Appenders -> AppenderType]
  /\ trunc \in TruncateType

\* Nothing is behind the last segment; the checkpoint and what Truncate is about to
\* replace are before it.
DiskOK ==
  /\ cp.upto < last
  /\ \A s \in Segments : s > last => segs[s] = <<>>
  /\ trunc.pc \in {"checkpoint", "truncate"} => trunc.upto \in Nat /\ trunc.upto < last
  /\ trunc.pc = "truncate" => trunc.upto <= cp.upto

\* Nothing is in memory while the storage is closed.
ClosedOK ==
  ~up => mem = EmptyMemory /\ trunc = NoTruncate /\ \A a \in Appenders : app[a] = Idle

\* What an appender x has still to log, if n references are given away.
AppenderFine(x, n) ==
  LET sample == Sample(x.ref, x.t, x.lbl)
  IN /\ x.pc = "idle" => x = Idle
     /\ x.pc # "idle" => x.lbl \in Labels /\ x.t \in Times
     /\ x.pc = "create" => x.ref = None
     /\ x.pc \in {"pending", "commit"} => x.ref \in 1..n
     /\ x.pc # "commit" => x.todo = <<>>
     /\ x.pc = "commit" => x.todo \in {<<>>, <<sample>>, <<Metadata(x.ref), sample>>}
AppendersOK == \A a \in Appenders : AppenderFine(app[a], mem.nextRef)

\* Every reference has one owner, in the log, in memory and with the appenders.
OwnsLog(own, log) ==
  \A i \in 1..Len(log) : log[i][1].kind = "series" => own[log[i][1].ref] = log[i][1].lbl
OwnsAppenders(own, ap) ==
  \A a \in Appenders : ap[a].pc \in {"pending", "commit"} => own[ap[a].ref] = ap[a].lbl
OwnsMemory(own, m) ==
  \A r \in m.refs : own[r] = m.lset[r] /\ m.lset[r] \in Labels /\ r <= m.nextRef
Owns(own) == OwnsLog(own, Log) /\ OwnsAppenders(own, app) /\ OwnsMemory(own, mem)

\* No series in the log has a reference that is still to be given away.
CountedLog(n, log) ==
  \A i \in 1..Len(log) : log[i][1].kind = "series" => log[i][1].ref <= n

Ordered(log) ==
  \A j \in 1..Len(log) : log[j][1].kind = "sample" =>
    \A i \in 1..(j - 1) :
      log[i][1].kind = "series" /\ log[i][1].ref = log[j][1].ref => log[i][1].lbl = log[j][1].lbl

\* From position n on, every sample that was logged with its series still has it.
Served(n, log) ==
  \A j \in (n + 1)..Len(log) : log[j][1].kind = "sample" /\ log[j][1].known =>
    \E i \in 1..(j - 1) : log[i][1] = Series(log[j][1].ref, log[j][1].lbl)

\* Its series is in memory, or kept until the segment of the sample is checkpointed.
Remembered(n, log, m) ==
  \A j \in (n + 1)..Len(log) : log[j][1].kind = "sample" /\ log[j][1].known =>
    \/ log[j][1].ref \in m.refs
    \/ m.deleted[log[j][1].ref] \in Int /\ m.deleted[log[j][1].ref] >= log[j][2]

Owners == [Refs -> Labels \cup {None}]

\* What the invariant says of the log, of the references and of the memory.
LogOK ==
  /\ \E own \in Owners : Owns(own)
  /\ up => CountedLog(mem.nextRef, Log)
  /\ Ordered(Log)
  /\ Served(Len(cp.recs), Log)
  /\ up => Remembered(Len(cp.recs), Log, mem)

IInv == TypeOK /\ DiskOK /\ ClosedOK /\ AppendersOK /\ LogOK

-----------------------------------------------------------------------------
(***************************************************************************)
(* Induction and recursion                                                 *)
(***************************************************************************)

\* Induction over a set of natural numbers.
LEMMA SetInduction ==
  ASSUME NEW S, 0 \in S, \A n \in Nat : n \in S => n + 1 \in S
  PROVE  Nat \subseteq S
<1> SUFFICES ASSUME NEW k \in Nat, k \notin S PROVE FALSE
  OBVIOUS
<1> DEFINE T == {0..n : n \in {m \in Nat : m \notin S}}
<1>1. T \subseteq FiniteSubsetsOf(Nat) /\ T # {}
  <2>1. ASSUME NEW n \in Nat PROVE 0..n \in FiniteSubsetsOf(Nat)
    BY FS_Interval DEF FiniteSubsetsOf
  <2> QED BY <2>1
<1> HIDE DEF T
<1>2. PICK R \in T : \A Q \in T : <<Q, R>> \notin StrictSubsetOrdering(Nat)
  BY <1>1, FS_StrictSubsetOrderingWellFounded, WFMin
<1> USE DEF T
<1>3. PICK m \in Nat : R = 0..m /\ m \notin S
  BY <1>2
<1>4. m # 0 /\ m - 1 \in Nat
  BY <1>3
<1>5. m - 1 \notin S
  <2>1. (m - 1) + 1 = m
    BY <1>4
  <2> QED BY <1>3, <1>4, <2>1
<1>6. 0..(m - 1) \in T
  BY <1>4, <1>5
<1>7. <<0..(m - 1), 0..m>> \in StrictSubsetOrdering(Nat)
  <2>1. 0..(m - 1) \subseteq 0..m /\ m \in 0..m /\ m \notin 0..(m - 1)
    BY <1>3, <1>4
  <2>2. 0..(m - 1) \in SUBSET Nat /\ 0..m \in SUBSET Nat
    BY <1>3, <1>4
  <2> QED BY <2>1, <2>2 DEF StrictSubsetOrdering
<1> QED BY <1>2, <1>3, <1>6, <1>7

\* Induction from any integer on.
LEMMA IntInduction ==
  ASSUME NEW m \in Int, NEW S, m \in S, \A k \in Int : k >= m /\ k \in S => k + 1 \in S
  PROVE  \A k \in Int : k >= m => k \in S
<1> DEFINE T == {n \in Nat : m + n \in S}
<1>1. 0 \in T
  OBVIOUS
<1>2. ASSUME NEW n \in Nat, n \in T PROVE n + 1 \in T
  <2>1. m + n \in Int /\ m + n >= m /\ m + n \in S
    BY <1>2
  <2>2. (m + n) + 1 \in S
    BY <2>1
  <2> QED BY <2>2
<1>3. Nat \subseteq T
  <2> HIDE DEF T
  <2> QED BY <1>1, <1>2, SetInduction
<1> TAKE k \in Int
<1> HAVE k >= m
<1>4. k - m \in Nat /\ m + (k - m) = k
  OBVIOUS
<1> QED BY <1>3, <1>4

\* A function is defined by its first value and the step from one value to the next.
Steps(m, n, S) == [((m + 1)..n) \X S -> S]
Chain(m, n, S, b, st, f) ==
  /\ f \in [m..n -> S]
  /\ f[m] = b
  /\ \A i \in (m + 1)..n : f[i] = st[<<i, f[i - 1]>>]

LEMMA ChainExists ==
  ASSUME NEW m \in Int, NEW n \in Int, m <= n, NEW S, NEW b \in S, NEW st \in Steps(m, n, S)
  PROVE  \E f : Chain(m, n, S, b, st, f)
<1>0. st \in [((m + 1)..n) \X S -> S]
  BY DEF Steps
<1> DEFINE Upto(k, f) == /\ f \in [m..k -> S]
                         /\ f[m] = b
                         /\ \A i \in (m + 1)..k : f[i] = st[<<i, f[i - 1]>>]
           T == {k \in Int : k <= n => \E f : Upto(k, f)}
<1>1. m \in T
  <2> DEFINE z == [i \in m..m |-> b]
  <2>1. z \in [m..m -> S] /\ z[m] = b
    OBVIOUS
  <2> HIDE DEF z
  <2>2. Upto(m, z)
    BY <2>1
  <2> HIDE DEF Upto
  <2> QED BY <2>2
<1> HIDE DEF Upto
<1>2. ASSUME NEW k \in Int, k >= m, k \in T PROVE k + 1 \in T
  <2> SUFFICES ASSUME k + 1 <= n PROVE \E f : Upto(k + 1, f)
    OBVIOUS
  <2>1. PICK f : Upto(k, f)
    BY <1>2
  <2>2. f \in [m..k -> S] /\ f[m] = b /\ \A i \in (m + 1)..k : f[i] = st[<<i, f[i - 1]>>]
    BY <2>1 DEF Upto
  <2>3. f[k] \in S /\ k + 1 \in (m + 1)..n
    BY <1>2, <2>2
  <2>4. st[<<k + 1, f[k]>>] \in S
    BY <1>0, <2>3
  <2> DEFINE x == st[<<k + 1, f[k]>>]
             g == [i \in m..(k + 1) |-> IF i = k + 1 THEN x ELSE f[i]]
  <2>5. g \in [m..(k + 1) -> S] /\ g[m] = b
    <3> HIDE DEF x
    <3>1. x \in S
      BY <2>4 DEF x
    <3> QED BY <1>2, <2>2, <3>1
  <2>6. ASSUME NEW i \in (m + 1)..(k + 1) PROVE g[i] = st[<<i, g[i - 1]>>]
    <3>1. CASE i = k + 1
      <4>1. i - 1 = k /\ k \in m..(k + 1) /\ k # k + 1
        BY <1>2, <3>1
      <4>2. g[k] = f[k] /\ g[i] = x
        BY <3>1, <4>1
      <4> QED BY <3>1, <4>1, <4>2
    <3>2. CASE i # k + 1
      <4>1. i \in (m + 1)..k /\ i - 1 \in m..k /\ i - 1 # k + 1
        BY <1>2, <3>2
      <4>2. g[i] = f[i] /\ g[i - 1] = f[i - 1]
        BY <4>1
      <4> QED BY <2>2, <4>1, <4>2
    <3> QED BY <3>1, <3>2
  <2> HIDE DEF g
  <2>7. Upto(k + 1, g)
    BY <2>5, <2>6 DEF Upto
  <2> QED BY <2>7
<1>3. \A k \in Int : k >= m => k \in T
  <2> HIDE DEF T
  <2> QED BY <1>1, <1>2, IntInduction
<1>4. PICK f : Upto(n, f)
  BY <1>3
<1> QED BY <1>4 DEF Upto, Chain

-----------------------------------------------------------------------------
(***************************************************************************)
(* The log that a replay reads                                             *)
(***************************************************************************)

Checkpoints == [upto : -1..MaxSegment, recs : Seq(Record)]
Directories == [Segments -> Seq(Record)]

LEMMA StampedType ==
  ASSUME NEW recs \in Seq(Record), NEW s \in Int
  PROVE  /\ Stamped(recs, s) \in Seq(Entry) /\ Len(Stamped(recs, s)) = Len(recs)
         /\ \A i \in 1..Len(recs) : Stamped(recs, s)[i] = <<recs[i], s>>
         /\ Len(recs) \in Nat
<1>1. Len(recs) \in Nat /\ \A i \in 1..Len(recs) : recs[i] \in Record
  BY LenProperties, ElementOfSeq
<1> DEFINE t == [i \in 1..Len(recs) |-> <<recs[i], s>>]
<1>2. t \in [1..Len(recs) -> Entry] /\ DOMAIN t = 1..Len(recs)
  BY <1>1 DEF Entry
<1>3. t \in Seq(Entry) /\ Len(t) = Len(recs)
  BY <1>1, <1>2
<1> QED BY <1>1, <1>3 DEF Stamped

\* The log with one segment more.
LEMMA ReplayLogStep ==
  ASSUME NEW c \in Checkpoints, NEW sg \in Directories
  PROVE  /\ \A s \in -1..MaxSegment : ReplayLog(c, sg, s) \in Seq(Entry)
         /\ \A s \in -1..MaxSegment : s <= c.upto => ReplayLog(c, sg, s) = Stamped(c.recs, c.upto)
         /\ \A s \in -1..MaxSegment : s > c.upto =>
              ReplayLog(c, sg, s) = ReplayLog(c, sg, s - 1) \o Stamped(sg[s], s)
<1>0. MaxSegment \in Nat /\ c.upto \in Int /\ c.upto >= -1 /\ c.recs \in Seq(Record)
  BY PrometheusWalAssumption DEF Checkpoints
<1>z. PICK m \in Int : m = -1
  OBVIOUS
<1> DEFINE b == Stamped(c.recs, c.upto)
           Dom == -1..MaxSegment
           Value(q, s) == IF s <= c.upto THEN b ELSE q \o Stamped(sg[s], s)
           G(h) == [s \in Dom |-> IF s <= c.upto THEN b ELSE h[s - 1] \o Stamped(sg[s], s)]
           g == CHOOSE h : h = G(h)
           D == ((m + 1)..MaxSegment) \X Seq(Entry)
           st == [x \in D |-> Value(x[2], x[1])]
<1>y. Dom = m..MaxSegment /\ m <= MaxSegment /\ MaxSegment \in Int
  BY <1>0, <1>z
<1>1. b \in Seq(Entry)
  BY <1>0, StampedType
<1>2. ASSUME NEW s \in (m + 1)..MaxSegment PROVE Stamped(sg[s], s) \in Seq(Entry)
  <2>1. s \in 0..MaxSegment
    BY <1>0, <1>z
  <2>2. sg[s] \in Seq(Record) /\ s \in Int
    BY <2>1 DEF Directories, Segments
  <2> QED BY <2>2, StampedType
<1> HIDE DEF b
<1>3. ASSUME NEW q \in Seq(Entry), NEW s \in (m + 1)..MaxSegment PROVE Value(q, s) \in Seq(Entry)
  <2>1. q \o Stamped(sg[s], s) \in Seq(Entry)
    BY <1>2, ConcatProperties
  <2> QED BY <1>1, <2>1
<1>4. st \in [D -> Seq(Entry)]
  <2>1. ASSUME NEW x \in D PROVE Value(x[2], x[1]) \in Seq(Entry)
    <3>1. x[1] \in (m + 1)..MaxSegment /\ x[2] \in Seq(Entry)
      OBVIOUS
    <3> HIDE DEF Value
    <3> QED BY <1>3, <3>1
  <2> HIDE DEF D, Value
  <2> QED BY <2>1
<1>5. PICK f \in [m..MaxSegment -> Seq(Entry)] :
           f[m] = b /\ \A i \in (m + 1)..MaxSegment : f[i] = st[<<i, f[i - 1]>>]
  <2>1. st \in Steps(m, MaxSegment, Seq(Entry))
    BY <1>4 DEF Steps
  <2> HIDE DEF st, D
  <2>2. \E f : Chain(m, MaxSegment, Seq(Entry), b, st, f)
    BY <1>y, <1>1, <2>1, ChainExists
  <2> QED BY <2>2 DEF Chain
<1>6. ASSUME NEW i \in Dom PROVE f[i] = G(f)[i]
  <2>1. CASE i = m
    <3>1. i <= c.upto
      BY <1>0, <1>z, <2>1
    <3> QED BY <1>5, <2>1, <3>1
  <2>2. CASE i # m
    <3>1. i \in (m + 1)..MaxSegment /\ i - 1 \in m..MaxSegment
      BY <1>0, <1>y, <2>2
    <3>2. f[i - 1] \in Seq(Entry) /\ <<i, f[i - 1]>> \in D
      BY <1>5, <3>1
    <3>3. f[i] = Value(f[i - 1], i)
      <4> HIDE DEF Value, D
      <4> QED BY <1>5, <3>1, <3>2
    <3> QED BY <3>3
  <2> QED BY <2>1, <2>2
<1>7. f = G(f)
  <2>1. G(f) = [i \in Dom |-> G(f)[i]]
    OBVIOUS
  <2>2. f = [i \in Dom |-> f[i]]
    BY <1>5, <1>y
  <2> HIDE DEF G, Dom
  <2> QED BY <1>6, <2>1, <2>2
<1>8. g = G(g)
  <2> HIDE DEF G
  <2> QED BY <1>7
<1>9. ASSUME NEW s PROVE ReplayLog(c, sg, s) = g[s]
  BY DEF ReplayLog, b
<1> HIDE DEF g
<1>10. ASSUME NEW s \in Dom
       PROVE  g[s] = IF s <= c.upto THEN b ELSE g[s - 1] \o Stamped(sg[s], s)
  <2>1. g[s] = G(g)[s]
    <3> HIDE DEF G
    <3> QED BY <1>8
  <2> HIDE DEF Dom
  <2> QED BY <2>1
<1>11. \A s \in Dom : g[s] \in Seq(Entry)
  <2> DEFINE T == {s \in Int : s <= MaxSegment => g[s] \in Seq(Entry)}
  <2>1. m \in T
    <3>1. m \in Dom /\ m <= c.upto
      BY <1>0, <1>z
    <3> HIDE DEF Dom
    <3> QED BY <1>1, <1>10, <3>1
  <2>2. ASSUME NEW k \in Int, k >= m, k \in T PROVE k + 1 \in T
    <3> SUFFICES ASSUME k + 1 <= MaxSegment PROVE g[k + 1] \in Seq(Entry)
      OBVIOUS
    <3>1. k + 1 \in Dom /\ k + 1 \in (m + 1)..MaxSegment /\ (k + 1) - 1 = k /\ g[k] \in Seq(Entry)
      BY <1>0, <1>z, <2>2
    <3>2. g[k + 1] = Value(g[k], k + 1)
      <4> HIDE DEF Dom
      <4> QED BY <1>10, <3>1
    <3> HIDE DEF Value
    <3> QED BY <1>3, <3>1, <3>2
  <2>3. \A k \in Int : k >= m => k \in T
    <3> HIDE DEF T
    <3> QED BY <2>1, <2>2, IntInduction
  <2> QED BY <1>y, <2>3
<1>12. ASSUME NEW s \in Dom
       PROVE  /\ ReplayLog(c, sg, s) \in Seq(Entry)
              /\ s <= c.upto => ReplayLog(c, sg, s) = Stamped(c.recs, c.upto)
              /\ s > c.upto => ReplayLog(c, sg, s) = ReplayLog(c, sg, s - 1) \o Stamped(sg[s], s)
  <2>1. ReplayLog(c, sg, s) = g[s] /\ ReplayLog(c, sg, s - 1) = g[s - 1] /\ g[s] \in Seq(Entry)
    BY <1>9, <1>11
  <2>2. s > c.upto => ~(s <= c.upto)
    BY <1>0
  <2> HIDE DEF Dom
  <2> QED BY <1>10, <2>1, <2>2 DEF b
<1> QED BY <1>12

LEMMA LogBase ==
  ASSUME NEW c \in Checkpoints, NEW sg \in Directories
  PROVE  /\ ReplayLog(c, sg, c.upto) \in Seq(Entry)
         /\ Len(ReplayLog(c, sg, c.upto)) = Len(c.recs) /\ Len(c.recs) \in Nat
         /\ \A i \in 1..Len(c.recs) : ReplayLog(c, sg, c.upto)[i] = <<c.recs[i], c.upto>>
<1>1. c.upto \in -1..MaxSegment /\ c.upto \in Int /\ c.upto <= c.upto /\ c.recs \in Seq(Record)
  BY PrometheusWalAssumption DEF Checkpoints
<1>2. ReplayLog(c, sg, c.upto) = Stamped(c.recs, c.upto)
  BY <1>1, ReplayLogStep
<1> QED BY <1>1, <1>2, StampedType

\* q is p with the records recs of segment s behind it.
Extends(q, p, recs, s) ==
  /\ p \in Seq(Entry) /\ q \in Seq(Entry) /\ recs \in Seq(Record)
  /\ Len(p) \in Nat /\ Len(recs) \in Nat /\ Len(q) = Len(p) + Len(recs)
  /\ \A i \in 1..Len(p) : q[i] = p[i]
  /\ \A i \in 1..Len(recs) : q[Len(p) + i] = <<recs[i], s>>

LEMMA ExtendsLemma ==
  ASSUME NEW p \in Seq(Entry), NEW recs \in Seq(Record), NEW s \in Int
  PROVE  Extends(p \o Stamped(recs, s), p, recs, s)
<1> DEFINE t == Stamped(recs, s)
           q == p \o t
<1>1. t \in Seq(Entry) /\ Len(t) = Len(recs) /\ Len(recs) \in Nat
      /\ \A i \in 1..Len(recs) : t[i] = <<recs[i], s>>
  BY StampedType
<1> HIDE DEF t
<1>2. q \in Seq(Entry) /\ Len(q) = Len(p) + Len(t) /\ Len(p) \in Nat
      /\ \A i \in 1..(Len(p) + Len(t)) : q[i] = IF i <= Len(p) THEN p[i] ELSE t[i - Len(p)]
  BY <1>1, ConcatProperties, LenProperties
<1> HIDE DEF q
<1>3. ASSUME NEW i \in 1..Len(p) PROVE q[i] = p[i]
  BY <1>1, <1>2
<1>4. ASSUME NEW i \in 1..Len(recs) PROVE q[Len(p) + i] = <<recs[i], s>>
  <2>1. Len(p) + i \in 1..(Len(p) + Len(t)) /\ ~(Len(p) + i <= Len(p)) /\ (Len(p) + i) - Len(p) = i
    BY <1>1, <1>2
  <2>2. q[Len(p) + i] = t[i]
    BY <1>2, <2>1
  <2> QED BY <1>1, <2>2
<1> QED BY <1>1, <1>2, <1>3, <1>4 DEF Extends, t, q

LEMMA LogExtends ==
  ASSUME NEW c \in Checkpoints, NEW sg \in Directories, NEW s \in Segments, s > c.upto
  PROVE  Extends(ReplayLog(c, sg, s), ReplayLog(c, sg, s - 1), sg[s], s)
<1>1. s \in -1..MaxSegment /\ s - 1 \in -1..MaxSegment /\ s \in Int /\ sg[s] \in Seq(Record)
  BY PrometheusWalAssumption DEF Segments, Directories
<1>2. ReplayLog(c, sg, s) = ReplayLog(c, sg, s - 1) \o Stamped(sg[s], s)
  BY <1>1, ReplayLogStep
<1>3. ReplayLog(c, sg, s - 1) \in Seq(Entry)
  BY <1>1, ReplayLogStep
<1> QED BY <1>1, <1>2, <1>3, ExtendsLemma

\* The log up to a segment is the part of the log that comes from the segments up to it.
Prefix(p, q) ==
  /\ p \in Seq(Entry) /\ q \in Seq(Entry) /\ Len(p) \in Nat /\ Len(q) \in Nat
  /\ Len(p) <= Len(q)
  /\ \A i \in 1..Len(p) : q[i] = p[i]

LEMMA LogPrefix ==
  ASSUME NEW c \in Checkpoints, NEW sg \in Directories, NEW s \in -1..MaxSegment, c.upto <= s,
         NEW n \in -1..MaxSegment, s <= n
  PROVE  /\ Prefix(ReplayLog(c, sg, s), ReplayLog(c, sg, n))
         /\ \A i \in (Len(ReplayLog(c, sg, s)) + 1)..Len(ReplayLog(c, sg, n)) :
              ReplayLog(c, sg, n)[i][2] \in (s + 1)..n
<1> DEFINE L(k) == ReplayLog(c, sg, k)
           P(k) == /\ Prefix(L(s), L(k))
                   /\ \A i \in (Len(L(s)) + 1)..Len(L(k)) : L(k)[i][2] \in (s + 1)..k
           T == {k \in Int : k <= MaxSegment => P(k)}
<1>0. MaxSegment \in Nat /\ c.upto \in Int /\ c.upto >= -1 /\ s \in Int /\ n \in Int
  BY PrometheusWalAssumption DEF Checkpoints
<1>1. s \in T
  <2>1. L(s) \in Seq(Entry)
    BY <1>0, ReplayLogStep
  <2> HIDE DEF L
  <2>2. Len(L(s)) \in Nat
    BY <2>1, LenProperties
  <2> QED BY <1>0, <2>1, <2>2 DEF Prefix
<1>2. ASSUME NEW k \in Int, k >= s, k \in T PROVE k + 1 \in T
  <2> SUFFICES ASSUME k + 1 <= MaxSegment PROVE P(k + 1)
    OBVIOUS
  <2>1. k + 1 \in Segments /\ k + 1 > c.upto /\ (k + 1) - 1 = k
    BY <1>0, <1>2 DEF Segments
  <2>2. Extends(L(k + 1), L(k), sg[k + 1], k + 1)
    BY <2>1, LogExtends
  <2>3. P(k)
    BY <1>0, <1>2
  <2> HIDE DEF L
  <2>4. L(k + 1) \in Seq(Entry) /\ Len(L(k + 1)) = Len(L(k)) + Len(sg[k + 1])
        /\ Len(L(k)) \in Nat /\ Len(sg[k + 1]) \in Nat /\ \A i \in 1..Len(L(k)) : L(k + 1)[i] = L(k)[i]
    BY <2>2 DEF Extends
  <2>5. Prefix(L(s), L(k + 1))
    BY <2>3, <2>4 DEF Prefix
  <2>6. ASSUME NEW i \in (Len(L(s)) + 1)..Len(L(k + 1)) PROVE L(k + 1)[i][2] \in (s + 1)..(k + 1)
    <3>0. Len(L(s)) \in Nat
      BY <2>3 DEF Prefix
    <3>1. CASE i <= Len(L(k))
      <4>1. i \in (Len(L(s)) + 1)..Len(L(k)) /\ i \in 1..Len(L(k))
        BY <2>4, <3>0, <3>1
      <4>2. L(k + 1)[i] = L(k)[i] /\ L(k)[i][2] \in (s + 1)..k
        BY <2>3, <2>4, <4>1
      <4> QED BY <1>0, <4>2
    <3>2. CASE ~(i <= Len(L(k)))
      <4> DEFINE j == i - Len(L(k))
      <4>1. j \in 1..Len(sg[k + 1]) /\ Len(L(k)) + j = i
        BY <2>4, <3>0, <3>2
      <4>2. L(k + 1)[Len(L(k)) + j] = <<sg[k + 1][j], k + 1>>
        BY <2>2, <4>1 DEF Extends
      <4> HIDE DEF j
      <4>3. L(k + 1)[i] = <<sg[k + 1][j], k + 1>>
        BY <4>1, <4>2
      <4>4. L(k + 1)[i][2] = k + 1
        BY <4>3
      <4>5. k + 1 \in (s + 1)..(k + 1)
        BY <1>0, <1>2
      <4> QED BY <4>4, <4>5
    <3> QED BY <3>1, <3>2
  <2> QED BY <2>5, <2>6
<1>3. \A k \in Int : k >= s => k \in T
  <2> HIDE DEF T
  <2> QED BY <1>0, <1>1, <1>2, IntInduction
<1>4. P(n)
  BY <1>0, <1>3
<1> QED BY <1>4

\* Two logs with the same segments behind s end in the same entries.
SameEnd(p, q, p1, q1) ==
  /\ Len(q1) = Len(p1) + (Len(q) - Len(p))
  /\ \A i \in 1..(Len(q) - Len(p)) : q1[Len(p1) + i] = q[Len(p) + i]

LEMMA LogSameEnd ==
  ASSUME NEW c \in Checkpoints, NEW sg \in Directories, NEW d \in Checkpoints, NEW tg \in Directories,
         NEW s \in -1..MaxSegment, c.upto <= s, d.upto <= s,
         NEW n \in -1..MaxSegment, s <= n, \A k \in (s + 1)..n : tg[k] = sg[k]
  PROVE  SameEnd(ReplayLog(c, sg, s), ReplayLog(c, sg, n), ReplayLog(d, tg, s), ReplayLog(d, tg, n))
<1> DEFINE L(k) == ReplayLog(c, sg, k)
           M(k) == ReplayLog(d, tg, k)
           P(k) == SameEnd(L(s), L(k), M(s), M(k))
           T == {k \in Int : k <= n => P(k)}
<1>0. /\ MaxSegment \in Nat /\ c.upto \in Int /\ d.upto \in Int /\ c.upto >= -1 /\ d.upto >= -1
      /\ s \in Int /\ n \in Int /\ s >= -1 /\ n <= MaxSegment
  BY PrometheusWalAssumption DEF Checkpoints
<1>1. s \in T
  <2>1. L(s) \in Seq(Entry) /\ M(s) \in Seq(Entry)
    BY <1>0, ReplayLogStep
  <2> HIDE DEF L, M
  <2>2. Len(L(s)) \in Nat /\ Len(M(s)) \in Nat
    BY <2>1, LenProperties
  <2> QED BY <1>0, <2>2 DEF SameEnd
<1>2. ASSUME NEW k \in Int, k >= s, k \in T PROVE k + 1 \in T
  <2> SUFFICES ASSUME k + 1 <= n PROVE P(k + 1)
    OBVIOUS
  <2>1. k + 1 \in Segments /\ k + 1 > c.upto /\ k + 1 > d.upto /\ (k + 1) - 1 = k /\ k + 1 \in (s + 1)..n
        /\ k \in -1..MaxSegment
    BY <1>0, <1>2 DEF Segments
  <2>2. Extends(L(k + 1), L(k), sg[k + 1], k + 1)
    BY <2>1, LogExtends
  <2>3. Extends(M(k + 1), M(k), tg[k + 1], k + 1)
    BY <2>1, LogExtends
  <2>4. tg[k + 1] = sg[k + 1]
    BY <2>1
  <2>5. P(k)
    BY <1>0, <1>2
  <2>6. Prefix(L(s), L(k)) /\ Prefix(M(s), M(k))
    BY <1>0, <1>2, <2>1, LogPrefix
  <2> HIDE DEF L, M
  <2>7. /\ Len(L(s)) \in Nat /\ Len(L(k)) \in Nat /\ Len(L(s)) <= Len(L(k))
        /\ Len(M(s)) \in Nat /\ Len(M(k)) \in Nat /\ Len(M(s)) <= Len(M(k))
    BY <2>6 DEF Prefix
  <2> DEFINE z == Len(sg[k + 1])
  <2>8. z \in Nat /\ Len(L(k + 1)) = Len(L(k)) + z /\ Len(M(k + 1)) = Len(M(k)) + z
    BY <2>2, <2>3, <2>4 DEF Extends
  <2>9. Len(M(k)) = Len(M(s)) + (Len(L(k)) - Len(L(s)))
    BY <2>5 DEF SameEnd
  <2> HIDE DEF z
  <2>10. ASSUME NEW i \in 1..(Len(L(k + 1)) - Len(L(s)))
         PROVE  M(k + 1)[Len(M(s)) + i] = L(k + 1)[Len(L(s)) + i]
    <3>1. CASE i <= Len(L(k)) - Len(L(s))
      <4>1. i \in 1..(Len(L(k)) - Len(L(s)))
            /\ Len(M(s)) + i \in 1..Len(M(k)) /\ Len(L(s)) + i \in 1..Len(L(k))
        BY <2>7, <2>8, <2>9, <3>1
      <4>2. M(k)[Len(M(s)) + i] = L(k)[Len(L(s)) + i]
        BY <2>5, <4>1 DEF SameEnd
      <4>3. M(k + 1)[Len(M(s)) + i] = M(k)[Len(M(s)) + i]
        BY <2>3, <4>1 DEF Extends
      <4>4. L(k + 1)[Len(L(s)) + i] = L(k)[Len(L(s)) + i]
        BY <2>2, <4>1 DEF Extends
      <4> QED BY <4>2, <4>3, <4>4
    <3>2. CASE ~(i <= Len(L(k)) - Len(L(s)))
      <4>1. PICK j \in 1..z : i = (Len(L(k)) - Len(L(s))) + j
        <5> DEFINE j == i - (Len(L(k)) - Len(L(s)))
        <5>1. j \in 1..z /\ i = (Len(L(k)) - Len(L(s))) + j
          BY <2>7, <2>8, <3>2
        <5> QED BY <5>1
      <4>2. Len(M(s)) + i = Len(M(k)) + j /\ Len(L(s)) + i = Len(L(k)) + j
        BY <2>7, <2>8, <2>9, <4>1
      <4>3. M(k + 1)[Len(M(k)) + j] = <<tg[k + 1][j], k + 1>>
        BY <2>3, <2>4, <4>1 DEF Extends, z
      <4>4. L(k + 1)[Len(L(k)) + j] = <<sg[k + 1][j], k + 1>>
        BY <2>2, <4>1 DEF Extends, z
      <4> QED BY <2>4, <4>2, <4>3, <4>4
    <3> QED BY <3>1, <3>2
  <2>11. Len(M(k + 1)) = Len(M(s)) + (Len(L(k + 1)) - Len(L(s)))
    BY <2>7, <2>8, <2>9
  <2> QED BY <2>10, <2>11 DEF SameEnd
<1>3. \A k \in Int : k >= s => k \in T
  <2> HIDE DEF T
  <2> QED BY <1>0, <1>1, <1>2, IntInduction
<1>4. P(n)
  BY <1>0, <1>3
<1> QED BY <1>4

-----------------------------------------------------------------------------
(***************************************************************************)
(* What a checkpoint keeps                                                 *)
(***************************************************************************)

LEMMA EntryRecord ==
  ASSUME NEW log \in Seq(Entry), NEW i \in 1..Len(log)
  PROVE  /\ log[i] \in Entry /\ log[i][1] \in Record /\ log[i][2] \in Int
         /\ log[i] = <<log[i][1], log[i][2]>>
<1>1. log[i] \in Entry
  BY ElementOfSeq
<1> QED BY <1>1 DEF Entry

LEMMA KeptChain ==
  ASSUME NEW log \in Seq(Entry)
  PROVE  \E g : /\ g[0] = <<>>
                /\ \A i \in 1..Len(log) :
                     g[i] = IF Stays(log[i][1]) THEN Append(g[i - 1], log[i][1]) ELSE g[i - 1]
                /\ \A i \in 0..Len(log) : g[i] \in Seq(Record)
                /\ Kept(log) = g[Len(log)]
<1>0. Len(log) \in Nat /\ 0 <= Len(log) /\ Len(log) \in Int /\ 0 \in Int
  BY LenProperties
<1> DEFINE n == Len(log)
           Value(q, i) == IF Stays(log[i][1]) THEN Append(q, log[i][1]) ELSE q
           G(h) == [i \in 0..n |-> IF i = 0 THEN <<>> ELSE
                      IF Stays(log[i][1]) THEN Append(h[i - 1], log[i][1]) ELSE h[i - 1]]
           g == CHOOSE h : h = G(h)
           D == ((0 + 1)..n) \X Seq(Record)
           st == [x \in D |-> Value(x[2], x[1])]
<1>1. <<>> \in Seq(Record)
  BY EmptySeq
<1>3. ASSUME NEW q \in Seq(Record), NEW i \in 1..n PROVE Value(q, i) \in Seq(Record)
  <2>1. log[i][1] \in Record
    BY EntryRecord
  <2>2. Append(q, log[i][1]) \in Seq(Record)
    BY <2>1, AppendProperties
  <2> QED BY <2>2
<1>4. st \in [D -> Seq(Record)]
  <2>1. ASSUME NEW x \in D PROVE Value(x[2], x[1]) \in Seq(Record)
    <3>1. x[1] \in 1..n /\ x[2] \in Seq(Record)
      BY <1>0
    <3> HIDE DEF Value, n
    <3> QED BY <1>3, <3>1
  <2> HIDE DEF D, Value
  <2> QED BY <2>1
<1>5. PICK f : Chain(0, n, Seq(Record), <<>>, st, f)
  <2>1. st \in Steps(0, n, Seq(Record))
    BY <1>4 DEF Steps
  <2> HIDE DEF st, D
  <2> QED BY <1>0, <1>1, <2>1, ChainExists
<1>6. ASSUME NEW i \in 0..n PROVE f[i] = G(f)[i]
  <2>1. CASE i = 0
    BY <1>5, <2>1 DEF Chain
  <2>2. CASE i # 0
    <3>1. i \in (0 + 1)..n /\ i - 1 \in 0..n
      BY <1>0, <2>2
    <3>2. f[i - 1] \in Seq(Record) /\ <<i, f[i - 1]>> \in D
      BY <1>5, <3>1 DEF Chain
    <3>3. f[i] = Value(f[i - 1], i)
      <4> HIDE DEF Value, D
      <4> QED BY <1>5, <3>1, <3>2 DEF Chain
    <3> QED BY <2>2, <3>3
  <2> QED BY <2>1, <2>2
<1>7. f = G(f)
  <2>1. G(f) = [i \in 0..n |-> G(f)[i]]
    OBVIOUS
  <2>2. f = [i \in 0..n |-> f[i]]
    BY <1>5 DEF Chain
  <2> HIDE DEF G, n
  <2> QED BY <1>6, <2>1, <2>2
<1>8. g = G(g)
  <2> HIDE DEF G
  <2> QED BY <1>7
<1>9. Kept(log) = g[n]
  BY DEF Kept
<1> HIDE DEF g
<1>10. g[0] = <<>>
  <2>1. 0 \in 0..n
    BY <1>0
  <2> QED BY <1>8, <2>1
<1>11. ASSUME NEW i \in 1..n PROVE g[i] = Value(g[i - 1], i)
  <2>1. i \in 0..n /\ i # 0
    BY <1>0
  <2>2. g[i] = G(g)[i]
    <3> HIDE DEF G
    <3> QED BY <1>8
  <2> HIDE DEF n
  <2> QED BY <2>1, <2>2
<1>12. \A i \in 0..n : g[i] \in Seq(Record)
  <2> DEFINE T == {k \in Nat : k <= n => g[k] \in Seq(Record)}
  <2>1. 0 \in T
    BY <1>1, <1>10
  <2>2. ASSUME NEW k \in Nat, k \in T PROVE k + 1 \in T
    <3> SUFFICES ASSUME k + 1 <= n PROVE g[k + 1] \in Seq(Record)
      OBVIOUS
    <3>1. k + 1 \in 1..n /\ (k + 1) - 1 = k /\ g[k] \in Seq(Record)
      BY <1>0, <2>2
    <3>2. g[k + 1] = Value(g[k], k + 1)
      <4> HIDE DEF Value, n
      <4> QED BY <1>11, <3>1
    <3> HIDE DEF Value
    <3> QED BY <1>3, <3>1, <3>2
  <2>3. Nat \subseteq T
    <3> HIDE DEF T
    <3> QED BY <2>1, <2>2, SetInduction
  <2> QED BY <1>0, <2>3
<1> QED BY <1>9, <1>10, <1>11, <1>12

\* The records kept, in their order, are those that stay.
KeptOf(k, log, n) ==
  /\ k \in Seq(Record)
  /\ \A j \in 1..Len(k) : \E i \in 1..n : k[j] = log[i][1]
  /\ \A j \in 1..Len(k) : \A h \in 1..(j - 1) :
       \E i \in 1..n : k[j] = log[i][1] /\ \E e \in 1..(i - 1) : k[h] = log[e][1]
  /\ \A i \in 1..n : Stays(log[i][1]) => \E j \in 1..Len(k) : k[j] = log[i][1]

LEMMA KeptStep ==
  ASSUME NEW log \in Seq(Entry), NEW n \in Nat, n + 1 \in 1..Len(log), NEW k, KeptOf(k, log, n)
  PROVE  KeptOf(IF Stays(log[n + 1][1]) THEN Append(k, log[n + 1][1]) ELSE k, log, n + 1)
<1> DEFINE x == log[n + 1][1]
<1>0. Len(log) \in Nat /\ k \in Seq(Record) /\ x \in Record
  BY LenProperties, EntryRecord DEF KeptOf
<1>1. Len(k) \in Nat
  BY <1>0, LenProperties
<1> HIDE DEF x
<1>2. CASE Stays(x)
  <2> DEFINE q == Append(k, x)
  <2>1. q \in Seq(Record) /\ Len(q) = Len(k) + 1 /\ (\A i \in 1..Len(k) : q[i] = k[i]) /\ q[Len(k) + 1] = x
    BY <1>0, AppendProperties
  <2> HIDE DEF q
  <2>2. ASSUME NEW j \in 1..Len(q) PROVE \E i \in 1..(n + 1) : q[j] = log[i][1]
    <3>1. CASE j = Len(k) + 1
      <4>1. n + 1 \in 1..(n + 1)
        OBVIOUS
      <4> QED BY <2>1, <3>1, <4>1 DEF x
    <3>2. CASE j # Len(k) + 1
      <4>1. j \in 1..Len(k)
        BY <1>1, <2>1, <3>2
      <4>2. PICK i \in 1..n : k[j] = log[i][1]
        BY <4>1 DEF KeptOf
      <4> QED BY <2>1, <4>1, <4>2
    <3> QED BY <3>1, <3>2
  <2>3. ASSUME NEW j \in 1..Len(q), NEW h \in 1..(j - 1)
        PROVE  \E i \in 1..(n + 1) : q[j] = log[i][1] /\ \E e \in 1..(i - 1) : q[h] = log[e][1]
    <3>1. CASE j = Len(k) + 1
      <4>1. h \in 1..Len(k) /\ n + 1 \in 1..(n + 1) /\ (n + 1) - 1 = n
        BY <1>1, <3>1
      <4>2. PICK e \in 1..n : k[h] = log[e][1]
        BY <4>1 DEF KeptOf
      <4>3. q[h] = log[e][1] /\ e \in 1..((n + 1) - 1)
        BY <2>1, <4>1, <4>2
      <4> QED BY <2>1, <3>1, <4>1, <4>3 DEF x
    <3>2. CASE j # Len(k) + 1
      <4>1. j \in 1..Len(k) /\ h \in 1..Len(k)
        BY <1>1, <2>1, <3>2
      <4>2. PICK i \in 1..n : k[j] = log[i][1] /\ \E e \in 1..(i - 1) : k[h] = log[e][1]
        BY <4>1 DEF KeptOf
      <4>3. i \in 1..(n + 1)
        OBVIOUS
      <4> QED BY <2>1, <4>1, <4>2, <4>3
    <3> QED BY <3>1, <3>2
  <2>4. ASSUME NEW i \in 1..(n + 1), Stays(log[i][1]) PROVE \E j \in 1..Len(q) : q[j] = log[i][1]
    <3>1. CASE i = n + 1
      <4>1. Len(k) + 1 \in 1..Len(q)
        BY <1>1, <2>1
      <4> QED BY <2>1, <3>1, <4>1 DEF x
    <3>2. CASE i # n + 1
      <4>1. i \in 1..n
        BY <3>2
      <4>2. PICK j \in 1..Len(k) : k[j] = log[i][1]
        BY <2>4, <4>1 DEF KeptOf
      <4>3. j \in 1..Len(q)
        BY <1>1, <2>1
      <4> QED BY <2>1, <4>2, <4>3
    <3> QED BY <3>1, <3>2
  <2>5. KeptOf(q, log, n + 1)
    BY <2>1, <2>2, <2>3, <2>4 DEF KeptOf
  <2> QED BY <1>2, <2>5 DEF x, q
<1>3. CASE ~Stays(x)
  <2>1. \A i \in 1..n : i \in 1..(n + 1)
    OBVIOUS
  <2>2. ASSUME NEW i \in 1..(n + 1), Stays(log[i][1]) PROVE i \in 1..n
    BY <1>3, <2>2 DEF x
  <2>3. KeptOf(k, log, n + 1)
    BY <2>1, <2>2 DEF KeptOf
  <2> QED BY <1>3, <2>3 DEF x
<1> QED BY <1>2, <1>3

LEMMA KeptIs ==
  ASSUME NEW log \in Seq(Entry)
  PROVE  KeptOf(Kept(log), log, Len(log))
<1>0. Len(log) \in Nat
  BY LenProperties
<1>1. PICK g : /\ g[0] = <<>>
               /\ \A i \in 1..Len(log) :
                    g[i] = IF Stays(log[i][1]) THEN Append(g[i - 1], log[i][1]) ELSE g[i - 1]
               /\ \A i \in 0..Len(log) : g[i] \in Seq(Record)
               /\ Kept(log) = g[Len(log)]
  BY KeptChain
<1> DEFINE T == {k \in Nat : k <= Len(log) => KeptOf(g[k], log, k)}
<1>2. 0 \in T
  <2>1. g[0] = <<>> /\ <<>> \in Seq(Record) /\ Len(<<>>) = 0
    BY <1>1, EmptySeq
  <2>2. KeptOf(g[0], log, 0)
    BY <2>1 DEF KeptOf
  <2> QED BY <2>2
<1>3. ASSUME NEW k \in Nat, k \in T PROVE k + 1 \in T
  <2> SUFFICES ASSUME k + 1 <= Len(log) PROVE KeptOf(g[k + 1], log, k + 1)
    OBVIOUS
  <2>1. k + 1 \in 1..Len(log) /\ (k + 1) - 1 = k /\ KeptOf(g[k], log, k)
    BY <1>0, <1>3
  <2>2. g[k + 1] = IF Stays(log[k + 1][1]) THEN Append(g[k], log[k + 1][1]) ELSE g[k]
    BY <1>1, <2>1
  <2>3. KeptOf(IF Stays(log[k + 1][1]) THEN Append(g[k], log[k + 1][1]) ELSE g[k], log, k + 1)
    BY <2>1, KeptStep
  <2> QED BY <2>2, <2>3
<1>4. Nat \subseteq T
  <2> HIDE DEF T
  <2> QED BY <1>2, <1>3, SetInduction
<1> QED BY <1>0, <1>1, <1>4

-----------------------------------------------------------------------------
(***************************************************************************)
(* What a replay loads                                                     *)
(***************************************************************************)

LEMMA MaxOfTwo ==
  ASSUME NEW a \in Int, NEW b \in Int
  PROVE  Max({a, b}) = IF a >= b THEN a ELSE b
BY DEF Max

LEMMA RefFacts ==
  /\ None \notin Refs /\ None \notin Labels /\ None \notin Int
  /\ Refs \subseteq Nat /\ MaxRef \in Nat /\ 0 \in 0..MaxRef
  /\ \A r \in Refs : r \in 0..MaxRef /\ r # 0
BY PrometheusWalAssumption DEF Refs

LEMMA EmptyMemoryType ==
  EmptyMemory \in MemoryType
<1>1. [l \in Labels |-> None] \in [Labels -> Refs \cup {None}]
  OBVIOUS
<1>2. [r \in Refs |-> None] \in [Refs -> Labels \cup {None}]
      /\ [r \in Refs |-> None] \in [Refs -> Int \cup {None}]
      /\ [r \in Refs |-> None] \in [Refs -> Refs \cup {None}]
  OBVIOUS
<1>3. [r \in Refs |-> 0] \in [Refs -> Nat]
  OBVIOUS
<1> QED BY <1>1, <1>2, <1>3, RefFacts DEF EmptyMemory, MemoryType

\* The fields of a memory.
LEMMA MemoryFields ==
  ASSUME NEW m \in MemoryType
  PROVE  /\ m.refs \in SUBSET Refs /\ m.hashes \in [Labels -> Refs \cup {None}]
         /\ m.lset \in [Refs -> Labels \cup {None}] /\ m.lastTs \in [Refs -> Nat]
         /\ m.deleted \in [Refs -> Int \cup {None}] /\ m.dup \in [Refs -> Refs \cup {None}]
         /\ m.nextRef \in 0..MaxRef
BY DEF MemoryType

LEMMA KeepUntilIs ==
  ASSUME NEW m \in MemoryType, NEW r \in Refs, NEW s \in Int
  PROVE  /\ keepUntil(m, r, s) \in Int /\ keepUntil(m, r, s) >= s
         /\ m.deleted[r] # None => m.deleted[r] \in Int /\ keepUntil(m, r, s) >= m.deleted[r]
<1>1. m.deleted[r] \in Int \cup {None}
  BY MemoryFields
<1>2. CASE m.deleted[r] = None
  BY <1>2 DEF keepUntil
<1>3. CASE m.deleted[r] # None
  <2>1. m.deleted[r] \in Int /\ keepUntil(m, r, s) = Max({m.deleted[r], s})
    BY <1>1, <1>3 DEF keepUntil
  <2>2. Max({m.deleted[r], s}) = IF m.deleted[r] >= s THEN m.deleted[r] ELSE s
    BY <2>1, MaxOfTwo
  <2> QED BY <2>1, <2>2
<1> QED BY <1>2, <1>3

\* The first series record of a label set.
LEMMA LoadFirst ==
  ASSUME NEW m \in MemoryType, NEW r \in Refs, NEW l \in Labels, NEW s \in Int, m.hashes[l] = None
  PROVE  \E n \in MemoryType :
           /\ n = LoadSeries(m, Series(r, l), s)
           /\ n.refs = m.refs \cup {r} /\ n.hashes = [m.hashes EXCEPT ![l] = r]
           /\ n.lset = [m.lset EXCEPT ![r] = l]
           /\ n.lastTs = m.lastTs /\ n.deleted = m.deleted /\ n.dup = m.dup
           /\ n.nextRef = IF m.nextRef >= r THEN m.nextRef ELSE r
<1> DEFINE x == IF m.nextRef >= r THEN m.nextRef ELSE r
           n == [refs |-> m.refs \cup {r}, hashes |-> [m.hashes EXCEPT ![l] = r],
                 lset |-> [m.lset EXCEPT ![r] = l], lastTs |-> m.lastTs, deleted |-> m.deleted,
                 dup |-> m.dup, nextRef |-> x]
<1>1. x \in 0..MaxRef /\ maxRef(m, r) = x
  <2>1. m.nextRef \in 0..MaxRef /\ r \in 0..MaxRef /\ m.nextRef \in Int /\ r \in Int
    BY MemoryFields, RefFacts
  <2>2. Max({m.nextRef, r}) = x
    BY <2>1, MaxOfTwo
  <2> QED BY <2>1, <2>2 DEF maxRef
<1>2. [m.hashes EXCEPT ![l] = r] \in [Labels -> Refs \cup {None}]
      /\ [m.lset EXCEPT ![r] = l] \in [Refs -> Labels \cup {None}]
      /\ m.refs \cup {r} \in SUBSET Refs
  BY MemoryFields
<1> HIDE DEF x
<1>3. n \in MemoryType
  BY <1>1, <1>2, MemoryFields DEF MemoryType
<1>4. n = LoadSeries(m, Series(r, l), s)
  <2>1. Series(r, l).ref = r /\ Series(r, l).lbl = l
    BY DEF Series
  <2>2. LoadSeries(m, Series(r, l), s) =
          [[m EXCEPT !.nextRef = x] EXCEPT !.refs = @ \cup {r}, !.hashes[l] = r, !.lset[r] = l]
    BY <1>1, <2>1 DEF LoadSeries
  <2> QED BY <2>2 DEF MemoryType
<1> QED BY <1>3, <1>4 DEF x

\* A duplicate.
LEMMA LoadDuplicate ==
  ASSUME NEW m \in MemoryType, NEW r \in Refs, NEW l \in Labels, NEW s \in Int, m.hashes[l] # None
  PROVE  \E n \in MemoryType :
           /\ n = LoadSeries(m, Series(r, l), s)
           /\ n.refs = m.refs /\ n.hashes = m.hashes /\ n.lset = m.lset /\ n.lastTs = m.lastTs
           /\ n.deleted = [m.deleted EXCEPT ![r] = keepUntil(m, r, s)]
           /\ n.dup = [m.dup EXCEPT ![r] = m.hashes[l]]
           /\ n.nextRef = IF m.nextRef >= r THEN m.nextRef ELSE r
<1> DEFINE x == IF m.nextRef >= r THEN m.nextRef ELSE r
           k == keepUntil(m, r, s)
           n == [refs |-> m.refs, hashes |-> m.hashes, lset |-> m.lset, lastTs |-> m.lastTs,
                 deleted |-> [m.deleted EXCEPT ![r] = k],
                 dup |-> [m.dup EXCEPT ![r] = m.hashes[l]], nextRef |-> x]
<1>1. x \in 0..MaxRef /\ maxRef(m, r) = x
  <2>1. m.nextRef \in 0..MaxRef /\ r \in 0..MaxRef /\ m.nextRef \in Int /\ r \in Int
    BY MemoryFields, RefFacts
  <2>2. Max({m.nextRef, r}) = x
    BY <2>1, MaxOfTwo
  <2> QED BY <2>1, <2>2 DEF maxRef
<1>2. k \in Int
  BY KeepUntilIs
<1> HIDE DEF k
<1>3. [m.deleted EXCEPT ![r] = k] \in [Refs -> Int \cup {None}]
      /\ [m.dup EXCEPT ![r] = m.hashes[l]] \in [Refs -> Refs \cup {None}]
  BY <1>2, MemoryFields
<1> HIDE DEF x
<1>4. n \in MemoryType
  BY <1>1, <1>3, MemoryFields DEF MemoryType
<1>5. n = LoadSeries(m, Series(r, l), s)
  <2>1. Series(r, l).ref = r /\ Series(r, l).lbl = l
    BY DEF Series
  <2>2. LoadSeries(m, Series(r, l), s) =
          [[m EXCEPT !.nextRef = x] EXCEPT !.dup[r] = m.hashes[l], !.deleted[r] = k]
    BY <1>1, <2>1 DEF LoadSeries, k
  <2> QED BY <2>2 DEF MemoryType
<1> QED BY <1>4, <1>5 DEF x, k

\* A sample.
LEMMA LoadSampleIs ==
  ASSUME NEW m \in MemoryType, NEW rec \in SampleRecord, NEW s \in Int
  PROVE  \E n \in MemoryType :
           /\ n = LoadSample(m, rec, s)
           /\ n.refs = m.refs /\ n.hashes = m.hashes /\ n.lset = m.lset
           /\ n.dup = m.dup /\ n.nextRef = m.nextRef
           /\ n.deleted = IF m.dup[rec.ref] # None
                            THEN [m.deleted EXCEPT ![rec.ref] = keepUntil(m, rec.ref, s)] ELSE m.deleted
           /\ n.lastTs = IF validRef(m, rec.ref) \in m.refs /\ rec.t > m.lastTs[validRef(m, rec.ref)]
                           THEN [m.lastTs EXCEPT ![validRef(m, rec.ref)] = rec.t] ELSE m.lastTs
<1> DEFINE r == rec.ref
           v == validRef(m, r)
           k == keepUntil(m, r, s)
           del == IF m.dup[r] # None THEN [m.deleted EXCEPT ![r] = k] ELSE m.deleted
           ts == IF v \in m.refs /\ rec.t > m.lastTs[v] THEN [m.lastTs EXCEPT ![v] = rec.t] ELSE m.lastTs
           n == [refs |-> m.refs, hashes |-> m.hashes, lset |-> m.lset, lastTs |-> ts,
                 deleted |-> del, dup |-> m.dup, nextRef |-> m.nextRef]
<1>0. r \in Refs /\ rec.t \in Nat
  BY PrometheusWalAssumption DEF SampleRecord, Times
<1>1. k \in Int
  BY <1>0, KeepUntilIs
<1>2. v \in Refs
  BY <1>0, MemoryFields DEF validRef
<1>3. LoadSample(m, rec, s) =
        IF v \in m.refs /\ rec.t > m.lastTs[v]
          THEN [(IF m.dup[r] # None THEN [m EXCEPT !.deleted[r] = k] ELSE m) EXCEPT !.lastTs[v] = rec.t]
          ELSE IF m.dup[r] # None THEN [m EXCEPT !.deleted[r] = k] ELSE m
  BY DEF LoadSample
<1> HIDE DEF k, v, r
<1>4. ts \in [Refs -> Nat] /\ del \in [Refs -> Int \cup {None}]
  BY <1>0, <1>1, <1>2, MemoryFields
<1>5. n = LoadSample(m, rec, s)
  <2>1. CASE v \in m.refs /\ rec.t > m.lastTs[v] /\ m.dup[r] # None
    BY <1>3, <2>1 DEF MemoryType
  <2>2. CASE v \in m.refs /\ rec.t > m.lastTs[v] /\ m.dup[r] = None
    BY <1>3, <2>2 DEF MemoryType
  <2>3. CASE ~(v \in m.refs /\ rec.t > m.lastTs[v]) /\ m.dup[r] # None
    BY <1>3, <2>3 DEF MemoryType
  <2>4. CASE ~(v \in m.refs /\ rec.t > m.lastTs[v]) /\ m.dup[r] = None
    BY <1>3, <2>4 DEF MemoryType
  <2> QED BY <2>1, <2>2, <2>3, <2>4
<1> HIDE DEF ts, del
<1>6. n \in MemoryType
  BY <1>4, MemoryFields DEF MemoryType
<1> QED BY <1>5, <1>6 DEF ts, del, r, v, k

\* Of the first n entries of a log: there is a series record of r with labels l; there is
\* a sample with timestamp t behind a series record of the same reference with labels l;
\* there is a sample of r in segment s behind a series record of r.
HasSeries(log, n, r, l) == \E i \in 1..n : log[i][1] = Series(r, l)
HasSample(log, n, l, t) ==
  \E k \in 1..n : /\ log[k][1].kind = "sample" /\ log[k][1].t = t
                  /\ HasSeries(log, k - 1, log[k][1].ref, l)
Waits(log, n, r, s) ==
  \E k \in 1..n : /\ log[k][1].kind = "sample" /\ log[k][1].ref = r /\ log[k][2] = s
                  /\ \E l \in Labels : HasSeries(log, k - 1, r, l)

\* What has been loaded from the first n entries.
Loaded(m, log, n, own) ==
  /\ m \in MemoryType
  /\ \A l \in Labels : m.hashes[l] = None => \A r \in Refs : ~HasSeries(log, n, r, l)
  /\ \A l \in Labels : m.hashes[l] # None => m.hashes[l] \in m.refs /\ m.lset[m.hashes[l]] = l
  /\ \A r \in m.refs : /\ m.lset[r] \in Labels /\ own[r] = m.lset[r]
                       /\ m.hashes[m.lset[r]] = r /\ HasSeries(log, n, r, m.lset[r])
  /\ \A r \in Refs : m.dup[r] # None =>
       own[r] \in Labels /\ HasSeries(log, n, r, own[r]) /\ m.dup[r] = m.hashes[own[r]]
  /\ \A r \in Refs, l \in Labels : HasSeries(log, n, r, l) =>
       own[r] = l /\ r <= m.nextRef /\ (r \in m.refs \/ m.dup[r] # None)
  /\ \A r \in Refs, s \in Int : Waits(log, n, r, s) =>
       r \in m.refs \/ (m.dup[r] # None /\ m.deleted[r] \in Int /\ m.deleted[r] >= s)
  /\ \A r \in Refs : r \notin m.refs => m.lastTs[r] = 0
  /\ \A l \in Labels : m.hashes[l] # None =>
       /\ \A t \in Nat : HasSample(log, n, l, t) => t <= m.lastTs[m.hashes[l]]
       /\ m.lastTs[m.hashes[l]] = 0 \/ HasSample(log, n, l, m.lastTs[m.hashes[l]])

LEMMA SeriesEntry ==
  ASSUME NEW log \in Seq(Entry), NEW i \in 1..Len(log), log[i][1].kind = "series"
  PROVE  /\ log[i][1] = Series(log[i][1].ref, log[i][1].lbl)
         /\ log[i][1].ref \in Refs /\ log[i][1].lbl \in Labels
<1>1. log[i][1] \in Record
  BY EntryRecord
<1>2. log[i][1] \in SeriesRecord
  BY <1>1 DEF Record, SeriesRecord, MetadataRecord, SampleRecord
<1> QED BY <1>2 DEF SeriesRecord, Series

LEMMA SampleEntry ==
  ASSUME NEW log \in Seq(Entry), NEW i \in 1..Len(log), log[i][1].kind = "sample"
  PROVE  /\ log[i][1] \in SampleRecord /\ log[i][1].ref \in Refs /\ log[i][1].lbl \in Labels
         /\ log[i][1].t \in Nat /\ log[i][1].t \in Times
<1>1. log[i][1] \in Record
  BY EntryRecord
<1>2. log[i][1] \in SampleRecord
  BY <1>1 DEF Record, SeriesRecord, MetadataRecord, SampleRecord
<1> QED BY <1>2, PrometheusWalAssumption DEF SampleRecord, Times

LEMMA SeriesFields ==
  ASSUME NEW r, NEW l
  PROVE  Series(r, l).kind = "series" /\ Series(r, l).ref = r /\ Series(r, l).lbl = l
BY DEF Series

\* One entry more.
LEMMA HasSeriesStep ==
  ASSUME NEW log, NEW n \in Nat, NEW r, NEW l
  PROVE  HasSeries(log, n + 1, r, l) <=> HasSeries(log, n, r, l) \/ log[n + 1][1] = Series(r, l)
<1>1. \A i : i \in 1..(n + 1) <=> i \in 1..n \/ i = n + 1
  OBVIOUS
<1> QED BY <1>1 DEF HasSeries

LEMMA HasSampleStep ==
  ASSUME NEW log, NEW n \in Nat, NEW l, NEW t
  PROVE  HasSample(log, n + 1, l, t) <=>
           \/ HasSample(log, n, l, t)
           \/ /\ log[n + 1][1].kind = "sample" /\ log[n + 1][1].t = t
              /\ HasSeries(log, n, log[n + 1][1].ref, l)
<1>1. (\A i : i \in 1..(n + 1) <=> i \in 1..n \/ i = n + 1) /\ (n + 1) - 1 = n
  OBVIOUS
<1> QED BY <1>1 DEF HasSample

LEMMA WaitsStep ==
  ASSUME NEW log, NEW n \in Nat, NEW r, NEW s
  PROVE  Waits(log, n + 1, r, s) <=>
           \/ Waits(log, n, r, s)
           \/ /\ log[n + 1][1].kind = "sample" /\ log[n + 1][1].ref = r /\ log[n + 1][2] = s
              /\ \E l \in Labels : HasSeries(log, n, r, l)
<1>1. (\A i : i \in 1..(n + 1) <=> i \in 1..n \/ i = n + 1) /\ (n + 1) - 1 = n
  OBVIOUS
<1> QED BY <1>1 DEF Waits

LEMMA LoadedInit ==
  ASSUME NEW log, NEW own
  PROVE  Loaded(EmptyMemory, log, 0, own)
<1>1. \A r, l, t : ~HasSeries(log, 0, r, l) /\ ~HasSample(log, 0, l, t) /\ ~Waits(log, 0, r, t)
  BY DEF HasSeries, HasSample, Waits
<1>2. /\ EmptyMemory.refs = {} /\ \A l \in Labels : EmptyMemory.hashes[l] = None
      /\ \A r \in Refs : EmptyMemory.lastTs[r] = 0 /\ EmptyMemory.dup[r] = None
  BY DEF EmptyMemory
<1> QED BY <1>1, <1>2, EmptyMemoryType DEF Loaded

LEMMA LoadedSeries ==
  ASSUME NEW log \in Seq(Entry), NEW n \in Nat, n + 1 \in 1..Len(log), NEW own,
         log[n + 1][1].kind = "series", own[log[n + 1][1].ref] = log[n + 1][1].lbl,
         NEW m, Loaded(m, log, n, own)
  PROVE  Loaded(Load(m, log[n + 1]), log, n + 1, own)
<1>0. PICK r0 \in Refs, l0 \in Labels, s0 \in Int :
        /\ log[n + 1][1] = Series(r0, l0) /\ log[n + 1][2] = s0 /\ own[r0] = l0
        /\ log[n + 1][1].kind # "sample"
  BY SeriesEntry, EntryRecord
<1>1. \A r, l : HasSeries(log, n + 1, r, l) <=> HasSeries(log, n, r, l) \/ (r = r0 /\ l = l0)
  <2>1. ASSUME NEW r, NEW l, log[n + 1][1] = Series(r, l) PROVE r = r0 /\ l = l0
    <3>1. Series(r, l).ref = Series(r0, l0).ref /\ Series(r, l).lbl = Series(r0, l0).lbl
      BY <1>0, <2>1
    <3> QED BY <3>1, SeriesFields
  <2> QED BY <1>0, <2>1, HasSeriesStep
<1>2. (\A l, t : HasSample(log, n + 1, l, t) <=> HasSample(log, n, l, t))
      /\ \A r, s : Waits(log, n + 1, r, s) <=> Waits(log, n, r, s)
  BY <1>0, HasSampleStep, WaitsStep
<1>3. Load(m, log[n + 1]) = LoadSeries(m, Series(r0, l0), s0)
  BY <1>0 DEF Load
<1>4. m \in MemoryType
  BY DEF Loaded
<1>5. CASE m.hashes[l0] = None
  <2>1. PICK w \in MemoryType :
           /\ w = Load(m, log[n + 1])
           /\ w.refs = m.refs \cup {r0} /\ w.hashes = [m.hashes EXCEPT ![l0] = r0]
           /\ w.lset = [m.lset EXCEPT ![r0] = l0]
           /\ w.lastTs = m.lastTs /\ w.deleted = m.deleted /\ w.dup = m.dup
           /\ w.nextRef = IF m.nextRef >= r0 THEN m.nextRef ELSE r0
    BY <1>3, <1>4, <1>5, LoadFirst
  <2>2. /\ \A l \in Labels : w.hashes[l] = IF l = l0 THEN r0 ELSE m.hashes[l]
        /\ \A r \in Refs : w.lset[r] = IF r = r0 THEN l0 ELSE m.lset[r]
    BY <1>4, <2>1, MemoryFields
  <2>3. r0 \notin m.refs
    BY <1>0, <1>5, RefFacts, MemoryFields, <1>4 DEF Loaded
  <2>4. m.nextRef \in Nat /\ r0 \in Nat /\ w.nextRef >= m.nextRef /\ w.nextRef >= r0
    BY <1>4, <2>1, MemoryFields, RefFacts
  <2>5. \A l \in Labels : w.hashes[l] = None => \A r \in Refs : ~HasSeries(log, n + 1, r, l)
    BY <1>1, <2>2, RefFacts DEF Loaded
  <2>6. \A l \in Labels : w.hashes[l] # None => w.hashes[l] \in w.refs /\ w.lset[w.hashes[l]] = l
    <3> SUFFICES ASSUME NEW l \in Labels, w.hashes[l] # None
                 PROVE  w.hashes[l] \in w.refs /\ w.lset[w.hashes[l]] = l
      OBVIOUS
    <3>1. CASE l = l0
      BY <2>1, <2>2, <3>1
    <3>2. CASE l # l0
      <4>1. w.hashes[l] = m.hashes[l] /\ m.hashes[l] \in m.refs /\ m.lset[m.hashes[l]] = l
        BY <2>2, <3>2 DEF Loaded
      <4>2. m.hashes[l] # r0 /\ m.hashes[l] \in Refs
        BY <2>3, <4>1, <1>4, MemoryFields
      <4> QED BY <2>1, <2>2, <4>1, <4>2
    <3> QED BY <3>1, <3>2
  <2>7. \A r \in w.refs : /\ w.lset[r] \in Labels /\ own[r] = w.lset[r]
                          /\ w.hashes[w.lset[r]] = r /\ HasSeries(log, n + 1, r, w.lset[r])
    <3> TAKE r \in w.refs
    <3>1. CASE r = r0
      BY <1>0, <1>1, <2>2, <3>1
    <3>2. CASE r # r0
      <4>1. r \in m.refs /\ r \in Refs
        BY <2>1, <3>2, <1>4, MemoryFields
      <4>2. w.lset[r] = m.lset[r] /\ m.lset[r] \in Labels /\ own[r] = m.lset[r] /\ m.hashes[m.lset[r]] = r
            /\ HasSeries(log, n, r, m.lset[r])
        BY <2>2, <3>2, <4>1 DEF Loaded
      <4>3. m.lset[r] # l0
        BY <1>5, <4>1, <4>2, RefFacts
      <4> QED BY <1>1, <2>2, <4>2, <4>3
    <3> QED BY <3>1, <3>2
  <2>8. \A r \in Refs : w.dup[r] # None =>
          own[r] \in Labels /\ HasSeries(log, n + 1, r, own[r]) /\ w.dup[r] = w.hashes[own[r]]
    <3> SUFFICES ASSUME NEW r \in Refs, w.dup[r] # None
                 PROVE  own[r] \in Labels /\ HasSeries(log, n + 1, r, own[r]) /\ w.dup[r] = w.hashes[own[r]]
      OBVIOUS
    <3>1. own[r] \in Labels /\ HasSeries(log, n, r, own[r]) /\ m.dup[r] = m.hashes[own[r]] /\ w.dup[r] = m.dup[r]
      BY <2>1 DEF Loaded
    <3>2. own[r] # l0
      BY <1>5, <3>1
    <3> QED BY <1>1, <2>2, <3>1, <3>2
  <2>9. \A r \in Refs, l \in Labels : HasSeries(log, n + 1, r, l) =>
          own[r] = l /\ r <= w.nextRef /\ (r \in w.refs \/ w.dup[r] # None)
    <3> SUFFICES ASSUME NEW r \in Refs, NEW l \in Labels, HasSeries(log, n + 1, r, l)
                 PROVE  own[r] = l /\ r <= w.nextRef /\ (r \in w.refs \/ w.dup[r] # None)
      OBVIOUS
    <3>1. CASE r = r0 /\ l = l0
      BY <1>0, <2>1, <2>4, <3>1
    <3>2. CASE HasSeries(log, n, r, l)
      <4>1. own[r] = l /\ r <= m.nextRef /\ (r \in m.refs \/ m.dup[r] # None)
        BY <3>2 DEF Loaded
      <4>2. r \in Nat /\ w.nextRef \in Nat
        BY <2>1, <2>4, RefFacts
      <4>3. r <= w.nextRef
        BY <2>4, <4>1, <4>2
      <4> QED BY <2>1, <4>1, <4>3
    <3> QED BY <1>1, <3>1, <3>2
  <2>10. \A r \in Refs, s \in Int : Waits(log, n + 1, r, s) =>
           r \in w.refs \/ (w.dup[r] # None /\ w.deleted[r] \in Int /\ w.deleted[r] >= s)
    BY <1>2, <2>1 DEF Loaded
  <2>11. \A r \in Refs : r \notin w.refs => w.lastTs[r] = 0
    BY <2>1 DEF Loaded
  <2>12. \A l \in Labels : w.hashes[l] # None =>
           /\ \A t \in Nat : HasSample(log, n + 1, l, t) => t <= w.lastTs[w.hashes[l]]
           /\ w.lastTs[w.hashes[l]] = 0 \/ HasSample(log, n + 1, l, w.lastTs[w.hashes[l]])
    <3> SUFFICES ASSUME NEW l \in Labels, w.hashes[l] # None
                 PROVE  /\ \A t \in Nat : HasSample(log, n + 1, l, t) => t <= w.lastTs[w.hashes[l]]
                        /\ w.lastTs[w.hashes[l]] = 0 \/ HasSample(log, n + 1, l, w.lastTs[w.hashes[l]])
      OBVIOUS
    <3>1. CASE l = l0
      <4>1. w.lastTs[w.hashes[l]] = 0
        BY <2>1, <2>2, <2>3, <3>1 DEF Loaded
      <4>2. ASSUME NEW t, HasSample(log, n, l0, t) PROVE FALSE
        <5>1. PICK k \in 1..n : log[k][1].kind = "sample" /\ HasSeries(log, k - 1, log[k][1].ref, l0)
          BY <4>2 DEF HasSample
        <5>2. k \in 1..Len(log)
          <6>1. Len(log) \in Nat
            BY LenProperties
          <6> QED BY <6>1
        <5>3. log[k][1].ref \in Refs
          BY <5>1, <5>2, SampleEntry
        <5>4. HasSeries(log, n, log[k][1].ref, l0)
          <6>1. \A i \in 1..(k - 1) : i \in 1..n
            OBVIOUS
          <6> QED BY <5>1, <6>1 DEF HasSeries
        <5> QED BY <1>5, <5>3, <5>4 DEF Loaded
      <4> QED BY <1>2, <3>1, <4>1, <4>2
    <3>2. CASE l # l0
      <4>1. w.hashes[l] = m.hashes[l] /\ w.lastTs = m.lastTs
        BY <2>1, <2>2, <3>2
      <4> QED BY <1>2, <4>1 DEF Loaded
    <3> QED BY <3>1, <3>2
  <2>13. Loaded(w, log, n + 1, own)
    BY <2>5, <2>6, <2>7, <2>8, <2>9, <2>10, <2>11, <2>12, Zenon DEF Loaded
  <2> QED BY <2>1, <2>13
<1>6. CASE m.hashes[l0] # None
  <2>1. PICK w \in MemoryType :
           /\ w = Load(m, log[n + 1])
           /\ w.refs = m.refs /\ w.hashes = m.hashes /\ w.lset = m.lset /\ w.lastTs = m.lastTs
           /\ w.deleted = [m.deleted EXCEPT ![r0] = keepUntil(m, r0, s0)]
           /\ w.dup = [m.dup EXCEPT ![r0] = m.hashes[l0]]
           /\ w.nextRef = IF m.nextRef >= r0 THEN m.nextRef ELSE r0
    BY <1>3, <1>4, <1>6, LoadDuplicate
  <2>2. /\ \A r \in Refs : w.dup[r] = IF r = r0 THEN m.hashes[l0] ELSE m.dup[r]
        /\ \A r \in Refs : w.deleted[r] = IF r = r0 THEN keepUntil(m, r0, s0) ELSE m.deleted[r]
    BY <1>4, <2>1, MemoryFields
  <2>3. m.hashes[l0] \in Refs
    BY <1>4, <1>6, MemoryFields
  <2>4. m.nextRef \in Nat /\ r0 \in Nat /\ w.nextRef >= m.nextRef /\ w.nextRef >= r0
    BY <1>4, <2>1, MemoryFields, RefFacts
  <2>5. \A l \in Labels : w.hashes[l] = None => \A r \in Refs : ~HasSeries(log, n + 1, r, l)
    BY <1>1, <1>6, <2>1 DEF Loaded
  <2>6. \A l \in Labels : w.hashes[l] # None => w.hashes[l] \in w.refs /\ w.lset[w.hashes[l]] = l
    BY <2>1 DEF Loaded
  <2>7. \A r \in w.refs : /\ w.lset[r] \in Labels /\ own[r] = w.lset[r]
                          /\ w.hashes[w.lset[r]] = r /\ HasSeries(log, n + 1, r, w.lset[r])
    BY <1>1, <2>1 DEF Loaded
  <2>8. \A r \in Refs : w.dup[r] # None =>
          own[r] \in Labels /\ HasSeries(log, n + 1, r, own[r]) /\ w.dup[r] = w.hashes[own[r]]
    <3> SUFFICES ASSUME NEW r \in Refs, w.dup[r] # None
                 PROVE  own[r] \in Labels /\ HasSeries(log, n + 1, r, own[r]) /\ w.dup[r] = w.hashes[own[r]]
      OBVIOUS
    <3>1. CASE r = r0
      BY <1>0, <1>1, <2>1, <2>2, <3>1
    <3>2. CASE r # r0
      <4>1. w.dup[r] = m.dup[r]
        BY <2>2, <3>2
      <4>2. own[r] \in Labels /\ HasSeries(log, n, r, own[r]) /\ m.dup[r] = m.hashes[own[r]]
        BY <4>1 DEF Loaded
      <4> QED BY <1>1, <2>1, <4>1, <4>2
    <3> QED BY <3>1, <3>2
  <2>9. \A r \in Refs, l \in Labels : HasSeries(log, n + 1, r, l) =>
          own[r] = l /\ r <= w.nextRef /\ (r \in w.refs \/ w.dup[r] # None)
    <3> SUFFICES ASSUME NEW r \in Refs, NEW l \in Labels, HasSeries(log, n + 1, r, l)
                 PROVE  own[r] = l /\ r <= w.nextRef /\ (r \in w.refs \/ w.dup[r] # None)
      OBVIOUS
    <3>1. CASE r = r0 /\ l = l0
      BY <1>0, <1>6, <2>2, <2>4, <3>1
    <3>2. CASE HasSeries(log, n, r, l)
      <4>1. own[r] = l /\ r <= m.nextRef /\ (r \in m.refs \/ m.dup[r] # None)
        BY <3>2 DEF Loaded
      <4>2. r \in Nat /\ w.nextRef \in Nat
        BY <2>1, <2>4, RefFacts
      <4>3. r <= w.nextRef
        BY <2>4, <4>1, <4>2
      <4>4. m.dup[r] # None => w.dup[r] # None
        BY <1>6, <2>2
      <4> QED BY <2>1, <4>1, <4>3, <4>4
    <3> QED BY <1>1, <3>1, <3>2
  <2>10. \A r \in Refs, s \in Int : Waits(log, n + 1, r, s) =>
           r \in w.refs \/ (w.dup[r] # None /\ w.deleted[r] \in Int /\ w.deleted[r] >= s)
    <3> SUFFICES ASSUME NEW r \in Refs, NEW s \in Int, Waits(log, n + 1, r, s), r \notin w.refs
                 PROVE  w.dup[r] # None /\ w.deleted[r] \in Int /\ w.deleted[r] >= s
      OBVIOUS
    <3>1. m.dup[r] # None /\ m.deleted[r] \in Int /\ m.deleted[r] >= s
      BY <1>2, <2>1 DEF Loaded
    <3>2. CASE r = r0
      <4>1. w.dup[r] # None /\ w.deleted[r] = keepUntil(m, r0, s0)
        BY <1>6, <2>2, <3>2
      <4>2. m.deleted[r] # None
        BY <3>1, RefFacts
      <4>3. keepUntil(m, r0, s0) \in Int /\ keepUntil(m, r0, s0) >= m.deleted[r]
        BY <1>4, <3>2, <4>2, KeepUntilIs
      <4> QED BY <3>1, <4>1, <4>3
    <3>3. CASE r # r0
      BY <2>2, <3>1, <3>3
    <3> QED BY <3>2, <3>3
  <2>11. \A r \in Refs : r \notin w.refs => w.lastTs[r] = 0
    BY <2>1 DEF Loaded
  <2>12. \A l \in Labels : w.hashes[l] # None =>
           /\ \A t \in Nat : HasSample(log, n + 1, l, t) => t <= w.lastTs[w.hashes[l]]
           /\ w.lastTs[w.hashes[l]] = 0 \/ HasSample(log, n + 1, l, w.lastTs[w.hashes[l]])
    BY <1>2, <2>1 DEF Loaded
  <2>13. Loaded(w, log, n + 1, own)
    BY <2>5, <2>6, <2>7, <2>8, <2>9, <2>10, <2>11, <2>12, Zenon DEF Loaded
  <2> QED BY <2>1, <2>13
<1> QED BY <1>5, <1>6

LEMMA LoadedSample ==
  ASSUME NEW log \in Seq(Entry), NEW n \in Nat, n + 1 \in 1..Len(log), NEW own,
         log[n + 1][1].kind = "sample", NEW m, Loaded(m, log, n, own)
  PROVE  Loaded(Load(m, log[n + 1]), log, n + 1, own)
<1>0. PICK r0 \in Refs, t0 \in Nat, s0 \in Int :
        /\ log[n + 1][1] \in SampleRecord /\ log[n + 1][1].ref = r0 /\ log[n + 1][1].t = t0
        /\ log[n + 1][2] = s0 /\ log[n + 1][1].kind # "series"
  BY SampleEntry, EntryRecord
<1>1. \A r, l : HasSeries(log, n + 1, r, l) <=> HasSeries(log, n, r, l)
  <2>1. ASSUME NEW r, NEW l PROVE log[n + 1][1] # Series(r, l)
    BY <1>0, SeriesFields
  <2> QED BY <2>1, HasSeriesStep
<1>2. \A l, t : HasSample(log, n + 1, l, t) <=> HasSample(log, n, l, t) \/ (t = t0 /\ HasSeries(log, n, r0, l))
  BY <1>0, HasSampleStep
<1>3. \A r, s : Waits(log, n + 1, r, s) <=>
        Waits(log, n, r, s) \/ (r = r0 /\ s = s0 /\ \E l \in Labels : HasSeries(log, n, r0, l))
  BY <1>0, WaitsStep
<1>4. m \in MemoryType
  BY DEF Loaded
<1> DEFINE v == validRef(m, r0)
<1>5. PICK w \in MemoryType :
        /\ w = Load(m, log[n + 1])
        /\ w.refs = m.refs /\ w.hashes = m.hashes /\ w.lset = m.lset
        /\ w.dup = m.dup /\ w.nextRef = m.nextRef
        /\ w.deleted = IF m.dup[r0] # None
                         THEN [m.deleted EXCEPT ![r0] = keepUntil(m, r0, s0)] ELSE m.deleted
        /\ w.lastTs = IF v \in m.refs /\ t0 > m.lastTs[v] THEN [m.lastTs EXCEPT ![v] = t0] ELSE m.lastTs
  <2>1. Load(m, log[n + 1]) = LoadSample(m, log[n + 1][1], s0)
    BY <1>0 DEF Load
  <2> QED BY <1>0, <1>4, <2>1, LoadSampleIs
\* v is the reference under which the labels of r0 are stored.
<1>6. v \in m.refs => own[r0] \in Labels /\ HasSeries(log, n, r0, own[r0]) /\ v = m.hashes[own[r0]]
  <2>1. CASE m.dup[r0] # None
    BY <2>1 DEF validRef, Loaded
  <2>2. CASE m.dup[r0] = None
    BY <2>2 DEF validRef, Loaded
  <2> QED BY <2>1, <2>2
<1>7. ASSUME NEW l \in Labels, HasSeries(log, n, r0, l)
      PROVE  own[r0] = l /\ v = m.hashes[l] /\ v \in m.refs /\ v \in Refs
  <2>1. own[r0] = l /\ (r0 \in m.refs \/ m.dup[r0] # None)
    BY <1>7 DEF Loaded
  <2>2. m.hashes[l] # None
    BY <1>7 DEF Loaded
  <2>3. m.hashes[l] \in m.refs /\ m.hashes[l] \in Refs
    BY <1>4, <2>2, MemoryFields DEF Loaded
  <2>4. CASE m.dup[r0] # None
    BY <2>1, <2>3, <2>4 DEF validRef, Loaded
  <2>5. CASE m.dup[r0] = None
    <3>1. r0 \in m.refs
      BY <2>1, <2>5
    <3>2. own[r0] = m.lset[r0] /\ m.hashes[m.lset[r0]] = r0
      BY <3>1 DEF Loaded
    <3> QED BY <2>1, <2>3, <2>5, <3>1, <3>2 DEF validRef
  <2> QED BY <2>4, <2>5
<1> HIDE DEF v
<1>8. /\ \A r \in Refs : v \in m.refs /\ t0 > m.lastTs[v] => w.lastTs[r] = IF r = v THEN t0 ELSE m.lastTs[r]
      /\ ~(v \in m.refs /\ t0 > m.lastTs[v]) => w.lastTs = m.lastTs
      /\ \A r \in Refs : m.lastTs[r] \in Nat
  BY <1>4, <1>5, MemoryFields
<1>9. \A l \in Labels : w.hashes[l] = None => \A r \in Refs : ~HasSeries(log, n + 1, r, l)
  BY <1>1, <1>5 DEF Loaded
<1>10. \A l \in Labels : w.hashes[l] # None => w.hashes[l] \in w.refs /\ w.lset[w.hashes[l]] = l
  BY <1>5 DEF Loaded
<1>11. \A r \in w.refs : /\ w.lset[r] \in Labels /\ own[r] = w.lset[r]
                         /\ w.hashes[w.lset[r]] = r /\ HasSeries(log, n + 1, r, w.lset[r])
  BY <1>1, <1>5 DEF Loaded
<1>12. \A r \in Refs : w.dup[r] # None =>
         own[r] \in Labels /\ HasSeries(log, n + 1, r, own[r]) /\ w.dup[r] = w.hashes[own[r]]
  BY <1>1, <1>5 DEF Loaded
<1>13. \A r \in Refs, l \in Labels : HasSeries(log, n + 1, r, l) =>
         own[r] = l /\ r <= w.nextRef /\ (r \in w.refs \/ w.dup[r] # None)
  BY <1>1, <1>5 DEF Loaded
<1>14. \A r \in Refs, s \in Int : Waits(log, n + 1, r, s) =>
         r \in w.refs \/ (w.dup[r] # None /\ w.deleted[r] \in Int /\ w.deleted[r] >= s)
  <2> SUFFICES ASSUME NEW r \in Refs, NEW s \in Int, Waits(log, n + 1, r, s), r \notin w.refs
               PROVE  w.dup[r] # None /\ w.deleted[r] \in Int /\ w.deleted[r] >= s
    OBVIOUS
  <2>1. CASE Waits(log, n, r, s)
    <3>1. m.dup[r] # None /\ m.deleted[r] \in Int /\ m.deleted[r] >= s
      BY <1>5, <2>1 DEF Loaded
    <3>2. CASE r = r0
      <4>1. w.deleted[r] = keepUntil(m, r0, s0)
        BY <1>4, <1>5, <3>1, <3>2, MemoryFields
      <4>2. m.deleted[r] # None
        BY <3>1, RefFacts
      <4>3. keepUntil(m, r0, s0) \in Int /\ keepUntil(m, r0, s0) >= m.deleted[r]
        BY <1>4, <3>2, <4>2, KeepUntilIs
      <4> QED BY <1>5, <3>1, <4>1, <4>3
    <3>3. CASE r # r0
      <4>1. w.deleted[r] = m.deleted[r]
        BY <1>4, <1>5, <3>3, MemoryFields
      <4> QED BY <1>5, <3>1, <4>1
    <3> QED BY <3>2, <3>3
  <2>2. CASE r = r0 /\ s = s0 /\ \E l \in Labels : HasSeries(log, n, r0, l)
    <3>1. m.dup[r] # None
      BY <1>5, <2>2 DEF Loaded
    <3>2. w.deleted[r] = keepUntil(m, r0, s0)
      BY <1>4, <1>5, <2>2, <3>1, MemoryFields
    <3>3. keepUntil(m, r0, s0) \in Int /\ keepUntil(m, r0, s0) >= s0
      BY <1>4, KeepUntilIs
    <3> QED BY <1>5, <2>2, <3>1, <3>2, <3>3
  <2> QED BY <1>3, <2>1, <2>2
<1>15. \A r \in Refs : r \notin w.refs => w.lastTs[r] = 0
  <2> SUFFICES ASSUME NEW r \in Refs, r \notin w.refs PROVE w.lastTs[r] = 0
    OBVIOUS
  <2>1. m.lastTs[r] = 0 /\ r \notin m.refs
    BY <1>5 DEF Loaded
  <2> QED BY <1>8, <2>1
<1>16. \A l \in Labels : w.hashes[l] # None =>
         /\ \A t \in Nat : HasSample(log, n + 1, l, t) => t <= w.lastTs[w.hashes[l]]
         /\ w.lastTs[w.hashes[l]] = 0 \/ HasSample(log, n + 1, l, w.lastTs[w.hashes[l]])
  <2> SUFFICES ASSUME NEW l \in Labels, w.hashes[l] # None
               PROVE  /\ \A t \in Nat : HasSample(log, n + 1, l, t) => t <= w.lastTs[w.hashes[l]]
                      /\ w.lastTs[w.hashes[l]] = 0 \/ HasSample(log, n + 1, l, w.lastTs[w.hashes[l]])
    OBVIOUS
  <2>0. PICK h \in Refs : h = w.hashes[l] /\ h = m.hashes[l] /\ h \in m.refs /\ m.lset[h] = l
    BY <1>4, <1>5, MemoryFields DEF Loaded
  <2>1. /\ \A t \in Nat : HasSample(log, n, l, t) => t <= m.lastTs[h]
        /\ m.lastTs[h] = 0 \/ HasSample(log, n, l, m.lastTs[h])
    BY <2>0, RefFacts DEF Loaded
  <2>2. CASE HasSeries(log, n, r0, l)
    <3>1. v = h /\ v \in m.refs
      BY <1>7, <2>0, <2>2
    <3>2. \A t : HasSample(log, n + 1, l, t) <=> HasSample(log, n, l, t) \/ t = t0
      BY <1>2, <2>2
    <3>3. CASE t0 > m.lastTs[h]
      <4>1. w.lastTs[h] = t0
        BY <1>8, <3>1, <3>3
      <4>2. ASSUME NEW t \in Nat, HasSample(log, n + 1, l, t) PROVE t <= t0
        <5>1. t = t0 \/ t <= m.lastTs[h]
          BY <2>1, <3>2, <4>2
        <5> QED BY <1>8, <3>3, <5>1
      <4> QED BY <2>0, <3>2, <4>1, <4>2
    <3>4. CASE ~(t0 > m.lastTs[h])
      <4>1. w.lastTs[h] = m.lastTs[h]
        BY <1>8, <3>1, <3>4
      <4>2. ASSUME NEW t \in Nat, HasSample(log, n + 1, l, t) PROVE t <= m.lastTs[h]
        <5>1. t = t0 \/ t <= m.lastTs[h]
          BY <2>1, <3>2, <4>2
        <5> QED BY <1>8, <3>4, <5>1
      <4> QED BY <2>0, <2>1, <3>2, <4>1, <4>2
    <3> QED BY <3>3, <3>4
  <2>3. CASE ~HasSeries(log, n, r0, l)
    <3>1. \A t : HasSample(log, n + 1, l, t) <=> HasSample(log, n, l, t)
      BY <1>2, <2>3
    <3>2. v \in m.refs => h # v
      <4> SUFFICES ASSUME v \in m.refs, h = v PROVE FALSE
        OBVIOUS
      <4>1. own[r0] \in Labels /\ HasSeries(log, n, r0, own[r0]) /\ v = m.hashes[own[r0]]
        BY <1>6
      <4>2. m.lset[v] = own[r0]
        BY <4>1, <1>7 DEF Loaded
      <4> QED BY <2>0, <2>3, <4>1, <4>2
    <3>3. w.lastTs[h] = m.lastTs[h]
      BY <1>8, <3>2
    <3> QED BY <2>0, <2>1, <3>1, <3>3
  <2> QED BY <2>2, <2>3
<1>17. Loaded(w, log, n + 1, own)
  BY <1>9, <1>10, <1>11, <1>12, <1>13, <1>14, <1>15, <1>16, Zenon DEF Loaded
<1> QED BY <1>5, <1>17

LEMMA LoadType ==
  ASSUME NEW log \in Seq(Entry), NEW i \in 1..Len(log), log[i][1].kind # "metadata", NEW m \in MemoryType
  PROVE  Load(m, log[i]) \in MemoryType
<1>1. log[i][1] \in Record /\ log[i][2] \in Int
  BY EntryRecord
<1>2. CASE log[i][1].kind = "series"
  <2>1. PICK r \in Refs, l \in Labels : log[i][1] = Series(r, l)
    BY <1>2, SeriesEntry
  <2>2. Load(m, log[i]) = LoadSeries(m, Series(r, l), log[i][2])
    BY <1>2, <2>1 DEF Load
  <2>3. ASSUME NEW s \in Int PROVE LoadSeries(m, Series(r, l), s) \in MemoryType
    <3>1. CASE m.hashes[l] = None
      <4>1. PICK n \in MemoryType :
               /\ n = LoadSeries(m, Series(r, l), s)
               /\ n.refs = m.refs \cup {r} /\ n.hashes = [m.hashes EXCEPT ![l] = r]
               /\ n.lset = [m.lset EXCEPT ![r] = l]
               /\ n.lastTs = m.lastTs /\ n.deleted = m.deleted /\ n.dup = m.dup
               /\ n.nextRef = IF m.nextRef >= r THEN m.nextRef ELSE r
        BY <3>1, LoadFirst
      <4> QED BY <4>1
    <3>2. CASE m.hashes[l] # None
      <4>1. PICK n \in MemoryType :
               /\ n = LoadSeries(m, Series(r, l), s)
               /\ n.refs = m.refs /\ n.hashes = m.hashes /\ n.lset = m.lset /\ n.lastTs = m.lastTs
               /\ n.deleted = [m.deleted EXCEPT ![r] = keepUntil(m, r, s)]
               /\ n.dup = [m.dup EXCEPT ![r] = m.hashes[l]]
               /\ n.nextRef = IF m.nextRef >= r THEN m.nextRef ELSE r
        BY <3>2, LoadDuplicate
      <4> QED BY <4>1
    <3> QED BY <3>1, <3>2
  <2> QED BY <1>1, <2>2, <2>3
<1>3. CASE log[i][1].kind = "sample"
  <2>1. Load(m, log[i]) = LoadSample(m, log[i][1], log[i][2])
    BY <1>3 DEF Load
  <2>2. log[i][1] \in SampleRecord
    BY <1>3, SampleEntry
  <2>3. ASSUME NEW rec \in SampleRecord, NEW s \in Int PROVE LoadSample(m, rec, s) \in MemoryType
    <3>1. PICK n \in MemoryType : n = LoadSample(m, rec, s)
      BY LoadSampleIs
    <3> QED BY <3>1
  <2> QED BY <1>1, <2>1, <2>2, <2>3
<1>4. log[i][1].kind \in {"series", "metadata", "sample"}
  BY <1>1 DEF Record, SeriesRecord, MetadataRecord, SampleRecord
<1> QED BY <1>2, <1>3, <1>4

NoMetadata(log) == \A i \in 1..Len(log) : log[i][1].kind # "metadata"

LEMMA ReplayChain ==
  ASSUME NEW log \in Seq(Entry), NoMetadata(log)
  PROVE  \E g : /\ g[0] = EmptyMemory
                /\ \A i \in 1..Len(log) : g[i] = Load(g[i - 1], log[i])
                /\ replayWAL(log) = [g[Len(log)] EXCEPT !.dup = EmptyMemory.dup]
<1>0. Len(log) \in Nat /\ 0 <= Len(log) /\ Len(log) \in Int /\ 0 \in Int
  BY LenProperties
<1> DEFINE n == Len(log)
           G(h) == [i \in 0..n |-> IF i = 0 THEN EmptyMemory ELSE Load(h[i - 1], log[i])]
           g == CHOOSE h : h = G(h)
           D == ((0 + 1)..n) \X MemoryType
           st == [x \in D |-> Load(x[2], log[x[1]])]
<1>4. st \in [D -> MemoryType]
  <2>1. ASSUME NEW x \in D PROVE Load(x[2], log[x[1]]) \in MemoryType
    <3>1. x[1] \in 1..n /\ x[2] \in MemoryType
      BY <1>0
    <3>2. log[x[1]][1].kind # "metadata"
      BY <3>1 DEF NoMetadata
    <3> HIDE DEF D, n
    <3>3. x[1] \in 1..Len(log)
      BY <3>1 DEF n
    <3> QED BY <3>1, <3>2, <3>3, LoadType
  <2> HIDE DEF D
  <2> QED BY <2>1
<1>5. PICK f : Chain(0, n, MemoryType, EmptyMemory, st, f)
  <2>1. st \in Steps(0, n, MemoryType)
    BY <1>4 DEF Steps
  <2>2. 0 \in Int /\ n \in Int /\ 0 <= n
    BY <1>0
  <2> HIDE DEF st, D, n
  <2> QED BY <2>1, <2>2, EmptyMemoryType, ChainExists
<1>6. ASSUME NEW i \in 0..n PROVE f[i] = G(f)[i]
  <2>1. CASE i = 0
    BY <1>5, <2>1 DEF Chain
  <2>2. CASE i # 0
    <3>1. i \in (0 + 1)..n /\ i - 1 \in 0..n
      BY <1>0, <2>2
    <3>2. f[i - 1] \in MemoryType /\ <<i, f[i - 1]>> \in D
      BY <1>5, <3>1 DEF Chain
    <3>3. f[i] = Load(f[i - 1], log[i])
      <4> HIDE DEF D
      <4> QED BY <1>5, <3>1, <3>2 DEF Chain
    <3> QED BY <2>2, <3>3
  <2> QED BY <2>1, <2>2
<1>7. f = G(f)
  <2>1. G(f) = [i \in 0..n |-> G(f)[i]]
    OBVIOUS
  <2>2. f = [i \in 0..n |-> f[i]]
    BY <1>5 DEF Chain
  <2> HIDE DEF G, n
  <2> QED BY <1>6, <2>1, <2>2
<1>8. g = G(g)
  <2> HIDE DEF G
  <2> QED BY <1>7
<1>9. replayWAL(log) = [g[n] EXCEPT !.dup = EmptyMemory.dup]
  BY DEF replayWAL
<1> HIDE DEF g
<1>10. g[0] = EmptyMemory
  <2>1. 0 \in 0..n
    BY <1>0
  <2> QED BY <1>8, <2>1
<1>11. ASSUME NEW i \in 1..n PROVE g[i] = Load(g[i - 1], log[i])
  <2>1. i \in 0..n /\ i # 0
    BY <1>0
  <2>2. g[i] = G(g)[i]
    <3> HIDE DEF G
    <3> QED BY <1>8
  <2> HIDE DEF n
  <2> QED BY <2>1, <2>2
<1> QED BY <1>9, <1>10, <1>11

LEMMA ReplayIs ==
  ASSUME NEW log \in Seq(Entry), NoMetadata(log), NEW own, OwnsLog(own, log)
  PROVE  \E m : Loaded(m, log, Len(log), own) /\ replayWAL(log) = [m EXCEPT !.dup = EmptyMemory.dup]
<1>0. Len(log) \in Nat
  BY LenProperties
<1>1. PICK g : /\ g[0] = EmptyMemory
               /\ \A i \in 1..Len(log) : g[i] = Load(g[i - 1], log[i])
               /\ replayWAL(log) = [g[Len(log)] EXCEPT !.dup = EmptyMemory.dup]
  BY ReplayChain
<1> DEFINE T == {k \in Nat : k <= Len(log) => Loaded(g[k], log, k, own)}
<1>2. 0 \in T
  BY <1>1, LoadedInit
<1>3. ASSUME NEW k \in Nat, k \in T PROVE k + 1 \in T
  <2> SUFFICES ASSUME k + 1 <= Len(log) PROVE Loaded(g[k + 1], log, k + 1, own)
    OBVIOUS
  <2>1. k + 1 \in 1..Len(log) /\ (k + 1) - 1 = k /\ Loaded(g[k], log, k, own)
    BY <1>0, <1>3
  <2>2. g[k + 1] = Load(g[k], log[k + 1])
    BY <1>1, <2>1
  <2>3. log[k + 1][1].kind \in {"series", "sample"}
    <3>1. log[k + 1][1] \in Record
      BY <2>1, EntryRecord
    <3>2. log[k + 1][1].kind \in {"series", "metadata", "sample"}
      BY <3>1 DEF Record, SeriesRecord, MetadataRecord, SampleRecord
    <3> QED BY <2>1, <3>2 DEF NoMetadata
  <2>4. CASE log[k + 1][1].kind = "series"
    <3>1. own[log[k + 1][1].ref] = log[k + 1][1].lbl
      BY <2>1, <2>4 DEF OwnsLog
    <3>2. Loaded(Load(g[k], log[k + 1]), log, k + 1, own)
      BY <2>1, <2>4, <3>1, LoadedSeries
    <3> QED BY <2>2, <3>2
  <2>5. CASE log[k + 1][1].kind = "sample"
    <3>2. Loaded(Load(g[k], log[k + 1]), log, k + 1, own)
      BY <2>1, <2>5, LoadedSample
    <3> QED BY <2>2, <3>2
  <2> QED BY <2>3, <2>4, <2>5
<1>4. Nat \subseteq T
  <2> HIDE DEF T
  <2> QED BY <1>2, <1>3, SetInduction
<1>5. Loaded(g[Len(log)], log, Len(log), own)
  BY <1>0, <1>4
<1> QED BY <1>1, <1>5

\* The memory after a replay.
LEMMA ReplayMemory ==
  ASSUME NEW log \in Seq(Entry), NoMetadata(log), NEW own, OwnsLog(own, log)
  PROVE  \E m : /\ Loaded(m, log, Len(log), own)
                /\ replayWAL(log) \in MemoryType
                /\ replayWAL(log).refs = m.refs /\ replayWAL(log).hashes = m.hashes
                /\ replayWAL(log).lset = m.lset /\ replayWAL(log).lastTs = m.lastTs
                /\ replayWAL(log).deleted = m.deleted /\ replayWAL(log).nextRef = m.nextRef
<1>1. PICK m : Loaded(m, log, Len(log), own) /\ replayWAL(log) = [m EXCEPT !.dup = EmptyMemory.dup]
  BY ReplayIs
<1>2. m \in MemoryType
  BY <1>1 DEF Loaded
<1>3. EmptyMemory.dup \in [Refs -> Refs \cup {None}]
  BY EmptyMemoryType, MemoryFields
<1> DEFINE w == [m EXCEPT !.dup = EmptyMemory.dup]
<1>4. /\ w \in MemoryType /\ w.refs = m.refs /\ w.hashes = m.hashes /\ w.lset = m.lset
      /\ w.lastTs = m.lastTs /\ w.deleted = m.deleted /\ w.nextRef = m.nextRef
  BY <1>2, <1>3 DEF MemoryType
<1> HIDE DEF w
<1>5. replayWAL(log) = w
  BY <1>1 DEF w
<1> QED BY <1>1, <1>4, <1>5

-----------------------------------------------------------------------------
(***************************************************************************)
(* What steps do to the log                                                *)
(***************************************************************************)

LEMMA MinIs ==
  ASSUME NEW S \in SUBSET Nat, S # {}
  PROVE  Min(S) \in S /\ \A y \in S : Min(S) <= y
<1>1. \E x \in S : \A y \in S : x <= y
  <2> SUFFICES ASSUME \A x \in S : \E y \in S : ~(x <= y) PROVE FALSE
    OBVIOUS
  <2> DEFINE T == {n \in Nat : \A k \in Nat : k <= n => k \notin S}
  <2>1. 0 \in T
    <3>1. 0 \notin S
      <4> SUFFICES ASSUME 0 \in S PROVE FALSE
        OBVIOUS
      <4>1. PICK y \in S : ~(0 <= y)
        OBVIOUS
      <4>2. y \in Nat
        OBVIOUS
      <4> QED BY <4>1, <4>2
    <3>2. \A k \in Nat : k <= 0 => k = 0
      OBVIOUS
    <3> QED BY <3>1, <3>2
  <2>2. ASSUME NEW n \in Nat, n \in T PROVE n + 1 \in T
    <3>1. n + 1 \notin S
      <4> SUFFICES ASSUME n + 1 \in S PROVE FALSE
        OBVIOUS
      <4>1. PICK y \in S : ~(n + 1 <= y)
        OBVIOUS
      <4>2. y \in Nat /\ y <= n
        BY <4>1
      <4> QED BY <2>2, <4>2
    <3>2. \A k \in Nat : k <= n + 1 => k <= n \/ k = n + 1
      OBVIOUS
    <3> QED BY <2>2, <3>1, <3>2
  <2>3. Nat \subseteq T
    <3> HIDE DEF T
    <3> QED BY <2>1, <2>2, SetInduction
  <2>4. PICK x \in S : TRUE
    OBVIOUS
  <2>5. x \in Nat /\ x \in T /\ x <= x
    BY <2>3
  <2> QED BY <2>5
<1> QED BY <1>1 DEF Min

LEMMA CorruptIs ==
  ASSUME NEW log \in Seq(Entry)
  PROVE  /\ Corrupt(log) = 0 => NoMetadata(log)
         /\ Corrupt(log) # 0 => /\ Corrupt(log) \in 1..Len(log)
                                /\ \A i \in 1..(Corrupt(log) - 1) : log[i][1].kind # "metadata"
<1>0. Len(log) \in Nat
  BY LenProperties
<1> DEFINE I == {i \in 1..Len(log) : log[i][1].kind = "metadata"}
<1>1. Corrupt(log) = IF I # {} THEN Min(I) ELSE 0
  BY DEF Corrupt, SelectInSeq
<1>2. CASE I = {}
  BY <1>1, <1>2 DEF NoMetadata
<1>3. CASE I # {}
  <2>1. I \in SUBSET Nat
    BY <1>0
  <2> HIDE DEF I
  <2>2. Corrupt(log) = Min(I) /\ Min(I) \in I /\ \A y \in I : Min(I) <= y
    BY <1>1, <1>3, <2>1, MinIs
  <2> USE DEF I
  <2>3. Min(I) \in 1..Len(log)
    BY <2>2
  <2> HIDE DEF I
  <2>4. ASSUME NEW i \in 1..(Min(I) - 1) PROVE i \notin I /\ i \in 1..Len(log)
    BY <1>0, <2>2, <2>3
  <2> QED BY <1>0, <2>2, <2>3, <2>4 DEF I
<1> QED BY <1>2, <1>3

\* The log only depends on the segments behind the checkpoint.
LEMMA LogSame ==
  ASSUME NEW c \in Checkpoints, NEW sg \in Directories, NEW tg \in Directories,
         NEW n \in -1..MaxSegment, c.upto <= n, \A k \in (c.upto + 1)..n : tg[k] = sg[k]
  PROVE  ReplayLog(c, tg, n) = ReplayLog(c, sg, n)
<1> DEFINE T == {k \in Int : k <= n => ReplayLog(c, tg, k) = ReplayLog(c, sg, k)}
<1>0. /\ MaxSegment \in Nat /\ c.upto \in Int /\ c.upto >= -1 /\ n \in Int /\ n <= MaxSegment
      /\ c.upto \in -1..MaxSegment /\ c.upto <= c.upto
  BY PrometheusWalAssumption DEF Checkpoints
<1>1. c.upto \in T
  <2>1. ReplayLog(c, tg, c.upto) = Stamped(c.recs, c.upto) /\ ReplayLog(c, sg, c.upto) = Stamped(c.recs, c.upto)
    BY <1>0, ReplayLogStep
  <2> QED BY <1>0, <2>1
<1>2. ASSUME NEW k \in Int, k >= c.upto, k \in T PROVE k + 1 \in T
  <2> SUFFICES ASSUME k + 1 <= n PROVE ReplayLog(c, tg, k + 1) = ReplayLog(c, sg, k + 1)
    OBVIOUS
  <2>1. k + 1 \in -1..MaxSegment /\ k + 1 > c.upto /\ (k + 1) - 1 = k /\ k + 1 \in (c.upto + 1)..n
    BY <1>0, <1>2
  <2>2. ReplayLog(c, tg, k + 1) = ReplayLog(c, tg, k) \o Stamped(tg[k + 1], k + 1)
    BY <2>1, ReplayLogStep
  <2>3. ReplayLog(c, sg, k + 1) = ReplayLog(c, sg, k) \o Stamped(sg[k + 1], k + 1)
    BY <2>1, ReplayLogStep
  <2>4. tg[k + 1] = sg[k + 1] /\ ReplayLog(c, tg, k) = ReplayLog(c, sg, k)
    BY <1>0, <1>2, <2>1
  <2> QED BY <2>2, <2>3, <2>4
<1>3. \A k \in Int : k >= c.upto => k \in T
  <2> HIDE DEF T
  <2> QED BY <1>0, <1>1, <1>2, IntInduction
<1> QED BY <1>0, <1>3

\* An empty segment adds nothing.
LEMMA LogNewSegment ==
  ASSUME NEW c \in Checkpoints, NEW sg \in Directories, NEW n \in Segments, n > c.upto, sg[n] = <<>>
  PROVE  ReplayLog(c, sg, n) = ReplayLog(c, sg, n - 1)
<1>1. Extends(ReplayLog(c, sg, n), ReplayLog(c, sg, n - 1), <<>>, n)
  BY LogExtends
<1> DEFINE q == ReplayLog(c, sg, n)
           p == ReplayLog(c, sg, n - 1)
<1> HIDE DEF q, p
<1>2. q \in Seq(Entry) /\ p \in Seq(Entry) /\ Len(q) = Len(p) /\ \A i \in 1..Len(p) : q[i] = p[i]
  BY <1>1 DEF Extends, q, p
<1>3. q = p
  BY <1>2, SeqEqual
<1> QED BY <1>3 DEF q, p

\* q is p with the entry e behind it.
Grown(q, p, e) ==
  /\ p \in Seq(Entry) /\ q \in Seq(Entry) /\ Len(p) \in Nat /\ Len(q) = Len(p) + 1
  /\ \A i \in 1..Len(p) : q[i] = p[i]
  /\ q[Len(p) + 1] = e

LEMMA LogAppend ==
  ASSUME NEW c \in Checkpoints, NEW sg \in Directories, NEW n \in Segments, n > c.upto, NEW rec \in Record
  PROVE  /\ [sg EXCEPT ![n] = Append(@, rec)] \in Directories
         /\ Grown(ReplayLog(c, [sg EXCEPT ![n] = Append(@, rec)], n), ReplayLog(c, sg, n), <<rec, n>>)
<1> DEFINE tg == [sg EXCEPT ![n] = Append(@, rec)]
<1>0. MaxSegment \in Nat /\ c.upto \in Int /\ c.upto >= -1 /\ n \in Int /\ n \in 0..MaxSegment
  BY PrometheusWalAssumption DEF Checkpoints, Segments
<1>1. sg[n] \in Seq(Record)
  BY DEF Directories
<1> DEFINE x == Append(sg[n], rec)
<1>2. /\ x \in Seq(Record) /\ Len(x) = Len(sg[n]) + 1 /\ x[Len(sg[n]) + 1] = rec
      /\ \A i \in 1..Len(sg[n]) : x[i] = sg[n][i]
  BY <1>1, AppendProperties
<1>3. tg \in Directories /\ tg[n] = x /\ \A k \in Segments : k # n => tg[k] = sg[k]
  BY <1>2 DEF Directories
<1> HIDE DEF tg, x
<1>4. ReplayLog(c, tg, n - 1) = ReplayLog(c, sg, n - 1)
  <2>1. n - 1 \in -1..MaxSegment /\ c.upto <= n - 1
    BY <1>0
  <2>2. \A k \in (c.upto + 1)..(n - 1) : tg[k] = sg[k]
    <3> TAKE k \in (c.upto + 1)..(n - 1)
    <3>1. k \in Segments /\ k # n
      BY <1>0 DEF Segments
    <3> QED BY <1>3, <3>1
  <2> QED BY <1>3, <2>1, <2>2, LogSame
<1> DEFINE p == ReplayLog(c, sg, n - 1)
           q == ReplayLog(c, sg, n)
           w == ReplayLog(c, tg, n)
<1>5. Extends(q, p, sg[n], n)
  BY LogExtends
<1>6. Extends(w, p, x, n)
  BY <1>3, <1>4, LogExtends
<1> HIDE DEF p, q, w
<1>7. /\ q \in Seq(Entry) /\ w \in Seq(Entry) /\ Len(p) \in Nat /\ Len(sg[n]) \in Nat
      /\ Len(q) = Len(p) + Len(sg[n]) /\ Len(w) = Len(p) + Len(x)
  BY <1>5, <1>6 DEF Extends
<1>8. ASSUME NEW i \in 1..Len(q) PROVE w[i] = q[i]
  <2>1. CASE i <= Len(p)
    <3>1. i \in 1..Len(p)
      BY <1>7, <2>1
    <3> QED BY <1>5, <1>6, <3>1 DEF Extends
  <2>2. CASE ~(i <= Len(p))
    <3>1. PICK j \in 1..Len(sg[n]) : i = Len(p) + j
      <4> DEFINE j == i - Len(p)
      <4>1. j \in 1..Len(sg[n]) /\ i = Len(p) + j
        BY <1>7, <2>2
      <4> QED BY <4>1
    <3>2. j \in 1..Len(x)
      BY <1>2, <1>7
    <3>3. q[i] = <<sg[n][j], n>>
      BY <1>5, <3>1 DEF Extends
    <3>4. w[i] = <<x[j], n>>
      BY <1>6, <3>1, <3>2 DEF Extends
    <3> QED BY <1>2, <3>1, <3>3, <3>4
  <2> QED BY <2>1, <2>2
<1>9. w[Len(q) + 1] = <<rec, n>>
  <2>1. Len(q) + 1 = Len(p) + Len(x) /\ Len(x) \in 1..Len(x)
    BY <1>2, <1>7
  <2>2. w[Len(p) + Len(x)] = <<x[Len(x)], n>>
    BY <1>6, <2>1 DEF Extends
  <2> QED BY <1>2, <2>1, <2>2
<1>10. Grown(w, q, <<rec, n>>)
  BY <1>2, <1>7, <1>8, <1>9 DEF Grown
<1> QED BY <1>3, <1>10 DEF w, q, tg

\* Cutting off the segment of entry i before that entry, and what is behind it, leaves
\* the entries before i.
Cut(sg, s, b) ==
  [t \in Segments |-> IF t < s THEN sg[t] ELSE IF t = s THEN SubSeq(sg[s], 1, b) ELSE <<>>]

LEMMA LogCut ==
  ASSUME NEW c \in Checkpoints, NEW sg \in Directories, NEW n \in Segments, n > c.upto, n < MaxSegment,
         NEW i \in 1..Len(ReplayLog(c, sg, n)), i > Len(c.recs)
  PROVE  \E s \in Segments, b \in Nat :
           /\ s = ReplayLog(c, sg, n)[i][2] /\ s > c.upto /\ s + 1 \in Segments
           /\ b = i - 1 - Len(ReplayLog(c, sg, s - 1))
           /\ Cut(sg, s, b) \in Directories
           /\ ReplayLog(c, Cut(sg, s, b), s + 1) = SubSeq(ReplayLog(c, sg, n), 1, i - 1)
           /\ SubSeq(ReplayLog(c, sg, n), 1, i - 1) \in Seq(Entry)
           /\ Len(SubSeq(ReplayLog(c, sg, n), 1, i - 1)) = i - 1
           /\ \A j \in 1..(i - 1) : SubSeq(ReplayLog(c, sg, n), 1, i - 1)[j] = ReplayLog(c, sg, n)[j]
<1> DEFINE L(k) == ReplayLog(c, sg, k)
           s == L(n)[i][2]
<1>0. MaxSegment \in Nat /\ c.upto \in Int /\ c.upto >= -1 /\ n \in 0..MaxSegment
      /\ c.upto \in -1..MaxSegment /\ n \in -1..MaxSegment /\ c.upto <= n /\ c.upto <= c.upto /\ n <= n
  BY PrometheusWalAssumption DEF Checkpoints, Segments
<1>1. Len(L(c.upto)) = Len(c.recs) /\ Len(c.recs) \in Nat
  BY LogBase
<1>2. s \in (c.upto + 1)..n
  <2>1. i \in (Len(L(c.upto)) + 1)..Len(L(n))
    <3>1. L(n) \in Seq(Entry)
      BY <1>0, ReplayLogStep
    <3>2. Len(L(n)) \in Nat
      BY <3>1, LenProperties
    <3>3. i \in 1..Len(L(n))
      OBVIOUS
    <3> HIDE DEF L
    <3>4. i \in Nat /\ i <= Len(L(n))
      BY <3>2, <3>3
    <3>5. i > Len(L(c.upto)) /\ Len(L(c.upto)) \in Nat
      BY <1>1
    <3> QED BY <3>2, <3>4, <3>5
  <2> QED BY <1>0, <2>1, LogPrefix
<1>3. s \in Segments /\ s > c.upto /\ s + 1 \in Segments /\ s - 1 \in -1..MaxSegment /\ s \in -1..MaxSegment
      /\ c.upto <= s - 1 /\ s - 1 <= n /\ s <= n /\ s + 1 > c.upto /\ c.upto <= s /\ s - 1 <= s
  BY <1>0, <1>2 DEF Segments
<1> HIDE DEF s
<1>4. Prefix(L(s - 1), L(n)) /\ Prefix(L(s), L(n))
      /\ \A k \in (Len(L(s)) + 1)..Len(L(n)) : L(n)[k][2] \in (s + 1)..n
  BY <1>0, <1>3, LogPrefix
<1>5. Prefix(L(c.upto), L(s - 1))
      /\ \A k \in (Len(L(c.upto)) + 1)..Len(L(s - 1)) : L(s - 1)[k][2] \in (c.upto + 1)..(s - 1)
  BY <1>0, <1>3, LogPrefix
<1>6. Extends(L(s), L(s - 1), sg[s], s)
  BY <1>3, LogExtends
<1>s. s = L(n)[i][2] /\ i \in 1..Len(L(n))
  BY DEF s
<1> HIDE DEF L
<1>7. Len(L(s - 1)) \in Nat /\ Len(L(s)) \in Nat /\ Len(L(n)) \in Nat /\ Len(sg[s]) \in Nat
      /\ Len(L(s)) = Len(L(s - 1)) + Len(sg[s]) /\ sg[s] \in Seq(Record) /\ L(n) \in Seq(Entry)
  BY <1>4, <1>6 DEF Prefix, Extends
<1>t. i \in Nat /\ i >= 1 /\ i <= Len(L(n))
  <2>1. Len(L(n)) \in Nat
    BY <1>7
  <2> QED BY <1>s, <2>1
<1>u. Len(L(s)) \in Nat /\ Len(L(n)) \in Nat
  BY <1>7
<1>8. i > Len(L(s - 1))
  <2> SUFFICES ASSUME i <= Len(L(s - 1)) PROVE FALSE
    BY <1>7, <1>s
  <2>1. i \in 1..Len(L(s - 1)) /\ i \in (Len(L(c.upto)) + 1)..Len(L(s - 1))
    BY <1>1, <1>7, <1>s
  <2>2. L(n)[i] = L(s - 1)[i] /\ L(s - 1)[i][2] \in (c.upto + 1)..(s - 1)
    BY <1>4, <1>5, <2>1 DEF Prefix
  <2>3. s \in (c.upto + 1)..(s - 1)
    BY <1>s, <2>2
  <2> QED BY <1>0, <1>2, <2>3
<1>9. i <= Len(L(s))
  <2> SUFFICES ASSUME i > Len(L(s)) PROVE FALSE
    BY <1>t, <1>u
  <2>1. i \in (Len(L(s)) + 1)..Len(L(n))
    BY <1>t, <1>u
  <2>2. s \in (s + 1)..n
    BY <1>4, <1>s, <2>1
  <2> QED BY <1>0, <1>2, <2>2
<1> DEFINE b == i - 1 - Len(L(s - 1))
           tg == Cut(sg, s, b)
           x == SubSeq(sg[s], 1, b)
<1>10. b \in Nat /\ b <= Len(sg[s]) /\ i - 1 = Len(L(s - 1)) + b /\ i - 1 \in Nat
  <2>1. /\ Len(L(s - 1)) \in Nat /\ Len(sg[s]) \in Nat
        /\ Len(L(s)) = Len(L(s - 1)) + Len(sg[s])
    BY <1>7
  <2>2. PICK u \in Nat : u = Len(L(s - 1))
    BY <2>1
  <2>3. PICK v \in Nat : v = Len(sg[s])
    BY <2>1
  <2>4. i > u /\ i <= u + v
    BY <1>8, <1>9, <2>1, <2>2, <2>3
  <2>5. i - 1 - u \in Nat /\ i - 1 - u <= v /\ i - 1 = u + (i - 1 - u) /\ i - 1 \in Nat
    BY <1>t, <2>4
  <2> QED BY <2>2, <2>3, <2>5
<1> HIDE DEF b
<1>11. x \in Seq(Record) /\ Len(x) = b /\ \A j \in 1..b : x[j] = sg[s][j]
  <2>1. \A j \in 1..b : sg[s][j] \in Record
    <3> TAKE j \in 1..b
    <3>1. j \in 1..Len(sg[s])
      BY <1>7, <1>10
    <3> QED BY <1>7, <3>1, ElementOfSeq
  <2>2. /\ SubSeq(sg[s], 1, b) \in Seq(Record)
        /\ Len(SubSeq(sg[s], 1, b)) = IF 1 <= b THEN b - 1 + 1 ELSE 0
        /\ \A j \in 1..(b - 1 + 1) : SubSeq(sg[s], 1, b)[j] = sg[s][1 + j - 1]
    BY <1>10, <2>1, SubSeqProperties
  <2>3. ASSUME NEW j \in 1..b PROVE j \in 1..(b - 1 + 1) /\ 1 + j - 1 = j
    BY <1>10
  <2>4. Len(SubSeq(sg[s], 1, b)) = b
    BY <1>10, <2>2
  <2> QED BY <2>2, <2>3, <2>4
<1> HIDE DEF x
<1>12. tg \in Directories /\ tg[s] = x /\ tg[s + 1] = <<>> /\ \A k \in Segments : k < s => tg[k] = sg[k]
  <2>1. <<>> \in Seq(Record)
    BY EmptySeq
  <2>2. ASSUME NEW t \in Segments
        PROVE  (IF t < s THEN sg[t] ELSE IF t = s THEN SubSeq(sg[s], 1, b) ELSE <<>>) \in Seq(Record)
    BY <1>11, <2>1 DEF Directories, x
  <2>3. tg \in Directories
    BY <2>2 DEF Cut, Directories
  <2>4. ~(s < s) /\ ~(s + 1 < s) /\ s + 1 # s
    BY <1>0, <1>2
  <2> QED BY <1>3, <2>3, <2>4 DEF Cut, x
<1> HIDE DEF tg
<1> DEFINE M(k) == ReplayLog(c, tg, k)
<1>13. M(s - 1) = L(s - 1)
  <2>1. \A k \in (c.upto + 1)..(s - 1) : tg[k] = sg[k]
    <3> TAKE k \in (c.upto + 1)..(s - 1)
    <3>1. k \in Segments /\ k < s
      BY <1>0, <1>2 DEF Segments
    <3> QED BY <1>12, <3>1
  <2> QED BY <1>3, <1>12, <2>1, LogSame DEF L
<1>14. Extends(M(s), L(s - 1), x, s)
  <2>1. Extends(M(s), M(s - 1), tg[s], s)
    BY <1>3, <1>12, LogExtends
  <2> HIDE DEF M
  <2> QED BY <1>12, <1>13, <2>1
<1>15. M(s + 1) = M(s)
  <2>1. (s + 1) - 1 = s
    BY <1>0, <1>2
  <2>2. M(s + 1) = M((s + 1) - 1)
    BY <1>3, <1>12, LogNewSegment
  <2> QED BY <2>1, <2>2
<1> HIDE DEF M
<1>16. M(s) \in Seq(Entry) /\ Len(M(s)) = i - 1
  BY <1>10, <1>11, <1>14 DEF Extends
<1>17. ASSUME NEW j \in 1..(i - 1) PROVE M(s)[j] = L(n)[j]
  <2>1. CASE j <= Len(L(s - 1))
    <3>1. j \in 1..Len(L(s - 1))
      BY <1>7, <1>10, <2>1
    <3> QED BY <1>4, <1>14, <3>1 DEF Prefix, Extends
  <2>2. CASE ~(j <= Len(L(s - 1)))
    <3>1. PICK h \in 1..b : j = Len(L(s - 1)) + h
      <4> DEFINE h == j - Len(L(s - 1))
      <4>1. h \in 1..b /\ j = Len(L(s - 1)) + h
        BY <1>7, <1>10, <2>2
      <4> QED BY <4>1
    <3>2. h \in 1..Len(x) /\ h \in 1..Len(sg[s]) /\ j \in 1..Len(L(s))
      BY <1>7, <1>10, <1>11, <3>1
    <3>3. M(s)[j] = <<x[h], s>>
      BY <1>14, <3>1, <3>2 DEF Extends
    <3>4. L(s)[j] = <<sg[s][h], s>>
      BY <1>6, <3>1, <3>2 DEF Extends
    <3>5. L(n)[j] = L(s)[j]
      BY <1>4, <3>2 DEF Prefix
    <3> QED BY <1>11, <3>1, <3>3, <3>4, <3>5
  <2> QED BY <2>1, <2>2
<1>18. /\ SubSeq(L(n), 1, i - 1) \in Seq(Entry) /\ Len(SubSeq(L(n), 1, i - 1)) = i - 1
       /\ \A j \in 1..(i - 1) : SubSeq(L(n), 1, i - 1)[j] = L(n)[j]
  <2>1. \A j \in 1..(i - 1) : L(n)[j] \in Entry
    <3> TAKE j \in 1..(i - 1)
    <3>1. j \in 1..Len(L(n))
      BY <1>7, <1>s, <1>10
    <3> QED BY <1>7, <3>1, ElementOfSeq
  <2>2. i - 1 \in Int /\ 1 \in Int /\ (i - 1) - 1 + 1 = i - 1
    BY <1>10
  <2>3. /\ SubSeq(L(n), 1, i - 1) \in Seq(Entry)
        /\ Len(SubSeq(L(n), 1, i - 1)) = IF 1 <= i - 1 THEN (i - 1) - 1 + 1 ELSE 0
        /\ \A j \in 1..((i - 1) - 1 + 1) : SubSeq(L(n), 1, i - 1)[j] = L(n)[1 + j - 1]
    BY <2>1, <2>2, SubSeqProperties
  <2>4. Len(SubSeq(L(n), 1, i - 1)) = i - 1
    BY <1>10, <2>2, <2>3
  <2>5. ASSUME NEW j \in 1..(i - 1) PROVE 1 + j - 1 = j
    BY <1>10
  <2> QED BY <2>2, <2>3, <2>4, <2>5
<1>19. M(s + 1) = SubSeq(L(n), 1, i - 1)
  <2> DEFINE y == SubSeq(L(n), 1, i - 1)
  <2>1. y \in Seq(Entry) /\ Len(y) = i - 1 /\ \A j \in 1..(i - 1) : y[j] = L(n)[j]
    BY <1>18
  <2> HIDE DEF y
  <2>2. M(s) = y
    BY <1>16, <1>17, <2>1, SeqEqual
  <2> QED BY <1>15, <2>2 DEF y
<1> QED BY <1>3, <1>10, <1>12, <1>18, <1>19, <1>s DEF L, M, b, tg

\* A checkpoint of the segments up to u: the records kept, and the segments behind u.
Compacted(new, log, k, n) ==
  /\ Len(new) = Len(k) + (Len(log) - n)
  /\ \A j \in 1..Len(k) : new[j][1] = k[j]
  /\ \A i \in 1..(Len(log) - n) : new[Len(k) + i] = log[n + i]

LEMMA LogCheckpoint ==
  ASSUME NEW c \in Checkpoints, NEW sg \in Directories, NEW n \in Segments, n > c.upto,
         NEW u \in Nat, c.upto < u, u < n,
         NEW k, k = Kept(ReplayLog(c, sg, u))
  PROVE  /\ [upto |-> u, recs |-> k] \in Checkpoints
         /\ ReplayLog(c, sg, u) \in Seq(Entry)
         /\ KeptOf(k, ReplayLog(c, sg, u), Len(ReplayLog(c, sg, u)))
         /\ Prefix(ReplayLog(c, sg, u), ReplayLog(c, sg, n))
         /\ Len(c.recs) <= Len(ReplayLog(c, sg, u)) /\ Len(c.recs) \in Nat
         /\ \A i \in (Len(ReplayLog(c, sg, u)) + 1)..Len(ReplayLog(c, sg, n)) :
              ReplayLog(c, sg, n)[i][2] > u
         /\ ReplayLog([upto |-> u, recs |-> k], sg, n) \in Seq(Entry)
         /\ Compacted(ReplayLog([upto |-> u, recs |-> k], sg, n), ReplayLog(c, sg, n),
                      k, Len(ReplayLog(c, sg, u)))
<1> DEFINE L(x) == ReplayLog(c, sg, x)
           d == [upto |-> u, recs |-> k]
           M(x) == ReplayLog(d, sg, x)
<1>0. MaxSegment \in Nat /\ c.upto \in Int /\ c.upto >= -1 /\ n \in 0..MaxSegment
      /\ c.upto \in -1..MaxSegment /\ n \in -1..MaxSegment /\ u \in -1..MaxSegment /\ c.upto <= u /\ u <= n
      /\ c.upto <= c.upto /\ u <= u
  BY PrometheusWalAssumption DEF Checkpoints, Segments
<1>1. L(u) \in Seq(Entry)
  BY <1>0, ReplayLogStep
<1>2. KeptOf(k, L(u), Len(L(u)))
  BY <1>1, KeptIs
<1>3. k \in Seq(Record)
  BY <1>2 DEF KeptOf
<1>4. d \in Checkpoints /\ d.upto = u /\ d.recs = k
  BY <1>0, <1>3 DEF Checkpoints
<1> HIDE DEF d
<1>5. Prefix(L(u), L(n)) /\ \A i \in (Len(L(u)) + 1)..Len(L(n)) : L(n)[i][2] \in (u + 1)..n
  BY <1>0, LogPrefix
<1>6. Prefix(L(c.upto), L(u)) /\ Len(L(c.upto)) = Len(c.recs) /\ Len(c.recs) \in Nat
  BY <1>0, LogPrefix, LogBase
<1>7. SameEnd(L(u), L(n), M(u), M(n))
  BY <1>0, <1>4, LogSameEnd
<1>8. Len(M(u)) = Len(k) /\ Len(k) \in Nat /\ \A i \in 1..Len(k) : M(u)[i] = <<k[i], u>>
  BY <1>4, LogBase
<1>9. Prefix(M(u), M(n))
  BY <1>0, <1>4, LogPrefix
<1> HIDE DEF L, M
<1>10. ASSUME NEW j \in 1..Len(k) PROVE M(n)[j][1] = k[j]
  <2>1. M(n)[j] = M(u)[j]
    BY <1>8, <1>9 DEF Prefix
  <2>2. M(n)[j] = <<k[j], u>>
    BY <1>8, <2>1
  <2> QED BY <2>2
<1>11. Compacted(M(n), L(n), k, Len(L(u)))
  BY <1>7, <1>8, <1>10 DEF SameEnd, Compacted
<1>12. M(n) \in Seq(Entry) /\ Len(c.recs) <= Len(L(u))
  BY <1>6, <1>9 DEF Prefix
<1>13. ASSUME NEW i \in (Len(L(u)) + 1)..Len(L(n)) PROVE L(n)[i][2] > u
  <2>1. L(n)[i][2] \in (u + 1)..n
    BY <1>5
  <2> QED BY <1>0, <2>1
<1> QED BY <1>1, <1>2, <1>4, <1>5, <1>6, <1>11, <1>12, <1>13 DEF L, M, d

-----------------------------------------------------------------------------
(***************************************************************************)
(* What the invariant says of a log, when the log changes                  *)
(***************************************************************************)

\* A log that is cut off.
LEMMA PrefixKeeps ==
  ASSUME NEW q, NEW p, Prefix(p, q), NEW n \in Nat
  PROVE  /\ \A own : OwnsLog(own, q) => OwnsLog(own, p)
         /\ Ordered(q) => Ordered(p)
         /\ Served(n, q) => Served(n, p)
<1>0. Len(p) \in Nat /\ Len(q) \in Nat /\ Len(p) <= Len(q) /\ \A i \in 1..Len(p) : q[i] = p[i]
  BY DEF Prefix
<1>1. ASSUME NEW i \in 1..Len(p) PROVE i \in 1..Len(q) /\ q[i] = p[i]
  BY <1>0
<1>2. ASSUME NEW j \in 1..Len(p), NEW i \in 1..(j - 1) PROVE i \in 1..Len(p)
  BY <1>0
<1>3. \A own : OwnsLog(own, q) => OwnsLog(own, p)
  BY <1>1 DEF OwnsLog
<1>4. Ordered(q) => Ordered(p)
  <2> SUFFICES ASSUME Ordered(q), NEW j \in 1..Len(p), p[j][1].kind = "sample", NEW i \in 1..(j - 1),
                      p[i][1].kind = "series", p[i][1].ref = p[j][1].ref
               PROVE  p[i][1].lbl = p[j][1].lbl
    BY DEF Ordered
  <2>1. j \in 1..Len(q) /\ q[j] = p[j] /\ q[i] = p[i]
    BY <1>1, <1>2
  <2> QED BY <2>1 DEF Ordered
<1>5. Served(n, q) => Served(n, p)
  <2> SUFFICES ASSUME Served(n, q), NEW j \in (n + 1)..Len(p), p[j][1].kind = "sample", p[j][1].known
               PROVE  \E i \in 1..(j - 1) : p[i][1] = Series(p[j][1].ref, p[j][1].lbl)
    BY DEF Served
  <2>1. j \in 1..Len(p) /\ j \in (n + 1)..Len(q)
    BY <1>0
  <2>2. q[j] = p[j]
    BY <1>1, <2>1
  <2>3. PICK i \in 1..(j - 1) : q[i][1] = Series(q[j][1].ref, q[j][1].lbl)
    BY <2>1, <2>2 DEF Served
  <2>4. q[i] = p[i]
    BY <1>1, <1>2, <2>1
  <2> QED BY <2>2, <2>3, <2>4
<1> QED BY <1>3, <1>4, <1>5

\* A log to which a record is added.
LEMMA GrownKeeps ==
  ASSUME NEW q, NEW p, NEW rec, NEW s, Grown(q, p, <<rec, s>>), NEW n \in Nat
  PROVE  /\ Prefix(p, q)
         /\ \A own : OwnsLog(own, p) /\ (rec.kind = "series" => own[rec.ref] = rec.lbl) => OwnsLog(own, q)
         /\ \A k : CountedLog(k, p) /\ (rec.kind = "series" => rec.ref <= k) => CountedLog(k, q)
         /\ \A own : OwnsLog(own, p) /\ Ordered(p) /\ (rec.kind = "sample" => own[rec.ref] = rec.lbl)
              => Ordered(q)
         /\ Served(n, p) /\ (rec.kind = "sample" /\ rec.known => SeriesIsLogged(p, rec.ref, rec.lbl))
              => Served(n, q)
         /\ \A m : Remembered(n, p, m) /\ (rec.kind = "sample" /\ rec.known => rec.ref \in m.refs)
              => Remembered(n, q, m)
<1>0. /\ Len(p) \in Nat /\ Len(q) = Len(p) + 1 /\ \A i \in 1..Len(p) : q[i] = p[i]
      /\ q[Len(p) + 1] = <<rec, s>>
  BY DEF Grown
<1>1. q[Len(p) + 1][1] = rec
  BY <1>0
<1>2. ASSUME NEW i \in 1..Len(q) PROVE (i \in 1..Len(p) /\ q[i] = p[i]) \/ (i = Len(p) + 1 /\ q[i][1] = rec)
  BY <1>0, <1>1
<1>3. Prefix(p, q)
  BY <1>0 DEF Grown, Prefix
<1>4. ASSUME NEW own, OwnsLog(own, p), rec.kind = "series" => own[rec.ref] = rec.lbl
      PROVE  OwnsLog(own, q)
  BY <1>2, <1>4 DEF OwnsLog
<1>5. ASSUME NEW k, CountedLog(k, p), rec.kind = "series" => rec.ref <= k
      PROVE  CountedLog(k, q)
  BY <1>2, <1>5 DEF CountedLog
<1>6. ASSUME NEW own, OwnsLog(own, p), Ordered(p), rec.kind = "sample" => own[rec.ref] = rec.lbl
      PROVE  Ordered(q)
  <2> SUFFICES ASSUME NEW j \in 1..Len(q), q[j][1].kind = "sample", NEW i \in 1..(j - 1),
                      q[i][1].kind = "series", q[i][1].ref = q[j][1].ref
               PROVE  q[i][1].lbl = q[j][1].lbl
    BY DEF Ordered
  <2>1. i \in 1..Len(p)
    BY <1>0
  <2>2. q[i] = p[i]
    BY <1>0, <2>1
  <2>3. CASE j \in 1..Len(p) /\ q[j] = p[j]
    BY <1>6, <2>2, <2>3 DEF Ordered
  <2>4. CASE j = Len(p) + 1 /\ q[j][1] = rec
    <3>1. own[q[i][1].ref] = q[i][1].lbl
      BY <1>6, <2>1, <2>2 DEF OwnsLog
    <3> QED BY <1>6, <2>4, <3>1
  <2> QED BY <1>2, <2>3, <2>4
<1>7. ASSUME Served(n, p), rec.kind = "sample" /\ rec.known => SeriesIsLogged(p, rec.ref, rec.lbl)
      PROVE  Served(n, q)
  <2> SUFFICES ASSUME NEW j \in (n + 1)..Len(q), q[j][1].kind = "sample", q[j][1].known
               PROVE  \E i \in 1..(j - 1) : q[i][1] = Series(q[j][1].ref, q[j][1].lbl)
    BY DEF Served
  <2>1. j \in 1..Len(q)
    BY <1>0
  <2>2. CASE j \in 1..Len(p) /\ q[j] = p[j]
    <3>1. j \in (n + 1)..Len(p)
      BY <2>2
    <3>2. PICK i \in 1..(j - 1) : p[i][1] = Series(p[j][1].ref, p[j][1].lbl)
      BY <1>7, <2>2, <3>1 DEF Served
    <3>3. i \in 1..Len(p)
      BY <1>0, <2>2
    <3> QED BY <1>0, <2>2, <3>2, <3>3
  <2>3. CASE j = Len(p) + 1 /\ q[j][1] = rec
    <3>1. PICK i \in 1..Len(p) : p[i][1] = Series(rec.ref, rec.lbl)
      BY <1>7, <2>3 DEF SeriesIsLogged
    <3>2. i \in 1..(j - 1) /\ q[i] = p[i]
      BY <1>0, <2>3
    <3> QED BY <2>3, <3>1, <3>2
  <2> QED BY <1>2, <2>1, <2>2, <2>3
<1>8. ASSUME NEW m, Remembered(n, p, m), rec.kind = "sample" /\ rec.known => rec.ref \in m.refs
      PROVE  Remembered(n, q, m)
  <2> SUFFICES ASSUME NEW j \in (n + 1)..Len(q), q[j][1].kind = "sample", q[j][1].known
               PROVE  \/ q[j][1].ref \in m.refs
                      \/ m.deleted[q[j][1].ref] \in Int /\ m.deleted[q[j][1].ref] >= q[j][2]
    BY DEF Remembered
  <2>1. j \in 1..Len(q)
    BY <1>0
  <2>2. CASE j \in 1..Len(p) /\ q[j] = p[j]
    <3>1. j \in (n + 1)..Len(p)
      BY <2>2
    <3> QED BY <1>8, <2>2, <3>1 DEF Remembered
  <2>3. CASE j = Len(p) + 1 /\ q[j][1] = rec
    BY <1>8, <2>3
  <2> QED BY <1>2, <2>1, <2>2, <2>3
<1> QED BY <1>3, <1>4, <1>5, <1>6, <1>7, <1>8

\* A log of which the beginning p is replaced by the records k kept of it.
CompactedLog(new, q, p, k) ==
  /\ KeptOf(k, p, Len(p)) /\ Prefix(p, q) /\ Compacted(new, q, k, Len(p)) /\ Len(k) \in Nat

\* Where the entries of the new log were in the old one.
LEMMA CompactedFrom ==
  ASSUME NEW new, NEW q, NEW p, NEW k, CompactedLog(new, q, p, k)
  PROVE  /\ Len(new) \in Nat
         /\ \A j \in 1..Len(k) : \E e \in 1..Len(p) : new[j][1] = q[e][1]
         /\ \A j \in 1..Len(new) : j > Len(k) =>
              \E e \in (Len(p) + 1)..Len(q) : j = Len(k) + (e - Len(p)) /\ new[j] = q[e]
         /\ \A j \in 1..Len(k) : \A i \in 1..(j - 1) :
              \E e \in 1..Len(p) : new[j][1] = q[e][1] /\ \E h \in 1..(e - 1) : new[i][1] = q[h][1]
<1>0. /\ Len(p) \in Nat /\ Len(q) \in Nat /\ Len(p) <= Len(q) /\ Len(k) \in Nat
      /\ \A i \in 1..Len(p) : q[i] = p[i]
      /\ Len(new) = Len(k) + (Len(q) - Len(p))
      /\ \A j \in 1..Len(k) : new[j][1] = k[j]
      /\ \A i \in 1..(Len(q) - Len(p)) : new[Len(k) + i] = q[Len(p) + i]
      /\ \A j \in 1..Len(k) : \E i \in 1..Len(p) : k[j] = p[i][1]
      /\ \A j \in 1..Len(k) : \A h \in 1..(j - 1) :
           \E i \in 1..Len(p) : k[j] = p[i][1] /\ \E e \in 1..(i - 1) : k[h] = p[e][1]
  BY DEF CompactedLog, KeptOf, Prefix, Compacted
<1>1. Len(new) \in Nat
  BY <1>0
<1>2. ASSUME NEW j \in 1..Len(k) PROVE \E e \in 1..Len(p) : new[j][1] = q[e][1]
  <2>1. PICK e \in 1..Len(p) : k[j] = p[e][1]
    BY <1>0
  <2>2. new[j][1] = k[j] /\ q[e] = p[e]
    BY <1>0
  <2> QED BY <2>1, <2>2
<1>3. ASSUME NEW j \in 1..Len(new), j > Len(k)
      PROVE  \E e \in (Len(p) + 1)..Len(q) : j = Len(k) + (e - Len(p)) /\ new[j] = q[e]
  <2> DEFINE i == j - Len(k)
             e == Len(p) + i
  <2>1. i \in 1..(Len(q) - Len(p)) /\ j = Len(k) + i /\ e \in (Len(p) + 1)..Len(q) /\ e - Len(p) = i
    BY <1>0, <1>1, <1>3
  <2> HIDE DEF i
  <2>2. new[Len(k) + i] = q[Len(p) + i]
    BY <1>0, <2>1
  <2> QED BY <2>1, <2>2
<1>4. ASSUME NEW j \in 1..Len(k), NEW i \in 1..(j - 1)
      PROVE  \E e \in 1..Len(p) : new[j][1] = q[e][1] /\ \E h \in 1..(e - 1) : new[i][1] = q[h][1]
  <2>1. PICK e \in 1..Len(p) : k[j] = p[e][1] /\ \E h \in 1..(e - 1) : k[i] = p[h][1]
    BY <1>0
  <2>2. PICK h \in 1..(e - 1) : k[i] = p[h][1]
    BY <2>1
  <2>3. h \in 1..Len(p) /\ i \in 1..Len(k)
    BY <1>0
  <2>4. new[j][1] = k[j] /\ q[e] = p[e] /\ new[i][1] = k[i] /\ q[h] = p[h]
    BY <1>0, <2>3
  <2> QED BY <2>1, <2>2, <2>4
<1> QED BY <1>1, <1>2, <1>3, <1>4

\* Two entries of the new log were in the old one, in the same order.
LEMMA CompactedOrder ==
  ASSUME NEW new, NEW q, NEW p, NEW k, CompactedLog(new, q, p, k),
         NEW j \in 1..Len(new), NEW i \in 1..(j - 1)
  PROVE  \E e \in 1..Len(q) : new[j][1] = q[e][1] /\ \E h \in 1..(e - 1) : new[i][1] = q[h][1]
<1>0. Len(p) \in Nat /\ Len(q) \in Nat /\ Len(p) <= Len(q) /\ Len(k) \in Nat /\ Len(new) \in Nat
  BY CompactedFrom DEF CompactedLog, Prefix
<1>3. \A x \in 1..Len(new) : x > Len(k) =>
        \E e \in (Len(p) + 1)..Len(q) : x = Len(k) + (e - Len(p)) /\ new[x] = q[e]
  BY CompactedFrom
<1>1. CASE j <= Len(k)
  <2>1. j \in 1..Len(k)
    BY <1>0, <1>1
  <2>2. PICK e \in 1..Len(p) : new[j][1] = q[e][1] /\ \E h \in 1..(e - 1) : new[i][1] = q[h][1]
    BY <2>1, CompactedFrom
  <2>3. e \in 1..Len(q)
    BY <1>0
  <2> QED BY <2>2, <2>3
<1>2. CASE j > Len(k)
  <2>1. PICK e \in (Len(p) + 1)..Len(q) : j = Len(k) + (e - Len(p)) /\ new[j] = q[e]
    BY <1>2, CompactedFrom
  <2>2. e \in 1..Len(q)
    BY <1>0
  <2>3. CASE i <= Len(k)
    <3>1. i \in 1..Len(k)
      BY <1>0, <2>3
    <3>2. PICK h \in 1..Len(p) : new[i][1] = q[h][1]
      BY <3>1, CompactedFrom
    <3>3. h \in 1..(e - 1)
      BY <1>0
    <3> QED BY <2>1, <2>2, <3>2, <3>3
  <2>4. CASE i > Len(k)
    <3>1. i \in 1..Len(new)
      BY <1>0
    <3>2. PICK h \in (Len(p) + 1)..Len(q) : i = Len(k) + (h - Len(p)) /\ new[i] = q[h]
      BY <2>4, <3>1, <1>3
    <3>3. h \in 1..(e - 1)
      <4>1. PICK a \in Nat, b \in Nat : a = Len(p) /\ b = Len(k)
        BY <1>0
      <4>2. e \in Int /\ h \in Int /\ h > a /\ j = b + (e - a) /\ i = b + (h - a) /\ i <= j - 1
        BY <1>0, <2>1, <3>2, <4>1
      <4> QED BY <4>2
    <3> QED BY <2>1, <2>2, <3>2, <3>3
  <2> QED BY <1>0, <2>3, <2>4
<1> QED BY <1>0, <1>1, <1>2

LEMMA CompactedKeeps ==
  ASSUME NEW new, NEW q, NEW p, NEW k, CompactedLog(new, q, p, k)
  PROVE  /\ \A own : OwnsLog(own, q) => OwnsLog(own, new)
         /\ \A n : CountedLog(n, q) => CountedLog(n, new)
         /\ Ordered(q) => Ordered(new)
<1>0. Len(p) \in Nat /\ Len(q) \in Nat /\ Len(p) <= Len(q) /\ Len(k) \in Nat /\ Len(new) \in Nat
  BY CompactedFrom DEF CompactedLog, Prefix
<1>1. ASSUME NEW j \in 1..Len(new) PROVE \E e \in 1..Len(q) : new[j][1] = q[e][1]
  <2>1. CASE j <= Len(k)
    <3>1. j \in 1..Len(k)
      BY <1>0, <2>1
    <3>2. PICK e \in 1..Len(p) : new[j][1] = q[e][1]
      BY <3>1, CompactedFrom
    <3>3. e \in 1..Len(q)
      BY <1>0
    <3> QED BY <3>2, <3>3
  <2>2. CASE j > Len(k)
    <3>1. PICK e \in (Len(p) + 1)..Len(q) : j = Len(k) + (e - Len(p)) /\ new[j] = q[e]
      BY <2>2, CompactedFrom
    <3>2. e \in 1..Len(q)
      BY <1>0
    <3> QED BY <3>1, <3>2
  <2> QED BY <1>0, <2>1, <2>2
<1>2. ASSUME NEW own, OwnsLog(own, q) PROVE OwnsLog(own, new)
  BY <1>1, <1>2 DEF OwnsLog
<1>3. ASSUME NEW n, CountedLog(n, q) PROVE CountedLog(n, new)
  BY <1>1, <1>3 DEF CountedLog
<1>4. ASSUME Ordered(q) PROVE Ordered(new)
  <2> SUFFICES ASSUME NEW j \in 1..Len(new), new[j][1].kind = "sample", NEW i \in 1..(j - 1),
                      new[i][1].kind = "series", new[i][1].ref = new[j][1].ref
               PROVE  new[i][1].lbl = new[j][1].lbl
    BY DEF Ordered
  <2>1. PICK e \in 1..Len(q) : new[j][1] = q[e][1] /\ \E h \in 1..(e - 1) : new[i][1] = q[h][1]
    BY CompactedOrder
  <2>2. PICK h \in 1..(e - 1) : new[i][1] = q[h][1]
    BY <2>1
  <2> QED BY <1>4, <2>1, <2>2 DEF Ordered
<1> QED BY <1>2, <1>3, <1>4

\* The series that wait for a segment behind the checkpoint are kept.
LEMMA CompactedServes ==
  ASSUME NEW new, NEW q, NEW p, NEW k, CompactedLog(new, q, p, k), NEW n \in Nat, n <= Len(p),
         Served(n, q), Remembered(n, q, mem), mem.deleted \in [Refs -> Int \cup {None}],
         trunc.upto \in Int,
         \A e \in (Len(p) + 1)..Len(q) : q[e][2] \in Int /\ q[e][2] > trunc.upto /\ q[e][1] \in Record
  PROVE  Served(Len(k), new) /\ Remembered(Len(k), new, mem)
<1>0. /\ Len(p) \in Nat /\ Len(q) \in Nat /\ Len(p) <= Len(q) /\ Len(k) \in Nat /\ Len(new) \in Nat
      /\ Len(new) = Len(k) + (Len(q) - Len(p))
      /\ \A i \in 1..(Len(q) - Len(p)) : new[Len(k) + i] = q[Len(p) + i]
      /\ \A i \in 1..Len(p) : q[i] = p[i]
      /\ \A j \in 1..Len(k) : new[j][1] = k[j]
      /\ \A i \in 1..Len(p) : Stays(p[i][1]) => \E j \in 1..Len(k) : k[j] = p[i][1]
  BY CompactedFrom DEF CompactedLog, Prefix, Compacted, KeptOf
<1>1. ASSUME NEW j \in (Len(k) + 1)..Len(new)
      PROVE  \E e \in (Len(p) + 1)..Len(q) :
               j = Len(k) + (e - Len(p)) /\ new[j] = q[e] /\ e \in (n + 1)..Len(q)
  <2>1. j \in 1..Len(new) /\ j > Len(k)
    BY <1>0
  <2>2. PICK e \in (Len(p) + 1)..Len(q) : j = Len(k) + (e - Len(p)) /\ new[j] = q[e]
    BY <2>1, CompactedFrom
  <2>3. e \in (n + 1)..Len(q)
    BY <1>0
  <2> QED BY <2>2, <2>3
<1>2. Remembered(Len(k), new, mem)
  <2> SUFFICES ASSUME NEW j \in (Len(k) + 1)..Len(new), new[j][1].kind = "sample", new[j][1].known
               PROVE  \/ new[j][1].ref \in mem.refs
                      \/ /\ mem.deleted[new[j][1].ref] \in Int
                         /\ mem.deleted[new[j][1].ref] >= new[j][2]
    BY DEF Remembered
  <2> QED BY <1>1 DEF Remembered
<1>3. Served(Len(k), new)
  <2> SUFFICES ASSUME NEW j \in (Len(k) + 1)..Len(new), new[j][1].kind = "sample", new[j][1].known
               PROVE  \E i \in 1..(j - 1) : new[i][1] = Series(new[j][1].ref, new[j][1].lbl)
    BY DEF Served
  <2>1. PICK e \in (Len(p) + 1)..Len(q) :
               j = Len(k) + (e - Len(p)) /\ new[j] = q[e] /\ e \in (n + 1)..Len(q)
    BY <1>1
  <2> DEFINE r == q[e][1].ref
             l == q[e][1].lbl
  <2>2. PICK h \in 1..(e - 1) : q[h][1] = Series(r, l)
    BY <2>1 DEF Served
  <2>3. CASE h <= Len(p)
    <3>1. h \in 1..Len(p)
      BY <1>0, <2>3
    <3>2. keep(r, trunc.upto)
      <4>1. q[e][2] \in Int /\ q[e][2] > trunc.upto
        OBVIOUS
      <4>2. r \in mem.refs \/ (mem.deleted[r] \in Int /\ mem.deleted[r] >= q[e][2])
        BY <2>1 DEF Remembered
      <4>3. None \notin Int
        BY RefFacts
      <4>4. CASE mem.deleted[r] \in Int /\ mem.deleted[r] >= q[e][2]
        <5>1. mem.deleted[r] # None /\ mem.deleted[r] > trunc.upto
          BY <4>1, <4>3, <4>4
        <5> QED BY <5>1 DEF keep
      <4> QED BY <4>2, <4>4 DEF keep
    <3>3. Stays(p[h][1])
      <4>1. p[h][1] = Series(r, l)
        BY <1>0, <2>2, <3>1
      <4>2. Series(r, l).kind # "sample" /\ Series(r, l).ref = r
        BY SeriesFields
      <4> HIDE DEF r, l
      <4> QED BY <3>2, <4>1, <4>2 DEF Stays
    <3>4. PICK i \in 1..Len(k) : k[i] = p[h][1]
      BY <1>0, <3>1, <3>3
    <3>5. i \in 1..(j - 1)
      BY <1>0, <2>1
    <3>6. new[i][1] = Series(r, l)
      BY <1>0, <2>2, <3>1, <3>4
    <3> QED BY <2>1, <3>5, <3>6
  <2>4. CASE h > Len(p)
    <3> DEFINE d == h - Len(p)
    <3>1. d \in 1..(Len(q) - Len(p)) /\ Len(p) + d = h /\ Len(k) + d \in 1..(j - 1)
      <4>1. PICK a \in Nat, b \in Nat, c \in Nat : a = Len(p) /\ b = Len(k) /\ c = Len(q)
        BY <1>0
      <4>2. e \in Int /\ h \in Int /\ h > a /\ j = b + (e - a) /\ h <= e - 1 /\ e <= c
        BY <1>0, <2>1, <2>4, <4>1
      <4>3. h - a \in 1..(c - a) /\ a + (h - a) = h /\ b + (h - a) \in 1..(j - 1)
        BY <4>2
      <4> QED BY <4>1, <4>3
    <3> HIDE DEF d
    <3>2. new[Len(k) + d] = q[h]
      BY <1>0, <3>1
    <3> QED BY <2>1, <2>2, <3>1, <3>2
  <2> QED BY <1>0, <2>3, <2>4
<1> QED BY <1>2, <1>3

\* Nothing is in the log of a new directory.
LEMMA EmptyLog ==
  ASSUME NEW n \in -1..MaxSegment
  PROVE  /\ NoCheckpoint \in Checkpoints /\ [s \in Segments |-> <<>>] \in Directories
         /\ Len(NoCheckpoint.recs) = 0 /\ NoCheckpoint.upto = -1
         /\ Len(ReplayLog(NoCheckpoint, [s \in Segments |-> <<>>], n)) = 0
<1> DEFINE c == NoCheckpoint
           sg == [s \in Segments |-> <<>>]
           T == {k \in Int : k <= MaxSegment => Len(ReplayLog(c, sg, k)) = 0}
<1>0. MaxSegment \in Nat
  BY PrometheusWalAssumption
<1>1. <<>> \in Seq(Record) /\ Len(<<>>) = 0
  BY EmptySeq
<1>2. /\ c \in Checkpoints /\ c.upto = -1 /\ c.recs = <<>> /\ sg \in Directories
      /\ \A s \in Segments : sg[s] = <<>>
  BY <1>0, <1>1 DEF NoCheckpoint, Checkpoints, Directories
<1> HIDE DEF c, sg
<1>3. -1 \in T
  <2>1. Len(ReplayLog(c, sg, c.upto)) = Len(c.recs)
    BY <1>2, LogBase
  <2> QED BY <1>1, <1>2, <2>1
<1>4. ASSUME NEW k \in Int, k >= -1, k \in T PROVE k + 1 \in T
  <2> SUFFICES ASSUME k + 1 <= MaxSegment PROVE Len(ReplayLog(c, sg, k + 1)) = 0
    OBVIOUS
  <2>1. k + 1 \in Segments /\ k + 1 > c.upto /\ (k + 1) - 1 = k /\ k <= MaxSegment
    BY <1>0, <1>2, <1>4 DEF Segments
  <2>2. ReplayLog(c, sg, k + 1) = ReplayLog(c, sg, (k + 1) - 1)
    BY <1>2, <2>1, LogNewSegment
  <2> QED BY <1>4, <2>1, <2>2
<1>5. \A k \in Int : k >= -1 => k \in T
  <2> HIDE DEF T
  <2> QED BY <1>3, <1>4, IntInduction
<1> QED BY <1>0, <1>1, <1>2, <1>5 DEF c, sg

LEMMA EmptyLogOK ==
  ASSUME NEW log, Len(log) = 0, NEW own, NEW n \in Nat, NEW k, NEW m
  PROVE  OwnsLog(own, log) /\ CountedLog(k, log) /\ Ordered(log) /\ Served(n, log) /\ Remembered(n, log, m)
BY DEF OwnsLog, CountedLog, Ordered, Served, Remembered

\* The newest timestamp of a set.
LEMMA MaxIs ==
  ASSUME NEW S \in SUBSET Nat, NEW x \in S, \A y \in S : y <= x
  PROVE  Max(S) = x
<1>1. x \in S /\ \A y \in S : x >= y
  OBVIOUS
<1>2. Max(S) \in S /\ \A y \in S : Max(S) >= y
  BY <1>1 DEF Max
<1>3. PICK z \in Nat : z = Max(S)
  BY <1>2
<1>4. x \in Nat /\ z >= x /\ z <= x
  BY <1>2, <1>3
<1>5. z = x
  BY <1>4
<1> QED BY <1>3, <1>5

\* The memory after a replay remembers everything that waits in the log.
LEMMA ReplayRemembers ==
  ASSUME NEW log \in Seq(Entry), NoMetadata(log), NEW own, OwnsLog(own, log), NEW n \in Nat, Served(n, log)
  PROVE  /\ replayWAL(log) \in MemoryType
         /\ OwnsMemory(own, replayWAL(log))
         /\ CountedLog(replayWAL(log).nextRef, log)
         /\ Remembered(n, log, replayWAL(log))
<1>1. PICK m : /\ Loaded(m, log, Len(log), own)
               /\ replayWAL(log) \in MemoryType
               /\ replayWAL(log).refs = m.refs /\ replayWAL(log).hashes = m.hashes
               /\ replayWAL(log).lset = m.lset /\ replayWAL(log).lastTs = m.lastTs
               /\ replayWAL(log).deleted = m.deleted /\ replayWAL(log).nextRef = m.nextRef
  BY ReplayMemory
<1>0. Len(log) \in Nat /\ m.refs \in SUBSET Refs
  BY <1>1, LenProperties, MemoryFields DEF Loaded
<1>2. \A r \in Refs, l \in Labels : HasSeries(log, Len(log), r, l) => own[r] = l /\ r <= m.nextRef
  BY <1>1 DEF Loaded
<1>3. \A r \in m.refs : own[r] = m.lset[r] /\ m.lset[r] \in Labels /\ r <= m.nextRef
  <2> TAKE r \in m.refs
  <2>1. m.lset[r] \in Labels /\ own[r] = m.lset[r] /\ HasSeries(log, Len(log), r, m.lset[r])
    BY <1>1 DEF Loaded
  <2> QED BY <1>0, <1>2, <2>1
<1>4. CountedLog(m.nextRef, log)
  <2> SUFFICES ASSUME NEW i \in 1..Len(log), log[i][1].kind = "series" PROVE log[i][1].ref <= m.nextRef
    BY DEF CountedLog
  <2>1. log[i][1] = Series(log[i][1].ref, log[i][1].lbl) /\ log[i][1].ref \in Refs /\ log[i][1].lbl \in Labels
    BY SeriesEntry
  <2>2. HasSeries(log, Len(log), log[i][1].ref, log[i][1].lbl)
    BY <2>1 DEF HasSeries
  <2> QED BY <1>2, <2>1, <2>2
<1>5. ASSUME NEW j \in (n + 1)..Len(log), log[j][1].kind = "sample", log[j][1].known
      PROVE  \/ log[j][1].ref \in m.refs
             \/ m.deleted[log[j][1].ref] \in Int /\ m.deleted[log[j][1].ref] >= log[j][2]
  <2>1. j \in 1..Len(log)
    BY <1>0
  <2>2. log[j][1].ref \in Refs /\ log[j][1].lbl \in Labels /\ log[j][2] \in Int
    BY <1>5, <2>1, SampleEntry, EntryRecord
  <2>3. PICK i \in 1..(j - 1) : log[i][1] = Series(log[j][1].ref, log[j][1].lbl)
    BY <1>5 DEF Served
  <2>4. Waits(log, Len(log), log[j][1].ref, log[j][2])
    <3>1. HasSeries(log, j - 1, log[j][1].ref, log[j][1].lbl)
      BY <2>3 DEF HasSeries
    <3> QED BY <1>5, <2>1, <2>2, <3>1 DEF Waits
  <2>5. \A r \in Refs, s \in Int : Waits(log, Len(log), r, s) =>
          r \in m.refs \/ (m.dup[r] # None /\ m.deleted[r] \in Int /\ m.deleted[r] >= s)
    BY <1>1 DEF Loaded
  <2> QED BY <2>2, <2>4, <2>5
<1>6. Remembered(n, log, replayWAL(log))
  BY <1>1, <1>5 DEF Remembered
<1>7. OwnsMemory(own, replayWAL(log))
  BY <1>1, <1>3 DEF OwnsMemory
<1> QED BY <1>1, <1>4, <1>6, <1>7

\* What a replay should find.
Exact(m, log) ==
  \A l \in Labels :
    LET r == m.hashes[l]
    IN IF \E i \in 1..Len(log) : log[i][1].kind = "series" /\ log[i][1].lbl = l
         THEN r \in m.refs /\ m.lset[r] = l /\ m.lastTs[r] = Newest(log, l)
         ELSE r = None

LEMMA NewestIs ==
  ASSUME NEW log \in Seq(Entry), NEW l \in Labels, NEW x \in Nat,
         \A t \in Nat : HasSample(log, Len(log), l, t) => t <= x,
         x = 0 \/ HasSample(log, Len(log), l, x)
  PROVE  Newest(log, l) = x
<1> DEFINE Behind == {k \in 1..Len(log) : /\ log[k][1].kind = "sample"
                                          /\ \E i \in 1..(k - 1) : log[i][1] = Series(log[k][1].ref, l)}
           S == {0} \cup {log[j][1].t : j \in Behind}
<1>1. \A k \in Behind : log[k][1].t \in Nat
  BY SampleEntry
<1>2. \A k \in Behind : HasSample(log, Len(log), l, log[k][1].t)
  BY DEF HasSample, HasSeries
<1>3. \A t : HasSample(log, Len(log), l, t) => \E k \in Behind : log[k][1].t = t
  BY DEF HasSample, HasSeries
<1>4. Newest(log, l) = Max(S)
  BY DEF Newest
<1> HIDE DEF Behind
<1>5. S \in SUBSET Nat /\ x \in S /\ \A y \in S : y <= x
  BY <1>1, <1>2, <1>3
<1> HIDE DEF S
<1> QED BY <1>4, <1>5, MaxIs

LEMMA ReplayExact ==
  ASSUME NEW log \in Seq(Entry), NoMetadata(log), NEW own, OwnsLog(own, log)
  PROVE  Exact(replayWAL(log), log)
<1>1. PICK m : /\ Loaded(m, log, Len(log), own)
               /\ replayWAL(log) \in MemoryType
               /\ replayWAL(log).refs = m.refs /\ replayWAL(log).hashes = m.hashes
               /\ replayWAL(log).lset = m.lset /\ replayWAL(log).lastTs = m.lastTs
               /\ replayWAL(log).deleted = m.deleted /\ replayWAL(log).nextRef = m.nextRef
  BY ReplayMemory
<1>2. m.refs \in SUBSET Refs /\ m.lastTs \in [Refs -> Nat] /\ m.hashes \in [Labels -> Refs \cup {None}]
  BY <1>1, MemoryFields DEF Loaded
<1>3. ASSUME NEW l \in Labels, NEW i \in 1..Len(log), log[i][1].kind = "series", log[i][1].lbl = l
      PROVE  /\ m.hashes[l] \in m.refs /\ m.lset[m.hashes[l]] = l
             /\ m.lastTs[m.hashes[l]] = Newest(log, l)
  <2>1. log[i][1] = Series(log[i][1].ref, log[i][1].lbl) /\ log[i][1].ref \in Refs
    BY <1>3, SeriesEntry
  <2>2. HasSeries(log, Len(log), log[i][1].ref, l)
    BY <1>3, <2>1 DEF HasSeries
  <2>3. m.hashes[l] # None
    BY <1>1, <2>1, <2>2 DEF Loaded
  <2>4. /\ m.hashes[l] \in m.refs /\ m.lset[m.hashes[l]] = l
        /\ \A t \in Nat : HasSample(log, Len(log), l, t) => t <= m.lastTs[m.hashes[l]]
        /\ m.lastTs[m.hashes[l]] = 0 \/ HasSample(log, Len(log), l, m.lastTs[m.hashes[l]])
    BY <1>1, <2>3 DEF Loaded
  <2>5. m.lastTs[m.hashes[l]] \in Nat
    BY <1>2, <2>4
  <2>6. Newest(log, l) = m.lastTs[m.hashes[l]]
    BY <2>4, <2>5, NewestIs
  <2> QED BY <2>4, <2>6
<1>4. ASSUME NEW l \in Labels, ~\E i \in 1..Len(log) : log[i][1].kind = "series" /\ log[i][1].lbl = l
      PROVE  m.hashes[l] = None
  <2> SUFFICES ASSUME m.hashes[l] # None PROVE FALSE
    OBVIOUS
  <2>1. m.hashes[l] \in m.refs /\ m.lset[m.hashes[l]] = l
    BY <1>1 DEF Loaded
  <2>2. HasSeries(log, Len(log), m.hashes[l], l)
    BY <1>1, <2>1 DEF Loaded
  <2>3. PICK i \in 1..Len(log) : log[i][1] = Series(m.hashes[l], l)
    BY <2>2 DEF HasSeries
  <2>4. log[i][1].kind = "series" /\ log[i][1].lbl = l
    BY <2>3, SeriesFields
  <2> QED BY <1>4, <2>4
<1> QED BY <1>1, <1>3, <1>4 DEF Exact

-----------------------------------------------------------------------------
(***************************************************************************)
(* Facts about states                                                      *)
(***************************************************************************)

LEMMA LogFacts ==
  ASSUME TypeOK, DiskOK
  PROVE  /\ cp \in Checkpoints /\ segs \in Directories /\ last \in Segments /\ last > cp.upto
         /\ last \in -1..MaxSegment /\ last \in Nat /\ cp.upto \in Int /\ MaxSegment \in Nat
         /\ Log \in Seq(Entry) /\ Len(Log) \in Nat /\ Len(cp.recs) \in Nat /\ Len(cp.recs) <= Len(Log)
         /\ \A j \in (Len(cp.recs) + 1)..Len(Log) : Log[j][2] \in (cp.upto + 1)..last
<1>1. /\ cp \in Checkpoints /\ segs \in Directories /\ last \in Segments /\ last > cp.upto
      /\ last \in -1..MaxSegment /\ last \in Nat /\ cp.upto \in -1..MaxSegment /\ cp.upto \in Int
      /\ cp.upto <= last /\ cp.upto <= cp.upto /\ MaxSegment \in Nat
  BY PrometheusWalAssumption DEF TypeOK, DiskOK, Checkpoints, Directories, Segments
<1>2. /\ Prefix(ReplayLog(cp, segs, cp.upto), Log)
      /\ \A i \in (Len(ReplayLog(cp, segs, cp.upto)) + 1)..Len(Log) : Log[i][2] \in (cp.upto + 1)..last
  BY <1>1, LogPrefix DEF Log
<1>3. Len(ReplayLog(cp, segs, cp.upto)) = Len(cp.recs) /\ Len(cp.recs) \in Nat
  BY <1>1, LogBase
<1> QED BY <1>1, <1>2, <1>3 DEF Prefix

LEMMA RecordTypes ==
  ASSUME NEW r \in Refs, NEW l \in Labels, NEW t \in Times, NEW b \in BOOLEAN
  PROVE  /\ Series(r, l) \in Record /\ Metadata(r) \in Record /\ Sample(r, t, l) \in Record
         /\ [Sample(r, t, l) EXCEPT !.known = b] \in Record
         /\ Series(r, l).kind = "series" /\ Series(r, l).ref = r /\ Series(r, l).lbl = l
         /\ Metadata(r).kind = "metadata"
         /\ Sample(r, t, l).kind = "sample"
         /\ [Sample(r, t, l) EXCEPT !.known = b].kind = "sample"
         /\ [Sample(r, t, l) EXCEPT !.known = b].ref = r /\ [Sample(r, t, l) EXCEPT !.known = b].lbl = l
         /\ [Sample(r, t, l) EXCEPT !.known = b].known = b
BY DEF Series, Metadata, Sample, Record, SeriesRecord, MetadataRecord, SampleRecord

LEMMA IdleFacts ==
  /\ Idle \in AppenderType /\ Idle.pc = "idle" /\ \A n : AppenderFine(Idle, n)
<1>1. <<>> \in Seq(Record)
  BY EmptySeq
<1>2. Idle \in AppenderType
  BY <1>1 DEF Idle, AppenderType
<1>3. Idle.pc = "idle" /\ Idle.todo = <<>>
  BY DEF Idle
<1> QED BY <1>2, <1>3 DEF AppenderFine

\* One appender changes.
LEMMA AppenderChange ==
  ASSUME NEW ap \in [Appenders -> AppenderType], NEW a \in Appenders, NEW x \in AppenderType,
         NEW n \in Nat, NEW k \in Nat, n <= k,
         \A b \in Appenders : AppenderFine(ap[b], n), AppenderFine(x, k)
  PROVE  /\ [ap EXCEPT ![a] = x] \in [Appenders -> AppenderType]
         /\ \A b \in Appenders : AppenderFine([ap EXCEPT ![a] = x][b], k)
         /\ \A own : OwnsAppenders(own, ap) /\ (x.pc \in {"pending", "commit"} => own[x.ref] = x.lbl)
              => OwnsAppenders(own, [ap EXCEPT ![a] = x])
<1> DEFINE bp == [ap EXCEPT ![a] = x]
<1>1. bp \in [Appenders -> AppenderType] /\ bp[a] = x /\ \A b \in Appenders : b # a => bp[b] = ap[b]
  OBVIOUS
<1> HIDE DEF bp
<1>2. ASSUME NEW y, AppenderFine(y, n) PROVE AppenderFine(y, k)
  <2>1. \A r \in 1..n : r \in 1..k
    OBVIOUS
  <2> QED BY <1>2, <2>1 DEF AppenderFine
<1>3. \A b \in Appenders : AppenderFine(bp[b], k)
  <2> TAKE b \in Appenders
  <2>1. CASE b = a
    BY <1>1, <2>1
  <2>2. CASE b # a
    BY <1>1, <1>2, <2>2
  <2> QED BY <2>1, <2>2
<1>4. ASSUME NEW own, OwnsAppenders(own, ap), x.pc \in {"pending", "commit"} => own[x.ref] = x.lbl
      PROVE  OwnsAppenders(own, bp)
  BY <1>1, <1>4 DEF OwnsAppenders
<1> QED BY <1>1, <1>3, <1>4 DEF bp

\* What an appender may log: its series, its metadata or its sample.
Loggable(x) == {Series(x.ref, x.lbl), Metadata(x.ref), Sample(x.ref, x.t, x.lbl)}

LEMMA AppenderFields ==
  ASSUME TypeOK, AppendersOK, NEW a \in Appenders
  PROVE  /\ app[a] \in AppenderType /\ AppenderFine(app[a], mem.nextRef)
         /\ mem.nextRef \in 0..MaxRef /\ mem.nextRef \in Nat
         /\ app[a].pc # "idle" => app[a].lbl \in Labels /\ app[a].t \in Times
         /\ app[a].pc \in {"pending", "commit"} =>
              app[a].ref \in Refs /\ app[a].ref \in 1..mem.nextRef /\ app[a].ref <= mem.nextRef
<1>1. app[a] \in AppenderType /\ AppenderFine(app[a], mem.nextRef) /\ mem \in MemoryType
  BY DEF TypeOK, AppendersOK
<1>2. mem.nextRef \in 0..MaxRef
  BY <1>1, MemoryFields
<1>3. mem.nextRef \in Nat /\ \A r \in 1..mem.nextRef : r \in Refs /\ r <= mem.nextRef
  BY <1>2, PrometheusWalAssumption DEF Refs
<1> QED BY <1>1, <1>2, <1>3 DEF AppenderFine

\* A record is logged.
LEMMA LogFirstIs ==
  ASSUME TypeOK, DiskOK, AppendersOK, NEW a \in Appenders, app[a].pc \in {"pending", "commit"},
         NEW records, Head(records) \in Loggable(app[a]), LogFirst(a, records), UNCHANGED <<last, cp>>
  PROVE  /\ segs' \in [Segments -> Seq(Record)]
         /\ \A s \in Segments : s > last => segs'[s] = segs[s]
         /\ \E rec \in Record :
              /\ Grown(Log', Log, <<rec, last>>)
              /\ rec.kind = "series" => rec.ref = app[a].ref /\ rec.lbl = app[a].lbl
              /\ rec.kind = "sample" => rec.ref = app[a].ref /\ rec.lbl = app[a].lbl
              /\ rec.kind = "sample" /\ rec.known =>
                   rec.ref \in mem.refs /\ SeriesIsLogged(Log, rec.ref, rec.lbl)
<1>1. app[a].lbl \in Labels /\ app[a].t \in Times /\ app[a].ref \in Refs
  BY AppenderFields
<1> DEFINE known == app[a].ref \in mem.refs /\ SeriesIsLogged(Log, app[a].ref, app[a].lbl)
           h == Head(records)
           rec == IF h.kind = "sample" THEN [h EXCEPT !.known = known] ELSE h
<1>2. segs' = [segs EXCEPT ![last] = Append(@, rec)]
  BY DEF LogFirst
<1>3. known \in BOOLEAN
  OBVIOUS
<1>4. /\ rec \in Record
      /\ rec.kind = "series" => rec.ref = app[a].ref /\ rec.lbl = app[a].lbl
      /\ rec.kind = "sample" => rec.ref = app[a].ref /\ rec.lbl = app[a].lbl
      /\ rec.kind = "sample" /\ rec.known => known
  <2> DEFINE r == app[a].ref
             l == app[a].lbl
             z == Sample(r, app[a].t, l)
  <2>0. /\ Series(r, l) \in Record /\ Metadata(r) \in Record
        /\ [z EXCEPT !.known = known] \in Record
        /\ Series(r, l).kind = "series" /\ Series(r, l).ref = r /\ Series(r, l).lbl = l
        /\ Metadata(r).kind = "metadata" /\ z.kind = "sample"
        /\ [z EXCEPT !.known = known].kind = "sample" /\ [z EXCEPT !.known = known].ref = r
        /\ [z EXCEPT !.known = known].lbl = l /\ [z EXCEPT !.known = known].known = known
    <3> HIDE DEF known
    <3> QED BY <1>1, <1>3, RecordTypes
  <2>4. h \in {Series(r, l), Metadata(r), z}
    BY DEF Loggable
  <2> HIDE DEF known, r, l, z, h
  <2>1. CASE h = Series(r, l)
    <3>1. rec = Series(r, l)
      BY <2>0, <2>1
    <3> HIDE DEF rec
    <3> QED BY <2>0, <3>1 DEF r, l
  <2>2. CASE h = Metadata(r)
    <3>1. rec = Metadata(r)
      BY <2>0, <2>2
    <3> HIDE DEF rec
    <3> QED BY <2>0, <3>1
  <2>3. CASE h = z
    <3>1. rec = [z EXCEPT !.known = known]
      BY <2>0, <2>3
    <3> HIDE DEF rec
    <3> QED BY <2>0, <3>1 DEF r, l
  <2> QED BY <2>1, <2>2, <2>3, <2>4
<1>5. cp \in Checkpoints /\ segs \in Directories /\ last \in Segments /\ last > cp.upto /\ last \in Nat
  BY LogFacts
<1> HIDE DEF rec
<1>6. /\ [segs EXCEPT ![last] = Append(@, rec)] \in Directories
      /\ Grown(ReplayLog(cp, [segs EXCEPT ![last] = Append(@, rec)], last), ReplayLog(cp, segs, last),
               <<rec, last>>)
  BY <1>4, <1>5, LogAppend
<1>7. Grown(Log', Log, <<rec, last>>)
  BY <1>2, <1>6 DEF Log
<1>8. segs' \in [Segments -> Seq(Record)]
  BY <1>2, <1>6 DEF Directories
<1>9. \A s \in Segments : s > last => segs'[s] = segs[s]
  <2> TAKE s \in Segments
  <2> HAVE s > last
  <2>1. s # last
    BY <1>5 DEF Segments
  <2> QED BY <1>2, <1>5, <2>1 DEF Directories
<1> QED BY <1>4, <1>7, <1>8, <1>9

LEMMA LogFirstKeeps ==
  ASSUME TypeOK, DiskOK, AppendersOK, LogOK, up, NEW a \in Appenders, app[a].pc \in {"pending", "commit"},
         NEW records, Head(records) \in Loggable(app[a]), LogFirst(a, records), UNCHANGED <<last, cp, up, mem>>,
         NEW x \in AppenderType, x.pc \in {"pending", "commit"} => x.ref = app[a].ref /\ x.lbl = app[a].lbl,
         AppenderFine(x, mem.nextRef), app' = [app EXCEPT ![a] = x]
  PROVE  LogOK'
<1>1. PICK rec \in Record :
              /\ Grown(Log', Log, <<rec, last>>)
              /\ rec.kind = "series" => rec.ref = app[a].ref /\ rec.lbl = app[a].lbl
              /\ rec.kind = "sample" => rec.ref = app[a].ref /\ rec.lbl = app[a].lbl
              /\ rec.kind = "sample" /\ rec.known =>
                   rec.ref \in mem.refs /\ SeriesIsLogged(Log, rec.ref, rec.lbl)
  BY LogFirstIs
<1>2. Len(cp.recs) \in Nat
  BY LogFacts
<1>3. app[a].ref <= mem.nextRef /\ mem.nextRef \in Nat
  BY AppenderFields
<1>4. PICK own \in Owners : Owns(own)
  BY DEF LogOK
<1>5. OwnsLog(own, Log) /\ own[app[a].ref] = app[a].lbl
  BY <1>4 DEF Owns, OwnsAppenders
<1>6. OwnsLog(own, Log')
  BY <1>1, <1>2, <1>5, GrownKeeps
<1>7. CountedLog(mem.nextRef, Log')
  <2>1. CountedLog(mem.nextRef, Log)
    BY DEF LogOK
  <2> QED BY <1>1, <1>2, <1>3, <2>1, GrownKeeps
<1>8. Ordered(Log')
  <2>1. Ordered(Log)
    BY DEF LogOK
  <2> QED BY <1>1, <1>2, <1>5, <2>1, GrownKeeps
<1>9. Served(Len(cp.recs), Log')
  <2>1. Served(Len(cp.recs), Log)
    BY DEF LogOK
  <2> QED BY <1>1, <1>2, <2>1, GrownKeeps
<1>10. Remembered(Len(cp.recs), Log', mem)
  <2>1. Remembered(Len(cp.recs), Log, mem)
    BY DEF LogOK
  <2> QED BY <1>1, <1>2, <2>1, GrownKeeps
<1>11. OwnsAppenders(own, app')
  <2>1. OwnsAppenders(own, app) /\ app \in [Appenders -> AppenderType] /\ mem.nextRef <= mem.nextRef
    BY <1>3, <1>4 DEF Owns, TypeOK
  <2>2. \A b \in Appenders : AppenderFine(app[b], mem.nextRef)
    BY DEF AppendersOK
  <2> QED BY <1>3, <1>5, <2>1, <2>2, AppenderChange
<1>12. OwnsMemory(own, mem')
  BY <1>4 DEF Owns
<1>13. Owns(own)'
  BY <1>6, <1>11, <1>12 DEF Owns
<1>14. (\E w \in Owners : Owns(w))'
  BY <1>4, <1>13
<1> QED BY <1>7, <1>8, <1>9, <1>10, <1>14 DEF LogOK

-----------------------------------------------------------------------------
(***************************************************************************)
(* Every step keeps the invariant                                          *)
(***************************************************************************)

\* A step that leaves the log alone.
LEMMA SameLog ==
  ASSUME LogOK, Log' = Log, cp'.recs = cp.recs, up' => up /\ mem'.nextRef = mem.nextRef,
         \A own \in Owners : Owns(own) => OwnsAppenders(own, app') /\ OwnsMemory(own, mem'),
         up /\ Remembered(Len(cp.recs), Log, mem) => Remembered(Len(cp.recs), Log, mem')
  PROVE  LogOK'
<1>1. PICK own \in Owners : Owns(own)
  BY DEF LogOK
<1>2. Owns(own)'
  BY <1>1 DEF Owns
<1>3. (\E w \in Owners : Owns(w))'
  BY <1>1, <1>2
<1> QED BY <1>3 DEF LogOK

LEMMA DiskSameLog ==
  ASSUME UNCHANGED disk
  PROVE  Log' = Log /\ cp'.recs = cp.recs
BY DEF disk, Log

\* A step of an appender that logs nothing.
LEMMA QuietAppender ==
  ASSUME IInv, up, UNCHANGED <<disk, up, trunc>>, NEW a \in Appenders, NEW x \in AppenderType,
         AppenderFine(x, mem.nextRef), app' = [app EXCEPT ![a] = x],
         \A own \in Owners : Owns(own) /\ x.pc \in {"pending", "commit"} => own[x.ref] = x.lbl,
         mem' \in MemoryType, mem'.refs = mem.refs, mem'.lset = mem.lset, mem'.deleted = mem.deleted,
         mem'.nextRef = mem.nextRef
  PROVE  IInv'
<1>1. TypeOK /\ DiskOK /\ ClosedOK /\ AppendersOK /\ LogOK
  BY DEF IInv
<1>2. mem.nextRef \in Nat /\ mem.nextRef <= mem.nextRef
  BY <1>1, AppenderFields
<1>3. app \in [Appenders -> AppenderType] /\ \A b \in Appenders : AppenderFine(app[b], mem.nextRef)
  BY <1>1 DEF TypeOK, AppendersOK
<1>4. /\ [app EXCEPT ![a] = x] \in [Appenders -> AppenderType]
      /\ \A b \in Appenders : AppenderFine([app EXCEPT ![a] = x][b], mem.nextRef)
      /\ \A own : OwnsAppenders(own, app) /\ (x.pc \in {"pending", "commit"} => own[x.ref] = x.lbl)
           => OwnsAppenders(own, [app EXCEPT ![a] = x])
  BY <1>2, <1>3, AppenderChange
<1>5. TypeOK'
  BY <1>1, <1>4 DEF TypeOK, disk
<1>6. DiskOK'
  BY <1>1 DEF DiskOK, disk
<1>7. ClosedOK'
  BY DEF ClosedOK
<1>8. AppendersOK'
  BY <1>4 DEF AppendersOK
<1>9. LogOK'
  <2>1. \A own \in Owners : Owns(own) => OwnsAppenders(own, app') /\ OwnsMemory(own, mem')
    BY <1>4 DEF Owns, OwnsMemory
  <2>2. Remembered(Len(cp.recs), Log, mem) => Remembered(Len(cp.recs), Log, mem')
    BY DEF Remembered
  <2> QED BY <1>1, <2>1, <2>2, DiskSameLog, SameLog
<1> QED BY <1>5, <1>6, <1>7, <1>8, <1>9 DEF IInv

LEMMA MemoryStays ==
  ASSUME IInv, UNCHANGED mem
  PROVE  /\ mem' \in MemoryType /\ mem'.refs = mem.refs /\ mem'.lset = mem.lset
         /\ mem'.deleted = mem.deleted /\ mem'.nextRef = mem.nextRef
BY DEF IInv, TypeOK

LEMMA AppendFoundKeeps ==
  ASSUME IInv, NEW a \in Appenders, NEW r \in Refs, NEW t \in Times, AppendFound(a, r, t)
  PROVE  IInv'
<1> DEFINE x == [Idle EXCEPT !.pc = "pending", !.lbl = mem.lset[r], !.t = t, !.ref = r]
<1>1. /\ up /\ UNCHANGED <<disk, up, trunc>> /\ UNCHANGED mem /\ app' = [app EXCEPT ![a] = x] /\ r \in mem.refs
  BY DEF AppendFound, AppOnly
<1>2. PICK own \in Owners : Owns(own)
  BY DEF IInv, LogOK
<1>3. mem.lset[r] \in Labels /\ r <= mem.nextRef
  BY <1>1, <1>2 DEF Owns, OwnsMemory
<1>4. mem.nextRef \in Nat /\ t \in Nat /\ r \in 1..mem.nextRef
  <2>1. mem \in MemoryType
    BY DEF IInv, TypeOK
  <2>2. mem.nextRef \in 0..MaxRef
    BY <2>1, MemoryFields
  <2> QED BY <1>3, <2>2, PrometheusWalAssumption DEF Refs, Times
<1>5. x \in AppenderType /\ x.pc = "pending" /\ x.ref = r /\ x.lbl = mem.lset[r] /\ x.t = t /\ x.todo = <<>>
  <2>1. <<>> \in Seq(Record)
    BY EmptySeq
  <2> QED BY <1>3, <1>4, <2>1 DEF Idle, AppenderType
<1> HIDE DEF x
<1>6. AppenderFine(x, mem.nextRef)
  BY <1>3, <1>4, <1>5 DEF AppenderFine
<1>7. \A w \in Owners : Owns(w) /\ x.pc \in {"pending", "commit"} => w[x.ref] = x.lbl
  BY <1>1, <1>5 DEF Owns, OwnsMemory
<1> QED BY <1>1, <1>5, <1>6, <1>7, QuietAppender, MemoryStays

LEMMA AppendNotFoundKeeps ==
  ASSUME IInv, NEW a \in Appenders, NEW l \in Labels, NEW t \in Times, AppendNotFound(a, l, t)
  PROVE  IInv'
<1> DEFINE x == [Idle EXCEPT !.pc = "create", !.lbl = l, !.t = t]
<1>1. up /\ UNCHANGED <<disk, up, trunc>> /\ UNCHANGED mem /\ app' = [app EXCEPT ![a] = x]
  BY DEF AppendNotFound, AppOnly
<1>2. x \in AppenderType /\ x.pc = "create" /\ x.ref = None /\ x.lbl = l /\ x.t = t /\ x.todo = <<>>
  <2>1. <<>> \in Seq(Record) /\ t \in Nat
    BY EmptySeq, PrometheusWalAssumption DEF Times
  <2> QED BY <2>1 DEF Idle, AppenderType
<1> HIDE DEF x
<1>3. AppenderFine(x, mem.nextRef)
  BY <1>2 DEF AppenderFine
<1>4. x.pc \notin {"pending", "commit"}
  BY <1>2
<1> QED BY <1>1, <1>2, <1>3, <1>4, QuietAppender, MemoryStays

LEMMA LogFailsKeeps ==
  ASSUME IInv, NEW a \in Appenders, LogFails(a)
  PROVE  IInv'
<1>1. up /\ UNCHANGED <<disk, up, trunc>> /\ UNCHANGED mem /\ app' = [app EXCEPT ![a] = Idle]
  BY DEF LogFails, AppOnly
<1>2. Idle \in AppenderType /\ AppenderFine(Idle, mem.nextRef) /\ Idle.pc \notin {"pending", "commit"}
  BY IdleFacts
<1> QED BY <1>1, <1>2, QuietAppender, MemoryStays

LEMMA EndTransactionKeeps ==
  ASSUME IInv, NEW a \in Appenders, EndTransaction(a)
  PROVE  IInv'
<1>1. /\ up /\ UNCHANGED <<disk, up, trunc>> /\ app' = [app EXCEPT ![a] = Idle] /\ app[a].pc = "commit"
      /\ mem' = IF app[a].ref \in mem.refs /\ app[a].t > mem.lastTs[app[a].ref]
                  THEN [mem EXCEPT !.lastTs[app[a].ref] = app[a].t] ELSE mem
  BY DEF EndTransaction, AppOnly
<1>2. Idle \in AppenderType /\ AppenderFine(Idle, mem.nextRef) /\ Idle.pc \notin {"pending", "commit"}
  BY IdleFacts
<1>3. /\ mem' \in MemoryType /\ mem'.refs = mem.refs /\ mem'.lset = mem.lset
      /\ mem'.deleted = mem.deleted /\ mem'.nextRef = mem.nextRef
  <2>1. mem \in MemoryType /\ app[a] \in AppenderType /\ app[a].t \in Nat /\ app[a].ref \in Refs
    <3>1. mem \in MemoryType /\ app[a] \in AppenderType /\ TypeOK /\ AppendersOK
      BY DEF IInv, TypeOK
    <3>2. app[a].ref \in Refs /\ app[a].t \in Times
      BY <1>1, <3>1, AppenderFields
    <3> QED BY <3>1, <3>2 DEF AppenderType
  <2>2. mem.lastTs \in [Refs -> Nat]
    BY <2>1, MemoryFields
  <2> DEFINE f == [mem.lastTs EXCEPT ![app[a].ref] = app[a].t]
             m == [mem EXCEPT !.lastTs = f]
  <2>3. f \in [Refs -> Nat]
    BY <2>1, <2>2
  <2> HIDE DEF f
  <2>4. m \in MemoryType /\ m.refs = mem.refs /\ m.lset = mem.lset /\ m.deleted = mem.deleted
        /\ m.nextRef = mem.nextRef
    BY <2>1, <2>3 DEF MemoryType
  <2>5. mem' = m \/ mem' = mem
    BY <1>1 DEF f
  <2> HIDE DEF m
  <2> QED BY <2>1, <2>4, <2>5
<1> QED BY <1>1, <1>2, <1>3, QuietAppender

\* The new series takes a reference that neither the log nor the memory nor an appender
\* has.
LEMMA SetKeeps ==
  ASSUME IInv, NEW a \in Appenders, Set(a)
  PROVE  IInv'
<1> DEFINE r == mem.nextRef + 1
           l == app[a].lbl
           m == [mem EXCEPT !.nextRef = r, !.refs = @ \cup {r}, !.lset[r] = l, !.lastTs[r] = 0, !.hashes[l] = r]
           x == [app[a] EXCEPT !.pc = "pending", !.ref = r, !.new = TRUE]
<1>1. TypeOK /\ DiskOK /\ ClosedOK /\ AppendersOK /\ LogOK
  BY DEF IInv
<1>2. up /\ app[a].pc = "create" /\ r \in Refs /\ mem' = m /\ UNCHANGED <<disk, up, trunc>>
  BY DEF Set, AppOnly
<1>3. mem \in MemoryType /\ app \in [Appenders -> AppenderType] /\ app[a] \in AppenderType
  BY <1>1 DEF TypeOK
<1>4. app' = [app EXCEPT ![a] = x]
  BY <1>3 DEF Set
<1>5. /\ AppenderFine(app[a], mem.nextRef) /\ mem.nextRef \in 0..MaxRef /\ mem.nextRef \in Nat
      /\ l \in Labels /\ app[a].t \in Times
  BY <1>1, <1>2, AppenderFields
<1>6. /\ m \in MemoryType /\ m.nextRef = r /\ m.refs = mem.refs \cup {r} /\ m.lset[r] = l
      /\ \A q \in Refs : q # r => m.lset[q] = mem.lset[q]
      /\ m.deleted = mem.deleted
  <2> HIDE DEF r, l
  <2>1. r \in Refs /\ r \in 0..MaxRef /\ l \in Labels
    BY <1>2, <1>5, RefFacts
  <2>2. /\ mem.refs \in SUBSET Refs /\ mem.hashes \in [Labels -> Refs \cup {None}]
        /\ mem.lset \in [Refs -> Labels \cup {None}] /\ mem.lastTs \in [Refs -> Nat]
    BY <1>3, MemoryFields
  <2> DEFINE ls == [mem.lset EXCEPT ![r] = l]
             ts == [mem.lastTs EXCEPT ![r] = 0]
             hs == [mem.hashes EXCEPT ![l] = r]
             rs == mem.refs \cup {r}
  <2>3. /\ ls \in [Refs -> Labels \cup {None}] /\ ts \in [Refs -> Nat]
        /\ hs \in [Labels -> Refs \cup {None}] /\ rs \in SUBSET Refs
        /\ ls[r] = l /\ \A q \in Refs : q # r => ls[q] = mem.lset[q]
    BY <2>1, <2>2
  <2>4. m = [mem EXCEPT !.nextRef = r, !.refs = rs, !.lset = ls, !.lastTs = ts, !.hashes = hs]
    OBVIOUS
  <2> HIDE DEF ls, ts, hs
  <2>5. m \in MemoryType
    BY <1>3, <2>1, <2>3, <2>4 DEF MemoryType
  <2>6. m.nextRef = r /\ m.refs = rs /\ m.lset = ls /\ m.deleted = mem.deleted
    BY <1>3, <2>4 DEF MemoryType
  <2> QED BY <2>3, <2>5, <2>6
<1> HIDE DEF m
<1>7. x \in AppenderType /\ x.pc = "pending" /\ x.ref = r /\ x.lbl = l /\ x.t = app[a].t /\ x.todo = <<>>
  <2>1. app[a].todo = <<>>
    BY <1>2, <1>5 DEF AppenderFine
  <2> QED BY <1>2, <1>3, <2>1 DEF AppenderType
<1> HIDE DEF x
<1>8. AppenderFine(x, r)
  <2>1. r \in 1..r
    BY <1>5
  <2> QED BY <1>5, <1>7, <2>1 DEF AppenderFine
<1>9. r \in Nat /\ mem.nextRef <= r /\ ~(r <= mem.nextRef)
  BY <1>5
<1> HIDE DEF r
<1>10. /\ [app EXCEPT ![a] = x] \in [Appenders -> AppenderType]
       /\ \A b \in Appenders : AppenderFine([app EXCEPT ![a] = x][b], r)
       /\ \A own : OwnsAppenders(own, app) /\ (x.pc \in {"pending", "commit"} => own[x.ref] = x.lbl)
            => OwnsAppenders(own, [app EXCEPT ![a] = x])
  <2>1. \A b \in Appenders : AppenderFine(app[b], mem.nextRef)
    BY <1>1 DEF AppendersOK
  <2>2. x \in AppenderType /\ r \in Nat /\ mem.nextRef \in Nat /\ mem.nextRef <= r
    BY <1>5, <1>7, <1>9
  <2> QED BY <1>3, <1>8, <2>1, <2>2, AppenderChange
<1>11. TypeOK'
  BY <1>1, <1>2, <1>4, <1>6, <1>10 DEF TypeOK, disk
<1>12. DiskOK' /\ ClosedOK'
  BY <1>1, <1>2 DEF DiskOK, ClosedOK, disk
<1>13. AppendersOK'
  BY <1>2, <1>4, <1>6, <1>10 DEF AppendersOK
<1>14. LogOK'
  <2>0. Log' = Log /\ cp'.recs = cp.recs /\ Log \in Seq(Entry)
    BY <1>1, <1>2, DiskSameLog, LogFacts
  <2>1. PICK own \in Owners : Owns(own)
    BY <1>1 DEF LogOK
  <2>2. CountedLog(mem.nextRef, Log)
    BY <1>1, <1>2 DEF LogOK
  <2>3. PICK w \in Owners : w[r] = l /\ \A q \in Refs : q # r => w[q] = own[q]
    <3> DEFINE v == [own EXCEPT ![r] = l]
    <3>1. v \in Owners /\ v[r] = l /\ \A q \in Refs : q # r => v[q] = own[q]
      BY <1>2, <1>5 DEF Owners
    <3> HIDE DEF v
    <3> QED BY <3>1
  <2>4. OwnsLog(w, Log)
    <3> SUFFICES ASSUME NEW i \in 1..Len(Log), Log[i][1].kind = "series"
                 PROVE  w[Log[i][1].ref] = Log[i][1].lbl
      BY DEF OwnsLog
    <3>1. Log[i][1].ref \in Refs
      BY <2>0, SeriesEntry
    <3>2. Log[i][1].ref <= mem.nextRef
      BY <2>2 DEF CountedLog
    <3>3. own[Log[i][1].ref] = Log[i][1].lbl
      BY <2>1 DEF Owns, OwnsLog
    <3> QED BY <1>9, <2>3, <3>1, <3>2, <3>3
  <2>5. OwnsAppenders(w, app)
    <3> SUFFICES ASSUME NEW b \in Appenders, app[b].pc \in {"pending", "commit"}
                 PROVE  w[app[b].ref] = app[b].lbl
      BY DEF OwnsAppenders
    <3>1. app[b].ref \in Refs /\ app[b].ref <= mem.nextRef
      BY <1>1, AppenderFields
    <3>2. own[app[b].ref] = app[b].lbl
      BY <2>1 DEF Owns, OwnsAppenders
    <3> QED BY <1>9, <2>3, <3>1, <3>2
  <2>6. OwnsAppenders(w, app')
    BY <1>4, <1>7, <1>10, <2>3, <2>5
  <2>7. OwnsMemory(w, m)
    <3> SUFFICES ASSUME NEW q \in m.refs PROVE w[q] = m.lset[q] /\ m.lset[q] \in Labels /\ q <= m.nextRef
      BY DEF OwnsMemory
    <3>1. CASE q = r
      BY <1>5, <1>6, <1>9, <2>3, <3>1
    <3>2. CASE q # r
      <4>1. q \in mem.refs /\ q \in Refs
        BY <1>3, <1>6, <3>2, MemoryFields
      <4>2. own[q] = mem.lset[q] /\ mem.lset[q] \in Labels /\ q <= mem.nextRef
        BY <2>1, <4>1 DEF Owns, OwnsMemory
      <4>3. q \in Nat
        BY <4>1, RefFacts
      <4>4. q <= r
        BY <1>5, <1>9, <4>2, <4>3
      <4> QED BY <1>6, <2>3, <3>2, <4>1, <4>2, <4>4
    <3> QED BY <3>1, <3>2
  <2>8. Owns(w)'
    BY <1>2, <2>0, <2>4, <2>6, <2>7 DEF Owns
  <2>9. (\E v \in Owners : Owns(v))'
    BY <2>3, <2>8
  <2>10. CountedLog(mem'.nextRef, Log)
    <3> SUFFICES ASSUME NEW i \in 1..Len(Log), Log[i][1].kind = "series" PROVE Log[i][1].ref <= r
      BY <1>2, <1>6 DEF CountedLog
    <3>1. Log[i][1].ref \in Nat
      BY <2>0, SeriesEntry, RefFacts
    <3>2. Log[i][1].ref <= mem.nextRef
      BY <2>2 DEF CountedLog
    <3> QED BY <1>5, <1>9, <3>1, <3>2
  <2>11. Remembered(Len(cp.recs), Log, mem')
    <3>1. Remembered(Len(cp.recs), Log, mem)
      BY <1>1, <1>2 DEF LogOK
    <3>2. mem.refs \subseteq mem'.refs /\ mem'.deleted = mem.deleted
      BY <1>2, <1>6
    <3> QED BY <3>1, <3>2 DEF Remembered
  <2> QED BY <1>1, <2>0, <2>9, <2>10, <2>11 DEF LogOK
<1> QED BY <1>11, <1>12, <1>13, <1>14 DEF IInv

\* A step of an appender that logs a record.
LEMMA LoggingAppender ==
  ASSUME IInv, up, NEW a \in Appenders, app[a].pc \in {"pending", "commit"}, NEW records,
         Head(records) \in Loggable(app[a]), LogFirst(a, records),
         UNCHANGED <<first, last, cp, up, mem, trunc>>,
         NEW x \in AppenderType, x.pc \in {"pending", "commit"} => x.ref = app[a].ref /\ x.lbl = app[a].lbl,
         AppenderFine(x, mem.nextRef), app' = [app EXCEPT ![a] = x]
  PROVE  IInv'
<1>1. TypeOK /\ DiskOK /\ ClosedOK /\ AppendersOK /\ LogOK
  BY DEF IInv
<1>2. segs' \in [Segments -> Seq(Record)] /\ \A s \in Segments : s > last => segs'[s] = segs[s]
  BY <1>1, LogFirstIs
<1>3. mem.nextRef \in Nat /\ mem.nextRef <= mem.nextRef
  BY <1>1, AppenderFields
<1>4. app \in [Appenders -> AppenderType] /\ \A b \in Appenders : AppenderFine(app[b], mem.nextRef)
  BY <1>1 DEF TypeOK, AppendersOK
<1>5. /\ [app EXCEPT ![a] = x] \in [Appenders -> AppenderType]
      /\ \A b \in Appenders : AppenderFine([app EXCEPT ![a] = x][b], mem.nextRef)
  BY <1>3, <1>4, AppenderChange
<1>6. TypeOK'
  BY <1>1, <1>2, <1>5 DEF TypeOK
<1>7. DiskOK' /\ ClosedOK'
  BY <1>1, <1>2 DEF DiskOK, ClosedOK
<1>8. AppendersOK'
  BY <1>5 DEF AppendersOK
<1>9. LogOK'
  BY <1>1, LogFirstKeeps
<1> QED BY <1>6, <1>7, <1>8, <1>9 DEF IInv

LEMMA PairConcat ==
  ASSUME NEW x, NEW y
  PROVE  <<x>> \o <<y>> = <<x, y>>
<1> DEFINE S == {x, y}
           c == <<x>> \o <<y>>
<1>1. /\ <<x>> \in Seq(S) /\ <<y>> \in Seq(S) /\ <<x, y>> \in Seq(S)
      /\ Len(<<x>>) = 1 /\ Len(<<y>>) = 1 /\ Len(<<x, y>>) = 2
  OBVIOUS
<1>2. c \in Seq(S) /\ Len(c) = 2 /\ c[1] = x /\ c[2] = y
  BY <1>1, ConcatProperties
<1>3. <<x, y>>[1] = x /\ <<x, y>>[2] = y
  OBVIOUS
<1> HIDE DEF c, S
<1>4. \A i \in 1..2 : c[i] = <<x, y>>[i]
  BY <1>2, <1>3
<1> QED BY <1>1, <1>2, <1>4, SeqEqual DEF c

LEMMA TripleConcat ==
  ASSUME NEW x, NEW y, NEW z
  PROVE  <<x, y>> \o <<z>> = <<x, y, z>>
<1> DEFINE S == {x, y, z}
           c == <<x, y>> \o <<z>>
<1>1. /\ <<x, y>> \in Seq(S) /\ <<z>> \in Seq(S) /\ <<x, y, z>> \in Seq(S)
      /\ Len(<<x, y>>) = 2 /\ Len(<<z>>) = 1 /\ Len(<<x, y, z>>) = 3
  OBVIOUS
<1>2. c \in Seq(S) /\ Len(c) = 3 /\ c[1] = x /\ c[2] = y /\ c[3] = z
  BY <1>1, ConcatProperties
<1>3. <<x, y, z>>[1] = x /\ <<x, y, z>>[2] = y /\ <<x, y, z>>[3] = z
  OBVIOUS
<1> HIDE DEF c, S
<1>4. \A i \in 1..3 : c[i] = <<x, y, z>>[i]
  BY <1>2, <1>3
<1> QED BY <1>1, <1>2, <1>4, SeqEqual DEF c

LEMMA EmptyConcat ==
  ASSUME NEW x
  PROVE  <<>> \o <<>> = <<>> /\ <<>> \o <<x>> = <<x>> /\ <<x>> \o <<>> = <<x>>
OBVIOUS

LEMMA HeadTail ==
  ASSUME NEW x, NEW y, NEW z
  PROVE  /\ Head(<<x>>) = x /\ Tail(<<x>>) = <<>>
         /\ Head(<<x, y>>) = x /\ Tail(<<x, y>>) = <<y>>
         /\ Head(<<x, y, z>>) = x /\ Tail(<<x, y, z>>) = <<y, z>>
OBVIOUS

LEMMA CommitKeeps ==
  ASSUME IInv, NEW a \in Appenders, NEW hasMetadata \in BOOLEAN, Commit(a, hasMetadata)
  PROVE  IInv'
<1> DEFINE sample == Sample(app[a].ref, app[a].t, app[a].lbl)
           md == Metadata(app[a].ref)
           sr == Series(app[a].ref, app[a].lbl)
           records == NewSeries(a) \o (IF hasMetadata THEN <<md>> ELSE <<>>) \o <<sample>>
           x == [app[a] EXCEPT !.pc = "commit", !.todo = Tail(records)]
<1>1. /\ up /\ app[a].pc = "pending" /\ LogFirst(a, records)
      /\ UNCHANGED <<first, last, cp, up, mem, trunc>>
      /\ app' = [app EXCEPT ![a].pc = "commit", ![a].todo = Tail(records)]
  BY DEF Commit
<1>2. TypeOK /\ AppendersOK /\ app \in [Appenders -> AppenderType] /\ app[a] \in AppenderType
  BY DEF IInv, TypeOK
<1>3. /\ AppenderFine(app[a], mem.nextRef) /\ app[a].lbl \in Labels /\ app[a].t \in Times
      /\ app[a].ref \in Refs /\ app[a].ref \in 1..mem.nextRef
  BY <1>1, <1>2, AppenderFields
<1>4. Head(records) \in {sr, md, sample} /\ Tail(records) \in {<<>>, <<sample>>, <<md, sample>>}
  <2> HIDE DEF sample, md, sr
  <2>1. NewSeries(a) = IF app[a].new THEN <<sr>> ELSE <<>>
    BY DEF NewSeries, sr
  <2>2. CASE app[a].new /\ hasMetadata
    <3>1. records = <<sr, md, sample>>
      BY <2>1, <2>2, PairConcat, TripleConcat
    <3> HIDE DEF records
    <3> QED BY <3>1, HeadTail
  <2>3. CASE app[a].new /\ ~hasMetadata
    <3>1. records = <<sr, sample>>
      BY <2>1, <2>3, EmptyConcat, PairConcat
    <3> HIDE DEF records
    <3> QED BY <3>1, HeadTail
  <2>4. CASE ~app[a].new /\ hasMetadata
    <3>1. records = <<md, sample>>
      BY <2>1, <2>4, EmptyConcat, PairConcat
    <3> HIDE DEF records
    <3> QED BY <3>1, HeadTail
  <2>5. CASE ~app[a].new /\ ~hasMetadata
    <3>1. records = <<sample>>
      BY <2>1, <2>5, EmptyConcat
    <3> HIDE DEF records
    <3> QED BY <3>1, HeadTail
  <2> QED BY <2>2, <2>3, <2>4, <2>5
<1>5. app' = [app EXCEPT ![a] = x]
  <2> HIDE DEF records
  <2> QED BY <1>1, <1>2
<1>6. Tail(records) \in Seq(Record)
  <2>1. sample \in Record /\ md \in Record
    BY <1>3, RecordTypes
  <2> HIDE DEF sample, md, records
  <2>2. <<>> \in Seq(Record) /\ <<sample>> \in Seq(Record) /\ <<md, sample>> \in Seq(Record)
    BY <2>1
  <2> QED BY <1>4, <2>2
<1>7. /\ x \in AppenderType /\ x.pc = "commit" /\ x.ref = app[a].ref /\ x.lbl = app[a].lbl
      /\ x.t = app[a].t /\ x.todo = Tail(records)
  <2> HIDE DEF records
  <2> QED BY <1>2, <1>6 DEF AppenderType
<1> HIDE DEF x
<1>8. AppenderFine(x, mem.nextRef)
  <2> HIDE DEF records
  <2> QED BY <1>3, <1>4, <1>7 DEF AppenderFine
<1>9. Head(records) \in Loggable(app[a])
  BY <1>4 DEF Loggable
<1> HIDE DEF records
<1> QED BY <1>1, <1>5, <1>7, <1>8, <1>9, LoggingAppender

LEMMA LogRecordKeeps ==
  ASSUME IInv, NEW a \in Appenders, LogRecord(a)
  PROVE  IInv'
<1> DEFINE sample == Sample(app[a].ref, app[a].t, app[a].lbl)
           md == Metadata(app[a].ref)
           records == app[a].todo
           x == [app[a] EXCEPT !.todo = Tail(records)]
<1>1. /\ up /\ records # <<>> /\ LogFirst(a, records)
      /\ UNCHANGED <<first, last, cp, up, mem, trunc>>
      /\ app' = [app EXCEPT ![a].todo = Tail(@)]
  BY DEF LogRecord
<1>2. TypeOK /\ AppendersOK /\ app \in [Appenders -> AppenderType] /\ app[a] \in AppenderType
  BY DEF IInv, TypeOK
<1>3. AppenderFine(app[a], mem.nextRef)
  BY <1>2, AppenderFields
<1>4. app[a].pc = "commit"
  BY <1>1, <1>3 DEF AppenderFine
<1>5. /\ app[a].lbl \in Labels /\ app[a].t \in Times
      /\ app[a].ref \in Refs /\ app[a].ref \in 1..mem.nextRef
  BY <1>2, <1>4, AppenderFields
<1>6. records \in {<<sample>>, <<md, sample>>}
  BY <1>1, <1>3, <1>4 DEF AppenderFine
<1>7. Head(records) \in {md, sample} /\ Tail(records) \in {<<>>, <<sample>>}
  <2> HIDE DEF sample, md, records
  <2>1. CASE records = <<sample>>
    BY <2>1, HeadTail
  <2>2. CASE records = <<md, sample>>
    BY <2>2, HeadTail
  <2> QED BY <1>6, <2>1, <2>2
<1>8. app' = [app EXCEPT ![a] = x]
  BY <1>1, <1>2
<1>9. Tail(records) \in Seq(Record)
  <2>1. sample \in Record
    BY <1>5, RecordTypes
  <2> HIDE DEF sample, md, records
  <2>2. <<>> \in Seq(Record) /\ <<sample>> \in Seq(Record)
    BY <2>1
  <2> QED BY <1>7, <2>2
<1>10. /\ x \in AppenderType /\ x.pc = "commit" /\ x.ref = app[a].ref /\ x.lbl = app[a].lbl
       /\ x.t = app[a].t /\ x.todo = Tail(records)
  <2> DEFINE y == Tail(records)
  <2> HIDE DEF y
  <2> QED BY <1>2, <1>4, <1>9 DEF AppenderType, y
<1> HIDE DEF x
<1>11. AppenderFine(x, mem.nextRef)
  <2> HIDE DEF records
  <2> QED BY <1>5, <1>7, <1>10 DEF AppenderFine
<1>12. Head(records) \in Loggable(app[a])
  BY <1>7 DEF Loggable
<1> HIDE DEF records
<1> QED BY <1>1, <1>4, <1>8, <1>10, <1>11, <1>12, LoggingAppender

LEMMA RollbackKeeps ==
  ASSUME IInv, NEW a \in Appenders, Rollback(a)
  PROVE  IInv'
<1>1. /\ up /\ app[a].pc = "pending" /\ UNCHANGED <<first, last, cp, up, mem, trunc>>
      /\ app' = [app EXCEPT ![a] = Idle]
      /\ IF app[a].new THEN LogFirst(a, NewSeries(a)) ELSE UNCHANGED segs
  BY DEF Rollback
<1>2. Idle \in AppenderType /\ AppenderFine(Idle, mem.nextRef) /\ Idle.pc \notin {"pending", "commit"}
  BY IdleFacts
<1>3. CASE app[a].new
  <2>1. NewSeries(a) = <<Series(app[a].ref, app[a].lbl)>>
    BY <1>3 DEF NewSeries
  <2>2. Head(NewSeries(a)) \in Loggable(app[a])
    BY <2>1, HeadTail DEF Loggable
  <2> QED BY <1>1, <1>2, <1>3, <2>2, LoggingAppender
<1>4. CASE ~app[a].new
  <2>1. UNCHANGED <<disk, up, trunc>> /\ UNCHANGED mem
    BY <1>1, <1>4 DEF disk
  <2> QED BY <1>1, <1>2, <2>1, QuietAppender, MemoryStays
<1> QED BY <1>3, <1>4

\* An empty segment is begun.
LEMMA NewSegment ==
  ASSUME TypeOK, DiskOK, last < MaxSegment, last' = last + 1, UNCHANGED <<segs, cp>>
  PROVE  /\ Log' = Log /\ cp'.recs = cp.recs /\ last' \in Segments /\ cp'.upto < last'
         /\ \A s \in Segments : s > last' => segs'[s] = <<>>
<1>1. /\ cp \in Checkpoints /\ segs \in Directories /\ last \in Nat /\ cp.upto \in Int /\ MaxSegment \in Nat
      /\ last > cp.upto
  BY LogFacts
<1>2. last + 1 \in Segments /\ last + 1 > last /\ last + 1 > cp.upto /\ (last + 1) - 1 = last
  BY <1>1 DEF Segments
<1>3. segs[last + 1] = <<>>
  BY <1>2 DEF DiskOK
<1>4. ReplayLog(cp, segs, last + 1) = ReplayLog(cp, segs, (last + 1) - 1)
  BY <1>1, <1>2, <1>3, LogNewSegment
<1>5. Log' = Log
  BY <1>2, <1>4 DEF Log
<1>6. \A s \in Segments : s > last' => segs'[s] = <<>>
  <2> TAKE s \in Segments
  <2> HAVE s > last'
  <2>1. s > last
    BY <1>1 DEF Segments
  <2> QED BY <2>1 DEF DiskOK
<1> QED BY <1>1, <1>2, <1>5, <1>6

LEMMA NextSegmentKeeps ==
  ASSUME IInv, NextSegment
  PROVE  IInv'
<1>1. TypeOK /\ DiskOK /\ ClosedOK /\ AppendersOK /\ LogOK
  BY DEF IInv
<1>2. /\ up /\ last < MaxSegment /\ last' = last + 1
      /\ UNCHANGED <<segs, first, cp, up, mem, app, trunc, begun, detours>>
  BY DEF NextSegment
<1>3. /\ Log' = Log /\ cp'.recs = cp.recs /\ last' \in Segments /\ cp'.upto < last'
      /\ \A s \in Segments : s > last' => segs'[s] = <<>>
  BY <1>1, <1>2, NewSegment
<1>4. TypeOK'
  BY <1>1, <1>2, <1>3 DEF TypeOK
<1>5. DiskOK'
  <2>1. last \in Nat
    BY <1>1, LogFacts
  <2>2. \A u \in Nat : u < last => u < last'
    BY <1>2, <2>1
  <2> QED BY <1>1, <1>2, <1>3, <2>2 DEF DiskOK
<1>6. ClosedOK' /\ AppendersOK'
  BY <1>1, <1>2 DEF ClosedOK, AppendersOK
<1>7. LogOK'
  <2>1. \A own \in Owners : Owns(own) => OwnsAppenders(own, app') /\ OwnsMemory(own, mem')
    BY <1>2 DEF Owns
  <2> QED BY <1>1, <1>2, <1>3, <2>1, SameLog
<1> QED BY <1>4, <1>5, <1>6, <1>7 DEF IInv

LEMMA TruncateSegmentKeeps ==
  ASSUME IInv, TruncateSegment
  PROVE  IInv'
<1> DEFINE upto == first + ((last - 1 - first) * 2) \div 3
<1>1. TypeOK /\ DiskOK /\ ClosedOK /\ AppendersOK /\ LogOK
  BY DEF IInv
<1>2. /\ up /\ last < MaxSegment /\ last' = last + 1
      /\ trunc' = IF last - 1 >= first /\ upto > first
                    THEN [trunc EXCEPT !.pc = "checkpoint", !.upto = upto] ELSE NoTruncate
      /\ UNCHANGED <<segs, first, cp, up, mem, app, begun, detours>>
  BY DEF TruncateSegment, TruncateAt
<1>3. /\ Log' = Log /\ cp'.recs = cp.recs /\ last' \in Segments /\ cp'.upto < last'
      /\ \A s \in Segments : s > last' => segs'[s] = <<>>
  BY <1>1, <1>2, NewSegment
<1>4. last \in Nat /\ first \in Nat /\ trunc \in TruncateType
  BY <1>1, LogFacts DEF TypeOK
<1>5. last - 1 >= first => upto \in Nat /\ upto < last'
  <2> SUFFICES ASSUME last - 1 >= first PROVE upto \in Nat /\ upto < last'
    OBVIOUS
  <2>1. PICK d \in Nat : d = last - 1 - first
    BY <1>4
  <2>2. (d * 2) \div 3 \in Nat /\ (d * 2) \div 3 <= d
    OBVIOUS
  <2>3. PICK e \in Nat : e = (d * 2) \div 3
    BY <2>2
  <2>4. upto = first + e /\ e <= d
    BY <2>1, <2>2, <2>3
  <2> QED BY <1>2, <1>4, <2>1, <2>4
<1> HIDE DEF upto
<1>6. /\ trunc' \in TruncateType
      /\ trunc'.pc \in {"checkpoint", "truncate"} => trunc'.upto \in Nat /\ trunc'.upto < last'
      /\ trunc'.pc # "truncate"
  <2>1. CASE last - 1 >= first /\ upto > first
    <3>1. trunc' = [trunc EXCEPT !.pc = "checkpoint", !.upto = upto] /\ upto \in Nat /\ upto < last'
      BY <1>2, <1>5, <2>1
    <3>2. upto \in Int
      BY <3>1
    <3> QED BY <1>4, <3>1, <3>2 DEF TruncateType
  <2>2. CASE ~(last - 1 >= first /\ upto > first)
    <3>1. trunc' = NoTruncate
      BY <1>2, <2>2
    <3> QED BY <3>1 DEF NoTruncate, TruncateType
  <2> QED BY <2>1, <2>2
<1>7. TypeOK'
  BY <1>1, <1>2, <1>3, <1>6 DEF TypeOK
<1>8. DiskOK'
  BY <1>3, <1>6 DEF DiskOK
<1>9. ClosedOK' /\ AppendersOK'
  BY <1>1, <1>2 DEF ClosedOK, AppendersOK
<1>10. LogOK'
  <2>1. \A own \in Owners : Owns(own) => OwnsAppenders(own, app') /\ OwnsMemory(own, mem')
    BY <1>2 DEF Owns
  <2> QED BY <1>1, <1>2, <1>3, <2>1, SameLog
<1> QED BY <1>7, <1>8, <1>9, <1>10 DEF IInv

\* A deleted series is kept until the current segment is checkpointed, and no sample is
\* behind that.
LEMMA GCKeeps ==
  ASSUME IInv, NEW mint \in 1..(MaxTime + 1), GC(mint)
  PROVE  IInv'
<1> DEFINE old == {r \in mem.refs : mem.lastTs[r] < mint /\ \E l \in Labels : mem.hashes[l] = r}
           rs == mem.refs \ old
           hs == [l \in Labels |-> IF mem.hashes[l] \in old THEN None ELSE mem.hashes[l]]
           ls == [r \in Refs |-> IF r \in old THEN None ELSE mem.lset[r]]
           ts == [r \in Refs |-> IF r \in old THEN 0 ELSE mem.lastTs[r]]
           ds == [r \in Refs |-> IF r \in old THEN last ELSE mem.deleted[r]]
<1>1. TypeOK /\ DiskOK /\ ClosedOK /\ AppendersOK /\ LogOK
  BY DEF IInv
<1>2. /\ up /\ UNCHANGED <<disk, up, app>>
      /\ mem' = [mem EXCEPT !.refs = rs, !.hashes = hs, !.lset = ls, !.lastTs = ts, !.deleted = ds]
      /\ trunc' = [trunc EXCEPT !.pc = "segment", !.mint = mint]
  BY DEF GC, TruncateAt
<1>3. mem \in MemoryType /\ trunc \in TruncateType /\ last \in Nat /\ mint \in Nat
  BY <1>1, LogFacts, PrometheusWalAssumption DEF TypeOK
<1>4. /\ mem.refs \in SUBSET Refs /\ mem.hashes \in [Labels -> Refs \cup {None}]
      /\ mem.lset \in [Refs -> Labels \cup {None}] /\ mem.lastTs \in [Refs -> Nat]
      /\ mem.deleted \in [Refs -> Int \cup {None}]
  BY <1>3, MemoryFields
<1>5. old \subseteq mem.refs
  OBVIOUS
<1> HIDE DEF old
<1>6. /\ rs \in SUBSET Refs /\ hs \in [Labels -> Refs \cup {None}] /\ ls \in [Refs -> Labels \cup {None}]
      /\ ts \in [Refs -> Nat] /\ ds \in [Refs -> Int \cup {None}]
      /\ \A r \in rs : r \in mem.refs /\ ls[r] = mem.lset[r]
      /\ \A r \in Refs : (r \in old => ds[r] = last) /\ (r \notin old => ds[r] = mem.deleted[r])
  BY <1>3, <1>4, <1>5
<1> HIDE DEF hs, ls, ts, ds
<1>7. /\ mem' \in MemoryType /\ mem'.refs = rs /\ mem'.lset = ls /\ mem'.deleted = ds
      /\ mem'.nextRef = mem.nextRef
  <2> HIDE DEF rs
  <2> QED BY <1>2, <1>3, <1>6 DEF MemoryType
<1>8. trunc' \in TruncateType /\ trunc'.pc = "segment"
  BY <1>2, <1>3 DEF TruncateType
<1>9. TypeOK'
  BY <1>1, <1>2, <1>7, <1>8 DEF TypeOK, disk
<1>10. DiskOK'
  BY <1>1, <1>2, <1>8 DEF DiskOK, disk
<1>11. ClosedOK' /\ AppendersOK'
  BY <1>1, <1>2, <1>7 DEF ClosedOK, AppendersOK
<1>12. LogOK'
  <2>0. Log' = Log /\ cp'.recs = cp.recs
    BY <1>2, DiskSameLog
  <2>1. \A own \in Owners : Owns(own) => OwnsAppenders(own, app') /\ OwnsMemory(own, mem')
    <3> HIDE DEF rs
    <3> QED BY <1>2, <1>6, <1>7 DEF Owns, OwnsMemory
  <2>2. ASSUME Remembered(Len(cp.recs), Log, mem) PROVE Remembered(Len(cp.recs), Log, mem')
    <3> SUFFICES ASSUME NEW j \in (Len(cp.recs) + 1)..Len(Log), Log[j][1].kind = "sample", Log[j][1].known
                 PROVE  \/ Log[j][1].ref \in rs
                        \/ ds[Log[j][1].ref] \in Int /\ ds[Log[j][1].ref] >= Log[j][2]
      BY <1>7 DEF Remembered
    <3>1. Log[j][2] \in (cp.upto + 1)..last /\ Log \in Seq(Entry) /\ Len(cp.recs) \in Nat /\ cp.upto \in Int
      BY <1>1, LogFacts
    <3>2. j \in 1..Len(Log)
      BY <3>1
    <3>3. Log[j][1].ref \in Refs
      BY <3>1, <3>2, SampleEntry
    <3>4. CASE Log[j][1].ref \in old
      <4>1. ds[Log[j][1].ref] = last
        BY <1>6, <3>3, <3>4
      <4>2. last \in Int /\ last >= Log[j][2]
        BY <1>3, <3>1
      <4> QED BY <4>1, <4>2
    <3>5. CASE Log[j][1].ref \notin old
      <4>1. ds[Log[j][1].ref] = mem.deleted[Log[j][1].ref]
        BY <1>6, <3>3, <3>5
      <4>2. \/ Log[j][1].ref \in mem.refs
            \/ mem.deleted[Log[j][1].ref] \in Int /\ mem.deleted[Log[j][1].ref] >= Log[j][2]
        BY <2>2 DEF Remembered
      <4> QED BY <3>5, <4>1, <4>2
    <3> QED BY <3>4, <3>5
  <2> QED BY <1>1, <1>2, <1>7, <2>0, <2>1, <2>2, SameLog
<1> QED BY <1>9, <1>10, <1>11, <1>12 DEF IInv

LEMMA CheckpointFailsKeeps ==
  ASSUME IInv, CheckpointFails
  PROVE  IInv'
<1>1. TypeOK /\ DiskOK /\ ClosedOK /\ AppendersOK /\ LogOK
  BY DEF IInv
<1>2. up /\ UNCHANGED <<disk, up, mem, app>> /\ trunc' = NoTruncate
  BY DEF CheckpointFails, TruncateAt
<1>3. NoTruncate \in TruncateType /\ NoTruncate.pc = "idle"
  BY DEF NoTruncate, TruncateType
<1>4. TypeOK' /\ DiskOK'
  BY <1>1, <1>2, <1>3 DEF TypeOK, DiskOK, disk
<1>5. ClosedOK' /\ AppendersOK'
  BY <1>1, <1>2 DEF ClosedOK, AppendersOK
<1>6. LogOK'
  <2>1. \A own \in Owners : Owns(own) => OwnsAppenders(own, app') /\ OwnsMemory(own, mem')
    BY <1>2 DEF Owns
  <2> QED BY <1>1, <1>2, <2>1, DiskSameLog, SameLog
<1> QED BY <1>4, <1>5, <1>6 DEF IInv

\* The checkpoint keeps every series that a later segment needs.
LEMMA CheckpointKeeps ==
  ASSUME IInv, Checkpoint
  PROVE  IInv'
<1>1. TypeOK /\ DiskOK /\ ClosedOK /\ AppendersOK /\ LogOK
  BY DEF IInv
<1>2. /\ up /\ trunc.pc = "checkpoint" /\ UNCHANGED <<segs, first, last, up, mem, app>>
      /\ trunc' = [trunc EXCEPT !.pc = "truncate"]
      /\ cp' = IF trunc.upto > cp.upto
                 THEN [upto |-> trunc.upto, recs |-> Kept(ReplayLog(cp, segs, trunc.upto))] ELSE cp
  BY DEF Checkpoint, TruncateAt
<1>3. trunc \in TruncateType /\ trunc.upto \in Nat /\ trunc.upto < last
  BY <1>1, <1>2 DEF TypeOK, DiskOK
<1>4. /\ cp \in Checkpoints /\ segs \in Directories /\ last \in Segments /\ last > cp.upto
      /\ last \in Nat /\ cp.upto \in Int
  BY <1>1, LogFacts
<1>5. trunc' \in TruncateType /\ trunc'.pc = "truncate" /\ trunc'.upto = trunc.upto
  BY <1>2, <1>3 DEF TruncateType
<1>6. ClosedOK' /\ AppendersOK'
  BY <1>1, <1>2 DEF ClosedOK, AppendersOK
<1>7. CASE ~(trunc.upto > cp.upto)
  <2>1. UNCHANGED disk /\ trunc.upto <= cp.upto
    BY <1>2, <1>3, <1>4, <1>7 DEF disk
  <2>2. TypeOK'
    BY <1>1, <1>2, <1>5, <2>1 DEF TypeOK, disk
  <2>3. DiskOK'
    BY <1>1, <1>2, <1>3, <1>5, <2>1 DEF DiskOK, disk
  <2>4. LogOK'
    <3>1. \A own \in Owners : Owns(own) => OwnsAppenders(own, app') /\ OwnsMemory(own, mem')
      BY <1>2 DEF Owns
    <3> QED BY <1>1, <1>2, <2>1, <3>1, DiskSameLog, SameLog
  <2> QED BY <1>6, <2>2, <2>3, <2>4 DEF IInv
<1>8. CASE trunc.upto > cp.upto
  <2> DEFINE u == trunc.upto
             p == ReplayLog(cp, segs, u)
             k == Kept(p)
             c == [upto |-> u, recs |-> k]
             q == ReplayLog(cp, segs, last)
             new == ReplayLog(c, segs, last)
  <2>1. cp' = c /\ cp.upto < u /\ u < last
    BY <1>2, <1>3, <1>4, <1>8
  <2>2. /\ c \in Checkpoints /\ p \in Seq(Entry) /\ KeptOf(k, p, Len(p)) /\ Prefix(p, q)
        /\ Len(cp.recs) <= Len(p) /\ Len(cp.recs) \in Nat
        /\ \A i \in (Len(p) + 1)..Len(q) : q[i][2] > u
        /\ new \in Seq(Entry) /\ Compacted(new, q, k, Len(p))
    BY <1>3, <1>4, <2>1, LogCheckpoint
  <2>3. q = Log /\ Log' = new
    BY <1>2, <2>1 DEF Log
  <2>4. c.upto = u /\ c.recs = k
    OBVIOUS
  <2> HIDE DEF k, p, c, q, new
  <2>5. Len(k) \in Nat
    BY <2>2, LenProperties DEF KeptOf
  <2>6. CompactedLog(new, q, p, k)
    BY <2>2, <2>5 DEF CompactedLog
  <2>7. /\ Ordered(q) /\ Served(Len(cp.recs), q) /\ CountedLog(mem.nextRef, q)
        /\ Remembered(Len(cp.recs), q, mem) /\ \E own \in Owners : Owns(own)
    BY <1>1, <1>2, <2>3 DEF LogOK
  <2>8. Ordered(new) /\ CountedLog(mem.nextRef, new) /\ \A own : OwnsLog(own, q) => OwnsLog(own, new)
    BY <2>6, <2>7, CompactedKeeps
  <2>9. Served(Len(k), new) /\ Remembered(Len(k), new, mem)
    <3>1. mem.deleted \in [Refs -> Int \cup {None}]
      BY <1>1, MemoryFields DEF TypeOK
    <3>2. ASSUME NEW e \in (Len(p) + 1)..Len(q)
          PROVE  q[e][2] \in Int /\ q[e][2] > trunc.upto /\ q[e][1] \in Record
      <4>1. q \in Seq(Entry) /\ Len(p) \in Nat /\ Len(q) \in Nat
        BY <2>2 DEF Prefix
      <4>2. e \in 1..Len(q)
        BY <4>1
      <4>3. q[e][2] \in Int /\ q[e][1] \in Record
        BY <4>1, <4>2, EntryRecord
      <4> QED BY <2>2, <4>3
    <3>3. trunc.upto \in Int
      BY <1>3
    <3> QED BY <2>2, <2>6, <2>7, <3>1, <3>2, <3>3, CompactedServes
  <2>10. TypeOK'
    BY <1>1, <1>2, <1>5, <2>1, <2>2 DEF TypeOK, Checkpoints
  <2>11. DiskOK'
    <3>1. cp'.upto = trunc.upto /\ trunc.upto <= cp'.upto
      BY <1>3, <2>1, <2>4
    <3> QED BY <1>1, <1>2, <1>3, <1>5, <3>1 DEF DiskOK
  <2>12. LogOK'
    <3>1. PICK own \in Owners : Owns(own)
      BY <2>7
    <3>2. OwnsLog(own, new) /\ OwnsAppenders(own, app) /\ OwnsMemory(own, mem)
      BY <2>3, <2>8, <3>1 DEF Owns
    <3>3. Owns(own)'
      BY <1>2, <2>3, <3>2 DEF Owns
    <3>4. (\E w \in Owners : Owns(w))'
      BY <3>1, <3>3
    <3>5. cp'.recs = k
      BY <2>1, <2>4
    <3> QED BY <1>2, <2>3, <2>8, <2>9, <3>4, <3>5 DEF LogOK
  <2> QED BY <1>6, <2>10, <2>11, <2>12 DEF IInv
<1> QED BY <1>7, <1>8

\* What is forgotten has no sample behind the checkpoint.
LEMMA DropSegmentsKeeps ==
  ASSUME IInv, NEW fails \in BOOLEAN, DropSegments(fails)
  PROVE  IInv'
<1> DEFINE ds == [r \in Refs |-> IF mem.deleted[r] # None /\ mem.deleted[r] <= trunc.upto
                                   THEN None ELSE mem.deleted[r]]
<1>1. TypeOK /\ DiskOK /\ ClosedOK /\ AppendersOK /\ LogOK
  BY DEF IInv
<1>2. /\ up /\ trunc.pc = "truncate" /\ UNCHANGED <<last, cp, up, app>> /\ trunc' = NoTruncate
      /\ mem' = [mem EXCEPT !.deleted = ds]
      /\ \/ UNCHANGED <<segs, first>>
         \/ /\ first' = trunc.upto + 1
            /\ segs' = [s \in Segments |-> IF s <= trunc.upto THEN <<>> ELSE segs[s]]
  BY DEF DropSegments, TruncateAt
<1>3. mem \in MemoryType /\ trunc.upto \in Nat /\ trunc.upto <= cp.upto /\ first \in Nat
  BY <1>1, <1>2 DEF TypeOK, DiskOK
<1>4. /\ cp \in Checkpoints /\ segs \in Directories /\ last \in Segments /\ last > cp.upto
      /\ last \in Nat /\ cp.upto \in Int /\ last \in -1..MaxSegment
  BY <1>1, LogFacts
<1>5. segs' \in Directories /\ first' \in Nat /\ \A s \in Segments : s > trunc.upto => segs'[s] = segs[s]
  <2>1. CASE UNCHANGED <<segs, first>>
    BY <1>3, <1>4, <2>1
  <2>2. CASE /\ first' = trunc.upto + 1
             /\ segs' = [s \in Segments |-> IF s <= trunc.upto THEN <<>> ELSE segs[s]]
    <3>1. <<>> \in Seq(Record)
      BY EmptySeq
    <3>2. \A s \in Segments : s \in Int
      BY DEF Segments
    <3> QED BY <1>3, <1>4, <2>2, <3>1, <3>2 DEF Directories
  <2> QED BY <1>2, <2>1, <2>2
<1>6. Log' = Log
  <2>1. \A s \in (cp.upto + 1)..last : segs'[s] = segs[s]
    <3> TAKE s \in (cp.upto + 1)..last
    <3>1. s \in Int /\ s > cp.upto /\ s <= last
      BY <1>4
    <3>2. s \in Nat /\ s > trunc.upto
      BY <1>3, <1>4, <3>1
    <3>3. last <= MaxSegment /\ MaxSegment \in Nat
      BY <1>1, <1>4, LogFacts
    <3>4. s \in Segments
      BY <1>4, <3>1, <3>2, <3>3 DEF Segments
    <3> QED BY <1>5, <3>2, <3>4
  <2>2. ReplayLog(cp, segs', last) = ReplayLog(cp, segs, last)
    BY <1>4, <1>5, <2>1, LogSame
  <2> QED BY <1>2, <2>2 DEF Log
<1>7. mem.deleted \in [Refs -> Int \cup {None}]
  BY <1>3, MemoryFields
<1>8. ds \in [Refs -> Int \cup {None}]
  BY <1>7
<1>9. \A r \in Refs : mem.deleted[r] \in Int /\ mem.deleted[r] > trunc.upto => ds[r] = mem.deleted[r]
  BY <1>3
<1> HIDE DEF ds
<1>10. /\ mem' \in MemoryType /\ mem'.refs = mem.refs /\ mem'.lset = mem.lset /\ mem'.deleted = ds
       /\ mem'.nextRef = mem.nextRef
  BY <1>2, <1>3, <1>8 DEF MemoryType
<1>11. NoTruncate \in TruncateType /\ NoTruncate.pc = "idle"
  BY DEF NoTruncate, TruncateType
<1>12. TypeOK'
  BY <1>1, <1>2, <1>5, <1>10, <1>11 DEF TypeOK, Directories
<1>13. DiskOK'
  <2>1. \A s \in Segments : s > last => segs'[s] = <<>>
    <3> TAKE s \in Segments
    <3> HAVE s > last
    <3>1. s > trunc.upto
      BY <1>3, <1>4 DEF Segments
    <3> QED BY <1>1, <1>5, <3>1 DEF DiskOK
  <2> QED BY <1>1, <1>2, <1>11, <2>1 DEF DiskOK
<1>14. ClosedOK' /\ AppendersOK'
  BY <1>1, <1>2, <1>10 DEF ClosedOK, AppendersOK
<1>15. LogOK'
  <2>1. \A own \in Owners : Owns(own) => OwnsAppenders(own, app') /\ OwnsMemory(own, mem')
    BY <1>2, <1>10 DEF Owns, OwnsMemory
  <2>2. ASSUME Remembered(Len(cp.recs), Log, mem) PROVE Remembered(Len(cp.recs), Log, mem')
    <3> SUFFICES ASSUME NEW j \in (Len(cp.recs) + 1)..Len(Log), Log[j][1].kind = "sample", Log[j][1].known
                 PROVE  \/ Log[j][1].ref \in mem.refs
                        \/ ds[Log[j][1].ref] \in Int /\ ds[Log[j][1].ref] >= Log[j][2]
      BY <1>10 DEF Remembered
    <3>1. Log[j][2] \in (cp.upto + 1)..last /\ Log \in Seq(Entry) /\ Len(cp.recs) \in Nat /\ cp.upto \in Int
      BY <1>1, LogFacts
    <3>2. j \in 1..Len(Log)
      BY <3>1
    <3>3. Log[j][1].ref \in Refs
      BY <3>1, <3>2, SampleEntry
    <3>4. CASE mem.deleted[Log[j][1].ref] \in Int /\ mem.deleted[Log[j][1].ref] >= Log[j][2]
      <4>1. Log[j][2] \in Int /\ Log[j][2] > trunc.upto
        BY <1>3, <3>1
      <4>2. mem.deleted[Log[j][1].ref] > trunc.upto
        BY <1>3, <3>4, <4>1
      <4> QED BY <1>9, <3>3, <3>4, <4>2
    <3> QED BY <2>2, <3>4 DEF Remembered
  <2> QED BY <1>1, <1>2, <1>6, <1>10, <2>1, <2>2, SameLog
<1> QED BY <1>12, <1>13, <1>14, <1>15 DEF IInv

\* Without memory and appenders only the log has owners.
LEMMA NothingElse ==
  ASSUME NEW ap, \A a \in Appenders : ap[a] = Idle, NEW own
  PROVE  OwnsAppenders(own, ap) /\ OwnsMemory(own, EmptyMemory) /\ EmptyMemory.refs = {}
<1>1. EmptyMemory.refs = {}
  BY DEF EmptyMemory
<1>2. Idle.pc = "idle"
  BY IdleFacts
<1> QED BY <1>1, <1>2 DEF OwnsAppenders, OwnsMemory

LEMMA DownKeeps ==
  ASSUME IInv, Down
  PROVE  IInv'
<1>1. TypeOK /\ DiskOK /\ ClosedOK /\ AppendersOK /\ LogOK
  BY DEF IInv
<1>2. up' = FALSE /\ mem' = EmptyMemory /\ app' = [a \in Appenders |-> Idle] /\ trunc' = NoTruncate /\ UNCHANGED disk
  BY DEF Down
<1>3. NoTruncate \in TruncateType /\ NoTruncate.pc = "idle"
  BY DEF NoTruncate, TruncateType
<1>4. \A a \in Appenders : app'[a] = Idle
  BY <1>2
<1>5. TypeOK'
  BY <1>1, <1>2, <1>3, EmptyMemoryType, IdleFacts DEF TypeOK, disk
<1>6. DiskOK'
  BY <1>1, <1>2, <1>3 DEF DiskOK, disk
<1>7. ClosedOK' /\ AppendersOK'
  BY <1>2, <1>4, IdleFacts DEF ClosedOK, AppendersOK
<1>8. LogOK'
  <2>1. \A own \in Owners : Owns(own) => OwnsAppenders(own, app') /\ OwnsMemory(own, mem')
    BY <1>2, <1>4, NothingElse
  <2>2. Log' = Log /\ cp'.recs = cp.recs
    BY <1>2, DiskSameLog
  <2>3. PICK own \in Owners : Owns(own)
    BY <1>1 DEF LogOK
  <2>4. Owns(own)'
    BY <2>1, <2>2, <2>3 DEF Owns
  <2>5. (\E w \in Owners : Owns(w))'
    BY <2>3, <2>4
  <2> QED BY <1>1, <1>2, <2>2, <2>5 DEF LogOK
<1> QED BY <1>5, <1>6, <1>7, <1>8 DEF IInv

\* A replay of the log, or of the part of it that a repair leaves.
LEMMA Opened ==
  ASSUME IInv, ~up, up' = TRUE, UNCHANGED <<first, cp, app, trunc>>, mem' = replayWAL(Log'),
         NoMetadata(Log'), Prefix(Log', Log), segs' \in Directories, last' \in Segments, cp.upto < last',
         \A s \in Segments : s > last' => segs'[s] = <<>>
  PROVE  IInv' /\ Exact(mem', Log')
<1>1. TypeOK /\ DiskOK /\ ClosedOK /\ AppendersOK /\ LogOK
  BY DEF IInv
<1>2. Len(cp.recs) \in Nat
  BY <1>1, LogFacts
<1>3. PICK own \in Owners : Owns(own)
  BY <1>1 DEF LogOK
<1>4. OwnsLog(own, Log') /\ Ordered(Log') /\ Served(Len(cp.recs), Log')
  <2>1. OwnsLog(own, Log) /\ Ordered(Log) /\ Served(Len(cp.recs), Log)
    BY <1>1, <1>3 DEF LogOK, Owns
  <2> QED BY <1>2, <2>1, PrefixKeeps
<1>5. Log' \in Seq(Entry)
  BY DEF Prefix
<1>6. /\ mem' \in MemoryType /\ OwnsMemory(own, mem') /\ CountedLog(mem'.nextRef, Log')
      /\ Remembered(Len(cp.recs), Log', mem')
  BY <1>2, <1>4, <1>5, ReplayRemembers
<1>7. Exact(mem', Log')
  BY <1>4, <1>5, ReplayExact
<1>8. \A a \in Appenders : app'[a] = Idle
  BY <1>1 DEF ClosedOK
<1>9. trunc' = NoTruncate /\ NoTruncate.pc = "idle"
  BY <1>1 DEF ClosedOK, NoTruncate
<1>10. TypeOK'
  BY <1>1, <1>6 DEF TypeOK, Directories
<1>11. DiskOK' /\ ClosedOK'
  BY <1>9 DEF DiskOK, ClosedOK
<1>12. AppendersOK'
  BY <1>8, IdleFacts DEF AppendersOK
<1>13. LogOK'
  <2>1. OwnsAppenders(own, app')
    BY <1>8, NothingElse
  <2>2. Owns(own)'
    BY <1>4, <1>6, <2>1 DEF Owns
  <2>3. (\E w \in Owners : Owns(w))'
    BY <1>3, <2>2
  <2> QED BY <1>4, <1>6, <2>3 DEF LogOK
<1> QED BY <1>7, <1>10, <1>11, <1>12, <1>13 DEF IInv

LEMMA OpenKeeps ==
  ASSUME IInv, Open
  PROVE  IInv' /\ Exact(mem', Log')
<1>1. TypeOK /\ DiskOK
  BY DEF IInv
<1>2. /\ ~up /\ up' = TRUE /\ last < MaxSegment /\ last' = last + 1 /\ mem' = replayWAL(Log)
      /\ Corrupt(Log) = 0 /\ UNCHANGED <<segs, first, cp, app, trunc>>
  BY DEF Open
<1>3. /\ Log' = Log /\ last' \in Segments /\ cp.upto < last'
      /\ \A s \in Segments : s > last' => segs'[s] = <<>>
  BY <1>1, <1>2, NewSegment
<1>4. Log \in Seq(Entry) /\ Len(Log) \in Nat /\ segs \in Directories
  BY <1>1, LogFacts
<1>5. NoMetadata(Log)
  BY <1>2, <1>4, CorruptIs
<1>6. Prefix(Log, Log)
  BY <1>4 DEF Prefix
<1> QED BY <1>2, <1>3, <1>4, <1>5, <1>6, Opened

LEMMA OpenRepairKeeps ==
  ASSUME IInv, OpenRepair
  PROVE  IInv' /\ Exact(mem', Log')
<1> DEFINE i == Corrupt(Log)
           s == Log[i][2]
           before == i - 1 - Len(ReplayLog(cp, segs, s - 1))
<1>1. TypeOK /\ DiskOK
  BY DEF IInv
<1>2. /\ ~up /\ up' = TRUE /\ last < MaxSegment /\ i > Len(cp.recs)
      /\ segs' = [t \in Segments |-> IF t < s THEN segs[t]
                                     ELSE IF t = s THEN SubSeq(segs[s], 1, before) ELSE <<>>]
      /\ last' = s + 1 /\ mem' = replayWAL(SubSeq(Log, 1, i - 1))
      /\ UNCHANGED <<first, cp, app, trunc>>
  BY DEF OpenRepair
<1>3. /\ cp \in Checkpoints /\ segs \in Directories /\ last \in Segments /\ last > cp.upto
      /\ Log \in Seq(Entry) /\ Len(Log) \in Nat /\ Len(cp.recs) \in Nat /\ cp.upto \in Int
  BY <1>1, LogFacts
<1>4. segs' = Cut(segs, s, before)
  BY <1>2 DEF Cut
<1>5. i \in 1..Len(Log) /\ \A j \in 1..(i - 1) : Log[j][1].kind # "metadata"
  <2>1. i # 0
    BY <1>2, <1>3
  <2> QED BY <1>3, <2>1, CorruptIs
<1>6. Log = ReplayLog(cp, segs, last)
  BY DEF Log
<1> HIDE DEF i
<1>7. PICK t \in Segments, b \in Nat :
        /\ t = ReplayLog(cp, segs, last)[i][2] /\ t > cp.upto /\ t + 1 \in Segments
        /\ b = i - 1 - Len(ReplayLog(cp, segs, t - 1))
        /\ Cut(segs, t, b) \in Directories
        /\ ReplayLog(cp, Cut(segs, t, b), t + 1) = SubSeq(ReplayLog(cp, segs, last), 1, i - 1)
        /\ SubSeq(ReplayLog(cp, segs, last), 1, i - 1) \in Seq(Entry)
        /\ Len(SubSeq(ReplayLog(cp, segs, last), 1, i - 1)) = i - 1
        /\ \A j \in 1..(i - 1) : SubSeq(ReplayLog(cp, segs, last), 1, i - 1)[j] = ReplayLog(cp, segs, last)[j]
  BY <1>2, <1>3, <1>5, <1>6, LogCut
<1> DEFINE q == SubSeq(Log, 1, i - 1)
<1>8. /\ t = s /\ b = before /\ q \in Seq(Entry) /\ Len(q) = i - 1 /\ \A j \in 1..(i - 1) : q[j] = Log[j]
      /\ ReplayLog(cp, Cut(segs, t, b), t + 1) = q
  BY <1>6, <1>7
<1>9. Log' = q
  BY <1>2, <1>4, <1>8 DEF Log
<1>10. segs' \in Directories /\ last' = t + 1 /\ last' \in Segments
  BY <1>2, <1>4, <1>7, <1>8
<1>11. cp.upto < last' /\ \A k \in Segments : k > last' => segs'[k] = <<>>
  <2>1. t \in Nat /\ t > cp.upto
    BY <1>7 DEF Segments
  <2>2. cp.upto < last'
    BY <1>3, <1>10, <2>1
  <2>3. ASSUME NEW k \in Segments, k > last' PROVE ~(k < t) /\ k # t
    BY <1>10, <2>1, <2>3 DEF Segments
  <2>4. \A k \in Segments : k > last' => segs'[k] = <<>>
    BY <1>4, <1>8, <2>3 DEF Cut
  <2> QED BY <2>2, <2>4
<1> HIDE DEF q
<1>12. NoMetadata(q) /\ Prefix(q, Log)
  <2>1. i \in Nat /\ i - 1 \in Nat /\ i - 1 <= Len(Log)
    BY <1>3, <1>5
  <2>2. NoMetadata(q)
    BY <1>5, <1>8 DEF NoMetadata
  <2> QED BY <1>3, <1>8, <2>1, <2>2 DEF Prefix
<1>13. mem' = replayWAL(q)
  BY <1>2 DEF q
<1> QED BY <1>2, <1>9, <1>10, <1>11, <1>12, <1>13, Opened

LEMMA OpenFailsKeeps ==
  ASSUME IInv, OpenFails
  PROVE  IInv'
<1> DEFINE sg == [s \in Segments |-> <<>>]
<1>1. TypeOK /\ DiskOK /\ ClosedOK /\ AppendersOK /\ LogOK
  BY DEF IInv
<1>2. /\ ~up /\ segs' = sg /\ first' = 0 /\ last' = 0 /\ cp' = NoCheckpoint
      /\ UNCHANGED <<up, mem, app, trunc>>
  BY DEF OpenFails
<1>3. 0 \in Segments /\ 0 \in -1..MaxSegment /\ 0 \in Nat
  BY PrometheusWalAssumption DEF Segments
<1>4. /\ NoCheckpoint \in Checkpoints /\ sg \in Directories /\ Len(NoCheckpoint.recs) = 0
      /\ NoCheckpoint.upto = -1 /\ Len(ReplayLog(NoCheckpoint, sg, 0)) = 0
  BY <1>3, EmptyLog
<1>5. Len(Log') = 0 /\ Len(cp'.recs) \in Nat
  BY <1>2, <1>4 DEF Log
<1>6. \A s \in Segments : segs'[s] = <<>>
  BY <1>2
<1> HIDE DEF sg
<1>7. TypeOK'
  BY <1>1, <1>2, <1>3, <1>4 DEF TypeOK, Directories, Checkpoints
<1>8. DiskOK' /\ ClosedOK' /\ AppendersOK'
  <2>1. trunc' = NoTruncate /\ NoTruncate.pc = "idle"
    BY <1>1, <1>2 DEF ClosedOK, NoTruncate
  <2>2. -1 < 0
    OBVIOUS
  <2> QED BY <1>1, <1>2, <1>4, <1>6, <2>1, <2>2 DEF DiskOK, ClosedOK, AppendersOK
<1>9. LogOK'
  <2>1. PICK own \in Owners : Owns(own)
    BY <1>1 DEF LogOK
  <2>2. OwnsLog(own, Log') /\ Ordered(Log') /\ Served(Len(cp'.recs), Log')
    BY <1>5, EmptyLogOK
  <2>3. Owns(own)'
    BY <1>2, <2>1, <2>2 DEF Owns
  <2>4. (\E w \in Owners : Owns(w))'
    BY <2>1, <2>3
  <2> QED BY <1>2, <2>2, <2>4 DEF LogOK
<1> QED BY <1>7, <1>8, <1>9 DEF IInv

LEMMA InitIInv == Init => IInv
<1> SUFFICES ASSUME Init PROVE IInv
  OBVIOUS
<1> DEFINE sg == [s \in Segments |-> <<>>]
<1>1. /\ segs = sg /\ first = 0 /\ last = FirstSegment /\ cp = NoCheckpoint /\ up = TRUE
      /\ mem = EmptyMemory /\ app = [a \in Appenders |-> Idle] /\ trunc = NoTruncate
  BY DEF Init
<1>2. FirstSegment \in Segments /\ FirstSegment \in -1..MaxSegment /\ -1 < FirstSegment
  BY PrometheusWalAssumption DEF Segments
<1>3. /\ NoCheckpoint \in Checkpoints /\ sg \in Directories /\ Len(NoCheckpoint.recs) = 0
      /\ NoCheckpoint.upto = -1 /\ Len(ReplayLog(NoCheckpoint, sg, FirstSegment)) = 0
  BY <1>2, EmptyLog
<1>4. Len(Log) = 0 /\ Len(cp.recs) \in Nat
  BY <1>1, <1>3 DEF Log
<1>5. \A s \in Segments : segs[s] = <<>>
  BY <1>1
<1>6. \A a \in Appenders : app[a] = Idle
  BY <1>1
<1> HIDE DEF sg
<1>7. NoTruncate \in TruncateType /\ NoTruncate.pc = "idle"
  BY DEF NoTruncate, TruncateType
<1>8. TypeOK
  BY <1>1, <1>2, <1>3, <1>7, EmptyMemoryType, IdleFacts DEF TypeOK, Directories, Checkpoints
<1>9. DiskOK /\ ClosedOK
  BY <1>1, <1>2, <1>3, <1>5, <1>7 DEF DiskOK, ClosedOK
<1>10. AppendersOK
  BY <1>6, IdleFacts DEF AppendersOK
<1>11. LogOK
  <2> DEFINE own == [r \in Refs |-> None]
  <2>1. own \in Owners
    BY DEF Owners
  <2> HIDE DEF own
  <2>2. Owns(own)
    BY <1>1, <1>4, <1>6, EmptyLogOK, NothingElse DEF Owns
  <2> QED BY <1>4, <2>1, <2>2, EmptyLogOK DEF LogOK
<1> QED BY <1>8, <1>9, <1>10, <1>11 DEF IInv

LEMMA StutterKeeps ==
  ASSUME IInv, UNCHANGED vars
  PROVE  IInv'
<1>1. UNCHANGED <<segs, first, last, cp, up, mem, app, trunc>>
  BY DEF vars
<1>2. Log' = Log
  BY <1>1 DEF Log
<1>3. TypeOK' /\ DiskOK' /\ ClosedOK' /\ AppendersOK'
  BY <1>1 DEF IInv, TypeOK, DiskOK, ClosedOK, AppendersOK
<1>4. LogOK'
  <2>1. PICK own \in Owners : Owns(own)
    BY DEF IInv, LogOK
  <2>2. Owns(own)'
    BY <1>1, <1>2, <2>1 DEF Owns
  <2>3. (\E w \in Owners : Owns(w))'
    BY <2>1, <2>2
  <2> QED BY <1>1, <1>2, <2>3 DEF IInv, LogOK
<1> QED BY <1>3, <1>4 DEF IInv

LEMMA AppenderStepKeeps ==
  ASSUME IInv, NEW a \in Appenders, AppenderStep(a)
  PROVE  IInv' /\ up
<1>1. CASE \E t \in Times, r \in Refs : AppendFound(a, r, t)
  BY <1>1, AppendFoundKeeps DEF AppendFound
<1>2. CASE \E t \in Times, l \in Labels : AppendNotFound(a, l, t)
  BY <1>2, AppendNotFoundKeeps DEF AppendNotFound
<1>3. CASE Set(a)
  BY <1>3, SetKeeps DEF Set
<1>4. CASE Rollback(a)
  BY <1>4, RollbackKeeps DEF Rollback
<1>5. CASE \E hasMetadata \in BOOLEAN : Commit(a, hasMetadata)
  BY <1>5, CommitKeeps DEF Commit
<1>6. CASE LogRecord(a)
  BY <1>6, LogRecordKeeps DEF LogRecord
<1>7. CASE LogFails(a)
  BY <1>7, LogFailsKeeps DEF LogFails
<1>8. CASE EndTransaction(a)
  BY <1>8, EndTransactionKeeps DEF EndTransaction
<1> QED BY <1>1, <1>2, <1>3, <1>4, <1>5, <1>6, <1>7, <1>8 DEF AppenderStep

LEMMA TruncateStepKeeps ==
  ASSUME IInv, TruncateStep
  PROVE  IInv' /\ up
<1>1. CASE \E mint \in 1..(MaxTime + 1) : GC(mint)
  BY <1>1, GCKeeps DEF GC, TruncateAt
<1>2. CASE TruncateSegment
  BY <1>2, TruncateSegmentKeeps DEF TruncateSegment, TruncateAt
<1>3. CASE Checkpoint
  BY <1>3, CheckpointKeeps DEF Checkpoint, TruncateAt
<1>4. CASE CheckpointFails
  BY <1>4, CheckpointFailsKeeps DEF CheckpointFails, TruncateAt
<1>5. CASE \E fails \in BOOLEAN : DropSegments(fails)
  BY <1>5, DropSegmentsKeeps DEF DropSegments, TruncateAt
<1> QED BY <1>1, <1>2, <1>3, <1>4, <1>5 DEF TruncateStep

\* Every step keeps the invariant, and one that opens the storage restores what the log
\* says.
LEMMA NextIInv ==
  ASSUME IInv, [Next]_vars
  PROVE  IInv' /\ (~up /\ up' => Exact(mem', Log'))
<1>1. CASE \E a \in Appenders : AppenderStep(a)
  BY <1>1, AppenderStepKeeps
<1>2. CASE NextSegment
  BY <1>2, NextSegmentKeeps DEF NextSegment
<1>3. CASE TruncateStep
  BY <1>3, TruncateStepKeeps
<1>4. CASE Down
  BY <1>4, DownKeeps DEF Down
<1>5. CASE Open
  BY <1>5, OpenKeeps
<1>6. CASE OpenRepair
  BY <1>6, OpenRepairKeeps
<1>7. CASE OpenFails
  BY <1>7, OpenFailsKeeps DEF OpenFails
<1>8. CASE UNCHANGED vars
  BY <1>8, StutterKeeps DEF vars
<1> QED BY <1>1, <1>2, <1>3, <1>4, <1>5, <1>6, <1>7, <1>8 DEF Next

-----------------------------------------------------------------------------
(***************************************************************************)
(* Theorems                                                                *)
(***************************************************************************)

\* The inductive invariant holds in every state: above all, a reference belongs to one
\* label set in the log, in memory and in every transaction at once, and a deleted series
\* is kept until the last segment with one of its samples is checkpointed.
THEOREM InductiveInvariant == Spec => []IInv
<1>1. Init => IInv
  BY InitIInv
<1>2. IInv /\ [Next]_vars => IInv'
  BY NextIInv
<1> QED BY <1>1, <1>2, PTL DEF Spec

\* A crash, a checkpoint or a repair never makes a replay give a
\* sample to a series with other labels than it was appended for.
THEOREM SamplesKeepTheirSeriesTheorem == Spec => []SamplesKeepTheirSeries
<1>1. IInv => SamplesKeepTheirSeries
  BY DEF IInv, LogOK, Ordered, SamplesKeepTheirSeries
<1> QED BY <1>1, InductiveInvariant, PTL

\* Checkpoints, garbage collection and repairs never take away the series of a sample
\* that a segment still holds.
THEOREM SegmentsHaveSeriesTheorem == Spec => []SegmentsHaveSeries
<1>1. ASSUME IInv PROVE SegmentsHaveSeries
  <2>0. Log \in Seq(Entry) /\ Len(Log) \in Nat /\ Len(cp.recs) \in Nat
    BY <1>1, LogFacts DEF IInv
  <2> SUFFICES ASSUME NEW j \in (Len(cp.recs) + 1)..Len(Log), Log[j][1].kind = "sample", Log[j][1].known
               PROVE  SeriesIsLogged(SubSeq(Log, 1, j - 1), Log[j][1].ref, Log[j][1].lbl)
    BY DEF SegmentsHaveSeries
  <2> DEFINE p == SubSeq(Log, 1, j - 1)
  <2>1. PICK i \in 1..(j - 1) : Log[i][1] = Series(Log[j][1].ref, Log[j][1].lbl)
    BY <1>1 DEF IInv, LogOK, Served
  <2>2. j \in Nat /\ j >= 1 /\ j <= Len(Log)
    BY <2>0
  <2>3. \A k \in 1..(j - 1) : Log[k] \in Entry
    <3> TAKE k \in 1..(j - 1)
    <3>1. k \in 1..Len(Log)
      BY <2>0, <2>2
    <3> QED BY <2>0, <3>1, ElementOfSeq
  <2>4. j - 1 \in Int /\ 1 \in Int /\ (j - 1) - 1 + 1 = j - 1 /\ 1 + i - 1 = i /\ 1 <= j - 1
    BY <2>2
  <2>5. /\ Len(p) = IF 1 <= j - 1 THEN (j - 1) - 1 + 1 ELSE 0
        /\ \A k \in 1..((j - 1) - 1 + 1) : p[k] = Log[1 + k - 1]
    BY <2>3, <2>4, SubSeqProperties
  <2> HIDE DEF p
  <2>6. Len(p) = j - 1 /\ p[i] = Log[i]
    BY <2>1, <2>4, <2>5
  <2>7. SeriesIsLogged(p, Log[j][1].ref, Log[j][1].lbl)
    BY <2>1, <2>6 DEF SeriesIsLogged
  <2> QED BY <2>7 DEF p
<1> QED BY <1>1, InductiveInvariant, PTL

\* NewStorage restores every series that is in the log, under one reference, with the
\* timestamp of its newest sample, and no other, whatever duplicates, checkpoints and
\* repairs there were.
THEOREM ReplayIsExactTheorem == Spec => ReplayIsExact
<1> DEFINE A == ~up /\ up' => \A l \in Labels :
                  LET r == mem'.hashes[l]
                  IN IF \E i \in 1..Len(Log') : Log'[i][1].kind = "series" /\ Log'[i][1].lbl = l
                       THEN r \in mem'.refs /\ mem'.lset[r] = l /\ mem'.lastTs[r] = Newest(Log', l)
                       ELSE r = None
<1>1. ASSUME IInv, [Next]_vars PROVE [A]_vars
  <2>1. ~up /\ up' => Exact(mem', Log')
    BY <1>1, NextIInv
  <2>2. A
    BY <2>1 DEF Exact
  <2> QED BY <2>2
<1>2. IInv /\ [Next]_vars => [A]_vars
  BY <1>1
<1> HIDE DEF A
<1>3. Spec => [][A]_vars
  BY <1>2, InductiveInvariant, PTL DEF Spec
<1> QED BY <1>3 DEF A, ReplayIsExact
=============================================================================

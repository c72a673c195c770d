--------------------------- MODULE TransferProofs ---------------------------
(***************************************************************************)
(* The types of Transfer, its five safety invariants, and that it          *)
(* implements Publication, for any number of workers, any versions and     *)
(* sizes of the remote file, any worlds and any number of faults. The      *)
(* layout's theorem has one hypothesis, TwoSegmentPlans.                   *)
(***************************************************************************)
EXTENDS Transfer, LayoutProofs, SequenceTheorems

\* The numbers a slot may have.
Slots == 1..Max({MaxSlots, SegmentCount})

\* In a world with ranges and a known size every layout is one of ranges, in any other
\* it is the whole body.
RangedWorld == world.ranges /\ world.disclosed

\* The lone open-ended segment of a body fetched whole.
WholeRow(segs) ==
    /\ DOMAIN segs = {1}
    /\ segs[1] \in Seg /\ segs[1].start = 0 /\ segs[1].end = -1

\* What a set of rows may look like in this world.
Shaped(segs, size) ==
    /\ 1 \in DOMAIN segs /\ DOMAIN segs \subseteq Slots
    /\ IF RangedWorld THEN size \in Nat \ {0} /\ Ranged(segs, size) ELSE WholeRow(segs)

\* The size that a probe reports of a version.
SizeOf(v) == IF world.disclosed THEN Size[v] ELSE -1

\* A row of the database: once it has segments, they have the world's shape and the row
\* is of one probe.
RecordInv(row) ==
    /\ row = [status |-> row.status, tag |-> row.tag, size |-> row.size, segs |-> row.segs]
    /\ row.status \in {"queued", "active", "failed", "completed"}
    /\ row.tag \in Versions \cup {0} /\ row.size \in Nat \cup {-1}
    /\ DOMAIN row.segs # {} =>
         /\ Shaped(row.segs, row.size)
         /\ \E v \in Versions : row.tag = (IF world.tags THEN v ELSE 0) /\ row.size = SizeOf(v)

\* The types of what is no row, layout or worker.
BaseInv ==
    /\ world \in Worlds /\ remote \in Versions
    /\ \A file \in {part, partDur, dest, destDur} : file \in Seq(Versions \cup {0})
    /\ pc \in {"idle", "open", "ranges", "body", "streaming", "gate", "verify", "rename",
               "syncdir", "complete", "failing", "failed"}
    /\ cancelled \in BOOLEAN /\ faults \in 0..MaxFaults /\ suspect \in BOOLEAN

\* Both states of the database are rows, and a completion that is durable is visible.
StoreInv ==
    /\ RecordInv(db) /\ RecordInv(dbDur)
    /\ dbDur.status = "completed" => db.status = "completed"

\* A run works on the row it has saved as active, with a layout of its shape.
RunInv ==
    /\ pc = "idle" => job = NoJob /\ live = <<>>
    /\ pc # "idle" =>
         /\ job.version \in Versions /\ job.size = SizeOf(job.version)
         /\ job.tag = db.tag /\ job.size = db.size
         /\ db.status = "active" /\ DOMAIN db.segs # {}
         /\ Shaped(live, job.size)
    /\ pc # "idle" /\ (pc = "open" => job.fresh) =>
         live \in Seq(Seg) /\ (RangedWorld => Apart(live))
    /\ pc = "ranges" => RangedWorld /\ Len(part) >= job.size
    /\ pc \in {"body", "streaming"} => ~RangedWorld

\* A row that was read from a live segment: its counter and its range may be behind by
\* now.
RowOf(row) ==
    /\ row \in Row /\ row.slot \in DOMAIN live
    /\ row.seg.start = live[row.slot].start
    /\ row.seg.end \in 0..(job.size - 1)
    /\ row.seg.done <= live[row.slot].done /\ row.seg.done <= SegSize(row.seg)

\* The states of a worker.
WorkerStates == [pc : {"free", "stream", "wrote", "broken", "split", "eof", "error"},
                 slot : Nat, rows : Seq(Row)]

\* What a worker holds: a slot of the layout that is not pending, and rows of live
\* segments.
WorkerInv(state) ==
    /\ state \in WorkerStates
    /\ state.pc = "free" => state = Free
    /\ state.pc # "free" => state.slot \in DOMAIN live \ pending
    /\ state.pc \in {"stream", "wrote", "broken"} => state.rows = <<>>
    /\ state.pc \in {"split", "eof"} => state.rows # <<>>
    /\ state.pc = "wrote" => ~IsDone(live[state.slot])
    /\ \A i \in DOMAIN state.rows : RowOf(state.rows[i])

\* What the checkpointer holds.
CheckpointInv ==
    /\ cp \in [pc : {"wait", "snapped", "synced"}, rows : Seq(Row)]
    /\ cp.pc = "wait" => cp = Idle
    /\ cp.pc # "wait" => cp.rows # <<>>
    /\ \A i \in DOMAIN cp.rows : RowOf(cp.rows[i])

\* No two workers stream the same slot; outside a pool's run there is no worker, no tick
\* and no pending slot.
PoolInv ==
    /\ worker = [w \in Workers |-> worker[w]]
    /\ \A w \in Workers : WorkerInv(worker[w])
    /\ \A v, w \in Workers :
         worker[v].pc # "free" /\ worker[w].pc # "free" /\ v # w => worker[v].slot # worker[w].slot
    /\ pending \subseteq DOMAIN live
    /\ pc # "ranges" => (\A w \in Workers : worker[w] = Free) /\ cp = Idle /\ pending = {}

\* A file is renamed only as it was synced, and until the directory is synced the
\* destination's file and the .part that is gone are what the disk has of each other.
PublishInv ==
    /\ pc \in {"verify", "rename"} => part = partDur
    /\ pc = "syncdir" => partDur = dest /\ part = <<>>
    /\ dest # destDur => partDur = dest /\ part = <<>> /\ pc \in {"idle", "open", "syncdir", "failed"}
    /\ db.status = "completed" => dest = destDur
    /\ pc = "rename" /\ world.sum # 0 => Matches(part, world.sum)
    /\ world.sum # 0 => \A file \in {dest, destDur} : file = Absent \/ Matches(file, world.sum)

\* Every byte that a counter claims, and the byte that was written and is not counted
\* yet, is of the run's version.
Fetched(version) ==
    /\ pc = "ranges" =>
         /\ Len(part) = job.size
         /\ \A i \in DOMAIN live : \A k \in Counted(live[i]) : part[k + 1] = version
         /\ \A w \in Workers : worker[w].pc = "wrote" =>
               part[Frontier(worker[w].slot) + 1] = version
    /\ pc = "streaming" =>
         /\ part = [i \in 1..Len(part) |-> version] /\ Len(part) <= Size[version]
         /\ live[1].done = Len(part)
    /\ pc \in {"gate", "verify", "rename"} => Matches(part, version)

\* Unless the behaviour is suspect, what is fetched is of the version served, and what is
\* published is whole.
ContentInv ==
    ~suspect =>
        /\ pc # "idle" => job.version = remote
        /\ Fetched(job.version)
        /\ \A file \in {dest, destDur} : file = Absent \/ Whole(file)
        /\ pc \in {"syncdir", "complete"} => Whole(dest)
        /\ db.status = "completed" => Whole(dest)

(***************************************************************************)
(* The inductive invariant. BarrierCountsDurableBytes is one of its parts: *)
(* next to the ranges of the rows that are held (RowOf) it is inductive as *)
(* it stands. CompletedIsExact is not: that the file is whole when it is   *)
(* renamed comes from the sum of the counters at the gate (SumCovers), and *)
(* so from the bytes that every counter claims (Fetched), which stay apart *)
(* because the segments are (RunInv) and no two workers hold the same slot *)
(* (PoolInv).                                                              *)
(***************************************************************************)
IInv == BaseInv /\ StoreInv /\ RunInv /\ PoolInv /\ CheckpointInv
        /\ BarrierCountsDurableBytes /\ PublishInv /\ ContentInv

-----------------------------------------------------------------------------
(* Facts about the state, and the parts that a step leaves alone.            *)

\* There is a greatest slot number.
LEMMA SlotsAreNumbers == Max({MaxSlots, SegmentCount}) \in Nat \ {0}
BY TransferAssumption, TwoMax

\* The versions are numbers, with sizes.
LEMMA SizesArePositive ==
    /\ Versions = 1..Len(Size) /\ Len(Size) \in Nat
    /\ \A v \in Versions : Size[v] \in Nat \ {0}
BY TransferAssumption DEF Versions

\* The database keeps its invariant when nothing of it changes.
LEMMA StoreFrame == StoreInv /\ UNCHANGED <<world, db, dbDur>> => StoreInv'
BY DEF StoreInv, RecordInv, Shaped, RangedWorld, SizeOf

\* A run keeps its invariant through what changes its row's segments only.
LEMMA RunFrame ==
    ASSUME RunInv, UNCHANGED <<world, pc, job, live>>, Len(part') = Len(part),
           db'.status = db.status, db'.tag = db.tag, db'.size = db.size,
           DOMAIN db.segs \subseteq DOMAIN db'.segs
    PROVE  RunInv'
BY DEF RunInv, Shaped, RangedWorld, SizeOf

\* One worker moves on and keeps its slot, or gives it up.
LEMMA WorkerMoves ==
    ASSUME PoolInv, UNCHANGED <<job, live, pending>>, pc' = pc,
           NEW w \in Workers, NEW state, Becomes(w, state), pc = "ranges",
           WorkerInv(state),
           state.pc = "free" \/ (worker[w].pc # "free" /\ state.slot = worker[w].slot)
    PROVE  PoolInv'
<1>1. /\ worker' = [v \in Workers |-> worker'[v]]
      /\ worker'[w] = state /\ \A v \in Workers \ {w} : worker'[v] = worker[v]
  BY DEF Becomes, PoolInv
<1>2. \A v \in Workers : WorkerInv(worker[v])' 
  <2> SUFFICES ASSUME NEW v \in Workers PROVE WorkerInv(worker[v])'
    OBVIOUS
  <2>1. CASE v = w
    BY <1>1, <2>1 DEF WorkerInv, RowOf
  <2>2. CASE v # w
    <3> WorkerInv(worker[v])
      BY DEF PoolInv
    <3> QED BY <1>1, <2>2 DEF WorkerInv, RowOf
  <2> QED BY <2>1, <2>2
<1> QED BY <1>1, <1>2 DEF PoolInv

\* A fault counts, and within the bound.
LEMMA FaultsStayBounded ==
    ASSUME faults \in 0..MaxFaults, NEW kind, Fault(kind) \/ UNCHANGED faults
    PROVE  faults' \in 0..MaxFaults
BY TransferAssumption DEF Fault

\* What holds while ranges are streamed.
LEMMA RangesFacts ==
    ASSUME BaseInv, RunInv, pc = "ranges"
    PROVE  /\ RangedWorld /\ live \in Seq(Seg) /\ DOMAIN live = 1..Len(live)
           /\ job.size \in Nat \ {0} /\ Ranged(live, job.size) /\ Apart(live)
           /\ part \in Seq(Versions \cup {0}) /\ partDur \in Seq(Versions \cup {0})
           /\ Len(part) \in Nat /\ Len(part) >= job.size /\ remote \in Versions
           /\ job.version \in Versions /\ job.size = Size[job.version]
<1>1. RangedWorld /\ live \in Seq(Seg) /\ Apart(live) /\ Len(part) >= job.size
  BY DEF RunInv
<1>2. Shaped(live, job.size)
  BY DEF RunInv
<1>3. job.size \in Nat \ {0} /\ Ranged(live, job.size)
  BY <1>1, <1>2 DEF Shaped
<1>4. job.version \in Versions /\ job.size = Size[job.version]
  BY <1>1 DEF RunInv, SizeOf, RangedWorld
<1>5. part \in Seq(Versions \cup {0}) /\ partDur \in Seq(Versions \cup {0}) /\ remote \in Versions
  BY DEF BaseInv
<1> QED BY <1>1, <1>3, <1>4, <1>5

\* The numbers of a live segment.
LEMMA LiveNumbers ==
    ASSUME BaseInv, RunInv, pc = "ranges", NEW i \in DOMAIN live
    PROVE  /\ live[i].start \in Nat /\ live[i].done \in Nat /\ live[i].end \in 0..(job.size - 1)
           /\ live[i].start < job.size /\ live[i].done <= live[i].end - live[i].start + 1
           /\ live[i] = [start |-> live[i].start, end |-> live[i].end, done |-> live[i].done]
           /\ (live[i].start = 0 <=> i = 1)
           /\ Frontier(i) = live[i].start + live[i].done /\ Frontier(i) \in Nat
           /\ ~IsDone(live[i]) <=> live[i].done < live[i].end - live[i].start + 1
           /\ ~IsDone(live[i]) => Frontier(i) <= live[i].end /\ Frontier(i) < Len(part)
<1>1. /\ live[i] \in Seg /\ live[i].end \in 0..(job.size - 1) /\ live[i].start < job.size
      /\ live[i].done <= SegSize(live[i]) /\ (live[i].start = 0 <=> i = 1)
  BY RangesFacts DEF Ranged
<1>2. /\ live[i].start \in Nat /\ live[i].done \in Nat /\ live[i].end \in Int
      /\ live[i] = [start |-> live[i].start, end |-> live[i].end, done |-> live[i].done]
  BY <1>1 DEF Seg
<1>3. job.size \in Nat /\ Len(part) \in Nat /\ Len(part) >= job.size
  BY RangesFacts
<1>4. live[i].done <= live[i].end - live[i].start + 1 /\ 0 <= live[i].end /\ live[i].end <= job.size - 1
  BY <1>1, <1>2, <1>3 DEF SegSize
<1>5. Frontier(i) = live[i].start + live[i].done
  BY DEF Frontier
<1>6. ~IsDone(live[i]) <=> live[i].done < live[i].end - live[i].start + 1
  BY <1>2, <1>4 DEF IsDone, SegSize
<1> QED BY <1>1, <1>2, <1>3, <1>4, <1>5, <1>6

\* The tick keeps its rows when nothing of it changes.
LEMMA CheckpointFrame == CheckpointInv /\ UNCHANGED <<job, live, cp>> => CheckpointInv'
BY DEF CheckpointInv, RowOf

\* Publication is not concerned while ranges or a body are streamed.
LEMMA PublishFrame ==
    ASSUME PublishInv, UNCHANGED <<world, dest, destDur, pc>>, db'.status = db.status,
           pc \in {"ranges", "body", "streaming", "gate", "complete", "failing"}
    PROVE  PublishInv'
BY DEF PublishInv

\* No fsync takes durability back.
LEMMA SyncKeeps ==
    ASSUME NEW seg, Durable(seg), part' = part, partDur' \in {partDur, part}
    PROVE  Durable(seg)'
BY DEF Durable

\* An fsync makes durable what a row read before it claims.
LEMMA SyncMakes ==
    ASSUME BaseInv, RunInv, pc = "ranges", NEW row, RowOf(row), part' = part, partDur' = part
    PROVE  Durable(row.seg)'
<1>1. row \in Row /\ row.seg.end \in 0..(job.size - 1) /\ row.seg.done <= SegSize(row.seg)
  BY DEF RowOf
<1>2. row.seg.start \in Nat /\ row.seg.done \in Nat
  BY <1>1 DEF Row
<1>3. job.size \in Nat /\ Len(part) \in Nat /\ Len(part) >= job.size
  BY RangesFacts
<1>4. row.seg.done <= row.seg.end - row.seg.start + 1 /\ row.seg.end \in Int /\ row.seg.end <= job.size - 1
  BY <1>1, <1>3 DEF SegSize
<1>5. \A k \in Counted(row.seg) : k < Len(part)
  BY <1>2, <1>3, <1>4 DEF Counted
<1> QED BY <1>5 DEF Durable

\* The parts of the invariant.
LEMMA Parts == IInv => /\ BaseInv /\ StoreInv /\ RunInv /\ PoolInv /\ CheckpointInv
                       /\ BarrierCountsDurableBytes /\ PublishInv /\ ContentInv
BY DEF IInv

\* The invariant follows from its parts.
LEMMA AllParts == BaseInv' /\ StoreInv' /\ RunInv' /\ PoolInv' /\ CheckpointInv'
                /\ BarrierCountsDurableBytes' /\ PublishInv' /\ ContentInv' => IInv'
BY DEF IInv

\* A worker that moves on leaves the others alone.
LEMMA BecomesOnly ==
    ASSUME PoolInv, NEW w \in Workers, NEW state, Becomes(w, state)
    PROVE  /\ worker' = [v \in Workers |-> worker'[v]]
           /\ worker'[w] = state /\ \A v \in Workers \ {w} : worker'[v] = worker[v]
BY DEF Becomes, PoolInv

\* A step of one worker keeps the barrier, when the rows it then persists are durable.
LEMMA BarrierStep ==
    ASSUME BarrierCountsDurableBytes, UNCHANGED <<part, cp>>, partDur' \in {partDur, part},
           PoolInv, NEW w \in Workers, NEW state, Becomes(w, state),
           state.pc \in {"eof", "error"} => \A i \in DOMAIN state.rows : Durable(state.rows[i].seg)'
    PROVE  BarrierCountsDurableBytes'
<1>a. worker'[w] = state /\ \A v \in Workers \ {w} : worker'[v] = worker[v]
  BY BecomesOnly
<1>1. cp'.pc = "synced" => \A i \in DOMAIN cp'.rows : Durable(cp.rows[i].seg)'
  <2> SUFFICES ASSUME cp'.pc = "synced", NEW i \in DOMAIN cp'.rows
               PROVE  Durable(cp.rows[i].seg)'
    OBVIOUS
  <2>1. cp' = cp /\ cp.pc = "synced" /\ i \in DOMAIN cp.rows
    OBVIOUS
  <2>2. Durable(cp.rows[i].seg)
    BY <2>1 DEF BarrierCountsDurableBytes
  <2>3. Durable(cp.rows[i].seg)'
    BY <2>1, <2>2 DEF Durable
  <2> QED BY <2>1, <2>3
<1>2. ASSUME NEW v \in Workers, worker'[v].pc \in {"eof", "error"},
             NEW i \in DOMAIN worker'[v].rows
      PROVE  Durable(worker[v].rows[i].seg)'
  <2>1. CASE v = w
    <3>1. worker'[v] = state
      BY <2>1, <1>a
    <3>2. \A k \in DOMAIN state.rows : Durable(state.rows[k].seg)'
      BY <3>1, <1>2
    <3> QED BY <3>1, <3>2 DEF Durable
  <2>2. CASE v # w
    <3>1. worker'[v] = worker[v]
      BY <2>2, <1>a
    <3>2. Durable(worker[v].rows[i].seg)
      BY <3>1, <1>2 DEF BarrierCountsDurableBytes
    <3> QED BY <3>1, <3>2 DEF Durable
  <2> QED BY <2>1, <2>2
<1> QED BY <1>1, <1>2 DEF BarrierCountsDurableBytes

\* A step of one worker that writes nothing leaves the content alone.
LEMMA FetchedStep ==
    ASSUME ContentInv, PoolInv, pc = "ranges",
           UNCHANGED <<remote, part, dest, destDur, pc, job, live, suspect>>, db'.status = db.status,
           NEW w \in Workers, NEW state, Becomes(w, state), state.pc # "wrote"
    PROVE  ContentInv'
<1>a. worker'[w] = state /\ \A v \in Workers \ {w} : worker'[v] = worker[v]
  BY BecomesOnly
<1> SUFFICES ASSUME ~suspect PROVE ContentInv'
  BY DEF ContentInv
<1>1. Fetched(job.version)
  BY DEF ContentInv
<1>2. ASSUME NEW v \in Workers, worker'[v].pc = "wrote"
      PROVE  (part[Frontier(worker[v].slot) + 1] = job.version)'
  <2>1. v # w /\ worker'[v] = worker[v]
    BY <1>a, <1>2
  <2>2. part[Frontier(worker[v].slot) + 1] = job.version
    BY <1>1, <1>2, <2>1 DEF Fetched
  <2>3. Frontier(worker[v].slot)' = Frontier(worker[v].slot)
    BY <2>1 DEF Frontier
  <2> QED BY <2>2, <2>3
<1>3. Fetched(job.version)'
  BY <1>1, <1>2 DEF Fetched
<1> QED BY <1>3 DEF ContentInv

\* A step of one worker that neither takes a slot, writes, counts nor splits keeps the
\* invariant.
LEMMA WorkerStep ==
    ASSUME IInv, pc = "ranges",
           UNCHANGED <<world, remote, part, dest, destDur, pc, job, live, pending, cp, suspect>>,
           cancelled' \in BOOLEAN, faults' \in 0..MaxFaults,
           partDur' \in {partDur, part}, StoreInv',
           db'.status = db.status, db'.tag = db.tag, db'.size = db.size,
           DOMAIN db.segs \subseteq DOMAIN db'.segs,
           NEW w \in Workers, NEW state, Becomes(w, state), WorkerInv(state), state.pc # "wrote",
           state.pc = "free" \/ (worker[w].pc # "free" /\ state.slot = worker[w].slot),
           state.pc \in {"eof", "error"} => \A i \in DOMAIN state.rows : Durable(state.rows[i].seg)'
    PROVE  IInv'
<1>1. BaseInv'
  BY Parts DEF BaseInv
<1>2. RunInv'
  <2> Len(part') = Len(part)
    OBVIOUS
  <2> QED BY Parts, RunFrame
<1>3. PoolInv'
  BY Parts, WorkerMoves
<1>4. CheckpointInv'
  BY Parts, CheckpointFrame
<1>5. BarrierCountsDurableBytes'
  BY Parts, BarrierStep
<1>6. PublishInv'
  BY Parts, PublishFrame
<1>7. ContentInv'
  BY Parts, FetchedStep
<1> QED BY <1>1, <1>2, <1>3, <1>4, <1>5, <1>6, <1>7, AllParts

\* Persisting one row keeps the database a database.
LEMMA UpdateKeeps ==
    ASSUME BaseInv, StoreInv, RunInv, pc = "ranges", UNCHANGED world,
           NEW row, RowOf(row), UpdateSegment(row)
    PROVE  /\ StoreInv'
           /\ db'.status = db.status /\ db'.tag = db.tag /\ db'.size = db.size
           /\ DOMAIN db.segs \subseteq DOMAIN db'.segs
<1> DEFINE segs == [i \in DOMAIN db.segs \cup {row.slot} |->
                      IF i = row.slot THEN row.seg ELSE db.segs[i]]
<1>1. db' = [db EXCEPT !.segs = segs] /\ dbDur' = db
  BY DEF UpdateSegment
<1>2. /\ RecordInv(db) /\ db.status = "active" /\ DOMAIN db.segs # {}
      /\ job.size = db.size
  BY DEF StoreInv, RunInv
<1>3. db' = [status |-> db.status, tag |-> db.tag, size |-> db.size, segs |-> segs]
  <2> HIDE DEF segs
  <2> QED BY <1>1, <1>2 DEF RecordInv
<1>4. Shaped(db.segs, db.size) /\ RangedWorld
  BY <1>2, RangesFacts DEF RecordInv
<1>5. DOMAIN segs = DOMAIN db.segs \cup {row.slot}
  OBVIOUS
<1>6. row.slot \in DOMAIN live /\ row.slot \in Slots
  BY DEF RowOf, RunInv, Shaped
<1>7. /\ row.seg \in Seg /\ row.seg.end \in 0..(db.size - 1) /\ row.seg.start < db.size
      /\ row.seg.done <= SegSize(row.seg) /\ (row.seg.start = 0 <=> row.slot = 1)
  BY <1>2, LiveNumbers DEF RowOf, Row, Seg
<1>8. Ranged(segs, db.size)
  <2> SUFFICES ASSUME NEW i \in DOMAIN segs
               PROVE  /\ segs[i] \in Seg /\ segs[i].end \in 0..(db.size - 1)
                      /\ segs[i].start < db.size /\ segs[i].done <= SegSize(segs[i])
                      /\ (segs[i].start = 0 <=> i = 1)
    BY DEF Ranged
  <2>1. CASE i = row.slot
    <3> segs[i] = row.seg
      BY <2>1
    <3> HIDE DEF segs
    <3> QED BY <1>7, <2>1
  <2>2. CASE i # row.slot
    <3> segs[i] = db.segs[i] /\ i \in DOMAIN db.segs
      BY <2>2
    <3> HIDE DEF segs
    <3> QED BY <1>4, <2>2 DEF Shaped, Ranged
  <2> QED BY <2>1, <2>2
<1> HIDE DEF segs
<1>9. Shaped(segs, db.size)
  BY <1>4, <1>5, <1>6, <1>8 DEF Shaped
<1>10. RecordInv(db)'
  BY <1>2, <1>3, <1>4, <1>9 DEF RecordInv, Shaped, RangedWorld, SizeOf
<1>11. RecordInv(dbDur)'
  BY <1>1, <1>2 DEF RecordInv, Shaped, RangedWorld, SizeOf
<1>12. StoreInv'
  BY <1>10, <1>11, <1>1, <1>2, <1>3 DEF StoreInv
<1> QED BY <1>3, <1>5, <1>12

\* A live segment read now is a row of its slot.
LEMMA LiveRow ==
    ASSUME BaseInv, RunInv, pc = "ranges", NEW i \in DOMAIN live
    PROVE  RowOf(Live(i)) /\ Live(i).seg = live[i]
<1>1. i \in Nat
  BY RangesFacts
<1>2. live[i] \in Seg /\ live[i].done <= SegSize(live[i]) /\ live[i].end \in 0..(job.size - 1)
  BY RangesFacts DEF Ranged
<1>3. Live(i).slot = i /\ Live(i).seg = live[i] /\ Live(i) \in Row
  BY <1>1, <1>2 DEF Live, Row, Seg
<1> QED BY <1>2, <1>3 DEF RowOf, Seg

\* What a busy worker is.
LEMMA Busy ==
    ASSUME IInv, NEW w \in Workers, worker[w].pc # "free"
    PROVE  /\ pc = "ranges" /\ worker[w].slot \in DOMAIN live \ pending /\ WorkerInv(worker[w])
           /\ worker[w] = [pc |-> worker[w].pc, slot |-> worker[w].slot, rows |-> worker[w].rows]
           /\ worker[w].rows \in Seq(Row)
<1>1. WorkerInv(worker[w])
  BY Parts DEF PoolInv
<1>2. worker[w] # Free
  BY DEF Free
<1>3. pc = "ranges"
  BY Parts, <1>2 DEF PoolInv
<1> QED BY <1>1, <1>3 DEF WorkerInv, WorkerStates

\* A stream that breaks.
LEMMA BreakKeeps == ASSUME IInv, NEW w \in Workers, Break(w) PROVE IInv'
<1> PICK state : state = [worker[w] EXCEPT !.pc = "broken"]
  OBVIOUS
<1>1. worker[w].pc = "stream" /\ pc = "ranges"
  BY DEF Break
<1>2. /\ state.pc = "broken" /\ state.slot = worker[w].slot /\ state.rows = <<>>
      /\ WorkerInv(state)
  BY <1>1, Busy DEF WorkerInv, WorkerStates
<1>3. faults' \in 0..MaxFaults /\ cancelled' \in BOOLEAN
  BY Parts, TransferAssumption DEF BaseInv, Fault, Break
<1>4. StoreInv'
  BY Parts, StoreFrame DEF Break, rowVars
<1>5. Becomes(w, state)
  BY DEF Break
<1> QED BY <1>1, <1>2, <1>3, <1>4, <1>5, WorkerStep DEF Break, rowVars, fileVars

\* A range that the server refuses.
LEMMA RangeRefusedKeeps == ASSUME IInv, NEW w \in Workers, RangeRefused(w) PROVE IInv'
<1> PICK how \in {"error", "broken"} : Becomes(w, [worker[w] EXCEPT !.pc = how])
  BY DEF RangeRefused
<1> PICK state : state = [worker[w] EXCEPT !.pc = how]
  OBVIOUS
<1>1. worker[w].pc = "stream" /\ pc = "ranges"
  BY DEF RangeRefused
<1>2. /\ state.pc = how /\ state.slot = worker[w].slot /\ state.rows = <<>>
      /\ WorkerInv(state)
  BY <1>1, Busy DEF WorkerInv, WorkerStates
<1>3. faults' \in 0..MaxFaults /\ cancelled' \in BOOLEAN
  BY Parts DEF BaseInv, RangeRefused
<1>4. StoreInv'
  BY Parts, StoreFrame DEF RangeRefused, rowVars
<1>5. Becomes(w, state)
  OBVIOUS
<1>6. DOMAIN state.rows = {}
  BY <1>2
<1> QED BY <1>1, <1>2, <1>3, <1>4, <1>5, <1>6, WorkerStep DEF RangeRefused, rowVars, fileVars

\* A worker that tries its slot again.
LEMMA RetryKeeps == ASSUME IInv, NEW w \in Workers, Retry(w) PROVE IInv'
<1> PICK state : state = [worker[w] EXCEPT !.pc = "stream"]
  OBVIOUS
<1>1. worker[w].pc = "error" /\ worker[w].rows = <<>>
  BY DEF Retry
<1>2. /\ state.pc = "stream" /\ state.slot = worker[w].slot /\ state.rows = <<>>
      /\ WorkerInv(state) /\ pc = "ranges"
  BY <1>1, Busy DEF WorkerInv, WorkerStates
<1>3. faults' \in 0..MaxFaults /\ cancelled' \in BOOLEAN
  BY Parts DEF BaseInv, Retry
<1>4. StoreInv'
  BY Parts, StoreFrame DEF Retry, rowVars
<1>5. Becomes(w, state)
  BY DEF Retry
<1> QED BY <1>1, <1>2, <1>3, <1>4, <1>5, WorkerStep DEF Retry, rowVars, fileVars

\* A free worker holds nothing.
LEMMA FreeIsFine == WorkerInv(Free) /\ Free.pc = "free" /\ Free.rows = <<>>
BY DEF WorkerInv, WorkerStates, Free

\* A worker that gives its slot up.
LEMMA GiveUpKeeps == ASSUME IInv, NEW w \in Workers, GiveUp(w) PROVE IInv'
<1>1. worker[w].pc = "error" /\ pc = "ranges"
  BY Busy DEF GiveUp
<1>2. faults' \in 0..MaxFaults /\ cancelled' \in BOOLEAN
  BY Parts DEF BaseInv, GiveUp
<1>3. StoreInv'
  BY Parts, StoreFrame DEF GiveUp, rowVars
<1> QED BY <1>1, <1>2, <1>3, FreeIsFine, WorkerStep DEF GiveUp, rowVars, fileVars

\* Where a worker goes once a row of it is persisted, or its fsync has failed.
LEMMA PersistedIs ==
    ASSUME NEW state \in WorkerStates, state.pc \in {"split", "eof", "error"},
           state.slot \in DOMAIN live \ pending,
           \A i \in DOMAIN state.rows : RowOf(state.rows[i])
    PROVE  /\ WorkerInv(Persisted(state)) /\ Persisted(state).pc # "wrote"
           /\ Persisted(state).pc = "free" \/ Persisted(state).slot = state.slot
           /\ Persisted(state).pc \in {"eof", "error"} => Persisted(state).rows = state.rows
<1>1. CASE state.rows # <<>>
  <2> Persisted(state) = state
    BY <1>1 DEF Persisted
  <2> QED BY <1>1 DEF WorkerInv
<1>2. CASE state.rows = <<>> /\ state.pc = "split"
  <2>1. Persisted(state) = [state EXCEPT !.pc = "stream"]
    BY <1>2 DEF Persisted
  <2> PICK next : next = [state EXCEPT !.pc = "stream"]
    OBVIOUS
  <2>2. next \in WorkerStates /\ next.pc = "stream" /\ next.rows = <<>> /\ next.slot = state.slot
    BY <1>2 DEF WorkerStates
  <2>3. WorkerInv(next)
    BY <2>2 DEF WorkerInv
  <2> QED BY <2>1, <2>2, <2>3
<1>3. CASE state.rows = <<>> /\ state.pc = "eof"
  <2>1. Persisted(state) = Free
    BY <1>3 DEF Persisted
  <2> QED BY <2>1, FreeIsFine
<1>4. CASE state.rows = <<>> /\ state.pc = "error"
  <2>1. Persisted(state) = state
    BY <1>4 DEF Persisted
  <2> QED BY <2>1, <1>4 DEF WorkerInv
<1> QED BY <1>1, <1>2, <1>3, <1>4

\* A worker's row is persisted, or its commit fails.
LEMMA PersistRowKeeps == ASSUME IInv, NEW w \in Workers, PersistRow(w) PROVE IInv'
<1>1. worker[w].rows # <<>> /\ worker[w].pc # "free"
  BY Parts DEF PersistRow, PoolInv, WorkerInv, Free
<1>2. /\ pc = "ranges" /\ WorkerInv(worker[w]) /\ worker[w].slot \in DOMAIN live \ pending
      /\ worker[w].rows \in Seq(Row)
  BY <1>1, Busy
<1>3. worker[w].pc \in {"split", "eof", "error"}
  BY <1>1, <1>2 DEF WorkerInv, WorkerStates
<1>4. /\ Head(worker[w].rows) = worker[w].rows[1] /\ 1 \in DOMAIN worker[w].rows
      /\ Tail(worker[w].rows) \in Seq(Row)
      /\ \A i \in DOMAIN Tail(worker[w].rows) :
           i + 1 \in DOMAIN worker[w].rows /\ Tail(worker[w].rows)[i] = worker[w].rows[i + 1]
  BY <1>1, <1>2
<1> PICK state : state = [worker[w] EXCEPT !.rows = Tail(worker[w].rows)]
  OBVIOUS
<1>5. /\ state \in WorkerStates /\ state.pc = worker[w].pc /\ state.slot = worker[w].slot
      /\ state.rows = Tail(worker[w].rows)
  BY <1>2, <1>4 DEF WorkerInv, WorkerStates
<1>6. \A i \in DOMAIN state.rows : RowOf(state.rows[i])
  BY <1>2, <1>4, <1>5 DEF WorkerInv
<1>7. /\ WorkerInv(Persisted(state)) /\ Persisted(state).pc # "wrote"
      /\ Persisted(state).pc = "free" \/ Persisted(state).slot = state.slot
      /\ Persisted(state).pc \in {"eof", "error"} => Persisted(state).rows = state.rows
  BY <1>2, <1>3, <1>5, <1>6, PersistedIs
<1> PICK next : next = Persisted(state)
  OBVIOUS
<1>8. Becomes(w, next) /\ UNCHANGED <<world, remote, fileVars, pc, job, live, pending, cp, cancelled, suspect>>
  BY DEF PersistRow
<1>9. /\ StoreInv'
      /\ db'.status = db.status /\ db'.tag = db.tag /\ db'.size = db.size
      /\ DOMAIN db.segs \subseteq DOMAIN db'.segs
  <2>1. CASE UpdateSegment(Head(worker[w].rows))
    <3> PICK row : row = Head(worker[w].rows)
      OBVIOUS
    <3>1. RowOf(row)
      BY <1>2, <1>4 DEF WorkerInv
    <3> QED BY <2>1, <3>1, <1>2, <1>8, Parts, UpdateKeeps
  <2>2. CASE UNCHANGED rowVars
    BY <2>2, <1>8, Parts, StoreFrame DEF rowVars
  <2> QED BY <2>1, <2>2 DEF PersistRow
<1>10. next.pc \in {"eof", "error"} => \A i \in DOMAIN next.rows : Durable(next.rows[i].seg)'
  <2> SUFFICES ASSUME next.pc \in {"eof", "error"}, NEW i \in DOMAIN next.rows
               PROVE  Durable(next.rows[i].seg)'
    OBVIOUS
  <2>1. next.rows = state.rows /\ state.pc \in {"eof", "error"}
    BY <1>7, <1>3, <1>5 DEF Persisted
  <2>2. i + 1 \in DOMAIN worker[w].rows /\ next.rows[i] = worker[w].rows[i + 1]
    BY <2>1, <1>4, <1>5
  <2>3. Durable(worker[w].rows[i + 1].seg)
    BY <2>1, <2>2, <1>5, Parts DEF BarrierCountsDurableBytes
  <2>4. Durable(next.rows[i].seg)
    BY <2>2, <2>3
  <2> QED BY <2>4, <1>8 DEF Durable, fileVars
<1>11. cancelled' \in BOOLEAN /\ faults' \in 0..MaxFaults
  BY <1>8, Parts, TransferAssumption DEF BaseInv, PersistRow, Fault
<1> QED BY <1>1, <1>2, <1>5, <1>7, <1>8, <1>9, <1>10, <1>11, WorkerStep DEF fileVars

\* The fsync at a stream's end, before its row is persisted.
LEMMA FlushFinalKeeps == ASSUME IInv, NEW w \in Workers, FlushFinal(w) PROVE IInv'
<1>1. worker[w].pc \in {"broken", "stream"}
  BY DEF FlushFinal
<1>2. /\ pc = "ranges" /\ WorkerInv(worker[w]) /\ worker[w].slot \in DOMAIN live \ pending
      /\ worker[w].rows = <<>> /\ worker[w] \in WorkerStates
  BY <1>1, Busy DEF WorkerInv
<1> PICK ended : ended = IF worker[w].pc = "broken" THEN "error" ELSE "eof"
  OBVIOUS
<1> PICK row : row = Live(worker[w].slot)
  OBVIOUS
<1>3. RowOf(row) /\ row \in Row
  BY <1>2, Parts, LiveRow DEF RowOf
<1>4. /\ UNCHANGED <<world, remote, rowVars, part, dest, destDur, pc, job, live, pending, cp,
                     cancelled, suspect>>
      /\ partDur' \in {partDur, part} /\ faults' \in 0..MaxFaults /\ cancelled' \in BOOLEAN
  BY Parts, TransferAssumption DEF FlushFinal, Sync, SyncFail, Fault, BaseInv
<1>5. StoreInv'
  BY <1>4, Parts, StoreFrame DEF rowVars
<1>6. CASE Sync /\ Becomes(w, [worker[w] EXCEPT !.pc = ended, !.rows = <<row>>])
  <2> PICK state : state = [worker[w] EXCEPT !.pc = ended, !.rows = <<row>>]
    OBVIOUS
  <2>1. /\ state \in WorkerStates /\ state.pc \in {"eof", "error"} /\ state.rows = <<row>>
        /\ state.slot = worker[w].slot
    <3>1. <<row>> \in Seq(Row)
      BY <1>3
    <3>2. ended \in {"eof", "error"}
      OBVIOUS
    <3> QED BY <1>2, <3>1, <3>2 DEF WorkerStates
  <2>2. WorkerInv(state)
    BY <2>1, <1>2, <1>3 DEF WorkerInv
  <2>3. \A i \in DOMAIN state.rows : Durable(state.rows[i].seg)'
    <3>1. Durable(row.seg)'
      BY <1>3, <1>6, <1>4, <1>2, Parts, SyncMakes DEF Sync
    <3> QED BY <2>1, <3>1
  <2>4. Becomes(w, state)
    BY <1>6
  <2> QED BY <1>1, <1>2, <1>4, <1>5, <2>1, <2>2, <2>3, <2>4, WorkerStep DEF rowVars
<1>7. CASE Becomes(w, Persisted([worker[w] EXCEPT !.pc = ended]))
  <2> PICK state : state = [worker[w] EXCEPT !.pc = ended]
    OBVIOUS
  <2>1. /\ state \in WorkerStates /\ state.pc \in {"eof", "error"} /\ state.rows = <<>>
        /\ state.slot = worker[w].slot
    BY <1>2 DEF WorkerStates
  <2>2. /\ WorkerInv(Persisted(state)) /\ Persisted(state).pc # "wrote"
        /\ Persisted(state).pc = "free" \/ Persisted(state).slot = state.slot
        /\ Persisted(state).pc \in {"eof", "error"} => Persisted(state).rows = state.rows
    <3> DOMAIN state.rows = {}
      BY <2>1
    <3> QED BY <1>2, <2>1, PersistedIs
  <2> PICK next : next = Persisted(state)
    OBVIOUS
  <2>3. next.pc \in {"eof", "error"} => DOMAIN next.rows = {}
    BY <2>1, <2>2
  <2>4. Becomes(w, next)
    BY <1>7
  <2> QED BY <1>1, <1>2, <1>4, <1>5, <2>1, <2>2, <2>3, <2>4, WorkerStep DEF rowVars
<1> QED BY <1>6, <1>7 DEF FlushFinal

\* A step of the checkpointer keeps the invariant, when the rows it then persists are
\* durable.
LEMMA CheckpointStep ==
    ASSUME IInv, pc \in {"ranges", "body", "streaming"}, pc # "ranges" => cp' = cp,
           UNCHANGED <<world, remote, part, dest, destDur, pc, job, live, pending, worker, suspect>>,
           cancelled' \in BOOLEAN, faults' \in 0..MaxFaults,
           partDur' \in {partDur, part}, StoreInv',
           db'.status = db.status, db'.tag = db.tag, db'.size = db.size,
           DOMAIN db.segs \subseteq DOMAIN db'.segs, CheckpointInv',
           cp'.pc = "synced" => \A i \in DOMAIN cp'.rows : Durable(cp.rows[i].seg)'
    PROVE  IInv'
<1>1. BaseInv'
  BY Parts DEF BaseInv
<1>2. RunInv'
  <2> Len(part') = Len(part)
    OBVIOUS
  <2> QED BY Parts, RunFrame
<1>3. PoolInv'
  <2>1. \A w \in Workers : WorkerInv(worker[w])'
    <3> SUFFICES ASSUME NEW w \in Workers PROVE WorkerInv(worker[w])'
      OBVIOUS
    <3> WorkerInv(worker[w])
      BY Parts DEF PoolInv
    <3> QED BY DEF WorkerInv, RowOf
  <2> QED BY <2>1, Parts DEF PoolInv
<1>5. BarrierCountsDurableBytes'
  <2> SUFFICES ASSUME NEW w \in Workers, worker[w].pc \in {"eof", "error"},
                      NEW i \in DOMAIN worker[w].rows
               PROVE  Durable(worker[w].rows[i].seg)'
    BY DEF BarrierCountsDurableBytes
  <2> Durable(worker[w].rows[i].seg)
    BY Parts DEF BarrierCountsDurableBytes
  <2> QED BY DEF Durable
<1>6. PublishInv'
  BY Parts, PublishFrame
<1>7. ContentInv'
  BY Parts DEF ContentInv, Fetched, Frontier
<1> QED BY <1>1, <1>2, <1>3, <1>5, <1>6, <1>7, AllParts

\* The run is cancelled.
LEMMA CancelKeeps == ASSUME IInv, Cancel PROVE IInv'
<1>1. cancelled' \in BOOLEAN /\ faults' \in 0..MaxFaults
  BY Parts, TransferAssumption DEF BaseInv, Cancel, Fault
<1>2. StoreInv' /\ CheckpointInv'
  BY Parts, StoreFrame, CheckpointFrame DEF Cancel, rowVars
<1>3. cp'.pc = "synced" => \A i \in DOMAIN cp'.rows : Durable(cp.rows[i].seg)'
  BY Parts DEF BarrierCountsDurableBytes, Cancel, Durable, fileVars
<1> QED BY <1>1, <1>2, <1>3, CheckpointStep DEF Cancel, rowVars, fileVars

\* A tick reads the counters, before the fsync.
LEMMA TickSnapshotKeeps == ASSUME IInv, TickSnapshot PROVE IInv'
<1> DEFINE rows == [i \in DOMAIN live |-> Live(i)]
<1>1. cancelled' \in BOOLEAN /\ faults' \in 0..MaxFaults /\ pc = "ranges"
  BY Parts DEF BaseInv, TickSnapshot
<1>2. StoreInv'
  BY Parts, StoreFrame DEF TickSnapshot, rowVars
<1>3. live \in Seq(Seg) /\ DOMAIN live = 1..Len(live) /\ 1 \in DOMAIN live
  BY Parts, <1>1, RangesFacts DEF RunInv, Shaped
<1>4. \A i \in DOMAIN live : RowOf(Live(i))
  BY Parts, <1>1, LiveRow
<1>5. rows \in Seq(Row) /\ rows # <<>> /\ DOMAIN rows = DOMAIN live
  <2>1. \A i \in 1..Len(live) : Live(i) \in Row
    BY <1>3, <1>4 DEF RowOf
  <2>2. rows = [i \in 1..Len(live) |-> Live(i)]
    BY <1>3
  <2>3. Len(live) \in Nat
    BY <1>3
  <2>4. rows \in Seq(Row)
    BY <2>1, <2>2, <2>3
  <2>5. DOMAIN rows = DOMAIN live
    OBVIOUS
  <2> QED BY <2>4, <2>5, <1>3
<1>6. \A i \in DOMAIN rows : RowOf(rows[i])
  BY <1>4
<1> HIDE DEF rows
<1>7. cp' = [pc |-> "snapped", rows |-> rows] /\ UNCHANGED <<job, live>>
  BY DEF TickSnapshot, rows
<1>8. CheckpointInv'
  BY <1>5, <1>6, <1>7 DEF CheckpointInv, RowOf
<1>9. cp'.pc # "synced"
  BY <1>7
<1> QED BY <1>1, <1>2, <1>8, <1>9, CheckpointStep DEF TickSnapshot, rowVars, fileVars

\* A tick syncs the file.
LEMMA TickSyncKeeps == ASSUME IInv, TickSync PROVE IInv'
<1>1. /\ pc = "ranges" /\ CheckpointInv /\ cp.pc = "snapped"
      /\ cp = [pc |-> cp.pc, rows |-> cp.rows] /\ cp.rows \in Seq(Row)
  BY Parts DEF TickSync, PoolInv, CheckpointInv, Idle
<1>2. cancelled' \in BOOLEAN /\ faults' \in 0..MaxFaults /\ partDur' \in {part, partDur}
  BY Parts, TransferAssumption DEF BaseInv, TickSync, Sync, SyncFail, Fault
<1>3. StoreInv'
  BY Parts, StoreFrame DEF TickSync, rowVars
<1>4. CASE Sync /\ cp' = [cp EXCEPT !.pc = "synced"]
  <2>1. cp' = [pc |-> "synced", rows |-> cp.rows]
    BY <1>1, <1>4
  <2>2. CheckpointInv'
    BY <1>1, <2>1 DEF CheckpointInv, RowOf, TickSync
  <2>3. ASSUME NEW i \in DOMAIN cp'.rows PROVE Durable(cp.rows[i].seg)'
    <3> PICK row : row = cp.rows[i]
      OBVIOUS
    <3>1. RowOf(row)
      BY <1>1, <2>1, <2>3 DEF CheckpointInv
    <3>2. Durable(row.seg)'
      BY <3>1, <1>1, <1>4, Parts, SyncMakes DEF TickSync, Sync
    <3>3. cp'.rows[i] = row
      BY <2>1
    <3> QED BY <3>2, <3>3 DEF Durable
  <2> QED BY <1>1, <1>2, <1>3, <2>2, <2>3, CheckpointStep DEF TickSync, rowVars
<1>5. CASE cp' = Idle
  <2>1. CheckpointInv' /\ cp'.pc # "synced"
    BY <1>5 DEF CheckpointInv, Idle
  <2> QED BY <1>1, <1>2, <1>3, <2>1, CheckpointStep DEF TickSync, rowVars
<1> QED BY <1>4, <1>5 DEF TickSync

\* A tick persists the next of its rows.
LEMMA TickPersistKeeps == ASSUME IInv, TickPersist PROVE IInv'
<1>1. /\ pc = "ranges" /\ CheckpointInv /\ cp.pc = "synced" /\ cp.rows # <<>>
      /\ cp = [pc |-> cp.pc, rows |-> cp.rows] /\ cp.rows \in Seq(Row)
  BY Parts DEF TickPersist, PoolInv, CheckpointInv, Idle
<1>2. /\ cancelled' \in BOOLEAN /\ faults' \in 0..MaxFaults
      /\ UNCHANGED <<world, remote, fileVars, pc, job, live, pending, worker, suspect>>
  BY Parts, TransferAssumption DEF BaseInv, TickPersist, Fault
<1>3. /\ Head(cp.rows) = cp.rows[1] /\ 1 \in DOMAIN cp.rows
      /\ Tail(cp.rows) \in Seq(Row) /\ Len(Tail(cp.rows)) = Len(cp.rows) - 1
      /\ \A i \in DOMAIN Tail(cp.rows) :
           i + 1 \in DOMAIN cp.rows /\ Tail(cp.rows)[i] = cp.rows[i + 1]
  BY <1>1
<1>4. /\ StoreInv'
      /\ db'.status = db.status /\ db'.tag = db.tag /\ db'.size = db.size
      /\ DOMAIN db.segs \subseteq DOMAIN db'.segs
  <2>1. CASE UpdateSegment(Head(cp.rows))
    <3> PICK row : row = Head(cp.rows)
      OBVIOUS
    <3>1. RowOf(row)
      BY <1>1, <1>3 DEF CheckpointInv
    <3> QED BY <2>1, <3>1, <1>1, <1>2, Parts, UpdateKeeps
  <2>2. CASE UNCHANGED rowVars
    BY <2>2, <1>2, Parts, StoreFrame DEF rowVars
  <2> QED BY <2>1, <2>2 DEF TickPersist
<1>5. CASE Len(cp.rows) = 1
  <2>1. cp' = Idle
    BY <1>5 DEF TickPersist
  <2>2. CheckpointInv' /\ cp'.pc # "synced"
    BY <2>1 DEF CheckpointInv, Idle
  <2> QED BY <1>1, <1>2, <1>4, <2>2, CheckpointStep DEF fileVars
<1>6. CASE Len(cp.rows) # 1
  <2>1. cp' = [pc |-> "synced", rows |-> Tail(cp.rows)]
    BY <1>1, <1>6 DEF TickPersist
  <2>2. Tail(cp.rows) # <<>>
    <3>1. Len(cp.rows) \in Nat /\ Len(cp.rows) # 0
      <4> \A q \in Seq(Row) : Len(q) \in Nat /\ (q # <<>> => Len(q) # 0)
        OBVIOUS
      <4> QED BY <1>1
    <3>2. Len(Tail(cp.rows)) # 0
      BY <1>3, <1>6, <3>1
    <3>3. Len(<<>>) = 0
      OBVIOUS
    <3> QED BY <3>2, <3>3
  <2>3. CheckpointInv'
    <3>1. \A i \in DOMAIN Tail(cp.rows) : RowOf(Tail(cp.rows)[i])
      BY <1>1, <1>3 DEF CheckpointInv
    <3> QED BY <1>2, <1>3, <2>1, <2>2, <3>1 DEF CheckpointInv, RowOf
  <2>4. ASSUME NEW i \in DOMAIN cp'.rows PROVE Durable(cp.rows[i].seg)'
    <3>1. i + 1 \in DOMAIN cp.rows /\ cp'.rows[i] = cp.rows[i + 1]
      BY <1>3, <2>1, <2>4
    <3> PICK row : row = cp.rows[i + 1]
      OBVIOUS
    <3>2. Durable(row.seg)
      BY <3>1, <1>1, Parts DEF BarrierCountsDurableBytes
    <3>3. cp'.rows[i] = row
      BY <3>1
    <3> QED BY <3>2, <3>3, <1>2 DEF Durable, fileVars
  <2> QED BY <1>1, <1>2, <1>4, <2>3, <2>4, CheckpointStep DEF fileVars
<1> QED BY <1>5, <1>6

-----------------------------------------------------------------------------
(* Runs that end, and runs outside their pool.                               *)

\* An empty pool keeps the invariants of the pool.
LEMMA EmptyPool ==
    ASSUME worker' = [w \in Workers |-> Free], cp' = Idle, pending' \subseteq DOMAIN live',
           pc' # "ranges" => pending' = {}
    PROVE  PoolInv' /\ CheckpointInv' /\ BarrierCountsDurableBytes'
<1>1. \A w \in Workers : worker'[w] = Free
  OBVIOUS
<1>2. \A w \in Workers : WorkerInv(worker[w])'
  BY <1>1 DEF WorkerInv, WorkerStates, Free
<1>3. PoolInv'
  BY <1>1, <1>2 DEF PoolInv, Free
<1>4. CheckpointInv'
  BY DEF CheckpointInv, Idle
<1>5. BarrierCountsDurableBytes'
  BY <1>1 DEF BarrierCountsDurableBytes, Free, Idle
<1> QED BY <1>3, <1>4, <1>5

\* Outside a run of ranges the pool is empty.
LEMMA PoolIsEmpty ==
    ASSUME PoolInv, pc # "ranges"
    PROVE  worker = [w \in Workers |-> Free] /\ cp = Idle /\ pending = {}
<1>1. worker = [w \in Workers |-> worker[w]] /\ \A w \in Workers : worker[w] = Free
  BY DEF PoolInv
<1>2. [w \in Workers |-> worker[w]] = [w \in Workers |-> Free]
  BY <1>1
<1> QED BY <1>1, <1>2 DEF PoolInv

\* A step of a run outside its pool, which leaves the record alone.
LEMMA CalmStep ==
    ASSUME IInv, pc \notin {"idle", "open", "ranges"}, pc' \notin {"idle", "open", "ranges"},
           UNCHANGED <<world, db, dbDur, job, pending, worker, cp>>,
           live' = live \/ (~RangedWorld /\ live' \in Seq(Seg) /\ WholeRow(live)'),
           pc' \in {"body", "streaming"} => ~RangedWorld,
           BaseInv', PublishInv', ContentInv'
    PROVE  IInv'
<1>1. StoreInv'
  BY Parts, StoreFrame
<1>2. PoolInv' /\ CheckpointInv' /\ BarrierCountsDurableBytes'
  BY Parts, PoolIsEmpty, EmptyPool
<1>3. RunInv'
  <2>1. Shaped(live, job.size)'
    <3>1. CASE live' = live
      BY <3>1, Parts DEF RunInv, Shaped, RangedWorld
    <3>2. CASE ~RangedWorld /\ WholeRow(live)'
      <4>1. 1 \in Slots
        BY SlotsAreNumbers DEF Slots
      <4> QED BY <3>2, <4>1 DEF Shaped, RangedWorld, WholeRow, Slots
    <3> QED BY <3>1, <3>2
  <2>2. live' \in Seq(Seg) /\ (RangedWorld' => Apart(live'))
    BY Parts DEF RunInv, RangedWorld
  <2> QED BY <2>1, <2>2, Parts DEF RunInv, RangedWorld, SizeOf
<1> QED BY <1>1, <1>2, <1>3, AllParts

\* A run ends, or its process does.
LEMMA EndStep ==
    ASSUME EndRun, BaseInv', StoreInv', PublishInv', ContentInv'
    PROVE  IInv'
<1>1. PoolInv' /\ CheckpointInv' /\ BarrierCountsDurableBytes'
  BY EmptyPool DEF EndRun
<1>2. RunInv'
  BY DEF EndRun, RunInv
<1> QED BY <1>1, <1>2, AllParts

\* The types hold when a run ends.
LEMMA BaseStep ==
    ASSUME BaseInv, UNCHANGED <<world, remote, fileVars, suspect>>, EndRun, faults' \in 0..MaxFaults
    PROVE  BaseInv'
<1>1. pc' = "idle" /\ cancelled' = FALSE
  BY DEF EndRun
<1> QED BY <1>1 DEF BaseInv, fileVars

\* A run's last save keeps the database a database.
LEMMA RecordKeeps ==
    ASSUME StoreInv, RunInv, pc # "idle", UNCHANGED world,
           NEW status \in {"failed", "completed"}, Record(status)
    PROVE  StoreInv' /\ db'.status = status /\ dbDur'.status = "active"
<1>1. /\ RecordInv(db) /\ job.size = db.size /\ Shaped(live, job.size) /\ db.status = "active"
      /\ DOMAIN db.segs # {}
  BY DEF StoreInv, RunInv
<1>2. db' = [status |-> status, tag |-> db.tag, size |-> db.size, segs |-> live] /\ dbDur' = db
  <2>1. db = [status |-> db.status, tag |-> db.tag, size |-> db.size, segs |-> db.segs]
    BY <1>1 DEF RecordInv
  <2> QED BY <2>1 DEF Record
<1>3. RecordInv(db)'
  BY <1>1, <1>2 DEF RecordInv, Shaped, RangedWorld, SizeOf
<1>4. RecordInv(dbDur)'
  BY <1>1, <1>2 DEF RecordInv, Shaped, RangedWorld, SizeOf
<1> QED BY <1>1, <1>2, <1>3, <1>4 DEF StoreInv

\* The .part cannot be opened.
LEMMA OpenFailsKeeps == ASSUME IInv, OpenFails PROVE IInv'
<1>1. BaseInv'
  BY Parts, TransferAssumption DEF BaseInv, OpenFails, Fault, fileVars
<1>2. StoreInv'
  BY Parts, StoreFrame DEF OpenFails, rowVars
<1>3. PoolInv' /\ CheckpointInv' /\ BarrierCountsDurableBytes'
  BY Parts, PoolIsEmpty, EmptyPool DEF OpenFails
<1>4. RunInv'
  BY DEF OpenFails, RunInv
<1>5. PublishInv'
  BY Parts DEF OpenFails, PublishInv, rowVars, fileVars
<1>6. ContentInv'
  BY Parts DEF OpenFails, ContentInv, Fetched, rowVars, fileVars
<1> QED BY <1>1, <1>2, <1>3, <1>4, <1>5, <1>6, AllParts

\* The record of completion is written, or cannot be.
LEMMA FinishCompletedKeeps == ASSUME IInv, FinishCompleted PROVE IInv'
<1>1. BaseInv'
  <2> faults' \in 0..MaxFaults
    BY Parts, TransferAssumption DEF BaseInv, FinishCompleted, Fault
  <2> QED BY Parts, BaseStep DEF FinishCompleted
<1>2. StoreInv' /\ db'.status \in {"completed", "active"}
  <2>1. CASE Record("completed")
    BY <2>1, Parts, RecordKeeps DEF FinishCompleted
  <2>2. CASE UNCHANGED rowVars
    BY <2>2, Parts, StoreFrame DEF FinishCompleted, rowVars, RunInv
  <2> QED BY <2>1, <2>2 DEF FinishCompleted
<1>3. PublishInv'
  BY <1>2, Parts DEF FinishCompleted, PublishInv, fileVars, EndRun
<1>4. ContentInv'
  BY <1>2, Parts DEF FinishCompleted, ContentInv, Fetched, fileVars, EndRun
<1> QED BY <1>1, <1>2, <1>3, <1>4, EndStep DEF FinishCompleted

\* The record of a failed run is written, or cannot be.
LEMMA FinishFailedKeeps == ASSUME IInv, FinishFailed PROVE IInv'
<1>1. BaseInv'
  <2> faults' \in 0..MaxFaults
    BY Parts, TransferAssumption DEF BaseInv, FinishFailed, Fault
  <2> QED BY Parts, BaseStep DEF FinishFailed
<1>2. StoreInv' /\ db'.status \in {"failed", "active"}
  <2>1. CASE Record("failed")
    BY <2>1, Parts, RecordKeeps DEF FinishFailed
  <2>2. CASE UNCHANGED rowVars
    BY <2>2, Parts, StoreFrame DEF FinishFailed, rowVars, RunInv
  <2> QED BY <2>1, <2>2 DEF FinishFailed
<1>3. PublishInv'
  BY <1>2, Parts DEF FinishFailed, PublishInv, fileVars, EndRun
<1>4. ContentInv'
  BY <1>2, Parts DEF FinishFailed, ContentInv, Fetched, fileVars, EndRun
<1> QED BY <1>1, <1>2, <1>3, <1>4, EndStep DEF FinishFailed

\* The process is killed: files and rows stay as they are.
LEMMA KillKeeps == ASSUME IInv, Kill PROVE IInv'
<1>1. BaseInv'
  <2> faults' \in 0..MaxFaults
    BY Parts, TransferAssumption DEF BaseInv, Kill, Fault
  <2> QED BY Parts, BaseStep DEF Kill
<1>2. StoreInv'
  BY Parts, StoreFrame DEF Kill, rowVars
<1>3. PublishInv'
  BY Parts DEF Kill, PublishInv, RunInv, rowVars, fileVars, EndRun
<1>4. ContentInv'
  BY Parts DEF Kill, ContentInv, Fetched, RunInv, rowVars, fileVars, EndRun
<1> QED BY <1>1, <1>2, <1>3, <1>4, EndStep DEF Kill

-----------------------------------------------------------------------------
(* A body fetched whole.                                                     *)

\* What holds while a body is fetched whole.
LEMMA BodyFacts ==
    ASSUME IInv, pc \in {"body", "streaming"}
    PROVE  /\ ~RangedWorld /\ live \in Seq(Seg) /\ WholeRow(live) /\ Len(live) = 1
           /\ live[1].done \in Nat /\ live = <<live[1]>>
           /\ part \in Seq(Versions \cup {0}) /\ Len(part) \in Nat /\ remote \in Versions
           /\ job.version \in Versions /\ job.size = SizeOf(job.version)
<1>1. /\ ~RangedWorld /\ live \in Seq(Seg) /\ WholeRow(live)
      /\ job.version \in Versions /\ job.size = SizeOf(job.version)
  BY Parts DEF RunInv, Shaped
<1>2. DOMAIN live = {1} /\ live[1] \in Seg
  BY <1>1 DEF WholeRow
<1>3. Len(live) = 1
  <2> \A q \in Seq(Seg) : Len(q) \in Nat /\ DOMAIN q = 1..Len(q)
    OBVIOUS
  <2> Len(live) \in Nat /\ 1..Len(live) = {1}
    BY <1>1, <1>2
  <2>1. 1 \in 1..Len(live)
    OBVIOUS
  <2>2. Len(live) \in 1..Len(live)
    BY <2>1
  <2> QED BY <2>2
<1>4. live[1].done \in Nat
  BY <1>2 DEF Seg
<1>5. live = <<live[1]>>
  BY <1>1, <1>3
<1>6. part \in Seq(Versions \cup {0}) /\ Len(part) \in Nat /\ remote \in Versions
  BY Parts DEF BaseInv
<1> QED BY <1>1, <1>3, <1>4, <1>5, <1>6

\* The .part is truncated and the body asked for again.
LEMMA BodyAttemptKeeps == ASSUME IInv, BodyAttempt PROVE IInv'
<1>1. BaseInv'
  BY Parts DEF BaseInv, BodyAttempt
<1>2. live' = <<Segment(0, -1)>> /\ Segment(0, -1) \in Seg /\ Segment(0, -1).done = 0
  BY DEF BodyAttempt, WholeBody, Segment, Seg
<1>3. live' \in Seq(Seg) /\ WholeRow(live)' /\ live'[1].done = 0
  BY <1>2 DEF WholeRow, Segment
<1>4. PublishInv'
  BY Parts DEF BodyAttempt, PublishInv, rowVars
<1>5. ContentInv'
  <2> SUFFICES ASSUME ~suspect PROVE ContentInv'
    BY DEF ContentInv, BodyAttempt
  <2>1. Len(part') = 0 /\ part' = [i \in 1..0 |-> job.version]
    BY DEF BodyAttempt
  <2>2. Size[job.version] \in Nat
    BY BodyFacts, SizesArePositive DEF BodyAttempt
  <2>3. Fetched(job.version)'
    BY <1>3, <2>1, <2>2 DEF Fetched, BodyAttempt
  <2> QED BY <2>3, Parts DEF ContentInv, BodyAttempt, rowVars
<1> QED BY <1>1, <1>3, <1>4, <1>5, CalmStep, BodyFacts DEF BodyAttempt, rowVars

\* A file of one version with one more byte of it.
LEMMA OneMore ==
    ASSUME NEW S, NEW v \in S, NEW f \in Seq(S), f = [i \in 1..Len(f) |-> v]
    PROVE  Len(Append(f, v)) = Len(f) + 1 /\ Append(f, v) = [i \in 1..(Len(f) + 1) |-> v]
<1>1. \A i \in 1..Len(f) : f[i] = v
  OBVIOUS
<1> PICK g : g = Append(f, v)
  OBVIOUS
<1>2. /\ g \in Seq(S) /\ Len(g) = Len(f) + 1 /\ Len(f) \in Nat
      /\ \A i \in 1..Len(f) : g[i] = f[i]
      /\ g[Len(f) + 1] = v
  BY AppendProperties, LenProperties
<1>3. \A i \in 1..(Len(f) + 1) : g[i] = v
  <2> SUFFICES ASSUME NEW i \in 1..(Len(f) + 1) PROVE g[i] = v
    OBVIOUS
  <2>1. i \in 1..Len(f) \/ i = Len(f) + 1
    BY <1>2
  <2> QED BY <2>1, <1>1, <1>2
<1>4. g = [i \in 1..Len(g) |-> g[i]]
  BY <1>2, LenProperties
<1>5. [i \in 1..Len(g) |-> g[i]] = [i \in 1..(Len(f) + 1) |-> v]
  BY <1>2, <1>3
<1> QED BY <1>2, <1>4, <1>5

\* The next byte of the body.
LEMMA BodyWriteKeeps == ASSUME IInv, BodyWrite PROVE IInv'
<1>1. BaseInv'
  <2> part' \in Seq(Versions \cup {0})
    BY BodyFacts DEF BodyWrite
  <2> QED BY Parts DEF BaseInv, BodyWrite
<1>2. live' = <<[live[1] EXCEPT !.done = live[1].done + 1]>>
  BY BodyFacts DEF BodyWrite
<1>3. live' \in Seq(Seg) /\ WholeRow(live)' /\ live'[1].done = live[1].done + 1
  <2> PICK seg : seg = [live[1] EXCEPT !.done = live[1].done + 1]
    OBVIOUS
  <2>1. seg \in Seg /\ seg.start = 0 /\ seg.end = -1 /\ seg.done = live[1].done + 1
    BY BodyFacts DEF WholeRow, Seg, BodyWrite
  <2>2. live' = <<seg>>
    BY <1>2
  <2>3. <<seg>> \in Seq(Seg) /\ DOMAIN <<seg>> = {1} /\ <<seg>>[1] = seg
    BY <2>1
  <2> QED BY <2>1, <2>2, <2>3 DEF WholeRow
<1>4. PublishInv'
  BY Parts DEF BodyWrite, PublishInv, rowVars
<1>5. ContentInv'
  <2> SUFFICES ASSUME ~suspect PROVE ContentInv'
    BY DEF ContentInv, BodyWrite
  <2>1. /\ job.version = remote /\ part = [i \in 1..Len(part) |-> job.version]
        /\ live[1].done = Len(part)
    BY Parts DEF ContentInv, Fetched, BodyWrite
  <2>2. Len(part') = Len(part) + 1 /\ part' = [i \in 1..(Len(part) + 1) |-> job.version]
    <3>1. job.version \in Versions \cup {0} /\ part \in Seq(Versions \cup {0})
      BY BodyFacts DEF BodyWrite
    <3>2. part' = Append(part, job.version)
      BY <2>1 DEF BodyWrite
    <3>3. part = [i \in 1..Len(part) |-> job.version]
      BY <2>1
    <3> HIDE <2>1
    <3>4. /\ Len(Append(part, job.version)) = Len(part) + 1
          /\ Append(part, job.version) = [i \in 1..(Len(part) + 1) |-> job.version]
      BY ONLY <3>1, <3>3, OneMore
    <3> QED BY <3>2, <3>4
  <2>3. Len(part) + 1 <= Size[job.version]
    BY <2>1, BodyFacts, SizesArePositive DEF BodyWrite
  <2>4. Fetched(job.version)'
    BY <1>3, <2>1, <2>2, <2>3 DEF Fetched, BodyWrite
  <2> QED BY <2>4, Parts DEF ContentInv, BodyWrite, rowVars
<1> QED BY <1>1, <1>3, <1>4, <1>5, CalmStep, BodyFacts DEF BodyWrite, rowVars

\* The body ends, too early when its size is not known.
LEMMA BodyEndsKeeps == ASSUME IInv, BodyEnds PROVE IInv'
<1>0. pc = "streaming" /\ pc' \in {"gate", "body", "failing"} /\ suspect' \in BOOLEAN
  BY Parts DEF BodyEnds, BaseInv
<1>1. BaseInv'
  BY <1>0, Parts, TransferAssumption DEF BaseInv, BodyEnds, Fault, fileVars
<1>2. PublishInv'
  BY <1>0, Parts DEF BodyEnds, PublishInv, rowVars, fileVars
<1>3. ContentInv'
  <2> SUFFICES ASSUME ~suspect' PROVE ContentInv'
    BY DEF ContentInv
  <2>1. ~suspect /\ ~(pc' = "gate" /\ job.size <= 0 /\ Len(part) < Size[remote])
    BY DEF BodyEnds
  <2>2. /\ job.version = remote /\ part = [i \in 1..Len(part) |-> job.version]
        /\ live[1].done = Len(part) /\ Len(part) <= Size[job.version]
    BY <1>0, <2>1, Parts DEF ContentInv, Fetched
  <2>3. Size[job.version] \in Nat /\ Len(part) \in Nat
    BY <1>0, BodyFacts, SizesArePositive
  <2>4. pc' = "gate" => Matches(part, job.version)
    <3> SUFFICES ASSUME pc' = "gate" PROVE Len(part) = Size[job.version]
      BY <2>2 DEF Matches
    <3>1. CASE job.size <= 0
      BY <3>1, <2>1, <2>2, <2>3
    <3>2. CASE ~(job.size <= 0)
      <4>1. job.size = Size[job.version]
        BY <3>2, <1>0, BodyFacts DEF SizeOf
      <4>2. live[1].done = job.size
        BY <3>2 DEF BodyEnds
      <4> QED BY <4>1, <4>2, <2>2
    <3> QED BY <3>1, <3>2
  <2>5. Fetched(job.version)'
    BY <1>0, <2>4 DEF Fetched, BodyEnds, Matches, fileVars
  <2> QED BY <2>1, <2>5, <1>0, Parts DEF ContentInv, BodyEnds, rowVars, fileVars
<1> QED BY <1>0, <1>1, <1>2, <1>3, CalmStep, BodyFacts DEF BodyEnds, rowVars

\* The connection is lost in the body.
LEMMA BodyBreaksKeeps == ASSUME IInv, BodyBreaks PROVE IInv'
<1>1. BaseInv'
  BY Parts, TransferAssumption DEF BaseInv, BodyBreaks, Fault, fileVars
<1>2. PublishInv'
  BY Parts DEF BodyBreaks, PublishInv, rowVars, fileVars
<1>3. ContentInv'
  BY Parts DEF BodyBreaks, ContentInv, Fetched, rowVars, fileVars
<1> QED BY <1>1, <1>2, <1>3, CalmStep, BodyFacts DEF BodyBreaks, rowVars

\* No attempt is left for the body.
LEMMA BodyGivesUpKeeps == ASSUME IInv, BodyGivesUp PROVE IInv'
<1>1. BaseInv'
  BY Parts DEF BaseInv, BodyGivesUp, fileVars
<1>2. PublishInv'
  BY Parts DEF BodyGivesUp, PublishInv, rowVars, fileVars
<1>3. ContentInv'
  BY Parts DEF BodyGivesUp, ContentInv, Fetched, rowVars, fileVars
<1> QED BY <1>1, <1>2, <1>3, CalmStep, BodyFacts DEF BodyGivesUp, rowVars

-----------------------------------------------------------------------------
\* Counters that pass the gate cover a file whose counted bytes are all of one version.
LEMMA GateCoversFile ==
    ASSUME BaseInv, RunInv, pc = "ranges", VerifyComplete(live, job.size),
           NEW version \in Versions, job.size = Size[version], Fetched(version)
    PROVE  Matches(part, version)
<1>1. /\ live \in Seq(Seg) /\ job.size \in Nat \ {0} /\ Ranged(live, job.size) /\ Apart(live)
      /\ part \in Seq(Versions \cup {0})
  BY RangesFacts
<1>2. SumDone(live) = job.size
  BY <1>1 DEF VerifyComplete
<1>3. \A k \in 0..(job.size - 1) : \E i \in DOMAIN live : k \in Counted(live[i])
  BY <1>1, <1>2, SumCovers
<1>4. Len(part) = job.size /\ \A i \in DOMAIN live : \A k \in Counted(live[i]) : part[k + 1] = version
  BY DEF Fetched
<1>5. \A n \in 1..job.size : part[n] = version
  <2> SUFFICES ASSUME NEW n \in 1..job.size PROVE part[n] = version
    OBVIOUS
  <2>1. n - 1 \in 0..(job.size - 1) /\ (n - 1) + 1 = n
    BY <1>1
  <2>2. PICK i \in DOMAIN live : (n - 1) \in Counted(live[i])
    BY <1>3, <2>1
  <2>3. part[(n - 1) + 1] = version
    BY <1>4, <2>2
  <2> QED BY <2>1, <2>3
<1>6. part = [n \in 1..job.size |-> part[n]]
  BY <1>1, <1>4
<1>7. [n \in 1..job.size |-> part[n]] = [n \in 1..job.size |-> version]
  BY <1>5
<1> QED BY <1>6, <1>7 DEF Matches

\* The pool is empty: the gate of the counters passes, or the run fails.
LEMMA EndRangesKeeps == ASSUME IInv, EndRanges PROVE IInv'
<1>1. pc = "ranges" /\ pc' \in {"failing", "gate"}
  BY DEF EndRanges
<1>2. BaseInv'
  BY <1>1, Parts DEF BaseInv, EndRanges, fileVars
<1>3. StoreInv'
  BY Parts, StoreFrame DEF EndRanges, rowVars
<1>4. PoolInv' /\ CheckpointInv' /\ BarrierCountsDurableBytes'
  <2>1. worker = [w \in Workers |-> worker[w]]
    BY Parts DEF PoolInv
  <2>2. worker' = [w \in Workers |-> Free] /\ cp' = Idle /\ pending' = {}
    BY <2>1 DEF EndRanges
  <2> QED BY <2>2, <1>1, EmptyPool
<1>5. RunInv'
  BY <1>1, Parts DEF RunInv, Shaped, RangedWorld, SizeOf, EndRanges, rowVars
<1>6. PublishInv'
  BY <1>1, Parts DEF PublishInv, EndRanges, rowVars, fileVars
<1>7. ContentInv'
  <2> SUFFICES ASSUME ~suspect PROVE ContentInv'
    BY DEF ContentInv, EndRanges
  <2>1. Fetched(job.version) /\ job.version = remote
    BY <1>1, Parts DEF ContentInv
  <2>2. pc' = "gate" => Matches(part, job.version)
    BY <1>1, <2>1, Parts, GateCoversFile, RangesFacts DEF EndRanges
  <2>3. Fetched(job.version)'
    BY <1>1, <2>2 DEF Fetched, Matches, EndRanges, fileVars
  <2> QED BY <1>1, <2>1, <2>3, Parts DEF ContentInv, EndRanges, rowVars, fileVars
<1> QED BY <1>2, <1>3, <1>4, <1>5, <1>6, <1>7, AllParts

\* The whole file is synced.
LEMMA FinalSyncKeeps == ASSUME IInv, FinalSync PROVE IInv'
<1>0. pc = "gate" /\ pc' \in {"rename", "verify", "failed"}
  BY DEF FinalSync
<1>1. BaseInv'
  BY Parts, <1>0, TransferAssumption DEF BaseInv, FinalSync, Sync, SyncFail, Fault
<1>2. PublishInv'
  BY Parts, <1>0 DEF FinalSync, Sync, SyncFail, PublishInv, rowVars, Matches
<1>3. ContentInv'
  BY Parts, <1>0 DEF FinalSync, ContentInv, Fetched, rowVars, Matches
<1> QED BY <1>0, <1>1, <1>2, <1>3, CalmStep DEF FinalSync, rowVars

\* The checksum is compared.
LEMMA VerifyChecksumKeeps == ASSUME IInv, VerifyChecksum PROVE IInv'
<1>0. /\ pc = "verify" /\ pc' \in {"rename", "failed"} /\ part' \in {part, <<>>}
      /\ pc' = "rename" => part' = part /\ Matches(part, world.sum)
  BY DEF VerifyChecksum
<1>1. BaseInv'
  <2> faults' \in 0..MaxFaults
    BY Parts, TransferAssumption DEF BaseInv, VerifyChecksum, Fault
  <2> <<>> \in Seq(Versions \cup {0})
    OBVIOUS
  <2> QED BY Parts, <1>0 DEF BaseInv, VerifyChecksum
<1>2. PublishInv'
  BY Parts, <1>0 DEF VerifyChecksum, PublishInv, rowVars, Matches
<1>3. ContentInv'
  BY Parts, <1>0 DEF VerifyChecksum, ContentInv, Fetched, rowVars, Matches
<1> QED BY <1>0, <1>1, <1>2, <1>3, CalmStep DEF VerifyChecksum, rowVars

\* The .part is renamed over the destination.
LEMMA RenameKeeps == ASSUME IInv, Rename PROVE IInv'
<1>0. /\ pc = "rename" /\ pc' \in {"syncdir", "failed"}
      /\ pc' = "syncdir" => dest' = part /\ part' = <<>>
      /\ pc' = "failed" => UNCHANGED <<part, dest>>
      /\ UNCHANGED <<world, remote, rowVars, partDur, destDur, job, live, pending, worker, cp, cancelled, suspect>>
  BY DEF Rename
<1>1. BaseInv'
  <2> faults' \in 0..MaxFaults
    BY Parts, TransferAssumption DEF BaseInv, Rename, Fault
  <2> <<>> \in Seq(Versions \cup {0})
    OBVIOUS
  <2> QED BY Parts, <1>0 DEF BaseInv
<1>2. PublishInv'
  <2>1. db'.status # "completed" /\ partDur = part /\ dest = destDur
    BY Parts, <1>0 DEF RunInv, PublishInv, rowVars
  <2> QED BY <2>1, Parts, <1>0 DEF PublishInv, Matches
<1>3. ContentInv'
  <2> SUFFICES ASSUME ~suspect PROVE ContentInv'
    BY <1>0 DEF ContentInv
  <2>1. Matches(part, job.version) /\ job.version \in Versions /\ db'.status # "completed"
    BY <1>0, Parts DEF ContentInv, Fetched, RunInv, rowVars
  <2>2. Whole(part)
    BY <2>1 DEF Whole, Matches
  <2>3. \A file \in {dest, destDur} : file = Absent \/ Whole(file)
    BY Parts DEF ContentInv
  <2>4. Fetched(job.version)'
    BY <1>0 DEF Fetched
  <2> QED BY <1>0, <2>1, <2>2, <2>3, <2>4, Parts DEF ContentInv, Whole
<1> QED BY <1>0, <1>1, <1>2, <1>3, CalmStep DEF rowVars

\* The directory is synced.
LEMMA SyncDirKeeps == ASSUME IInv, SyncDir PROVE IInv'
<1>0. /\ pc = "syncdir" /\ pc' \in {"complete", "failed"}
      /\ pc' = "complete" => destDur' = partDur /\ partDur' = <<>>
      /\ pc' = "failed" => UNCHANGED <<partDur, destDur>>
      /\ UNCHANGED <<world, remote, rowVars, part, dest, job, live, pending, worker, cp, cancelled, suspect>>
      /\ partDur = dest
  BY Parts DEF SyncDir, PublishInv
<1>1. BaseInv'
  <2> faults' \in 0..MaxFaults
    BY Parts, TransferAssumption DEF BaseInv, SyncDir, Fault
  <2> <<>> \in Seq(Versions \cup {0})
    OBVIOUS
  <2> QED BY Parts, <1>0 DEF BaseInv
<1>2. PublishInv'
  BY Parts, <1>0 DEF PublishInv, Matches, rowVars
<1>3. ContentInv'
  BY Parts, <1>0 DEF ContentInv, Fetched, Whole, rowVars
<1> QED BY <1>0, <1>1, <1>2, <1>3, CalmStep DEF rowVars

\* A failed run syncs its file before it is recorded.
LEMMA FailSyncKeeps == ASSUME IInv, FailSync PROVE IInv'
<1>1. BaseInv'
  BY Parts, TransferAssumption DEF BaseInv, FailSync, Sync, SyncFail, Fault
<1>2. PublishInv'
  BY Parts DEF FailSync, PublishInv, rowVars, Matches
<1>3. ContentInv'
  BY Parts DEF FailSync, ContentInv, Fetched, rowVars
<1> QED BY <1>1, <1>2, <1>3, CalmStep DEF FailSync, rowVars

-----------------------------------------------------------------------------
(* The environment.                                                          *)

\* The .part is removed from under the download.
LEMMA LosePartKeeps == ASSUME IInv, LosePart PROVE IInv'
<1>0. /\ pc = "idle" /\ pc' = "idle" /\ part # <<>> /\ part' = <<>> /\ partDur' = <<>>
      /\ UNCHANGED <<world, remote, db, dbDur, dest, destDur, job, live, pending, worker, cp,
                     cancelled, suspect>>
  BY DEF LosePart, rowVars, memVars
<1>1. BaseInv'
  <2> faults' \in 0..MaxFaults
    BY Parts, TransferAssumption DEF BaseInv, LosePart, Fault
  <2> <<>> \in Seq(Versions \cup {0})
    OBVIOUS
  <2> QED BY Parts, <1>0 DEF BaseInv
<1>2. StoreInv'
  BY <1>0, Parts, StoreFrame
<1>3. PoolInv' /\ CheckpointInv' /\ BarrierCountsDurableBytes'
  BY <1>0, Parts, PoolIsEmpty, EmptyPool
<1>4. RunInv'
  BY <1>0, Parts DEF RunInv
<1>5. PublishInv'
  BY <1>0, Parts DEF PublishInv, Matches
<1>6. ContentInv'
  BY <1>0, Parts DEF ContentInv, Fetched, Whole
<1> QED BY <1>1, <1>2, <1>3, <1>4, <1>5, <1>6, AllParts

\* The server serves another version.
LEMMA RemoteChangesKeeps == ASSUME IInv, RemoteChanges PROVE IInv'
<1>0. /\ UNCHANGED <<world, db, dbDur, part, partDur, dest, destDur, pc, job, live, pending,
                     worker, cp, cancelled>>
      /\ remote' \in Versions /\ suspect' = (suspect \/ pc # "idle") /\ suspect' \in BOOLEAN
  BY Parts DEF RemoteChanges, rowVars, fileVars, memVars, BaseInv
<1>1. BaseInv'
  <2> faults' \in 0..MaxFaults
    BY Parts, TransferAssumption DEF BaseInv, RemoteChanges, Fault
  <2> QED BY Parts, <1>0 DEF BaseInv
<1>2. StoreInv'
  BY <1>0, Parts, StoreFrame
<1>3. PoolInv' /\ CheckpointInv' /\ BarrierCountsDurableBytes'
  <2>1. \A w \in Workers : WorkerInv(worker[w])'
    <3> SUFFICES ASSUME NEW w \in Workers PROVE WorkerInv(worker[w])'
      OBVIOUS
    <3> WorkerInv(worker[w])
      BY Parts DEF PoolInv
    <3> QED BY <1>0 DEF WorkerInv, RowOf
  <2>2. PoolInv'
    BY <1>0, <2>1, Parts DEF PoolInv
  <2>3. CheckpointInv'
    BY <1>0, Parts, CheckpointFrame
  <2>4. BarrierCountsDurableBytes'
    BY <1>0, Parts DEF BarrierCountsDurableBytes, Durable
  <2> QED BY <2>2, <2>3, <2>4
<1>4. RunInv'
  <2> Len(part') = Len(part) /\ DOMAIN db.segs = DOMAIN db'.segs
    BY <1>0
  <2> QED BY <1>0, Parts, RunFrame
<1>5. PublishInv'
  BY <1>0, Parts DEF PublishInv, Matches
<1>6. ContentInv'
  BY <1>0, Parts DEF ContentInv, Fetched, Whole
<1> QED BY <1>1, <1>2, <1>3, <1>4, <1>5, <1>6, AllParts

\* What was synced as it is survives as it is.
LEMMA SyncedRemains ==
    ASSUME NEW S, S = Versions \cup {0}, NEW file \in Seq(S), NEW left \in Remains(file, file)
    PROVE  left = file
<1>1. CASE file = <<>>
  BY <1>1 DEF Remains
<1>2. CASE file # <<>>
  <2>1. /\ left \in [1..Len(file) -> S]
        /\ \A i \in 1..Len(file) : left[i] \in {Byte(file, i), Byte(file, i)}
    BY <1>2 DEF Remains
  <2>2. DOMAIN file = 1..Len(file) /\ file \in [1..Len(file) -> S]
    BY LenProperties
  <2>3. \A i \in 1..Len(file) : left[i] = file[i]
    BY <2>1, <2>2 DEF Byte
  <2> QED BY <2>1, <2>2, <2>3
<1> QED BY <1>1, <1>2

\* What a power loss leaves of a file is a file.
LEMMA RemainsIsFile ==
    ASSUME NEW S, S = Versions \cup {0}, NEW file \in Seq(S), NEW dur \in Seq(S),
           NEW left \in Remains(file, dur)
    PROVE  left \in Seq(S)
<1>1. CASE file = <<>>
  BY <1>1 DEF Remains
<1>2. CASE file # <<>>
  <2>1. PICK len \in {Len(file), Len(dur)} : left \in [1..len -> S]
    BY <1>2 DEF Remains
  <2>2. len \in Nat
    BY LenProperties
  <2> QED BY <2>1, <2>2, SeqDef
<1> QED BY <1>1, <1>2

\* What a power loss leaves of the destination was visible or durable before.
LEMMA PowerLossShows ==
    ASSUME BaseInv, PublishInv, PowerLoss
    PROVE  /\ dest' \in {dest, destDur} /\ destDur' = dest' /\ partDur' = part'
           /\ part' \in Seq(Versions \cup {0})
<1> DEFINE S == Versions \cup {0}
<1>1. /\ part \in Seq(S) /\ partDur \in Seq(S) /\ dest \in Seq(S) /\ destDur \in Seq(S)
      /\ <<>> \in Seq(S)
  BY DEF BaseInv
<1>2. dest # destDur => partDur = dest
  BY DEF PublishInv
<1>3. destDur' = dest' /\ partDur' = part'
  BY DEF PowerLoss
<1> HIDE DEF S
<1>4. CASE /\ dest' \in Remains(dest, IF dest = destDur THEN destDur ELSE partDur)
           /\ part' \in Remains(part, IF dest = destDur THEN partDur ELSE <<>>)
  <2>1. dest' \in Remains(dest, dest)
    BY <1>2, <1>4
  <2>2. dest' = dest
    BY <2>1, <1>1, SyncedRemains DEF S
  <2>3. part' \in Seq(S)
    BY <1>1, <1>4, RemainsIsFile DEF S
  <2> QED BY <1>3, <2>2, <2>3 DEF S
<1>5. CASE dest' = destDur /\ part' = partDur
  BY <1>1, <1>3, <1>5 DEF S
<1> QED BY <1>4, <1>5 DEF PowerLoss

\* Files and rows fall back to what was durable.
LEMMA PowerLossKeeps == ASSUME IInv, PowerLoss PROVE IInv'
<1>0. /\ dest' \in {dest, destDur} /\ destDur' = dest' /\ partDur' = part'
      /\ part' \in Seq(Versions \cup {0})
      /\ UNCHANGED <<world, remote, suspect>> /\ EndRun
      /\ db' \in {db, dbDur} /\ dbDur' = db'
  BY Parts, PowerLossShows DEF PowerLoss
<1>1. BaseInv'
  <2>1. faults' \in 0..MaxFaults
    BY Parts, TransferAssumption DEF BaseInv, PowerLoss, Fault
  <2>2. pc' = "idle" /\ cancelled' = FALSE
    BY <1>0 DEF EndRun
  <2> QED BY Parts, <1>0, <2>1, <2>2 DEF BaseInv
<1>2. StoreInv'
  <2>1. RecordInv(db) /\ RecordInv(dbDur)
    BY Parts DEF StoreInv
  <2>2. RecordInv(db)' /\ RecordInv(dbDur)'
    BY <1>0, <2>1 DEF RecordInv, Shaped, RangedWorld, SizeOf
  <2> QED BY <1>0, <2>2 DEF StoreInv
<1>3. pc' = "idle"
  BY <1>0 DEF EndRun
<1>4. PublishInv'
  BY <1>0, <1>3, Parts DEF PublishInv, Matches
<1>5. ContentInv'
  <2> SUFFICES ASSUME ~suspect PROVE ContentInv'
    BY <1>0 DEF ContentInv
  <2>1. \A file \in {dest, destDur} : file = Absent \/ Whole(file)
    BY Parts DEF ContentInv
  <2>2. db'.status = "completed" => db.status = "completed"
    BY <1>0, Parts DEF StoreInv
  <2>3. db.status = "completed" => Whole(dest) /\ dest = destDur
    BY Parts DEF ContentInv, PublishInv
  <2>4. Fetched(job.version)'
    BY <1>3 DEF Fetched
  <2> QED BY <1>0, <1>3, <2>1, <2>2, <2>3, <2>4 DEF ContentInv, Whole
<1> QED BY <1>0, <1>1, <1>2, <1>4, <1>5, EndStep

-----------------------------------------------------------------------------
(* A run begins.                                                             *)

\* The types of a world.
LEMMA WorldFacts ==
    ASSUME BaseInv
    PROVE  /\ world.ranges \in BOOLEAN /\ world.tags \in BOOLEAN /\ world.disclosed \in BOOLEAN
           /\ world.sum \in Versions \cup {0} /\ world.first \in Versions
BY WorldsAssumption DEF BaseInv

\* The plan of a body fetched whole.
LEMMA WholeBodyIsWhole ==
    WholeBody \in Seq(Seg) /\ WholeRow(WholeBody) /\ DOMAIN WholeBody = {1}
<1>1. Segment(0, -1) \in Seg /\ Segment(0, -1).start = 0 /\ Segment(0, -1).end = -1
  BY DEF Segment, Seg
<1>2. DOMAIN WholeBody = {1} /\ WholeBody[1] = Segment(0, -1)
  BY DEF WholeBody
<1>3. WholeBody \in Seq(Seg)
  BY <1>1 DEF WholeBody
<1> QED BY <1>1, <1>2, <1>3 DEF WholeRow

\* A plan and the slots of a stealing run fit the slot numbers.
LEMMA SlotsHold ==
    /\ 1 \in Slots /\ \A n \in 1..SegmentCount : 1..n \subseteq Slots
    /\ \A n \in 1..MaxSlots : n \in Slots
<1>1. MaxSlots \in Int /\ SegmentCount \in Int /\ SegmentCount >= 1
  BY TransferAssumption
<1>2. Max({MaxSlots, SegmentCount}) = IF MaxSlots >= SegmentCount THEN MaxSlots ELSE SegmentCount
  BY <1>1, TwoMax
<1> HIDE DEF Max
<1> QED BY <1>1, <1>2 DEF Slots

\* What a fresh plan is.
LEMMA PlanIsShaped ==
    ASSUME BaseInv, NEW version \in Versions
    PROVE  LET plan == PlanFor(world.ranges, SizeOf(version), SegmentCount, MinSegment)
           IN  /\ Shaped(plan, SizeOf(version)) /\ plan \in Seq(Seg)
               /\ RangedWorld => Apart(plan)
<1> DEFINE plan == PlanFor(world.ranges, SizeOf(version), SegmentCount, MinSegment)
<1>1. Size[version] \in Nat \ {0} /\ SegmentCount \in Nat \ {0} /\ MinSegment \in Nat \ {0}
  BY TransferAssumption, SizesArePositive
<1>2. CASE RangedWorld
  <2>1. SizeOf(version) = Size[version] /\ SizeOf(version) > 0
    BY <1>1, <1>2 DEF SizeOf, RangedWorld
  <2>2. plan = PlanSegments(SizeOf(version), SegmentCount, MinSegment)
    BY <1>2, <2>1 DEF PlanFor, RangedWorld
  <2> HIDE DEF plan
  <2>3. /\ plan \in Seq(Seg) /\ Len(plan) \in 1..SegmentCount
        /\ Ranged(plan, SizeOf(version)) /\ Apart(plan)
    BY <1>1, <2>1, <2>2, PlanIsLayout
  <2>4. DOMAIN plan = 1..Len(plan)
    BY <2>3, LenProperties
  <2>5. 1 \in DOMAIN plan /\ DOMAIN plan \subseteq Slots
    BY <1>1, <2>3, <2>4, SlotsHold
  <2> QED BY <1>1, <1>2, <2>1, <2>3, <2>5 DEF Shaped, plan
<1>3. CASE ~RangedWorld
  <2>1. plan = WholeBody
    BY <1>3 DEF PlanFor, SizeOf, RangedWorld
  <2> HIDE DEF plan
  <2> QED BY <1>3, <2>1, WholeBodyIsWhole, SlotsHold DEF Shaped, plan
<1> QED BY <1>2, <1>3

\* A run resolves its row against the probe and saves it active.
LEMMA RunKeeps == ASSUME IInv, Run PROVE IInv'
<1>0. /\ pc = "idle" /\ db.status # "completed" /\ pc' = "open"
      /\ ResolveRecord(Probe) /\ Save("active")
      /\ UNCHANGED <<world, remote, part, partDur, dest, destDur, pending, worker, cp, cancelled,
                     faults, suspect>>
  BY DEF Run, fileVars
<1> DEFINE fresh == DOMAIN db.segs = {} \/ ~ValidatorsMatch(db, Probe)
<1>1. remote \in Versions /\ Probe.size = SizeOf(remote) /\ Probe.tag = IF world.tags THEN remote ELSE 0
  BY Parts DEF BaseInv, Probe, SizeOf
<1>2. remote # 0
  BY <1>1, SizesArePositive
<1>3. /\ job'.version = remote /\ job'.size = SizeOf(remote)
      /\ job'.tag = (IF world.tags THEN remote ELSE 0)
      /\ Shaped(live', job'.size)
      /\ job'.fresh => live' \in Seq(Seg) /\ (RangedWorld => Apart(live'))
  <2>1. CASE fresh
    <3>1. job' = [fresh |-> TRUE, version |-> remote, tag |-> Probe.tag, size |-> Probe.size]
      BY <1>0, <2>1 DEF ResolveRecord
    <3>2. live' = PlanFor(world.ranges, SizeOf(remote), SegmentCount, MinSegment)
      BY <1>0, <1>1, <2>1 DEF ResolveRecord
    <3> QED BY <1>1, <3>1, <3>2, Parts, PlanIsShaped
  <2>2. CASE ~fresh
    <3>1. /\ job' = [fresh |-> FALSE, version |-> remote, tag |-> db.tag, size |-> db.size]
          /\ live' = db.segs
      BY <1>0, <2>2 DEF ResolveRecord
    <3>2. RecordInv(db) /\ DOMAIN db.segs # {} /\ ValidatorsMatch(db, Probe)
      BY <2>2, Parts DEF StoreInv
    <3>3. PICK v \in Versions : db.tag = (IF world.tags THEN v ELSE 0) /\ db.size = SizeOf(v)
      BY <3>2 DEF RecordInv
    <3>4. v # 0
      BY <3>3, SizesArePositive
    <3>5. db.tag = Probe.tag /\ db.size = SizeOf(remote)
      BY <1>1, <1>2, <3>2, <3>3, <3>4 DEF ValidatorsMatch
    <3>6. Shaped(db.segs, db.size)
      BY <3>2 DEF RecordInv
    <3> QED BY <1>1, <3>1, <3>5, <3>6
  <2> QED BY <2>1, <2>2
<1> HIDE DEF fresh
<1>4. /\ db' = [status |-> "active", tag |-> job'.tag, size |-> job'.size, segs |-> live']
      /\ dbDur' = db
  BY <1>0 DEF Save
<1>5. BaseInv'
  BY <1>0, Parts DEF BaseInv
<1>6. Shaped(live', job'.size) /\ Shaped(live, job.size)'
  BY <1>0, <1>3 DEF Shaped, RangedWorld
<1>7. StoreInv'
  <2>1. job'.tag \in Versions \cup {0} /\ job'.size \in Nat \cup {-1}
    BY <1>1, <1>3, SizesArePositive DEF SizeOf
  <2>2. RecordInv(db)'
    BY <1>0, <1>1, <1>3, <1>4, <1>6, <2>1 DEF RecordInv, SizeOf, Shaped, RangedWorld
  <2>3. RecordInv(dbDur)'
    BY <1>0, <1>4, Parts DEF StoreInv, RecordInv, Shaped, RangedWorld, SizeOf
  <2> QED BY <1>0, <1>4, <2>2, <2>3 DEF StoreInv
<1>8. PoolInv' /\ CheckpointInv' /\ BarrierCountsDurableBytes'
  BY <1>0, Parts, PoolIsEmpty, EmptyPool
<1>9. RunInv'
  <2>1. 1 \in DOMAIN live'
    BY <1>3 DEF Shaped
  <2>2. DOMAIN db'.segs # {}
    BY <1>4, <2>1
  <2> QED BY <1>0, <1>1, <1>3, <1>4, <1>6, <2>2 DEF RunInv, SizeOf, RangedWorld
<1>10. PublishInv'
  BY <1>0, <1>4, Parts DEF PublishInv, Matches
<1>11. ContentInv'
  BY <1>0, <1>3, <1>4, Parts DEF ContentInv, Fetched, Whole
<1> QED BY <1>5, <1>7, <1>8, <1>9, <1>10, <1>11, AllParts

\* The rows of a resume, healed and capped.
LEMMA ResumeIsShaped ==
    ASSUME RunInv, pc = "open", NEW onDisk \in Nat, NEW healed \in RepairLayout(live, job.size)
    PROVE  /\ Shaped(Clamped(healed, onDisk), job.size) /\ Clamped(healed, onDisk) \in Seq(Seg)
           /\ RangedWorld => Apart(Clamped(healed, onDisk))
<1> DEFINE capped == Clamped(healed, onDisk)
<1>0. Shaped(live, job.size) /\ 1 \in DOMAIN live /\ DOMAIN live \subseteq Slots
  BY DEF RunInv, Shaped
<1>f. IsFiniteSet(DOMAIN live) /\ Cardinality(DOMAIN live) \in 1..Max({MaxSlots, SegmentCount})
  <2> DEFINE m == Max({MaxSlots, SegmentCount})
  <2>1. m \in Nat \ {0}
    BY SlotsAreNumbers
  <2> HIDE DEF m
  <2>2. IsFiniteSet(1..m) /\ Cardinality(1..m) = m
    BY <2>1, FS_Interval
  <2>3. DOMAIN live \subseteq 1..m
    BY <1>0 DEF Slots, m
  <2>4. IsFiniteSet(DOMAIN live) /\ Cardinality(DOMAIN live) <= m
    BY <2>2, <2>3, FS_Subset
  <2>5. Cardinality(DOMAIN live) \in Nat /\ Cardinality(DOMAIN live) # 0
    BY <2>4, <1>0, FS_CardinalityType, FS_EmptySet
  <2> QED BY <2>1, <2>4, <2>5 DEF m
<1>1. CASE RangedWorld
  <2>1. job.size \in Nat \ {0} /\ Ranged(live, job.size)
    BY <1>0, <1>1 DEF Shaped
  <2>2. /\ healed \in Seq(Seg) /\ Len(healed) = Cardinality(DOMAIN live)
        /\ Ranged(healed, job.size) /\ Apart(healed)
    BY <1>0, <1>f, <2>1, RepairIsLayout
  <2>3. /\ capped \in Seq(Seg) /\ Len(capped) = Len(healed)
        /\ Ranged(capped, job.size) /\ Apart(capped)
    BY <2>2, ClampedIsLayout
  <2> HIDE DEF capped
  <2>4. DOMAIN capped = 1..Len(capped)
    BY <2>3, LenProperties
  <2>5. 1 \in DOMAIN capped /\ DOMAIN capped \subseteq Slots
    BY <1>f, <2>2, <2>3, <2>4, SlotsAreNumbers DEF Slots
  <2> QED BY <1>1, <2>1, <2>3, <2>5 DEF Shaped, capped
<1>2. CASE ~RangedWorld
  <2>1. DOMAIN live = {1} /\ live[1] \in Seg /\ live[1].start = 0 /\ live[1].end = -1
    BY <1>0, <1>2 DEF Shaped, WholeRow
  <2>2. Cardinality(DOMAIN live) = 1
    BY <2>1, FS_Singleton
  <2>3. PICK p \in [1..1 -> {1}] : healed = [i \in DOMAIN p |-> live[p[i]]]
    BY <2>1, <2>2 DEF RepairLayout, ByStart
  <2>4. DOMAIN p = {1} /\ p[1] = 1
    BY <2>3
  <2>5. DOMAIN healed = {1} /\ healed[1] = live[1]
    BY <2>3, <2>4
  <2>6. healed = [i \in 1..1 |-> live[1]] /\ healed \in Seq(Seg) /\ Len(healed) = 1
    <3>1. healed = [i \in 1..1 |-> live[1]]
      BY <2>3, <2>4
    <3>2. healed \in [1..1 -> Seg]
      BY <2>1, <3>1
    <3>3. healed \in Seq(Seg)
      BY <3>2, SeqDef
    <3> QED BY <3>1, <3>3
  <2>7. /\ capped \in Seq(Seg) /\ Len(capped) = Len(healed)
        /\ capped[1].start = 0 /\ capped[1].end = -1
    <3>1. capped \in Seq(Seg) /\ Len(capped) = Len(healed)
      BY <2>6, ClampedIsLayout
    <3>2. \A i \in DOMAIN healed : capped[i].start = healed[i].start /\ capped[i].end = healed[i].end
      BY <2>6, ClampedIsLayout
    <3> HIDE DEF capped
    <3> QED BY <2>1, <2>5, <3>1, <3>2
  <2> HIDE DEF capped
  <2>8. DOMAIN capped = {1}
    BY <2>6, <2>7, LenProperties
  <2>9. WholeRow(capped)
    <3> capped[1] \in Seg
      BY <2>7, <2>8
    <3> QED BY <2>7, <2>8 DEF WholeRow
  <2> QED BY <1>2, <2>7, <2>8, <2>9, SlotsHold DEF Shaped, capped
<1> QED BY <1>1, <1>2

\* A file that is grown to its size.
LEMMA GrownIs ==
    ASSUME NEW S, 0 \in S, NEW file \in Seq(S), NEW size \in Int
    PROVE  /\ Grown(file, size) \in Seq(S)
           /\ Len(Grown(file, size)) = IF Len(file) >= size THEN Len(file) ELSE size
<1>1. Len(file) \in Nat /\ \A i \in 1..Len(file) : file[i] \in S
  BY LenProperties
<1>2. Max({Len(file), size}) = IF Len(file) >= size THEN Len(file) ELSE size
  BY <1>1, TwoMax
<1> DEFINE n == IF Len(file) >= size THEN Len(file) ELSE size
<1>3. n \in Nat
  BY <1>1
<1>4. Grown(file, size) = [i \in 1..n |-> IF i <= Len(file) THEN file[i] ELSE 0]
  BY <1>2 DEF Grown
<1> HIDE DEF n
<1>5. Grown(file, size) \in [1..n -> S]
  BY <1>1, <1>3, <1>4
<1>6. Grown(file, size) \in Seq(S)
  BY <1>3, <1>5, SeqDef
<1>7. Len(Grown(file, size)) = n
  <2> DOMAIN Grown(file, size) = 1..n
    BY <1>5
  <2> QED BY <1>3, <1>6
<1> QED BY <1>6, <1>7 DEF n

\* A fresh plan with its counters at zero.
LEMMA FreshIsShaped ==
    ASSUME RunInv, pc = "open", job.fresh,
           NEW blank, blank = [i \in DOMAIN live |-> [live[i] EXCEPT !.done = 0]]
    PROVE  /\ Shaped(blank, job.size) /\ blank \in Seq(Seg)
           /\ RangedWorld => Apart(blank)
<1>1. Shaped(live, job.size) /\ live \in Seq(Seg) /\ (RangedWorld => Apart(live))
  BY DEF RunInv
<1>2. DOMAIN live = 1..Len(live) /\ Len(live) \in Nat /\ \A i \in DOMAIN live : live[i] \in Seg
  BY <1>1, LenProperties
<1>3. ASSUME NEW i \in DOMAIN live
      PROVE  /\ blank[i] \in Seg /\ blank[i].start = live[i].start /\ blank[i].end = live[i].end
             /\ blank[i].done = 0
  BY <1>2 DEF Seg
<1>4. DOMAIN blank = DOMAIN live
  OBVIOUS
<1>5. blank \in Seq(Seg)
  <2> blank \in [1..Len(live) -> Seg]
    BY <1>2, <1>3
  <2> QED BY <1>2, SeqDef
<1>6. RangedWorld => Apart(blank)
  BY <1>1, <1>3, <1>4 DEF Apart
<1>7. Shaped(blank, job.size)
  <2>1. CASE RangedWorld
    <3>1. job.size \in Nat /\ Ranged(live, job.size)
      BY <1>1, <2>1 DEF Shaped
    <3>2. ASSUME NEW i \in DOMAIN live
          PROVE  /\ blank[i] \in Seg /\ blank[i].end \in 0..(job.size - 1)
                 /\ blank[i].start < job.size /\ blank[i].done <= SegSize(blank[i])
                 /\ (blank[i].start = 0 <=> i = 1)
      <4>1. /\ live[i] \in Seg /\ live[i].end \in 0..(job.size - 1) /\ live[i].start < job.size
            /\ live[i].done <= SegSize(live[i]) /\ (live[i].start = 0 <=> i = 1)
        BY <3>1 DEF Ranged
      <4>2. 0 <= live[i].end - live[i].start + 1
        BY <4>1 DEF SegSize, Seg
      <4> QED BY <4>1, <4>2, <1>3 DEF SegSize
    <3>3. Ranged(blank, job.size)
      BY <3>2, <1>4 DEF Ranged
    <3> QED BY <1>1, <1>4, <2>1, <3>3 DEF Shaped
  <2>2. CASE ~RangedWorld
    BY <1>1, <1>3, <1>4, <2>2 DEF Shaped, WholeRow
  <2> QED BY <2>1, <2>2
<1> QED BY <1>5, <1>6, <1>7

\* In which of the two ways a run fetches its file.
LEMMA WholeOrRanges ==
    ASSUME NEW segs \in Seq(Seg), NEW size, Shaped(segs, size)
    PROVE  IsWholeBody(segs) <=> ~RangedWorld
<1>1. CASE RangedWorld
  <2>1. 1 \in DOMAIN segs /\ size \in Nat \ {0} /\ Ranged(segs, size)
    BY <1>1 DEF Shaped
  <2>2. segs[1].end \in 0..(size - 1)
    BY <2>1 DEF Ranged
  <2>3. ~(segs[1].end < 0)
    BY <2>1, <2>2
  <2> QED BY <1>1, <2>3 DEF IsWholeBody
<1>2. CASE ~RangedWorld
  <2>1. DOMAIN segs = {1} /\ segs[1].end < 0
    BY <1>2 DEF Shaped, WholeRow
  <2>2. Len(segs) \in Nat /\ 1..Len(segs) = {1}
    BY <2>1, LenProperties
  <2>3. 1 \in 1..Len(segs) /\ Len(segs) \in Nat
    BY <2>2
  <2>4. Len(segs) \in 1..Len(segs)
    BY <2>3
  <2>5. Len(segs) = 1
    BY <2>2, <2>4
  <2> QED BY <1>2, <2>1, <2>5 DEF IsWholeBody
<1> QED BY <1>1, <1>2

\* The .part is opened, and the counters are reconciled with it.
LEMMA OpenKeeps == ASSUME IInv, Open PROVE IInv'
<1>0. /\ pc = "open" /\ OpenPart /\ ReconcileProgress
      /\ pending' = IF IsWholeBody(live') THEN {} ELSE {i \in DOMAIN live' : ~IsDone(live'[i])}
      /\ pc' = IF IsWholeBody(live') THEN "body" ELSE "ranges"
      /\ suspect' = (suspect \/ ~Backed(live', part') \/ (~IsWholeBody(live') /\ Len(part) > job.size))
      /\ UNCHANGED <<world, remote, db, dbDur, dest, job, worker, cp, cancelled, faults>>
  BY DEF Open, rowVars
<1>1. /\ job.version \in Versions /\ job.size = SizeOf(job.version) /\ Shaped(live, job.size)
      /\ job.size \in Int /\ (RangedWorld => job.size = Size[job.version])
  BY <1>0, Parts, SizesArePositive DEF RunInv, SizeOf, RangedWorld
<1>2. /\ part \in Seq(Versions \cup {0}) /\ partDur \in Seq(Versions \cup {0}) /\ Len(part) \in Nat
      /\ destDur \in Seq(Versions \cup {0}) /\ <<>> \in Seq(Versions \cup {0})
  BY Parts DEF BaseInv
<1>3. /\ part' \in Seq(Versions \cup {0})
      /\ Len(part') = IF Len(part) >= job.size THEN Len(part) ELSE job.size
  <2>1. part' = Grown(part, job.size)
    BY <1>0 DEF OpenPart
  <2>2. 0 \in Versions \cup {0}
    OBVIOUS
  <2> QED BY <1>1, <1>2, <2>1, <2>2, GrownIs
<1>4. /\ Shaped(live', job.size) /\ live' \in Seq(Seg) /\ (RangedWorld => Apart(live'))
  <2>1. CASE job.fresh
    BY <1>0, <2>1, Parts, FreshIsShaped DEF ReconcileProgress
  <2>2. CASE ~job.fresh
    <3>1. PICK healed \in RepairLayout(live, job.size) : live' = Clamped(healed, Len(part))
      BY <1>0, <2>2 DEF ReconcileProgress
    <3> QED BY <1>0, <1>2, <3>1, Parts, ResumeIsShaped
  <2> QED BY <2>1, <2>2
<1>5. IsWholeBody(live') <=> ~RangedWorld
  BY <1>4, WholeOrRanges
<1>6. pc' = IF RangedWorld THEN "ranges" ELSE "body"
  BY <1>0, <1>5
<1>7. BaseInv'
  <2>1. partDur' \in Seq(Versions \cup {0}) /\ destDur' \in Seq(Versions \cup {0})
    BY <1>0, <1>2 DEF OpenPart
  <2>2. suspect' \in BOOLEAN
    BY <1>0
  <2> QED BY <1>0, <1>3, <1>6, <2>1, <2>2, Parts DEF BaseInv
<1>8. StoreInv'
  BY <1>0, Parts, StoreFrame
<1>9. PoolInv' /\ CheckpointInv' /\ BarrierCountsDurableBytes'
  <2>1. worker' = [w \in Workers |-> Free] /\ cp' = Idle
    BY <1>0, Parts, PoolIsEmpty
  <2>2. pending' \subseteq DOMAIN live' /\ (pc' # "ranges" => pending' = {})
    BY <1>0, <1>5, <1>6
  <2> QED BY <2>1, <2>2, EmptyPool
<1>10. RunInv'
  <2>1. Shaped(live, job.size)'
    BY <1>0, <1>4 DEF Shaped, RangedWorld
  <2>2. RangedWorld => Len(part') >= job.size
    BY <1>1, <1>2, <1>3
  <2> QED BY <1>0, <1>1, <1>4, <1>6, <2>1, <2>2, Parts DEF RunInv, RangedWorld, SizeOf
<1>11. dest' = destDur'
  BY <1>0, Parts DEF OpenPart, PublishInv
<1>12. PublishInv'
  <2>1. db'.status # "completed"
    BY <1>0, Parts DEF RunInv
  <2> QED BY <1>0, <1>6, <1>11, <2>1, Parts DEF PublishInv, Matches
<1>13. ContentInv'
  <2> SUFFICES ASSUME ~suspect' PROVE ContentInv'
    BY DEF ContentInv
  <2>1. /\ ~suspect /\ Backed(live', part') /\ (RangedWorld => Len(part) <= job.size)
    <3>1. ~(suspect \/ ~Backed(live', part') \/ (~IsWholeBody(live') /\ Len(part) > job.size))
      BY <1>0
    <3>2. ~suspect /\ Backed(live', part') /\ (~IsWholeBody(live') => ~(Len(part) > job.size))
      BY <3>1
    <3> QED BY <1>1, <1>2, <1>5, <3>2
  <2>2. Fetched(job.version)'
    <3>1. CASE RangedWorld
      <4>1. Len(part') = job'.size
        BY <1>0, <1>1, <1>2, <1>3, <2>1, <3>1
      <4>2. \A i \in DOMAIN live' : \A k \in Counted(live'[i]) : part'[k + 1] = job'.version
        BY <1>0, <2>1 DEF Backed
      <4>3. \A w \in Workers : worker'[w].pc # "wrote"
        BY <1>0, Parts, PoolIsEmpty DEF Free
      <4> QED BY <1>6, <3>1, <4>1, <4>2, <4>3 DEF Fetched, Counted
    <3>2. CASE ~RangedWorld
      BY <1>6, <3>2 DEF Fetched
    <3> QED BY <3>1, <3>2
  <2>3. job'.version = remote' /\ \A file \in {dest, destDur} : file = Absent \/ Whole(file)
    BY <1>0, <2>1, Parts DEF ContentInv
  <2>4. db'.status # "completed" /\ pc' \notin {"syncdir", "complete"}
    BY <1>0, <1>6, Parts DEF RunInv
  <2>5. \A file \in {dest', destDur'} : file = Absent \/ Whole(file)
    BY <1>0, <1>11, <2>3
  <2> QED BY <2>2, <2>3, <2>4, <2>5 DEF ContentInv, Whole
<1> QED BY <1>7, <1>8, <1>9, <1>10, <1>12, <1>13, AllParts

-----------------------------------------------------------------------------
\* A row read earlier stays a row of its slot while counters grow and splits are made.
LEMMA RowsOutlive ==
    ASSUME NEW row, RowOf(row), job' = job, DOMAIN live \subseteq DOMAIN live',
           live'[row.slot].start = live[row.slot].start,
           live'[row.slot].done \in Nat, live[row.slot].done \in Nat,
           live[row.slot].done <= live'[row.slot].done
    PROVE  RowOf(row)'
<1>1. row.seg.done \in Nat /\ row.seg.done <= live'[row.slot].done
  BY DEF RowOf, Row
<1> QED BY <1>1 DEF RowOf

\* A row read earlier claims no byte that its segment does not.
LEMMA RowCounted ==
    ASSUME BaseInv, RunInv, pc = "ranges", NEW row, RowOf(row)
    PROVE  Counted(row.seg) \subseteq Counted(live[row.slot])
<1>1. row.slot \in DOMAIN live /\ row.seg.start = live[row.slot].start
  BY DEF RowOf
<1>2. row.seg.done \in Nat /\ row.seg.done <= live[row.slot].done
  BY DEF RowOf, Row
<1>3. live[row.slot].start \in Nat /\ live[row.slot].done \in Nat
  BY <1>1, LiveNumbers
<1> QED BY <1>1, <1>2, <1>3 DEF Counted

\* The byte that is written next is counted by no segment.
LEMMA FrontierIsNew ==
    ASSUME BaseInv, RunInv, pc = "ranges", NEW i \in DOMAIN live, ~IsDone(live[i]),
           NEW j \in DOMAIN live, NEW k \in Counted(live[j])
    PROVE  k \in Nat /\ k # Frontier(i)
<1>1. /\ live[i].start \in Nat /\ live[i].done \in Nat /\ live[i].end \in Int
      /\ Frontier(i) = live[i].start + live[i].done /\ Frontier(i) <= live[i].end
  BY LiveNumbers, RangesFacts
<1>2. job.size \in Nat /\ Ranged(live, job.size) /\ Apart(live)
  BY RangesFacts
<1>3. k \in 0..(job.size - 1) /\ k >= live[j].start /\ k <= live[j].end
  BY <1>2, CountedInside
<1>4. CASE i = j
  BY <1>1, <1>3, <1>4 DEF Counted
<1>5. CASE i # j
  <2>1. live[i].end < live[j].start \/ live[j].end < live[i].start
    BY <1>2, <1>5 DEF Apart
  <2>2. live[j].start \in Nat /\ live[j].end \in Int
    BY <1>2, LiveNumbers
  <2> QED BY <1>1, <1>2, <1>3, <2>1, <2>2
<1> QED BY <1>4, <1>5

\* Two workers do not write the same byte.
LEMMA FrontiersApart ==
    ASSUME BaseInv, RunInv, pc = "ranges", NEW i \in DOMAIN live, NEW j \in DOMAIN live, i # j,
           ~IsDone(live[i]), ~IsDone(live[j])
    PROVE  Frontier(i) # Frontier(j)
<1>1. /\ live[i].start \in Nat /\ live[i].done \in Nat /\ live[i].end \in Int
      /\ Frontier(i) = live[i].start + live[i].done /\ Frontier(i) <= live[i].end
  BY LiveNumbers, RangesFacts
<1>2. /\ live[j].start \in Nat /\ live[j].done \in Nat /\ live[j].end \in Int
      /\ Frontier(j) = live[j].start + live[j].done /\ Frontier(j) <= live[j].end
  BY LiveNumbers, RangesFacts
<1>3. live[i].end < live[j].start \/ live[j].end < live[i].start
  BY RangesFacts DEF Apart
<1> QED BY <1>1, <1>2, <1>3

\* A worker takes a pending slot.
LEMMA TakeKeeps == ASSUME IInv, NEW w \in Workers, Take(w) PROVE IInv'
<1> PICK slot : slot = Min(pending)
  OBVIOUS
<1> PICK state : state = [pc |-> "stream", slot |-> slot, rows |-> <<>>]
  OBVIOUS
<1>0. /\ pc = "ranges" /\ worker[w] = Free /\ pending # {} /\ Becomes(w, state)
      /\ pending' = pending \ {slot}
      /\ UNCHANGED <<world, remote, db, dbDur, part, partDur, dest, destDur, pc, job, live, cp,
                     cancelled, faults, suspect>>
  BY DEF Take, Running, NextFree, rowVars, fileVars
<1>1. live \in Seq(Seg) /\ DOMAIN live = 1..Len(live) /\ pending \subseteq DOMAIN live
  BY <1>0, Parts, RangesFacts DEF PoolInv
<1>2. slot \in pending /\ slot \in Nat
  BY <1>0, <1>1, MinIsIn
<1>3. /\ worker' = [v \in Workers |-> worker'[v]]
      /\ worker'[w] = state /\ \A v \in Workers \ {w} : worker'[v] = worker[v]
  BY <1>0, Parts, BecomesOnly
<1>4. BaseInv'
  BY <1>0, Parts DEF BaseInv
<1>5. StoreInv'
  BY <1>0, Parts, StoreFrame
<1>6. RunInv'
  <2> Len(part') = Len(part) /\ DOMAIN db.segs = DOMAIN db'.segs
    BY <1>0
  <2> QED BY <1>0, Parts, RunFrame
<1>7. PoolInv'
  <2>1. ASSUME NEW v \in Workers PROVE WorkerInv(worker[v])'
    <3>1. CASE v = w
      <4>1. <<>> \in Seq(Row) /\ DOMAIN <<>> = {}
        OBVIOUS
      <4>2. worker'[v] = state /\ state.pc = "stream" /\ state.rows = <<>> /\ state.slot = slot
        BY <1>3, <3>1
      <4>3. state \in WorkerStates
        BY <1>2, <4>1 DEF WorkerStates
      <4> QED BY <1>0, <1>1, <1>2, <4>1, <4>2, <4>3 DEF WorkerInv
    <3>2. CASE v # w
      <4>1. worker'[v] = worker[v] /\ WorkerInv(worker[v])
        BY <1>3, <3>2, Parts DEF PoolInv
      <4> QED BY <1>0, <4>1 DEF WorkerInv, RowOf
    <3> QED BY <3>1, <3>2
  <2>2. ASSUME NEW u \in Workers, NEW v \in Workers,
               worker'[u].pc # "free", worker'[v].pc # "free", u # v
        PROVE  worker'[u].slot # worker'[v].slot
    <3>1. \A x \in Workers \ {w} : worker'[x].pc # "free" =>
             worker'[x] = worker[x] /\ worker[x].slot \notin pending
      BY <1>3, Parts DEF PoolInv, WorkerInv
    <3>2. worker'[w].slot \in pending
      BY <1>2, <1>3
    <3>3. CASE u = w \/ v = w
      BY <2>2, <3>1, <3>2, <3>3
    <3>4. CASE u # w /\ v # w
      BY <2>2, <3>1, <3>4, Parts DEF PoolInv
    <3> QED BY <3>3, <3>4
  <2> QED BY <1>0, <1>1, <1>3, <2>1, <2>2 DEF PoolInv
<1>8. CheckpointInv'
  BY <1>0, Parts, CheckpointFrame
<1>9. BarrierCountsDurableBytes'
  <2> state.pc \notin {"eof", "error"}
    OBVIOUS
  <2> QED BY <1>0, Parts, BarrierStep
<1>10. PublishInv'
  BY <1>0, Parts, PublishFrame
<1>11. ContentInv'
  <2> state.pc # "wrote"
    OBVIOUS
  <2> QED BY <1>0, Parts, FetchedStep
<1> QED BY <1>4, <1>5, <1>6, <1>7, <1>8, <1>9, <1>10, <1>11, AllParts

\* A worker writes a byte that no counter claims yet.
LEMMA WriteKeeps == ASSUME IInv, NEW w \in Workers, Write(w) PROVE IInv'
<1> PICK i : i = worker[w].slot
  OBVIOUS
<1> PICK state : state = [worker[w] EXCEPT !.pc = "wrote"]
  OBVIOUS
<1> PICK at : at = Frontier(i)
  OBVIOUS
<1>0. /\ pc = "ranges" /\ worker[w].pc = "stream" /\ ~IsDone(live[i]) /\ Becomes(w, state)
      /\ part' = [part EXCEPT ![at + 1] = remote]
      /\ UNCHANGED <<world, remote, db, dbDur, partDur, dest, destDur, pc, job, live, pending,
                     cp, cancelled, faults, suspect>>
  BY DEF Write, rowVars
<1>1. /\ i \in DOMAIN live \ pending /\ WorkerInv(worker[w]) /\ worker[w].rows = <<>>
      /\ worker[w] = [pc |-> worker[w].pc, slot |-> worker[w].slot, rows |-> worker[w].rows]
  BY <1>0, Busy DEF WorkerInv
<1>2. /\ part \in Seq(Versions \cup {0}) /\ Len(part) \in Nat /\ DOMAIN part = 1..Len(part)
      /\ remote \in Versions \cup {0} /\ at \in Nat /\ at + 1 \in DOMAIN part
  <2>1. part \in Seq(Versions \cup {0}) /\ remote \in Versions
    BY Parts DEF BaseInv
  <2>2. at \in Nat /\ at < Len(part)
    BY <1>0, <1>1, Parts, LiveNumbers
  <2>3. Len(part) \in Nat /\ DOMAIN part = 1..Len(part)
    BY <2>1, LenProperties
  <2> QED BY <2>1, <2>2, <2>3
<1>3. /\ part' \in Seq(Versions \cup {0}) /\ Len(part') = Len(part)
      /\ part'[at + 1] = remote /\ \A n \in DOMAIN part \ {at + 1} : part'[n] = part[n]
  BY <1>0, <1>2, ExceptSeq
<1>4. ASSUME NEW j \in DOMAIN live, NEW k \in Counted(live[j]), k < Len(part)
      PROVE  k \in Nat /\ part'[k + 1] = part[k + 1]
  <2>1. k \in Nat /\ k # at
    BY <1>0, <1>1, Parts, FrontierIsNew
  <2>2. k + 1 \in DOMAIN part \ {at + 1}
    BY <1>2, <1>4, <2>1
  <2> QED BY <1>3, <2>1, <2>2
<1>5. ASSUME NEW row, RowOf(row), Durable(row.seg)
      PROVE  Durable(row.seg)'
  <2> SUFFICES ASSUME NEW k \in Counted(row.seg)
               PROVE  k < Len(partDur) /\ k < Len(part') /\ partDur[k + 1] = part'[k + 1]
    BY <1>0 DEF Durable
  <2>1. k < Len(partDur) /\ k < Len(part) /\ partDur[k + 1] = part[k + 1]
    BY <1>5 DEF Durable
  <2>2. row.slot \in DOMAIN live /\ k \in Counted(live[row.slot])
    BY <1>0, <1>5, Parts, RowCounted DEF RowOf
  <2> QED BY <1>3, <1>4, <2>1, <2>2
<1>6. /\ worker' = [v \in Workers |-> worker'[v]]
      /\ worker'[w] = state /\ \A v \in Workers \ {w} : worker'[v] = worker[v]
  BY <1>0, Parts, BecomesOnly
<1>7. BaseInv'
  BY <1>0, <1>3, Parts DEF BaseInv
<1>8. StoreInv'
  BY <1>0, Parts, StoreFrame
<1>9. RunInv'
  <2> DOMAIN db.segs = DOMAIN db'.segs
    BY <1>0
  <2> QED BY <1>0, <1>3, Parts, RunFrame
<1>10. PoolInv'
  <2>1. /\ state.pc = "wrote" /\ state.slot = i /\ state.rows = <<>>
    BY <1>1
  <2>2. WorkerInv(state)
    BY <1>0, <1>1, <2>1 DEF WorkerInv, WorkerStates
  <2> QED BY <1>0, <2>1, <2>2, Parts, WorkerMoves
<1>11. CheckpointInv'
  BY <1>0, Parts, CheckpointFrame
<1>12. BarrierCountsDurableBytes'
  <2>1. ASSUME cp'.pc = "synced", NEW n \in DOMAIN cp'.rows PROVE Durable(cp.rows[n].seg)'
    <3> PICK row : row = cp.rows[n]
      OBVIOUS
    <3>1. n \in DOMAIN cp.rows /\ RowOf(row) /\ Durable(row.seg) /\ cp'.rows[n] = row
      BY <1>0, <2>1, Parts DEF CheckpointInv, BarrierCountsDurableBytes
    <3>2. Durable(row.seg)'
      BY <3>1, <1>5
    <3> QED BY <3>1, <3>2 DEF Durable
  <2>2. ASSUME NEW v \in Workers, worker'[v].pc \in {"eof", "error"}, NEW n \in DOMAIN worker'[v].rows
        PROVE  Durable(worker[v].rows[n].seg)'
    <3>1. v # w /\ worker'[v] = worker[v]
      <4> state.pc = "wrote"
        BY <1>1
      <4> QED BY <1>6, <2>2
    <3> PICK row : row = worker[v].rows[n]
      OBVIOUS
    <3>2. WorkerInv(worker[v])
      BY Parts DEF PoolInv
    <3>3. RowOf(row) /\ Durable(row.seg) /\ worker'[v].rows[n] = row
      BY <2>2, <3>1, <3>2, Parts DEF WorkerInv, BarrierCountsDurableBytes
    <3>4. Durable(row.seg)'
      BY <3>3, <1>5
    <3> QED BY <3>3, <3>4 DEF Durable
  <2> QED BY <2>1, <2>2 DEF BarrierCountsDurableBytes
<1>13. PublishInv'
  BY <1>0, Parts, PublishFrame
<1>14. ContentInv'
  <2> SUFFICES ASSUME ~suspect PROVE ContentInv'
    BY <1>0 DEF ContentInv
  <2>1. Fetched(job.version) /\ job.version = remote
    BY <1>0, Parts DEF ContentInv
  <2>2. ASSUME NEW j \in DOMAIN live, NEW k \in Counted(live[j]) PROVE part'[k + 1] = job.version
    <3>1. part[k + 1] = job.version
      BY <1>0, <2>1 DEF Fetched
    <3>2. k \in Nat /\ k < Len(part)
      <4>1. job.size \in Nat /\ Ranged(live, job.size) /\ Len(part) >= job.size
        BY <1>0, Parts, RangesFacts
      <4>2. k \in 0..(job.size - 1)
        BY <4>1, CountedInside
      <4> QED BY <4>1, <4>2, <1>2
    <3> QED BY <3>1, <3>2, <1>4
  <2>3. ASSUME NEW v \in Workers, worker'[v].pc = "wrote"
        PROVE  part'[(live[worker'[v].slot].start + live[worker'[v].slot].done) + 1] = job.version
    <3>1. CASE v = w
      <4>1. worker'[v].slot = i
        BY <1>1, <1>6, <3>1
      <4> QED BY <4>1, <1>3, <2>1 DEF Frontier
    <3>2. CASE v # w
      <4> PICK j : j = worker[v].slot
        OBVIOUS
      <4>1. worker'[v] = worker[v] /\ worker[v].pc = "wrote"
        BY <1>6, <2>3, <3>2
      <4>2. j \in DOMAIN live /\ ~IsDone(live[j]) /\ j # i
        BY <1>0, <3>2, <4>1, Parts DEF PoolInv, WorkerInv
      <4>3. part[Frontier(j) + 1] = job.version
        BY <1>0, <2>1, <4>1 DEF Fetched
      <4>4. Frontier(j) \in Nat /\ Frontier(j) # at /\ Frontier(j) < Len(part)
        <5>1. Frontier(j) \in Nat /\ Frontier(j) < Len(part)
          BY <1>0, <4>2, Parts, LiveNumbers
        <5>2. Frontier(j) # Frontier(i)
          BY <1>0, <1>1, <4>2, Parts, FrontiersApart
        <5> QED BY <5>1, <5>2
      <4>5. Frontier(j) + 1 \in DOMAIN part \ {at + 1}
        BY <4>4, <1>2
      <4> QED BY <4>1, <4>3, <4>5, <1>3 DEF Frontier
    <3> QED BY <3>1, <3>2
  <2>4. Fetched(job.version)'
    BY <1>0, <1>3, <2>1, <2>2, <2>3 DEF Fetched, Frontier
  <2> QED BY <1>0, <2>4, Parts DEF ContentInv, Whole
<1> QED BY <1>7, <1>8, <1>9, <1>10, <1>11, <1>12, <1>13, <1>14, AllParts

\* The worker's counter follows the byte.
LEMMA PublishKeeps == ASSUME IInv, NEW w \in Workers, Publish(w) PROVE IInv'
<1>i. PICK i : i = worker[w].slot
  OBVIOUS
<1>s. PICK state : state = [worker[w] EXCEPT !.pc = "stream"]
  OBVIOUS
<1>0. /\ worker[w].pc = "wrote" /\ Becomes(w, state)
      /\ live' = [live EXCEPT ![i].done = @ + 1]
      /\ UNCHANGED <<world, remote, db, dbDur, part, partDur, dest, destDur, pc, job, pending,
                     cp, cancelled, faults, suspect>>
  BY <1>i, <1>s DEF Publish, rowVars, fileVars
<1>1. /\ i \in DOMAIN live \ pending /\ WorkerInv(worker[w]) /\ worker[w].rows = <<>>
      /\ worker[w] = [pc |-> worker[w].pc, slot |-> worker[w].slot, rows |-> worker[w].rows]
      /\ pc = "ranges" /\ ~IsDone(live[i])
  BY <1>0, <1>i, Busy DEF WorkerInv
<1>2. /\ live \in Seq(Seg) /\ DOMAIN live = 1..Len(live) /\ job.size \in Nat \ {0}
      /\ Ranged(live, job.size) /\ Apart(live) /\ RangedWorld
  BY <1>1, Parts, RangesFacts
<1>3. /\ live[i].start \in Nat /\ live[i].done \in Nat /\ live[i].end \in 0..(job.size - 1)
      /\ live[i].done < live[i].end - live[i].start + 1 /\ live[i] \in Seg
      /\ Frontier(i) = live[i].start + live[i].done
  BY <1>1, <1>2, Parts, LiveNumbers DEF Seg
<1>g. PICK seg : seg = [live[i] EXCEPT !.done = live[i].done + 1]
  OBVIOUS
<1>4. /\ seg \in Seg /\ seg.start = live[i].start /\ seg.end = live[i].end
      /\ seg.done = live[i].done + 1
  BY <1>3, <1>g DEF Seg
<1>5. live' = [live EXCEPT ![i] = seg]
  BY <1>0, <1>1, <1>g
<1>6. /\ live' \in Seq(Seg) /\ DOMAIN live' = DOMAIN live /\ live'[i] = seg
      /\ \A j \in DOMAIN live \ {i} : live'[j] = live[j]
  BY <1>1, <1>2, <1>4, <1>5, ExceptSeq, LenProperties
<1>7. \A j \in DOMAIN live : live[j].start \in Nat /\ live[j].done \in Nat
  BY <1>1, Parts, LiveNumbers
<1>8. \A j \in DOMAIN live : /\ live'[j].start = live[j].start /\ live'[j].end = live[j].end
                             /\ live'[j].done \in Nat /\ live[j].done <= live'[j].done
  <2> SUFFICES ASSUME NEW j \in DOMAIN live
               PROVE  /\ live'[j].start = live[j].start /\ live'[j].end = live[j].end
                      /\ live'[j].done \in Nat /\ live[j].done <= live'[j].done
    OBVIOUS
  <2>1. CASE j = i
    BY <1>3, <1>4, <1>6, <2>1
  <2>2. CASE j # i
    <3> live'[j] = live[j] /\ live[j].done \in Nat
      BY <1>6, <1>7, <2>2
    <3> QED OBVIOUS
  <2> QED BY <2>1, <2>2
<1>9. Ranged(live', job.size) /\ Apart(live')
  <2>1. Apart(live')
    BY <1>2, <1>6, <1>8 DEF Apart
  <2>2. ASSUME NEW j \in DOMAIN live
        PROVE  /\ live'[j] \in Seg /\ live'[j].end \in 0..(job.size - 1)
               /\ live'[j].start < job.size /\ live'[j].done <= SegSize(live'[j])
               /\ (live'[j].start = 0 <=> j = 1)
    <3>1. /\ live[j] \in Seg /\ live[j].end \in 0..(job.size - 1)
          /\ live[j].start < job.size /\ live[j].done <= SegSize(live[j])
          /\ (live[j].start = 0 <=> j = 1)
      BY <1>2 DEF Ranged
    <3>2. CASE j = i
      <4>1. live'[j] = seg
        BY <1>6, <3>2
      <4>2. seg.done <= SegSize(seg)
        BY <1>3, <1>4 DEF SegSize
      <4> QED BY <1>4, <3>1, <3>2, <4>1, <4>2
    <3>3. CASE j # i
      <4> live'[j] = live[j]
        BY <1>6, <3>3
      <4> QED BY <3>1
    <3> QED BY <3>2, <3>3
  <2> QED BY <1>6, <2>1, <2>2 DEF Ranged
<1>10. ASSUME NEW row, RowOf(row) PROVE RowOf(row)'
  <2> row.slot \in DOMAIN live
    BY <1>10 DEF RowOf
  <2> QED BY <1>0, <1>6, <1>7, <1>8, <1>10, RowsOutlive
<1>11. /\ worker' = [v \in Workers |-> worker'[v]]
       /\ worker'[w] = state /\ \A v \in Workers \ {w} : worker'[v] = worker[v]
       /\ state.pc = "stream" /\ state.slot = i /\ state.rows = <<>>
  BY <1>0, <1>1, <1>i, <1>s, Parts, BecomesOnly
<1>12. BaseInv'
  BY <1>0, Parts DEF BaseInv
<1>13. StoreInv'
  BY <1>0, Parts, StoreFrame
<1>14. RunInv'
  <2>1. Shaped(live, job.size)
    BY <1>1, Parts DEF RunInv
  <2>2. Shaped(live, job.size)'
    BY <1>0, <1>2, <1>6, <1>9, <2>1 DEF Shaped, RangedWorld
  <2> QED BY <1>0, <1>1, <1>6, <1>9, <2>2, Parts DEF RunInv, RangedWorld, SizeOf
<1>15. PoolInv'
  <2>1. ASSUME NEW v \in Workers PROVE WorkerInv(worker[v])'
    <3>1. CASE v = w
      <4>1. state \in WorkerStates /\ DOMAIN state.rows = {}
        BY <1>1, <1>11, <1>s DEF WorkerStates, WorkerInv
      <4>2. worker'[v] = state
        BY <1>11, <3>1
      <4> QED BY <1>0, <1>1, <1>6, <1>11, <4>1, <4>2 DEF WorkerInv
    <3>2. CASE v # w
      <4>1. worker'[v] = worker[v] /\ WorkerInv(worker[v])
        BY <1>11, <3>2, Parts DEF PoolInv
      <4>2. worker[v].pc = "wrote" => live'[worker[v].slot] = live[worker[v].slot]
        <5> SUFFICES ASSUME worker[v].pc = "wrote" PROVE live'[worker[v].slot] = live[worker[v].slot]
          OBVIOUS
        <5>1. worker[v].slot \in DOMAIN live /\ worker[v].slot # i
          BY <1>0, <1>i, <3>2, <4>1, Parts DEF WorkerInv, PoolInv
        <5> QED BY <5>1, <1>6
      <4>3. \A n \in DOMAIN worker[v].rows : RowOf(worker[v].rows[n])'
        BY <4>1, <1>10 DEF WorkerInv
      <4>4. \A n \in DOMAIN worker'[v].rows : RowOf(worker[v].rows[n])'
        BY <4>1, <4>3 DEF RowOf
      <4> QED BY <1>0, <1>6, <4>1, <4>2, <4>4 DEF WorkerInv
    <3> QED BY <3>1, <3>2
  <2>2. ASSUME NEW u \in Workers, NEW v \in Workers,
               worker'[u].pc # "free", worker'[v].pc # "free", u # v
        PROVE  worker'[u].slot # worker'[v].slot
    <3>1. \A x \in Workers : worker'[x].slot = worker[x].slot /\
                             (worker'[x].pc # "free" => worker[x].pc # "free")
      BY <1>0, <1>11, <1>i
    <3> QED BY <2>2, <3>1, Parts DEF PoolInv
  <2> QED BY <1>0, <1>1, <1>6, <1>11, <2>1, <2>2, Parts DEF PoolInv
<1>16. CheckpointInv'
  <2>1. \A n \in DOMAIN cp.rows : RowOf(cp.rows[n])'
    <3> SUFFICES ASSUME NEW n \in DOMAIN cp.rows PROVE RowOf(cp.rows[n])'
      OBVIOUS
    <3> PICK row : row = cp.rows[n]
      OBVIOUS
    <3>1. RowOf(row)'
      BY <1>10, Parts DEF CheckpointInv
    <3>2. cp'.rows[n] = row
      BY <1>0
    <3> QED BY <3>1, <3>2 DEF RowOf
  <2> QED BY <1>0, <2>1, Parts DEF CheckpointInv
<1>17. BarrierCountsDurableBytes'
  BY <1>0, <1>11, Parts, BarrierStep
<1>18. PublishInv'
  BY <1>0, <1>1, Parts, PublishFrame
<1>19. ContentInv'
  <2> SUFFICES ASSUME ~suspect PROVE ContentInv'
    BY <1>0 DEF ContentInv
  <2>1. Fetched(job.version)
    BY <1>0, Parts DEF ContentInv
  <2>2. ASSUME NEW j \in DOMAIN live', NEW k \in Counted(live'[j]) PROVE part[k + 1] = job.version
    <3>1. CASE j = i
      <4>1. k \in Counted(live[i]) \/ k = Frontier(i)
        <5>1. k \in seg.start .. (seg.start + seg.done - 1)
          BY <1>6, <2>2, <3>1 DEF Counted
        <5>2. k \in Int /\ live[i].start <= k /\ k <= live[i].start + live[i].done
          BY <5>1, <1>3, <1>4
        <5> QED BY <5>2, <1>3 DEF Counted
      <4>2. part[Frontier(i) + 1] = job.version
        BY <1>0, <1>1, <1>i, <2>1 DEF Fetched
      <4> QED BY <1>1, <2>1, <4>1, <4>2 DEF Fetched
    <3>2. CASE j # i
      <4> live'[j] = live[j] /\ j \in DOMAIN live
        BY <1>6, <3>2
      <4> QED BY <1>1, <2>1, <2>2 DEF Fetched
    <3> QED BY <3>1, <3>2
  <2>3. ASSUME NEW v \in Workers, worker'[v].pc = "wrote"
        PROVE  part[(live'[worker'[v].slot].start + live'[worker'[v].slot].done) + 1] = job.version
    <3>1. v # w /\ worker'[v] = worker[v]
      BY <1>11, <2>3
    <3>2. worker[v].slot \in DOMAIN live /\ worker[v].slot # i
      BY <1>0, <1>i, <2>3, <3>1, Parts DEF WorkerInv, PoolInv
    <3>3. live'[worker[v].slot] = live[worker[v].slot]
      BY <1>6, <3>2
    <3>4. part[Frontier(worker[v].slot) + 1] = job.version
      BY <1>1, <2>1, <2>3, <3>1 DEF Fetched
    <3> QED BY <3>1, <3>3, <3>4 DEF Frontier
  <2>4. Len(part) = job.size
    BY <1>1, <2>1 DEF Fetched
  <2>5. Fetched(job.version)'
    BY <1>0, <1>1, <2>2, <2>3, <2>4 DEF Fetched, Frontier, Counted
  <2> QED BY <1>0, <2>5, Parts DEF ContentInv, Whole
<1> QED BY <1>12, <1>13, <1>14, <1>15, <1>16, <1>17, <1>18, <1>19, AllParts

\* The live layout after a steal of slot i from mid on.
SplitAt(i, mid) == Append([live EXCEPT ![i].end = mid - 1], Segment(mid, live[i].end))

\* The layout after a split beyond the donor's frontier.
LEMMA SplitIs ==
    ASSUME BaseInv, RunInv, pc = "ranges", NEW i \in DOMAIN live, NEW mid,
           mid \in (Frontier(i) + 1) .. live[i].end
    PROVE  LET split == SplitAt(i, mid) IN
           /\ split \in Seq(Seg) /\ DOMAIN split = DOMAIN live \cup {Len(live) + 1}
           /\ Len(live) + 1 \notin DOMAIN live
           /\ \A j \in DOMAIN live \ {i} : split[j] = live[j]
           /\ split[i].start = live[i].start /\ split[i].done = live[i].done /\ ~IsDone(split[i])
           /\ split[Len(live) + 1].done = 0
           /\ Ranged(split, job.size) /\ Apart(split)
<1>s. PICK split : split = SplitAt(i, mid)
  OBVIOUS
<1>n. PICK n : n = Len(live) + 1
  OBVIOUS
<1>1. /\ live \in Seq(Seg) /\ DOMAIN live = 1..Len(live) /\ job.size \in Nat \ {0}
      /\ Ranged(live, job.size) /\ Apart(live) /\ Len(live) \in Nat
  BY RangesFacts, LenProperties
<1>2. /\ live[i].start \in Nat /\ live[i].done \in Nat /\ live[i].end \in 0..(job.size - 1)
      /\ Frontier(i) = live[i].start + live[i].done /\ live[i] \in Seg
      /\ (live[i].start = 0 <=> i = 1) /\ live[i].start < job.size
  <2>1. live[i] \in Seg
    BY <1>1 DEF Ranged
  <2> QED BY <2>1, LiveNumbers
<1>3. /\ mid \in Nat \ {0} /\ live[i].start + live[i].done < mid /\ mid <= live[i].end
      /\ mid - 1 \in 0..(job.size - 1) /\ mid < job.size
  BY <1>1, <1>2
<1>d. PICK donor : donor = [live[i] EXCEPT !.end = mid - 1]
  OBVIOUS
<1>t. PICK tail : tail = Segment(mid, live[i].end)
  OBVIOUS
<1>4. /\ donor \in Seg /\ donor.start = live[i].start /\ donor.end = mid - 1
      /\ donor.done = live[i].done
  BY <1>2, <1>3, <1>d DEF Seg
<1>5. tail \in Seg /\ tail.start = mid /\ tail.end = live[i].end /\ tail.done = 0
  BY <1>2, <1>3, <1>t DEF Seg, Segment
<1>c. PICK cut : cut = [live EXCEPT ![i] = donor]
  OBVIOUS
<1>6. /\ cut \in Seq(Seg) /\ Len(cut) = Len(live) /\ cut[i] = donor
      /\ \A j \in DOMAIN live \ {i} : cut[j] = live[j]
  BY <1>1, <1>4, <1>c, ExceptSeq
<1>7. split = Append(cut, tail)
  BY <1>c, <1>d, <1>s, <1>t DEF SplitAt
<1>8. /\ split \in Seq(Seg) /\ Len(split) = Len(live) + 1
      /\ \A j \in 1..Len(live) : split[j] = cut[j]
      /\ split[Len(live) + 1] = tail
  <2>1. /\ Append(cut, tail) \in Seq(Seg) /\ Len(Append(cut, tail)) = Len(cut) + 1
        /\ \A j \in 1..Len(cut) : Append(cut, tail)[j] = cut[j]
        /\ Append(cut, tail)[Len(cut) + 1] = tail
    <3>1. cut \in Seq(Seg) /\ tail \in Seg
      BY <1>5, <1>6
    <3> QED BY ONLY <3>1, AppendProperties
  <2> QED BY <1>6, <1>7, <2>1
<1>9. /\ DOMAIN split = DOMAIN live \cup {n} /\ n \notin DOMAIN live /\ n # 1
      /\ split[n] = tail /\ split[i] = donor /\ \A j \in DOMAIN live \ {i} : split[j] = live[j]
  <2>1. DOMAIN split = 1..(Len(live) + 1)
    BY <1>8, LenProperties
  <2>2. 1..(Len(live) + 1) = 1..Len(live) \cup {Len(live) + 1} /\ Len(live) + 1 \notin 1..Len(live)
    BY <1>1
  <2>3. Len(live) # 0
    BY <1>1
  <2> QED BY <1>1, <1>n, <1>6, <1>8, <2>1, <2>2, <2>3
<1>10. ~IsDone(split[i])
  <2> donor.done < donor.end - donor.start + 1
    BY <1>2, <1>3, <1>4
  <2> QED BY <1>4, <1>9, <1>2, <1>3 DEF IsDone, SegSize
<1>11. Ranged(split, job.size)
  <2> SUFFICES ASSUME NEW j \in DOMAIN split
               PROVE  /\ split[j] \in Seg /\ split[j].end \in 0..(job.size - 1)
                      /\ split[j].start < job.size /\ split[j].done <= SegSize(split[j])
                      /\ (split[j].start = 0 <=> j = 1)
    BY DEF Ranged
  <2>1. CASE j = i
    <3>1. donor.done <= SegSize(donor)
      BY <1>2, <1>3, <1>4 DEF SegSize
    <3>2. split[j] = donor
      BY <1>9, <2>1
    <3> QED BY <1>2, <1>3, <1>4, <2>1, <3>1, <3>2
  <2>2. CASE j = n
    <3>1. tail.done <= SegSize(tail)
      BY <1>2, <1>3, <1>5 DEF SegSize
    <3>2. split[j] = tail
      BY <1>9, <2>2
    <3> QED BY <1>2, <1>3, <1>5, <1>9, <2>2, <3>1, <3>2
  <2>3. CASE j # i /\ j # n
    <3>1. j \in DOMAIN live /\ split[j] = live[j]
      BY <1>9, <2>3
    <3> QED BY <1>1, <3>1 DEF Ranged
  <2> QED BY <2>1, <2>2, <2>3
<1>12. Apart(split)
  <2>1. ASSUME NEW j \in DOMAIN live, j # i
        PROVE  /\ live[j].start \in Nat /\ live[j].end \in Int
               /\ live[i].end < live[j].start \/ live[j].end < live[i].start
    <3>1. live[j].start \in Nat /\ live[j].end \in Int
      BY <1>1, LiveNumbers
    <3> QED BY <1>1, <2>1, <3>1 DEF Apart
  <2>2. ASSUME NEW j \in DOMAIN live, j # i
        PROVE  /\ donor.end < split[j].start \/ split[j].end < donor.start
               /\ tail.end < split[j].start \/ split[j].end < tail.start
    <3> split[j] = live[j]
      BY <1>9, <2>2
    <3>1. /\ live[j].start \in Nat /\ live[j].end \in Int
          /\ live[i].end < live[j].start \/ live[j].end < live[i].start
      BY <2>1, <2>2
    <3>2. donor.end < live[j].start \/ live[j].end < donor.start
      BY <1>2, <1>3, <1>4, <3>1
    <3>3. tail.end < live[j].start \/ live[j].end < tail.start
      BY <1>2, <1>3, <1>5, <3>1
    <3> QED BY <3>2, <3>3
  <2>3. donor.end < tail.start
    BY <1>3, <1>4, <1>5
  <2> SUFFICES ASSUME NEW j \in DOMAIN split, NEW k \in DOMAIN split, j # k
               PROVE  split[j].end < split[k].start \/ split[k].end < split[j].start
    BY DEF Apart
  <2>4. CASE j \in {i, n} /\ k \in {i, n}
    <3>1. (j = i /\ k = n) \/ (j = n /\ k = i)
      BY <2>4
    <3>2. split[i] = donor /\ split[n] = tail
      BY <1>9
    <3> QED BY <2>3, <3>1, <3>2
  <2>5. CASE j \in {i, n} /\ k \notin {i, n}
    BY <2>2, <2>5, <1>9
  <2>6. CASE j \notin {i, n} /\ k \in {i, n}
    BY <2>2, <2>6, <1>9
  <2>7. CASE j \notin {i, n} /\ k \notin {i, n}
    <3> j \in DOMAIN live /\ k \in DOMAIN live /\ split[j] = live[j] /\ split[k] = live[k]
      BY <1>9, <2>7
    <3> QED BY <1>1 DEF Apart
  <2> QED BY <2>4, <2>5, <2>6, <2>7
<1> QED BY <1>n, <1>s, <1>4, <1>5, <1>8, <1>9, <1>10, <1>11, <1>12

\* A worker splits a busy one's range beyond its frontier.
LEMMA StealKeeps == ASSUME IInv, NEW w \in Workers, Steal(w) PROVE IInv'
<1>0. /\ pc = "ranges" /\ worker[w] = Free /\ pending = {} /\ Len(live) < MaxSlots
      /\ UNCHANGED <<world, remote, db, dbDur, part, partDur, dest, destDur, pc, job, pending, cp,
                     cancelled, faults, suspect>>
  BY DEF Steal, Running, NextFree, rowVars, fileVars
<1>p. PICK d \in Workers, mid \in 1..(job.size - 1) :
         /\ worker[d].pc # "free"
         /\ mid \in (Frontier(worker[d].slot) + 1) .. live[worker[d].slot].end
         /\ live' = Append([live EXCEPT ![worker[d].slot].end = mid - 1],
                           Segment(mid, live[worker[d].slot].end))
         /\ Becomes(w, [pc |-> "split", slot |-> Len(live) + 1,
                        rows |-> <<[slot |-> worker[d].slot, seg |-> live'[worker[d].slot]],
                                   [slot |-> Len(live) + 1,
                                    seg |-> Segment(mid, live[worker[d].slot].end)]>>])
  BY DEF Steal
<1>i. PICK i : i = worker[d].slot
  OBVIOUS
<1>n. PICK n : n = Len(live) + 1
  OBVIOUS
<1>1. i \in DOMAIN live /\ worker[d].pc # "free"
  BY <1>p, <1>i, Busy
<1>2. /\ mid \in (Frontier(i) + 1) .. live[i].end
      /\ live' = Append([live EXCEPT ![i].end = mid - 1], Segment(mid, live[i].end))
  BY <1>p, <1>i
<1>3. /\ live' \in Seq(Seg) /\ DOMAIN live' = DOMAIN live \cup {n} /\ n \notin DOMAIN live
      /\ \A j \in DOMAIN live \ {i} : live'[j] = live[j]
      /\ live'[i].start = live[i].start /\ live'[i].done = live[i].done /\ ~IsDone(live'[i])
      /\ live'[n].done = 0
      /\ Ranged(live', job.size) /\ Apart(live')
  <2>1. PICK split : split = live'
    OBVIOUS
  <2>2. split = SplitAt(i, mid)
    BY <1>2, <2>1 DEF SplitAt
  <2>3. /\ split \in Seq(Seg) /\ DOMAIN split = DOMAIN live \cup {Len(live) + 1}
        /\ Len(live) + 1 \notin DOMAIN live
        /\ \A j \in DOMAIN live \ {i} : split[j] = live[j]
        /\ split[i].start = live[i].start /\ split[i].done = live[i].done /\ ~IsDone(split[i])
        /\ split[Len(live) + 1].done = 0
        /\ Ranged(split, job.size) /\ Apart(split)
    <3>1. BaseInv /\ RunInv /\ pc = "ranges"
      BY <1>0, Parts
    <3>2. mid \in (Frontier(i) + 1) .. live[i].end
      BY <1>2
    <3> QED BY <3>1, <3>2, <1>1, SplitIs, <2>2
  <2> QED BY <2>1, <2>3, <1>n
<1>4. /\ live \in Seq(Seg) /\ DOMAIN live = 1..Len(live) /\ job.size \in Nat \ {0} /\ RangedWorld
      /\ Len(live) \in Nat
  BY <1>0, Parts, RangesFacts, LenProperties
<1>5. live'[n] = Segment(mid, live[i].end)
  <2>1. live' = Append([live EXCEPT ![i].end = mid - 1], Segment(mid, live[i].end))
    BY <1>2
  <2>2. PICK cut : cut = [live EXCEPT ![i].end = mid - 1]
    OBVIOUS
  <2>3. Len(cut) = Len(live)
    <3> DOMAIN cut = DOMAIN live
      BY <2>2
    <3> QED BY <1>4
  <2> QED BY <2>1, <2>2, <2>3, <1>4, <1>n
<1>6. ASSUME NEW j \in DOMAIN live' PROVE Live(j)' = [slot |-> j, seg |-> live'[j]] /\ RowOf(Live(j))'
  <2>1. j \in Nat
    BY <1>3, <1>4, <1>n
  <2>2. /\ live'[j] \in Seg /\ live'[j].end \in 0..(job.size - 1) /\ live'[j].done <= SegSize(live'[j])
    BY <1>3 DEF Ranged
  <2>3. Live(j)' = [slot |-> j, seg |-> live'[j]]
    BY DEF Live
  <2>4. PICK row : row = [slot |-> j, seg |-> live'[j]]
    OBVIOUS
  <2>5. row \in Row /\ row.slot = j /\ row.seg = live'[j] /\ live'[j].done \in Nat
    BY <2>1, <2>2, <2>4 DEF Row, Seg
  <2>6. RowOf(row)'
    BY <1>0, <2>2, <2>5 DEF RowOf
  <2> QED BY <2>3, <2>4, <2>6
<1>s. PICK state : state = [pc |-> "split", slot |-> n,
                          rows |-> <<[slot |-> i, seg |-> live'[i]], [slot |-> n, seg |-> live'[n]]>>]
  OBVIOUS
<1>7. Becomes(w, state)
  BY <1>p, <1>i, <1>n, <1>s, <1>5
<1>8. /\ worker' = [v \in Workers |-> worker'[v]]
      /\ worker'[w] = state /\ \A v \in Workers \ {w} : worker'[v] = worker[v]
  BY <1>7, Parts, BecomesOnly
<1>9. ASSUME NEW row, RowOf(row) PROVE RowOf(row)'
  <2>1. row.slot \in DOMAIN live
    BY <1>9 DEF RowOf
  <2>2. live[row.slot].done \in Nat
    BY <1>0, <2>1, Parts, LiveNumbers
  <2>3. live'[row.slot].start = live[row.slot].start /\ live'[row.slot].done = live[row.slot].done
    BY <1>3, <2>1
  <2> QED BY <1>0, <1>3, <1>9, <2>1, <2>2, <2>3, RowsOutlive
<1>10. BaseInv'
  BY <1>0, Parts DEF BaseInv
<1>11. StoreInv'
  BY <1>0, Parts, StoreFrame
<1>12. RunInv'
  <2>1. Shaped(live, job.size)
    BY <1>0, Parts DEF RunInv
  <2>2. n \in Slots
    BY <1>0, <1>4, <1>n, SlotsHold, TransferAssumption
  <2>3. Shaped(live, job.size)'
    BY <1>0, <1>3, <1>4, <2>1, <2>2 DEF Shaped, RangedWorld, Slots
  <2> QED BY <1>0, <1>3, <2>3, Parts DEF RunInv, RangedWorld, SizeOf
<1>13. PoolInv'
  <2>1. ASSUME NEW v \in Workers PROVE WorkerInv(worker[v])'
    <3>1. CASE v = w
      <4> PICK one, two : one = [slot |-> i, seg |-> live'[i]] /\ two = [slot |-> n, seg |-> live'[n]]
        OBVIOUS
      <4>1. /\ RowOf(one)' /\ RowOf(two)'
        <5>1. i \in DOMAIN live' /\ n \in DOMAIN live'
          BY <1>1, <1>3
        <5>2. one = Live(i)' /\ two = Live(n)'
          BY <5>1, <1>6
        <5> QED BY <5>1, <5>2, <1>6 DEF RowOf
      <4>2. one \in Row /\ two \in Row
        BY <4>1 DEF RowOf
      <4>3. <<one, two>> \in Seq(Row) /\ <<one, two>> # <<>> /\ DOMAIN <<one, two>> = {1, 2}
        BY <4>2
      <4>4. state.pc = "split" /\ state.slot = n /\ state.rows = <<one, two>> /\ state \in WorkerStates
        BY <1>n, <1>s, <1>4, <4>3 DEF WorkerStates
      <4>5. \A k \in DOMAIN state.rows : RowOf(state.rows[k])'
        BY <4>1, <4>3, <4>4
      <4>6. worker'[v] = state
        BY <1>8, <3>1
      <4>7. \A k \in DOMAIN worker'[v].rows : RowOf(worker[v].rows[k])'
        BY <4>5, <4>6
      <4> QED BY <1>0, <1>3, <4>3, <4>4, <4>6, <4>7 DEF WorkerInv
    <3>2. CASE v # w
      <4>1. worker'[v] = worker[v] /\ WorkerInv(worker[v])
        BY <1>8, <3>2, Parts DEF PoolInv
      <4>2. worker[v].pc = "wrote" => ~IsDone(live'[worker[v].slot])
        <5> SUFFICES ASSUME worker[v].pc = "wrote" PROVE ~IsDone(live'[worker[v].slot])
          OBVIOUS
        <5>1. worker[v].slot \in DOMAIN live /\ ~IsDone(live[worker[v].slot])
          BY <4>1 DEF WorkerInv
        <5>2. CASE worker[v].slot = i
          BY <1>3, <5>2
        <5>3. CASE worker[v].slot # i
          BY <1>3, <5>1, <5>3
        <5> QED BY <5>2, <5>3
      <4>3. \A k \in DOMAIN worker[v].rows : RowOf(worker[v].rows[k])'
        BY <4>1, <1>9 DEF WorkerInv
      <4>4. \A k \in DOMAIN worker'[v].rows : RowOf(worker[v].rows[k])'
        BY <4>1, <4>3 DEF RowOf
      <4> QED BY <1>0, <1>3, <4>1, <4>2, <4>4 DEF WorkerInv
    <3> QED BY <3>1, <3>2
  <2>2. ASSUME NEW u \in Workers, NEW v \in Workers,
               worker'[u].pc # "free", worker'[v].pc # "free", u # v
        PROVE  worker'[u].slot # worker'[v].slot
    <3>1. \A x \in Workers \ {w} : worker'[x].pc # "free" =>
             worker'[x] = worker[x] /\ worker[x].slot # n
      BY <1>3, <1>8, Parts DEF PoolInv, WorkerInv
    <3>2. worker'[w].slot = n
      BY <1>8, <1>s
    <3>3. CASE u = w \/ v = w
      BY <2>2, <3>1, <3>2, <3>3
    <3>4. CASE u # w /\ v # w
      BY <2>2, <3>1, <3>4, Parts DEF PoolInv
    <3> QED BY <3>3, <3>4
  <2> QED BY <1>0, <1>8, <2>1, <2>2 DEF PoolInv
<1>14. CheckpointInv'
  <2>1. \A k \in DOMAIN cp.rows : RowOf(cp.rows[k])'
    <3> SUFFICES ASSUME NEW k \in DOMAIN cp.rows PROVE RowOf(cp.rows[k])'
      OBVIOUS
    <3> PICK row : row = cp.rows[k]
      OBVIOUS
    <3>1. RowOf(row)'
      BY <1>9, Parts DEF CheckpointInv
    <3>2. cp'.rows[k] = row
      BY <1>0
    <3> QED BY <3>1, <3>2 DEF RowOf
  <2> QED BY <1>0, <2>1, Parts DEF CheckpointInv
<1>15. BarrierCountsDurableBytes'
  <2> state.pc = "split"
    BY <1>s
  <2> QED BY <1>0, <1>7, Parts, BarrierStep
<1>16. PublishInv'
  BY <1>0, Parts, PublishFrame
<1>17. ContentInv'
  <2> SUFFICES ASSUME ~suspect PROVE ContentInv'
    BY <1>0 DEF ContentInv
  <2>1. Fetched(job.version)
    BY <1>0, Parts DEF ContentInv
  <2>2. ASSUME NEW j \in DOMAIN live', NEW k \in Counted(live'[j]) PROVE part[k + 1] = job.version
    <3>1. CASE j = n
      <4>1. live'[n].start \in Nat
        BY <1>3 DEF Ranged, Seg
      <4>2. k \in live'[n].start .. (live'[n].start - 1)
        <5>1. k \in live'[n].start .. (live'[n].start + 0 - 1)
          BY <1>3, <2>2, <3>1 DEF Counted
        <5> QED BY <4>1, <5>1
      <4> QED BY <4>1, <4>2
    <3>2. CASE j # n
      <4>1. j \in DOMAIN live /\ live'[j].start = live[j].start /\ live'[j].done = live[j].done
        BY <1>3, <3>2
      <4>2. k \in Counted(live[j])
        BY <2>2, <4>1 DEF Counted
      <4> QED BY <1>0, <2>1, <4>1, <4>2 DEF Fetched
    <3> QED BY <3>1, <3>2
  <2>3. ASSUME NEW v \in Workers, worker'[v].pc = "wrote"
        PROVE  part[(live'[worker'[v].slot].start + live'[worker'[v].slot].done) + 1] = job.version
    <3>1. v # w /\ worker'[v] = worker[v]
      BY <1>8, <1>s, <2>3
    <3>2. worker[v].slot \in DOMAIN live
      BY <2>3, <3>1, Parts DEF WorkerInv, PoolInv
    <3>3. /\ live'[worker[v].slot].start = live[worker[v].slot].start
          /\ live'[worker[v].slot].done = live[worker[v].slot].done
      BY <1>3, <3>2
    <3>4. part[Frontier(worker[v].slot) + 1] = job.version
      BY <1>0, <2>1, <2>3, <3>1 DEF Fetched
    <3> QED BY <3>1, <3>3, <3>4 DEF Frontier
  <2>4. Len(part) = job.size
    BY <1>0, <2>1 DEF Fetched
  <2>5. Fetched(job.version)'
    BY <1>0, <2>2, <2>3, <2>4 DEF Fetched, Frontier, Counted
  <2> QED BY <1>0, <2>5, Parts DEF ContentInv, Whole
<1> QED BY <1>10, <1>11, <1>12, <1>13, <1>14, <1>15, <1>16, <1>17, AllParts

-----------------------------------------------------------------------------
(* The theorems.                                                             *)

\* The initial states.
LEMMA InitKeeps == Init => IInv
<1> SUFFICES ASSUME Init PROVE IInv
  OBVIOUS
<1>0. \A S : <<>> \in Seq(S) /\ Len(<<>>) = 0
  OBVIOUS
<1>1. BaseInv
  <2>1. remote \in Versions
    BY WorldsAssumption DEF Init
  <2>2. /\ world \in Worlds /\ pc = "idle" /\ cancelled = FALSE /\ faults = 0 /\ suspect = FALSE
        /\ part = <<>> /\ partDur = <<>> /\ dest = <<>> /\ destDur = <<>>
    BY DEF Init, Absent
  <2>3. 0 \in 0..MaxFaults
    BY TransferAssumption
  <2> QED BY <1>0, <2>1, <2>2, <2>3 DEF BaseInv
<1>2. StoreInv
  <2> DOMAIN NoRows = {}
    BY DEF NoRows
  <2> QED BY DEF Init, StoreInv, RecordInv
<1>3. RunInv
  BY DEF Init, RunInv
<1>4. \A w \in Workers : worker[w] = Free
  BY DEF Init
<1>5. PoolInv
  BY <1>4, FreeIsFine DEF Init, PoolInv, Free
<1>6. CheckpointInv
  BY <1>0 DEF Init, CheckpointInv, Idle
<1>7. BarrierCountsDurableBytes
  BY <1>4 DEF Init, BarrierCountsDurableBytes, Free, Idle
<1>8. PublishInv
  BY DEF Init, PublishInv, Absent
<1>9. ContentInv
  BY DEF Init, ContentInv, Fetched, Absent
<1> QED BY <1>1, <1>2, <1>3, <1>5, <1>6, <1>7, <1>8, <1>9 DEF IInv

\* The invariant is of the state.
LEMMA StutterKeeps == ASSUME IInv, UNCHANGED vars PROVE IInv'
<1>1. UNCHANGED <<world, remote, db, dbDur, part, partDur, dest, destDur, pc, job, live, pending,
                  worker, cp, cancelled, faults, suspect>>
  BY DEF vars, rowVars, fileVars, memVars
<1>2. BaseInv' /\ StoreInv' /\ PublishInv'
  BY <1>1, Parts, StoreFrame DEF BaseInv, PublishInv, Matches
<1>3. RunInv'
  <2> Len(part') = Len(part) /\ DOMAIN db.segs = DOMAIN db'.segs
    BY <1>1
  <2> QED BY <1>1, Parts, RunFrame
<1>4. CheckpointInv' /\ BarrierCountsDurableBytes'
  BY <1>1, Parts, CheckpointFrame DEF BarrierCountsDurableBytes, Durable
<1>5. PoolInv'
  <2>1. \A w \in Workers : WorkerInv(worker[w])'
    <3> SUFFICES ASSUME NEW w \in Workers PROVE WorkerInv(worker[w])'
      OBVIOUS
    <3> WorkerInv(worker[w])
      BY Parts DEF PoolInv
    <3> QED BY <1>1 DEF WorkerInv, RowOf
  <2> QED BY <1>1, <2>1, Parts DEF PoolInv
<1>6. ContentInv'
  BY <1>1, Parts DEF ContentInv, Fetched, Frontier, Counted, Whole, Matches
<1> QED BY <1>2, <1>3, <1>4, <1>5, <1>6, AllParts

\* Every step keeps the invariant.
LEMMA NextKeeps == ASSUME IInv, [Next]_vars PROVE IInv'
<1>1. CASE Run \/ Open
  BY <1>1, RunKeeps, OpenKeeps
<1>2. CASE Dispatch
  BY <1>2, TakeKeeps DEF Dispatch
<1>3. ASSUME NEW w \in Workers, Stream(w) \/ Steal(w) \/ Break(w) PROVE IInv'
  BY <1>3, WriteKeeps, PublishKeeps, RangeRefusedKeeps, FlushFinalKeeps, PersistRowKeeps,
     RetryKeeps, GiveUpKeeps, StealKeeps, BreakKeeps DEF Stream
<1>4. CASE TickSnapshot \/ Tick
  BY <1>4, TickSnapshotKeeps, TickSyncKeeps, TickPersistKeeps DEF Tick
<1>5. CASE Body
  BY <1>5, BodyAttemptKeeps, BodyWriteKeeps, BodyEndsKeeps, BodyGivesUpKeeps DEF Body
<1>6. CASE Finish
  BY <1>6, EndRangesKeeps, FinalSyncKeeps, VerifyChecksumKeeps, RenameKeeps, SyncDirKeeps,
     FinishCompletedKeeps, FailSyncKeeps, FinishFailedKeeps DEF Finish
<1>7. CASE Environment
  BY <1>7, KillKeeps, PowerLossKeeps, LosePartKeeps, RemoteChangesKeeps, CancelKeeps,
     BodyBreaksKeeps, OpenFailsKeeps DEF Environment
<1>8. CASE UNCHANGED vars
  BY <1>8, StutterKeeps
<1> QED BY <1>1, <1>2, <1>3, <1>4, <1>5, <1>6, <1>7, <1>8 DEF Next

(***************************************************************************)
(* Every reachable state satisfies the inductive invariant.                *)
(***************************************************************************)
THEOREM Invariant == Spec => []IInv
<1>1. Init => IInv
  BY InitKeeps
<1>2. IInv /\ [Next]_vars => IInv'
  BY NextKeeps
<1> QED BY <1>1, <1>2, PTL DEF Spec

(***************************************************************************)
(* The types of the model hold.                                            *)
(***************************************************************************)
THEOREM TypeCorrect == Spec => []TypeOK
<1>1. IInv => TypeOK
  <2> SUFFICES ASSUME IInv PROVE TypeOK
    OBVIOUS
  <2>1. Slots = 1..Max({MaxSlots, SegmentCount})
    BY DEF Slots
  <2>2. \A row \in {db, dbDur} :
          /\ row.status \in {"queued", "active", "failed", "completed"}
          /\ row.tag \in Versions \cup {0} /\ row.size \in Nat \cup {-1}
          /\ DOMAIN row.segs \subseteq Slots
    BY Parts DEF StoreInv, RecordInv, Shaped
  <2>3. pending \subseteq Slots
    BY Parts DEF PoolInv, RunInv, Shaped
  <2>4. \A w \in Workers :
          /\ worker[w].pc \in {"free", "stream", "wrote", "broken", "split", "eof", "error"}
          /\ worker[w].rows \in Seq(Row)
    BY Parts DEF PoolInv, WorkerInv, WorkerStates
  <2>5. cp.pc \in {"wait", "snapped", "synced"} /\ cp.rows \in Seq(Row)
    BY Parts DEF CheckpointInv
  <2> QED BY <2>1, <2>2, <2>3, <2>4, <2>5, Parts DEF TypeOK, BaseInv
<1> QED BY <1>1, Invariant, PTL

(***************************************************************************)
(* No counter that a tick or the end of a stream persists is ahead of the  *)
(* bytes on the disk, whatever the other workers wrote since: the order    *)
(* that checkpoint.go calls load-bearing, for any number of workers and    *)
(* segments.                                                               *)
(***************************************************************************)
THEOREM BarrierHolds == Spec => []BarrierCountsDurableBytes
<1>1. IInv => BarrierCountsDurableBytes
  BY Parts
<1> QED BY <1>1, Invariant, PTL

(***************************************************************************)
(* Unless the download did what its code cannot detect, the destination is *)
(* absent or exactly one version of the remote file, through every         *)
(* interruption, resume, steal and crash.                                  *)
(***************************************************************************)
THEOREM CompletedHolds == Spec => []CompletedIsExact
<1>1. IInv => CompletedIsExact
  BY Parts DEF ContentInv, CompletedIsExact
<1> QED BY <1>1, Invariant, PTL

(***************************************************************************)
(* A download recorded as completed has its whole file on the disk: no     *)
(* power loss keeps the record and loses the file.                         *)
(***************************************************************************)
THEOREM RecordedHolds == Spec => []RecordedIsDurable
<1>1. IInv => RecordedIsDurable
  BY Parts DEF ContentInv, PublishInv, RecordedIsDurable
<1> QED BY <1>1, Invariant, PTL

(***************************************************************************)
(* With a checksum, only the file that the checksum is of is ever          *)
(* published, also by a suspect download.                                  *)
(***************************************************************************)
THEOREM ChecksumHolds == Spec => []ChecksumGuards
<1>1. IInv => ChecksumGuards
  BY Parts DEF PublishInv, ChecksumGuards
<1> QED BY <1>1, Invariant, PTL

-----------------------------------------------------------------------------
(* The refinement.                                                           *)

\* A whole file is of a version.
LEMMA WholeHasVersion ==
    ASSUME NEW file, Whole(file)
    PROVE  VersionOf(file) \in Versions
<1>1. PICK v \in Versions : file = [i \in 1..Size[v] |-> v]
  BY DEF Whole
<1>2. file # Absent
  <2>1. Size[v] \in Nat \ {0}
    BY SizesArePositive
  <2>2. 1 \in DOMAIN file
    BY <1>1, <2>1
  <2> QED BY <2>2 DEF Absent
<1>3. \E u \in Versions : Matches(file, u)
  BY <1>1 DEF Matches
<1>4. VersionOf(file) = CHOOSE u \in Versions : Matches(file, u)
  BY <1>2 DEF VersionOf
<1> QED BY <1>3, <1>4

\* A destination's version is a version of the remote file, none, or other.
LEMMA VersionRange ==
    ASSUME NEW file
    PROVE  VersionOf(file) \in Versions \cup {0, -1}
<1>1. CASE file = Absent
  BY <1>1 DEF VersionOf
<1>2. CASE file # Absent /\ Whole(file)
  BY <1>2, WholeHasVersion
<1>3. CASE file # Absent /\ ~Whole(file)
  BY <1>3 DEF VersionOf
<1> QED BY <1>1, <1>2, <1>3

\* A step that leaves the destination and the fact of its record alone.
LEMMA TaintStep ==
    ASSUME UNCHANGED <<dest, destDur>>, suspect => suspect',
           db'.status = "completed" <=> db.status = "completed"
    PROVE  Published!Next
<1>1. VersionOf(dest)' = VersionOf(dest) /\ VersionOf(destDur)' = VersionOf(destDur)
  BY DEF VersionOf, Whole, Matches
<1> QED BY <1>1 DEF Published!Next, Published!Taint, Published!Taints

\* A step that makes durable what is shown is a Settle of Publication.
LEMMA SettleStep ==
    ASSUME dest' = dest, destDur' = dest, suspect => suspect',
           db'.status = "completed" <=> db.status = "completed"
    PROVE  Published!Next
<1>1. VersionOf(dest)' = VersionOf(dest) /\ VersionOf(destDur)' = VersionOf(dest)
  BY DEF VersionOf, Whole, Matches
<1> QED BY <1>1 DEF Published!Next, Published!Settle, Published!Taints

\* The rename publishes a whole version, or anything once it is suspect.
LEMMA RenameStep == ASSUME IInv, Rename PROVE Published!Next
<1>0. pc = "rename" /\ UNCHANGED <<db, destDur, suspect>>
  BY DEF Rename, rowVars
<1>1. db.status = "active"
  BY <1>0, Parts DEF RunInv
<1>2. CASE dest' = part
  <2>1. VersionOf(dest)' \in Versions \cup {0, -1}
    <3>1. VersionOf(part) \in Versions \cup {0, -1}
      BY VersionRange
    <3> QED BY <1>2, <3>1 DEF VersionOf, Whole, Matches
  <2>2. ~suspect => VersionOf(dest)' \in Versions
    <3> SUFFICES ASSUME ~suspect PROVE VersionOf(dest)' \in Versions
      OBVIOUS
    <3>1. Matches(part, job.version) /\ job.version \in Versions
      BY <1>0, Parts DEF ContentInv, Fetched, RunInv
    <3>2. VersionOf(part) \in Versions
      BY <3>1, WholeHasVersion DEF Whole, Matches
    <3> QED BY <1>2, <3>2 DEF VersionOf, Whole, Matches
  <2>3. VersionOf(destDur)' = VersionOf(destDur)
    BY <1>0 DEF VersionOf, Whole, Matches
  <2> QED BY <1>0, <1>1, <2>1, <2>2, <2>3 DEF Published!Next, Published!Publish
<1>3. CASE dest' = dest
  BY <1>0, <1>3, TaintStep
<1> QED BY <1>2, <1>3 DEF Rename

\* The record of completion comes once what is shown is durable.
LEMMA RecordStep == ASSUME IInv, FinishCompleted PROVE Published!Next
<1>0. pc = "complete" /\ UNCHANGED <<dest, destDur, suspect>>
  BY DEF FinishCompleted, fileVars
<1>1. CASE Record("completed")
  <2>1. db'.status = "completed"
    BY <1>0, <1>1, Parts, RecordKeeps DEF FinishCompleted
  <2>2. dest = destDur
    BY <1>0, Parts DEF PublishInv
  <2>3. VersionOf(dest) = 0 => suspect
    <3> SUFFICES ASSUME ~suspect PROVE VersionOf(dest) # 0
      OBVIOUS
    <3>1. Whole(dest)
      BY <1>0, Parts DEF ContentInv
    <3> QED BY <3>1, WholeHasVersion, SizesArePositive
  <2>4. VersionOf(dest)' = VersionOf(dest) /\ VersionOf(destDur)' = VersionOf(destDur)
    BY <1>0 DEF VersionOf, Whole, Matches
  <2> QED BY <1>0, <2>1, <2>2, <2>3, <2>4 DEF Published!Next, Published!Record
<1>2. CASE UNCHANGED rowVars
  <2> db' = db
    BY <1>2 DEF rowVars
  <2> QED BY <1>0, TaintStep
<1> QED BY <1>1, <1>2 DEF FinishCompleted

\* A power loss is a PowerLoss of Publication.
LEMMA PowerLossStep == ASSUME IInv, PowerLoss PROVE Published!Next
<1>0. /\ dest' \in {dest, destDur} /\ destDur' = dest' /\ UNCHANGED suspect
      /\ db'.status = "completed" => db.status = "completed"
  BY Parts, PowerLossShows DEF PowerLoss, StoreInv
<1>1. /\ VersionOf(dest)' \in {VersionOf(dest), VersionOf(destDur)}
      /\ VersionOf(destDur)' = VersionOf(dest)'
  BY <1>0 DEF VersionOf, Whole, Matches
<1> QED BY <1>0, <1>1 DEF Published!Next, Published!PowerLoss

\* Every step is a step of Publication.
LEMMA StepPublishes == ASSUME IInv, Next PROVE Published!Next
<1>a. suspect \in BOOLEAN
  BY Parts DEF BaseInv
<1>1. CASE Run
  BY <1>1, TaintStep DEF Run, Save, fileVars
<1>2. CASE Open
  <2>1. dest' = dest /\ db' = db
    BY <1>2 DEF Open, rowVars
  <2>2. destDur' = dest
    BY <1>2, Parts DEF Open, OpenPart, PublishInv
  <2>3. suspect => suspect'
    BY <1>2 DEF Open
  <2> QED BY <2>1, <2>2, <2>3, SettleStep
<1>3. CASE Dispatch
  BY <1>3, TaintStep DEF Dispatch, Take, rowVars, fileVars
<1>4. ASSUME NEW w \in Workers, Stream(w) \/ Steal(w) \/ Break(w) PROVE Published!Next
  <2>1. UNCHANGED <<dest, destDur, suspect>>
    BY <1>4 DEF Stream, Write, Publish, RangeRefused, FlushFinal, PersistRow, Retry, GiveUp,
                Steal, Break, fileVars
  <2>2. db'.status = db.status
    BY <1>4, Parts DEF Stream, Write, Publish, RangeRefused, FlushFinal, PersistRow, Retry, GiveUp,
                Steal, Break, rowVars, UpdateSegment, StoreInv, RecordInv
  <2> QED BY <2>1, <2>2, TaintStep
<1>5. CASE TickSnapshot \/ Tick
  <2>1. UNCHANGED <<dest, destDur, suspect>>
    BY <1>5 DEF TickSnapshot, Tick, TickSync, TickPersist, fileVars
  <2>2. db'.status = db.status
    BY <1>5, Parts DEF TickSnapshot, Tick, TickSync, TickPersist, rowVars, UpdateSegment,
                       StoreInv, RecordInv
  <2> QED BY <2>1, <2>2, TaintStep
<1>6. CASE Body
  <2>1. UNCHANGED <<dest, destDur, db>>
    BY <1>6 DEF Body, BodyAttempt, BodyWrite, BodyEnds, BodyGivesUp, rowVars, fileVars
  <2>2. suspect => suspect'
    <3>1. CASE BodyEnds
      BY <3>1 DEF BodyEnds
    <3>2. CASE BodyAttempt \/ BodyWrite \/ BodyGivesUp
      BY <3>2 DEF BodyAttempt, BodyWrite, BodyGivesUp
    <3> QED BY <1>6, <3>1, <3>2 DEF Body
  <2> QED BY <2>1, <2>2, TaintStep
<1>7. CASE Finish
  <2>1. CASE EndRanges \/ FinalSync \/ VerifyChecksum \/ FailSync
    <3> UNCHANGED <<dest, destDur, db, suspect>>
      BY <2>1 DEF EndRanges, FinalSync, VerifyChecksum, FailSync, rowVars, fileVars
    <3> QED BY TaintStep
  <2>2. CASE Rename
    BY <2>2, RenameStep
  <2>3. CASE SyncDir
    <3>1. UNCHANGED <<dest, db, suspect>>
      BY <2>3 DEF SyncDir, rowVars
    <3>2. destDur' = dest \/ destDur' = destDur
      BY <2>3, Parts DEF SyncDir, PublishInv
    <3> QED BY <3>1, <3>2, TaintStep, SettleStep
  <2>4. CASE FinishCompleted
    BY <2>4, RecordStep
  <2>5. CASE FinishFailed
    <3>1. UNCHANGED <<dest, destDur, suspect>> /\ pc = "failed"
      BY <2>5 DEF FinishFailed, fileVars
    <3>2. db.status # "completed"
      BY <3>1, Parts DEF RunInv
    <3>3. db'.status # "completed"
      <4>1. CASE Record("failed")
        BY <4>1, <2>5, <3>1, Parts, RecordKeeps DEF FinishFailed
      <4>2. CASE UNCHANGED rowVars
        BY <3>2, <4>2 DEF rowVars
      <4> QED BY <2>5, <4>1, <4>2 DEF FinishFailed
    <3> QED BY <3>1, <3>2, <3>3, TaintStep
  <2> QED BY <1>7, <2>1, <2>2, <2>3, <2>4, <2>5 DEF Finish
<1>8. CASE Environment
  <2>1. CASE PowerLoss
    BY <2>1, PowerLossStep
  <2>2. CASE Kill \/ LosePart \/ RemoteChanges \/ Cancel \/ BodyBreaks \/ OpenFails
    <3>1. UNCHANGED <<dest, destDur, db>>
      BY <2>2 DEF Kill, LosePart, RemoteChanges, Cancel, BodyBreaks, OpenFails, rowVars, fileVars
    <3>2. suspect => suspect'
      <4>1. CASE RemoteChanges
        BY <4>1 DEF RemoteChanges
      <4>2. CASE Kill \/ LosePart \/ Cancel \/ BodyBreaks \/ OpenFails
        BY <4>2 DEF Kill, LosePart, Cancel, BodyBreaks, OpenFails
      <4> QED BY <2>2, <4>1, <4>2
    <3> QED BY <3>1, <3>2, TaintStep
  <2> QED BY <1>8, <2>1, <2>2 DEF Environment
<1> QED BY <1>1, <1>2, <1>3, <1>4, <1>5, <1>6, <1>7, <1>8 DEF Next

(***************************************************************************)
(* A download implements Publication: the initial states map to its        *)
(* initial state, and every step to one of its steps or to none.           *)
(***************************************************************************)
THEOREM RefinesPublication == Spec => ImplementsPublication
<1>1. Init => Published!Init
  BY DEF Init, Published!Init, VersionOf, Absent
<1>2. IInv /\ [Next]_vars => [Published!Next]_(Published!vars)
  <2>1. ASSUME IInv, Next PROVE Published!Next
    BY <2>1, StepPublishes
  <2>2. ASSUME UNCHANGED vars PROVE UNCHANGED Published!vars
    <3>1. UNCHANGED <<dest, destDur, db, suspect>>
      BY <2>2 DEF vars, rowVars, fileVars
    <3> QED BY <3>1 DEF Published!vars, VersionOf, Whole, Matches
  <2> QED BY <2>1, <2>2
<1> QED BY <1>1, <1>2, Invariant, PTL DEF Spec, ImplementsPublication, Published!Spec

-----------------------------------------------------------------------------
(* The layout.                                                               *)

(***************************************************************************)
(* What LayoutTiles needs of the settings: where workers steal, a fresh    *)
(* plan has two or more segments. The defaults have it, for they split no  *)
(* lone plan: one is made for a file below two minimum segments, and       *)
(* min_steal_size is minSegmentSize. A download planned with one segment   *)
(* and resumed with more has it not, and there LayoutTiles is false: a     *)
(* kill between the two rows of the first split leaves the donor's         *)
(* shortened row alone in the database, and no repair mends a lone row.    *)
(***************************************************************************)
TwoSegmentPlans ==
    \A w \in Worlds :
        w.stealing => SegmentCount >= 2 /\ \A v \in Versions : Size[v] \div MinSegment >= 2

\* A layout of one segment.
Lone(segs) == DOMAIN segs = {1}

\* A lone segment is the whole file, of a download that no worker steals from.
Fit(segs, size) == Lone(segs) => ~world.stealing /\ segs[1].end = size - 1

\* Rows that end where the file does.
AtEnd(rows) == \A i \in DOMAIN rows : rows[i].seg.end = job.size - 1

\* The layout covers the file while ranges are streamed; a lone row, in the database or
\* in a worker's hands, ends where the file does.
LayoutInv ==
    /\ Fit(db.segs, db.size) /\ Fit(dbDur.segs, dbDur.size)
    /\ pc # "idle" => Fit(live, job.size) /\ (Lone(db.segs) => Lone(live))
    /\ pc = "ranges" \/ (pc = "open" /\ job.fresh) => Covers(live, job.size)
    /\ Lone(live) => (\A w \in Workers : AtEnd(worker[w].rows)) /\ AtEnd(cp.rows)

\* It is a matter of layouts of ranges only.
TilingInv == RangedWorld => LayoutInv

\* No rows are no lone row.
LEMMA NotLone == ~Lone(<<>>) /\ ~Lone(NoRows)
BY DEF Lone, NoRows

\* A step that leaves rows and layout alone, and brings no run closer to its ranges.
LEMMA LayoutFrame ==
    ASSUME LayoutInv, UNCHANGED <<world, db, dbDur, job, live>>,
           pc' = pc \/ (pc # "idle" /\ pc' \notin {"idle", "open", "ranges"}),
           Lone(live) => (\A w \in Workers : AtEnd(worker[w].rows)') /\ AtEnd(cp.rows)'
    PROVE  LayoutInv'
<1>1. Fit(db.segs, db.size)' /\ Fit(dbDur.segs, dbDur.size)'
  BY DEF LayoutInv, Fit, Lone
<1>2. pc' # "idle" => Fit(live, job.size)' /\ (Lone(db.segs)' => Lone(live)')
  BY DEF LayoutInv, Fit, Lone
<1>3. pc' = "ranges" \/ (pc' = "open" /\ job'.fresh) => Covers(live, job.size)'
  BY DEF LayoutInv, Covers
<1>4. Lone(live)' => (\A w \in Workers : AtEnd(worker[w].rows)') /\ AtEnd(cp.rows)'
  BY DEF Lone
<1> QED BY <1>1, <1>2, <1>3, <1>4 DEF LayoutInv

\* As LayoutFrame, for a step that leaves the pool alone too.
LEMMA LayoutQuiet ==
    ASSUME LayoutInv, UNCHANGED <<world, db, dbDur, job, live, worker, cp>>,
           pc' = pc \/ (pc # "idle" /\ pc' \notin {"idle", "open", "ranges"})
    PROVE  LayoutInv'
<1>1. Lone(live) => (\A w \in Workers : AtEnd(worker[w].rows)') /\ AtEnd(cp.rows)'
  BY DEF LayoutInv, AtEnd
<1> QED BY <1>1, LayoutFrame

\* A run has ended.
LEMMA LayoutEnds ==
    ASSUME pc' = "idle", live' = <<>>, Fit(db.segs, db.size)', Fit(dbDur.segs, dbDur.size)'
    PROVE  LayoutInv'
BY NotLone DEF LayoutInv, Lone

\* One worker's rows change, in a pool whose layout does not.
LEMMA RowsStep ==
    ASSUME LayoutInv, PoolInv, pc # "idle", pc' = pc, UNCHANGED <<world, job, live, cp>>,
           Fit(db.segs, db.size)', Fit(dbDur.segs, dbDur.size)', Lone(db.segs)' => Lone(live),
           NEW w \in Workers, NEW state, Becomes(w, state), Lone(live) => AtEnd(state.rows)
    PROVE  LayoutInv'
<1>1. worker'[w] = state /\ \A v \in Workers \ {w} : worker'[v] = worker[v]
  BY BecomesOnly
<1>2. Lone(live)' => (\A v \in Workers : AtEnd(worker[v].rows)') /\ AtEnd(cp.rows)'
  <2> SUFFICES ASSUME Lone(live)
               PROVE  (\A v \in Workers : AtEnd(worker[v].rows)') /\ AtEnd(cp.rows)'
    BY DEF Lone
  <2>1. (\A v \in Workers : AtEnd(worker[v].rows)) /\ AtEnd(cp.rows)
    BY DEF LayoutInv
  <2>2. ASSUME NEW v \in Workers PROVE AtEnd(worker[v].rows)'
    <3>1. CASE v = w
      BY <1>1, <3>1 DEF AtEnd
    <3>2. CASE v # w
      BY <1>1, <2>1, <3>2 DEF AtEnd
    <3> QED BY <3>1, <3>2
  <2> QED BY <2>1, <2>2 DEF AtEnd
<1>3. pc' # "idle" => Fit(live, job.size)' /\ (Lone(db.segs)' => Lone(live)')
  BY DEF LayoutInv, Fit, Lone
<1>4. pc' = "ranges" \/ (pc' = "open" /\ job'.fresh) => Covers(live, job.size)'
  BY DEF LayoutInv, Covers
<1> QED BY <1>2, <1>3, <1>4 DEF LayoutInv

\* As RowsStep, for a step that leaves the database alone too.
LEMMA RowsOnly ==
    ASSUME LayoutInv, PoolInv, pc # "idle", pc' = pc, UNCHANGED <<world, db, dbDur, job, live, cp>>,
           NEW w \in Workers, NEW state, Becomes(w, state), Lone(live) => AtEnd(state.rows)
    PROVE  LayoutInv'
<1>1. Fit(db.segs, db.size)' /\ Fit(dbDur.segs, dbDur.size)' /\ (Lone(db.segs)' => Lone(live))
  BY DEF LayoutInv, Fit, Lone
<1> QED BY <1>1, RowsStep

\* Persisting one row does not change whether the database has a lone one.
LEMMA UpdateFits ==
    ASSUME LayoutInv, StoreInv, RunInv, pc = "ranges", UNCHANGED world,
           NEW row, RowOf(row), UpdateSegment(row), Lone(live) => row.seg.end = job.size - 1
    PROVE  /\ Fit(db.segs, db.size)' /\ Fit(dbDur.segs, dbDur.size)'
           /\ Lone(db.segs)' => Lone(live)
<1> DEFINE segs == [i \in DOMAIN db.segs \cup {row.slot} |->
                      IF i = row.slot THEN row.seg ELSE db.segs[i]]
<1>1. db' = [db EXCEPT !.segs = segs] /\ dbDur' = db
  BY DEF UpdateSegment
<1>2. /\ RecordInv(db) /\ DOMAIN db.segs # {} /\ job.size = db.size
  BY DEF StoreInv, RunInv
<1>3. db' = [status |-> db.status, tag |-> db.tag, size |-> db.size, segs |-> segs]
  <2> HIDE DEF segs
  <2> QED BY <1>1, <1>2 DEF RecordInv
<1>4. db'.segs = segs /\ db'.size = db.size
  <2> HIDE DEF segs
  <2> QED BY <1>3
<1>5. 1 \in DOMAIN db.segs
  BY <1>2 DEF RecordInv, Shaped
<1>6. ASSUME Lone(segs) PROVE Lone(db.segs) /\ row.slot = 1 /\ segs[1] = row.seg
  <2>1. DOMAIN segs = DOMAIN db.segs \cup {row.slot}
    OBVIOUS
  <2>2. row.slot = 1 /\ DOMAIN db.segs = {1}
    BY <1>5, <1>6, <2>1 DEF Lone
  <2> QED BY <2>2 DEF Lone
<1> HIDE DEF segs
<1>7. Lone(db.segs) => ~world.stealing /\ Lone(live)
  BY DEF LayoutInv, Fit
<1>8. Fit(db.segs, db.size)' /\ (Lone(db.segs)' => Lone(live))
  BY <1>2, <1>4, <1>6, <1>7 DEF Fit, Lone
<1>9. Fit(dbDur.segs, dbDur.size)'
  BY <1>1 DEF LayoutInv, Fit, Lone
<1> QED BY <1>8, <1>9

\* A lone segment, read now, ends where the file does.
LEMMA LoneRowAtEnd ==
    ASSUME LayoutInv, pc # "idle", Lone(live), NEW i \in DOMAIN live
    PROVE  Live(i).seg.end = job.size - 1
BY DEF LayoutInv, Lone, Fit, Live

\* A worker's steps that change no segment.
LEMMA WorkersTile ==
    ASSUME IInv, LayoutInv, NEW w \in Workers,
           Take(w) \/ Write(w) \/ RangeRefused(w) \/ Break(w) \/ Retry(w) \/ GiveUp(w)
    PROVE  LayoutInv'
<1>1. CASE Take(w)
  <2>1. PICK state : /\ state = [pc |-> "stream", slot |-> Min(pending), rows |-> <<>>]
                     /\ Becomes(w, state)
    BY <1>1 DEF Take
  <2>2. AtEnd(state.rows)
    BY <2>1 DEF AtEnd
  <2> QED BY <1>1, <2>1, <2>2, Parts, RowsOnly DEF Take, Running, rowVars
<1>2. CASE Write(w) \/ RangeRefused(w) \/ Break(w) \/ Retry(w)
  <2>1. PICK next : Becomes(w, [worker[w] EXCEPT !.pc = next])
    BY <1>2 DEF Write, RangeRefused, Break, Retry
  <2>2. worker[w].pc # "free" /\ UNCHANGED <<world, db, dbDur, pc, job, live, cp>>
    BY <1>2 DEF Write, RangeRefused, Break, Retry, rowVars
  <2>3. pc = "ranges" /\ worker[w] = [pc |-> worker[w].pc, slot |-> worker[w].slot, rows |-> worker[w].rows]
    BY <2>2, Busy
  <2>4. PICK state : state = [worker[w] EXCEPT !.pc = next]
    OBVIOUS
  <2>5. state.rows = worker[w].rows
    BY <2>3, <2>4
  <2>6. Lone(live) => AtEnd(state.rows)
    BY <2>5 DEF LayoutInv
  <2>7. Becomes(w, state)
    BY <2>1, <2>4
  <2> QED BY <2>2, <2>3, <2>6, <2>7, Parts, RowsOnly
<1>3. CASE GiveUp(w)
  <2>1. worker[w].pc # "free"
    BY <1>3 DEF GiveUp
  <2>2. pc = "ranges"
    BY <2>1, Busy
  <2>3. AtEnd(Free.rows)
    BY DEF AtEnd, Free
  <2> QED BY <1>3, <2>2, <2>3, Parts, RowsOnly DEF GiveUp, rowVars
<1> QED BY <1>1, <1>2, <1>3

\* A counter grows.
LEMMA PublishTiles == ASSUME IInv, LayoutInv, NEW w \in Workers, Publish(w) PROVE LayoutInv'
<1>1. worker[w].pc = "wrote" /\ UNCHANGED <<world, db, dbDur, pc, job, cp>>
  BY DEF Publish, rowVars
<1>2. /\ pc = "ranges" /\ worker[w].slot \in DOMAIN live
      /\ worker[w] = [pc |-> worker[w].pc, slot |-> worker[w].slot, rows |-> worker[w].rows]
  BY <1>1, Busy
<1>3. PICK i : i = worker[w].slot
  OBVIOUS
<1>4. live' = [live EXCEPT ![i].done = @ + 1]
  BY <1>3 DEF Publish
<1>5. /\ DOMAIN live' = DOMAIN live
      /\ \A j \in DOMAIN live : live'[j].start = live[j].start /\ live'[j].end = live[j].end
  <2>1. \A j \in DOMAIN live : live[j] \in Seg
    BY <1>2, Parts, RangesFacts DEF Ranged
  <2>2. \A j \in DOMAIN live :
          live[j] = [start |-> live[j].start, end |-> live[j].end, done |-> live[j].done]
    BY <2>1 DEF Seg
  <2>3. DOMAIN live' = DOMAIN live
    BY <1>4
  <2>4. \A j \in DOMAIN live : live'[j] = IF j = i THEN [live[i] EXCEPT !.done = @ + 1] ELSE live[j]
    BY <1>4
  <2> QED BY <2>2, <2>3, <2>4
<1>6. Fit(db.segs, db.size)' /\ Fit(dbDur.segs, dbDur.size)'
  BY <1>1 DEF LayoutInv, Fit, Lone
<1>7. pc' # "idle" => Fit(live, job.size)' /\ (Lone(db.segs)' => Lone(live)')
  BY <1>1, <1>2, <1>5 DEF LayoutInv, Fit, Lone
<1>8. Covers(live, job.size)'
  BY <1>1, <1>2, <1>5 DEF LayoutInv, Covers
<1>9. Lone(live)' => (\A v \in Workers : AtEnd(worker[v].rows)') /\ AtEnd(cp.rows)'
  <2> SUFFICES ASSUME Lone(live)
               PROVE  (\A v \in Workers : AtEnd(worker[v].rows)') /\ AtEnd(cp.rows)'
    BY <1>5 DEF Lone
  <2>1. (\A v \in Workers : AtEnd(worker[v].rows)) /\ AtEnd(cp.rows)
    BY DEF LayoutInv
  <2>2. \A v \in Workers : worker'[v].rows = worker[v].rows
    <3>1. PICK state : state = [worker[w] EXCEPT !.pc = "stream"]
      OBVIOUS
    <3>2. state.rows = worker[w].rows
      BY <1>2, <3>1
    <3>3. Becomes(w, state)
      BY <3>1 DEF Publish
    <3>4. worker'[w] = state /\ \A v \in Workers \ {w} : worker'[v] = worker[v]
      BY <3>3, Parts, BecomesOnly
    <3> QED BY <3>2, <3>4
  <2> QED BY <1>1, <2>1, <2>2 DEF AtEnd
<1> QED BY <1>6, <1>7, <1>8, <1>9 DEF LayoutInv

\* What is left of rows at the end is at the end.
LEMMA PersistedRows ==
    ASSUME NEW state \in WorkerStates
    PROVE  state.pc \in {"split", "eof", "error"} =>
             Persisted(state).rows = state.rows \/ Persisted(state).rows = <<>>
<1>1. CASE state.rows # <<>>
  BY <1>1 DEF Persisted
<1>2. CASE state.rows = <<>> /\ state.pc = "split"
  BY <1>2 DEF Persisted, WorkerStates
<1>3. CASE state.rows = <<>> /\ state.pc = "eof"
  BY <1>3 DEF Persisted, Free
<1>4. CASE state.rows = <<>> /\ state.pc = "error"
  BY <1>4 DEF Persisted
<1> QED BY <1>1, <1>2, <1>3, <1>4

\* A stream's last row is read.
LEMMA FlushTiles == ASSUME IInv, LayoutInv, NEW w \in Workers, FlushFinal(w) PROVE LayoutInv'
<1>1. /\ worker[w].pc \in {"broken", "stream"}
      /\ UNCHANGED <<world, db, dbDur, pc, job, live, cp>>
  BY DEF FlushFinal, rowVars
<1>2. /\ pc = "ranges" /\ worker[w].slot \in DOMAIN live /\ worker[w].rows = <<>>
      /\ worker[w] = [pc |-> worker[w].pc, slot |-> worker[w].slot, rows |-> worker[w].rows]
      /\ worker[w] \in WorkerStates
  BY <1>1, Busy DEF WorkerInv
<1>3. PICK ended : ended = IF worker[w].pc = "broken" THEN "error" ELSE "eof"
  OBVIOUS
<1>4. PICK row : row = Live(worker[w].slot)
  OBVIOUS
<1>5. CASE Becomes(w, [worker[w] EXCEPT !.pc = ended, !.rows = <<row>>])
  <2>1. PICK state : state = [worker[w] EXCEPT !.pc = ended, !.rows = <<row>>]
    OBVIOUS
  <2>2. state.rows = <<row>>
    BY <1>2, <2>1
  <2>3. Lone(live) => row.seg.end = job.size - 1
    BY <1>2, <1>4, LoneRowAtEnd
  <2>4. Lone(live) => AtEnd(state.rows)
    BY <2>2, <2>3 DEF AtEnd
  <2>5. Becomes(w, state)
    BY <1>5, <2>1
  <2> QED BY <1>1, <1>2, <2>4, <2>5, Parts, RowsOnly
<1>6. CASE Becomes(w, Persisted([worker[w] EXCEPT !.pc = ended]))
  <2>1. PICK state : state = [worker[w] EXCEPT !.pc = ended]
    OBVIOUS
  <2>2. state \in WorkerStates /\ state.pc \in {"error", "eof"} /\ state.rows = <<>>
    BY <1>2, <1>3, <2>1 DEF WorkerStates
  <2>3. Persisted(state).rows = <<>>
    BY <2>2, PersistedRows
  <2>4. AtEnd(Persisted(state).rows)
    BY <2>3 DEF AtEnd
  <2>5. Becomes(w, Persisted(state))
    BY <1>6, <2>1
  <2> QED BY <1>1, <1>2, <2>4, <2>5, Parts, RowsOnly
<1> QED BY <1>3, <1>4, <1>5, <1>6 DEF FlushFinal

\* A worker's row is persisted.
LEMMA PersistTiles == ASSUME IInv, LayoutInv, NEW w \in Workers, PersistRow(w) PROVE LayoutInv'
<1>1. worker[w].rows # <<>> /\ worker[w].pc # "free" /\ UNCHANGED <<world, pc, job, live, cp>>
  BY Parts DEF PersistRow, PoolInv, WorkerInv, Free
<1>2. /\ pc = "ranges" /\ WorkerInv(worker[w]) /\ worker[w].rows \in Seq(Row)
      /\ worker[w] = [pc |-> worker[w].pc, slot |-> worker[w].slot, rows |-> worker[w].rows]
  BY <1>1, Busy
<1>3. worker[w].pc \in {"split", "eof", "error"} /\ worker[w] \in WorkerStates
  BY <1>1, <1>2 DEF WorkerInv, WorkerStates
<1>4. /\ Head(worker[w].rows) = worker[w].rows[1] /\ 1 \in DOMAIN worker[w].rows
      /\ Tail(worker[w].rows) \in Seq(Row)
      /\ \A i \in DOMAIN Tail(worker[w].rows) :
           i + 1 \in DOMAIN worker[w].rows /\ Tail(worker[w].rows)[i] = worker[w].rows[i + 1]
  BY <1>1, <1>2
<1>5. PICK state : state = [worker[w] EXCEPT !.rows = Tail(worker[w].rows)]
  OBVIOUS
<1>6. /\ state \in WorkerStates /\ state.pc = worker[w].pc
      /\ state.rows = Tail(worker[w].rows)
  BY <1>3, <1>4, <1>5 DEF WorkerStates
<1>7. Lone(live) => AtEnd(worker[w].rows)
  BY DEF LayoutInv
<1>8. Lone(live) => AtEnd(Persisted(state).rows)
  <2>1. Lone(live) => AtEnd(state.rows)
    BY <1>4, <1>6, <1>7 DEF AtEnd
  <2>2. Persisted(state).rows = state.rows \/ Persisted(state).rows = <<>>
    BY <1>3, <1>6, PersistedRows
  <2> QED BY <2>1, <2>2 DEF AtEnd
<1>9. /\ Fit(db.segs, db.size)' /\ Fit(dbDur.segs, dbDur.size)'
      /\ Lone(db.segs)' => Lone(live)
  <2>1. CASE UpdateSegment(Head(worker[w].rows))
    <3>1. PICK row : row = Head(worker[w].rows)
      OBVIOUS
    <3>2. RowOf(row) /\ (Lone(live) => row.seg.end = job.size - 1)
      BY <1>2, <1>4, <1>7, <3>1 DEF WorkerInv, AtEnd
    <3>3. UpdateSegment(row)
      BY <2>1, <3>1
    <3> QED BY <1>1, <1>2, <3>2, <3>3, Parts, UpdateFits
  <2>2. CASE UNCHANGED rowVars
    BY <1>1, <1>2, <2>2 DEF rowVars, LayoutInv, Fit, Lone
  <2> QED BY <2>1, <2>2 DEF PersistRow
<1>10. Becomes(w, Persisted(state))
  BY <1>5 DEF PersistRow
<1> QED BY <1>1, <1>2, <1>8, <1>9, <1>10, Parts, RowsStep

\* The rows of a tick are read and persisted.
LEMMA TicksTile == ASSUME IInv, LayoutInv, TickSnapshot \/ Tick PROVE LayoutInv'
<1>1. UNCHANGED <<world, pc, job, live, worker>>
  BY DEF TickSnapshot, Tick, TickSync, TickPersist
<1>2. CASE TickSnapshot
  <2>1. pc = "ranges" /\ UNCHANGED <<db, dbDur>>
    BY <1>2 DEF TickSnapshot, rowVars
  <2>2. cp'.rows = [i \in DOMAIN live |-> Live(i)]
    BY <1>2 DEF TickSnapshot
  <2>3. Lone(live) => \A i \in DOMAIN live : Live(i).seg.end = job.size - 1
    BY <2>1, LoneRowAtEnd
  <2>4. Lone(live) => AtEnd(cp.rows)'
    BY <1>1, <2>2, <2>3 DEF AtEnd
  <2>5. Lone(live) => \A w \in Workers : AtEnd(worker[w].rows)'
    BY <1>1 DEF LayoutInv, AtEnd
  <2> QED BY <1>1, <2>1, <2>4, <2>5, LayoutFrame
<1>3. CASE TickSync
  <2>1. UNCHANGED <<db, dbDur>>
    BY <1>3 DEF TickSync, rowVars
  <2>2. cp'.rows = cp.rows \/ cp'.rows = <<>>
    <3> cp = [pc |-> cp.pc, rows |-> cp.rows]
      BY Parts DEF CheckpointInv
    <3> QED BY <1>3 DEF TickSync, Idle
  <2>3. Lone(live) => (\A w \in Workers : AtEnd(worker[w].rows)') /\ AtEnd(cp.rows)'
    BY <1>1, <2>2 DEF LayoutInv, AtEnd
  <2> QED BY <1>1, <2>1, <2>3, LayoutFrame
<1>4. CASE TickPersist
  <2>1. /\ pc = "ranges" /\ CheckpointInv /\ cp.rows # <<>>
        /\ cp = [pc |-> cp.pc, rows |-> cp.rows] /\ cp.rows \in Seq(Row)
    BY <1>4, Parts DEF TickPersist, PoolInv, CheckpointInv, Idle
  <2>2. /\ Head(cp.rows) = cp.rows[1] /\ 1 \in DOMAIN cp.rows
        /\ \A i \in DOMAIN Tail(cp.rows) :
             i + 1 \in DOMAIN cp.rows /\ Tail(cp.rows)[i] = cp.rows[i + 1]
    BY <2>1
  <2>3. cp'.rows = Tail(cp.rows) \/ cp'.rows = <<>>
    BY <1>4, <2>1 DEF TickPersist, Idle
  <2>4. Lone(live) => AtEnd(cp.rows)
    BY DEF LayoutInv
  <2>5. Lone(live) => AtEnd(cp.rows)'
    <3>1. Lone(live) => AtEnd(Tail(cp.rows))
      BY <2>2, <2>4 DEF AtEnd
    <3>2. CASE cp'.rows = Tail(cp.rows)
      BY <1>1, <3>1, <3>2 DEF AtEnd
    <3>3. CASE cp'.rows = <<>>
      BY <3>3 DEF AtEnd
    <3> QED BY <2>3, <3>2, <3>3
  <2>6. /\ Fit(db.segs, db.size)' /\ Fit(dbDur.segs, dbDur.size)'
        /\ Lone(db.segs)' => Lone(live)
    <3>1. CASE UpdateSegment(Head(cp.rows))
      <4>1. PICK row : row = Head(cp.rows)
        OBVIOUS
      <4>2. RowOf(row) /\ (Lone(live) => row.seg.end = job.size - 1)
        BY <2>1, <2>2, <2>4, <4>1 DEF CheckpointInv, AtEnd
      <4>3. UpdateSegment(row)
        BY <3>1, <4>1
      <4> QED BY <1>1, <2>1, <4>2, <4>3, Parts, UpdateFits
    <3>2. CASE UNCHANGED rowVars
      BY <1>1, <2>1, <3>2 DEF rowVars, LayoutInv, Fit, Lone
    <3> QED BY <1>4, <3>1, <3>2 DEF TickPersist
  <2>7. Lone(live)' => (\A w \in Workers : AtEnd(worker[w].rows)') /\ AtEnd(cp.rows)'
    BY <1>1, <2>5 DEF LayoutInv, AtEnd, Lone
  <2>8. pc' # "idle" => Fit(live, job.size)' /\ (Lone(db.segs)' => Lone(live)')
    BY <1>1, <2>1, <2>6 DEF LayoutInv, Fit, Lone
  <2>9. Covers(live, job.size)'
    BY <1>1, <2>1 DEF LayoutInv, Covers
  <2> QED BY <2>6, <2>7, <2>8, <2>9 DEF LayoutInv
<1> QED BY <1>2, <1>3, <1>4 DEF Tick

\* A steal leaves two segments where one was.
LEMMA StealTiles ==
    ASSUME IInv, LayoutInv, NEW w \in Workers, Steal(w)
    PROVE  LayoutInv'
<1>0. /\ pc = "ranges" /\ world.stealing /\ UNCHANGED <<world, db, dbDur, pc, job, cp>>
  BY DEF Steal, Running, rowVars
<1>p. PICK d \in Workers, mid \in 1..(job.size - 1) :
         /\ worker[d].pc # "free"
         /\ mid \in (Frontier(worker[d].slot) + 1) .. live[worker[d].slot].end
         /\ live' = SplitAt(worker[d].slot, mid)
  BY DEF Steal, SplitAt
<1>1. PICK i : i = worker[d].slot
  OBVIOUS
<1>2. i \in DOMAIN live /\ mid \in (Frontier(i) + 1) .. live[i].end /\ live' = SplitAt(i, mid)
  BY <1>p, <1>1, Busy
<1>3. BaseInv /\ RunInv
  BY Parts
<1>4. /\ live \in Seq(Seg) /\ DOMAIN live = 1..Len(live) /\ job.size \in Nat \ {0}
      /\ Len(live) \in Nat
  BY <1>0, <1>3, RangesFacts, LenProperties
<1>5. PICK n : n = Len(live) + 1
  OBVIOUS
<1>6. /\ DOMAIN live' = DOMAIN live \cup {n} /\ n \notin DOMAIN live
      /\ \A j \in DOMAIN live \ {i} : live'[j] = live[j]
      /\ live'[i].start = live[i].start
  <2>1. PICK split : split = SplitAt(i, mid)
    OBVIOUS
  <2>2. /\ DOMAIN split = DOMAIN live \cup {Len(live) + 1} /\ Len(live) + 1 \notin DOMAIN live
        /\ \A j \in DOMAIN live \ {i} : split[j] = live[j]
        /\ split[i].start = live[i].start
    BY <1>0, <1>2, <1>3, <2>1, SplitIs
  <2> QED BY <1>2, <1>5, <2>1, <2>2
<1>7. live'[n] = Segment(mid, live[i].end) /\ live'[i].end = mid - 1
  <2>1. PICK donor : donor = [live[i] EXCEPT !.end = mid - 1]
    OBVIOUS
  <2>2. PICK cut : cut = [live EXCEPT ![i] = donor]
    OBVIOUS
  <2>3. live' = Append(cut, Segment(mid, live[i].end))
    BY <1>2, <2>1, <2>2 DEF SplitAt
  <2>4. live[i] \in Seg /\ mid - 1 \in Int
    BY <1>0, <1>2, <1>3, <1>4, RangesFacts DEF Ranged
  <2>5. donor \in Seg /\ donor.end = mid - 1
    BY ONLY <2>1, <2>4 DEF Seg
  <2>6. cut \in Seq(Seg) /\ Len(cut) = Len(live) /\ cut[i] = donor
    BY <1>2, <1>4, <2>2, <2>5, ExceptSeq
  <2> QED BY <1>2, <1>4, <1>5, <2>3, <2>5, <2>6
<1>8. ~Lone(live')
  <2>1. i \in DOMAIN live' /\ n \in DOMAIN live' /\ i # n
    BY <1>2, <1>6
  <2> QED BY <2>1 DEF Lone
<1>9. ~Lone(db.segs)
  BY <1>0 DEF LayoutInv, Fit
<1>10. Covers(live', job.size)
  <2> SUFFICES ASSUME NEW k \in 0..(job.size - 1)
               PROVE  \E j \in DOMAIN live' : k \in live'[j].start .. live'[j].end
    BY DEF Covers
  <2>1. PICK j \in DOMAIN live : k \in live[j].start .. live[j].end
    BY <1>0 DEF LayoutInv, Covers
  <2>2. CASE j # i
    <3>1. j \in DOMAIN live' /\ live'[j] = live[j]
      BY <1>6, <2>2
    <3> QED BY <2>1, <3>1
  <2>3. CASE j = i /\ k < mid
    <3>1. live[i].start \in Int /\ live[i].end \in Int /\ k \in Int
      BY <1>0, <1>2, <1>3, <1>4, LiveNumbers
    <3>2. k \in live[i].start .. live[i].end
      BY <2>1, <2>3
    <3>3. k \in live[i].start .. (mid - 1)
      BY <2>3, <3>1, <3>2
    <3>4. i \in DOMAIN live' /\ live'[i].start = live[i].start /\ live'[i].end = mid - 1
      BY <1>2, <1>6, <1>7
    <3> QED BY <3>3, <3>4
  <2>4. CASE j = i /\ k >= mid
    <3>1. live[i].start \in Int /\ live[i].end \in Int /\ k \in Int
      BY <1>0, <1>2, <1>3, <1>4, LiveNumbers
    <3>2. k \in live[i].start .. live[i].end
      BY <2>1, <2>4
    <3>3. k \in mid .. live[i].end
      BY <2>4, <3>1, <3>2
    <3>4. n \in DOMAIN live' /\ live'[n].start = mid /\ live'[n].end = live[i].end
      BY <1>6, <1>7 DEF Segment
    <3> QED BY <3>3, <3>4
  <2>5. k \in Int /\ mid \in Int
    OBVIOUS
  <2> QED BY <2>2, <2>3, <2>4, <2>5
<1>11. Fit(db.segs, db.size)' /\ Fit(dbDur.segs, dbDur.size)'
  BY <1>0 DEF LayoutInv, Fit, Lone
<1>12. pc' # "idle" => Fit(live, job.size)' /\ (Lone(db.segs)' => Lone(live)')
  <2>1. ~Lone(live)' /\ ~Lone(db.segs)'
    BY <1>0, <1>8, <1>9 DEF Lone
  <2> QED BY <2>1 DEF Fit
<1>13. Covers(live, job.size)'
  BY <1>0, <1>10 DEF Covers
<1>14. ~Lone(live)'
  BY <1>8 DEF Lone
<1> QED BY <1>11, <1>12, <1>13, <1>14 DEF LayoutInv

\* A plan of ranges covers the file; a lone segment is all of it, and is never split.
LEMMA PlanFits ==
    ASSUME BaseInv, RangedWorld, TwoSegmentPlans, NEW version \in Versions
    PROVE  LET plan == PlanFor(world.ranges, SizeOf(version), SegmentCount, MinSegment)
           IN  Covers(plan, SizeOf(version)) /\ Fit(plan, SizeOf(version))
<1>1. PICK plan : plan = PlanFor(world.ranges, SizeOf(version), SegmentCount, MinSegment)
  OBVIOUS
<1>2. PICK size : size = SizeOf(version)
  OBVIOUS
<1>3. /\ size \in Nat \ {0} /\ size = Size[version]
      /\ SegmentCount \in Nat \ {0} /\ MinSegment \in Nat \ {0}
  BY <1>2, TransferAssumption, SizesArePositive DEF SizeOf, RangedWorld
<1>4. plan = PlanSegments(size, SegmentCount, MinSegment)
  BY <1>1, <1>2, <1>3 DEF PlanFor, RangedWorld
<1>5. /\ plan \in Seq(Seg) /\ Ranged(plan, size) /\ Covers(plan, size)
      /\ SegmentCount >= 2 /\ size \div MinSegment >= 2 => Len(plan) >= 2
  BY <1>3, <1>4, PlanIsLayout
<1>6. ASSUME Lone(plan) PROVE ~world.stealing /\ plan[1].end = size - 1
  <2>1. DOMAIN plan = {1} /\ Len(plan) \in Nat /\ DOMAIN plan = 1..Len(plan)
    BY <1>5, <1>6, LenProperties DEF Lone
  <2>2. ~(Len(plan) >= 2)
    <3> SUFFICES ASSUME Len(plan) >= 2 PROVE FALSE
      OBVIOUS
    <3>1. 2 \in 1..Len(plan)
      BY <2>1
    <3> QED BY <2>1, <3>1
  <2>3. ~world.stealing
    BY <1>3, <1>5, <2>2 DEF TwoSegmentPlans, BaseInv
  <2>4. plan[1].end \in 0..(size - 1)
    BY <1>5, <2>1 DEF Ranged
  <2>5. PICK i \in DOMAIN plan : size - 1 \in plan[i].start .. plan[i].end
    <3> size - 1 \in 0..(size - 1)
      BY <1>3
    <3> QED BY <1>5 DEF Covers
  <2>6. i = 1
    BY <2>1
  <2>7. plan[1].start \in Int
    <3> plan[1] \in Seg
      BY <1>5, <2>1 DEF Ranged
    <3> QED BY DEF Seg
  <2>8. size - 1 <= plan[1].end
    BY <1>3, <2>4, <2>5, <2>6, <2>7
  <2> QED BY <1>3, <2>3, <2>4, <2>8
<1> QED BY <1>1, <1>2, <1>5, <1>6 DEF Fit

\* A run plans afresh, or takes the rows it finds.
LEMMA RunTiles ==
    ASSUME IInv, LayoutInv, RangedWorld, TwoSegmentPlans, Run
    PROVE  LayoutInv'
<1>0. /\ pc = "idle" /\ pc' = "open" /\ ResolveRecord(Probe) /\ Save("active")
      /\ UNCHANGED <<world, worker, cp>>
  BY DEF Run
<1>1. remote \in Versions /\ Probe.size = SizeOf(remote)
  BY Parts DEF BaseInv, Probe, SizeOf
<1>2. Fit(live', job'.size) /\ (job'.fresh => Covers(live', job'.size))
  <2>1. CASE DOMAIN db.segs = {} \/ ~ValidatorsMatch(db, Probe)
    <3>1. job'.size = SizeOf(remote)
      BY <1>0, <1>1, <2>1 DEF ResolveRecord
    <3>2. live' = PlanFor(world.ranges, SizeOf(remote), SegmentCount, MinSegment)
      BY <1>0, <1>1, <2>1 DEF ResolveRecord
    <3> QED BY <1>1, <3>1, <3>2, Parts, PlanFits
  <2>2. CASE ~(DOMAIN db.segs = {} \/ ~ValidatorsMatch(db, Probe))
    <3>1. job'.size = db.size /\ ~job'.fresh /\ live' = db.segs
      BY <1>0, <2>2 DEF ResolveRecord
    <3> QED BY <3>1 DEF LayoutInv
  <2> QED BY <2>1, <2>2
<1>3. db'.segs = live' /\ db'.size = job'.size /\ dbDur' = db
  BY <1>0 DEF Save
<1>4. Fit(db.segs, db.size)' /\ Fit(live, job.size)' /\ Fit(dbDur.segs, dbDur.size)'
  BY <1>0, <1>2, <1>3 DEF Fit, Lone, LayoutInv
<1>5. Lone(db.segs)' => Lone(live)'
  BY <1>3 DEF Lone
<1>6. job'.fresh => Covers(live, job.size)'
  BY <1>2 DEF Covers
<1>7. (\A w \in Workers : AtEnd(worker[w].rows)') /\ AtEnd(cp.rows)'
  <2>1. worker = [w \in Workers |-> Free] /\ cp = Idle
    BY <1>0, Parts, PoolIsEmpty
  <2>2. (\A w \in Workers : worker'[w].rows = <<>>) /\ cp'.rows = <<>>
    BY <1>0, <2>1 DEF Free, Idle
  <2> QED BY <2>2 DEF AtEnd
<1> QED BY <1>0, <1>4, <1>5, <1>6, <1>7 DEF LayoutInv

\* The rows of a resume cover the file; a lone one was all of it already.
LEMMA ResumeTiles ==
    ASSUME RunInv, LayoutInv, RangedWorld, pc = "open", NEW onDisk \in Nat,
           NEW healed \in RepairLayout(live, job.size)
    PROVE  /\ Fit(Clamped(healed, onDisk), job.size) /\ Covers(Clamped(healed, onDisk), job.size)
           /\ Lone(live) => Lone(Clamped(healed, onDisk))
<1>1. PICK capped : capped = Clamped(healed, onDisk)
  OBVIOUS
<1>2. /\ 1 \in DOMAIN live /\ DOMAIN live \subseteq Slots
      /\ job.size \in Nat \ {0} /\ Ranged(live, job.size)
  BY DEF RunInv, Shaped
<1>3. IsFiniteSet(DOMAIN live) /\ Cardinality(DOMAIN live) \in Nat
  <2>1. IsFiniteSet(Slots)
    <3> Max({MaxSlots, SegmentCount}) \in Int
      BY SlotsAreNumbers
    <3> QED BY FS_Interval DEF Slots
  <2> QED BY <1>2, <2>1, FS_Subset, FS_CardinalityType
<1>4. /\ healed \in Seq(Seg) /\ Len(healed) = Cardinality(DOMAIN live)
      /\ Ranged(healed, job.size)
      /\ Len(healed) >= 2 => Covers(healed, job.size)
      /\ Len(healed) = 1 => healed[1] = live[1]
  BY <1>2, <1>3, RepairIsLayout
<1>5. /\ Len(capped) = Len(healed) /\ capped \in Seq(Seg)
      /\ \A i \in DOMAIN healed : capped[i].start = healed[i].start /\ capped[i].end = healed[i].end
      /\ Covers(healed, job.size) => Covers(capped, job.size)
  BY <1>1, <1>4, ClampedIsLayout
<1>6. DOMAIN healed = 1..Len(healed) /\ DOMAIN capped = 1..Len(healed)
  BY <1>4, <1>5, LenProperties
<1>7. Len(healed) # 0
  BY <1>2, <1>3, <1>4, FS_EmptySet
<1>8. Lone(live) <=> Len(healed) = 1
  <2>1. ASSUME Lone(live) PROVE Len(healed) = 1
    BY <1>4, <2>1, FS_Singleton DEF Lone
  <2>2. ASSUME Len(healed) = 1 PROVE Lone(live)
    <3>1. PICK x : DOMAIN live = {x}
      BY <1>3, <1>4, <2>2, FS_Singleton
    <3> QED BY <1>2, <3>1 DEF Lone
  <2> QED BY <2>1, <2>2
<1>9. Lone(capped) <=> Len(healed) = 1
  <2>1. ASSUME Len(healed) = 1 PROVE Lone(capped)
    <3> 1..1 = {1}
      OBVIOUS
    <3> QED BY <1>6, <2>1 DEF Lone
  <2>2. ASSUME Lone(capped) PROVE Len(healed) = 1
    <3>1. 1..Len(healed) = {1} /\ Len(healed) \in Nat
      BY <1>3, <1>4, <1>6, <2>2 DEF Lone
    <3>2. Len(healed) \in 1..Len(healed)
      BY <1>7, <3>1
    <3> QED BY <3>1, <3>2
  <2> QED BY <2>1, <2>2
<1>10. ASSUME Len(healed) = 1
       PROVE  ~world.stealing /\ capped[1].start = 0 /\ capped[1].end = job.size - 1
  <2>1. ~world.stealing /\ live[1].end = job.size - 1
    BY <1>8, <1>10 DEF LayoutInv, Fit
  <2>2. live[1].start = 0
    BY <1>2 DEF Ranged
  <2>3. 1 \in DOMAIN healed
    BY <1>6, <1>10
  <2> QED BY <1>4, <1>5, <1>10, <2>1, <2>2, <2>3
<1>11. Covers(capped, job.size)
  <2>1. CASE Len(healed) >= 2
    BY <1>4, <1>5, <2>1
  <2>2. CASE Len(healed) = 1
    <3>1. 1 \in DOMAIN capped
      BY <1>6, <2>2
    <3>2. \A k \in 0..(job.size - 1) : k \in capped[1].start .. capped[1].end
      BY <1>10, <2>2
    <3> QED BY <3>1, <3>2 DEF Covers
  <2> QED BY <1>3, <1>4, <1>7, <2>1, <2>2
<1>12. Fit(capped, job.size)
  BY <1>9, <1>10 DEF Fit
<1> QED BY <1>1, <1>8, <1>9, <1>11, <1>12

\* What a run opens covers the file.
LEMMA OpenTiles == ASSUME IInv, LayoutInv, RangedWorld, Open PROVE LayoutInv'
<1>0. /\ pc = "open" /\ ReconcileProgress /\ pc' \in {"body", "ranges"}
      /\ UNCHANGED <<world, db, dbDur, job, worker, cp>>
  BY DEF Open, rowVars
<1>1. Fit(live', job.size) /\ Covers(live', job.size) /\ (Lone(live) => Lone(live'))
  <2>1. CASE job.fresh
    <3>1. live' = [i \in DOMAIN live |-> [live[i] EXCEPT !.done = 0]]
      BY <1>0, <2>1 DEF ReconcileProgress
    <3>2. live \in Seq(Seg)
      BY <1>0, <2>1, Parts DEF RunInv
    <3>3. \A i \in DOMAIN live :
            live[i] = [start |-> live[i].start, end |-> live[i].end, done |-> live[i].done]
      <4> \A i \in DOMAIN live : live[i] \in Seg
        BY <3>2, LenProperties
      <4> QED BY DEF Seg
    <3>4. /\ DOMAIN live' = DOMAIN live
          /\ \A i \in DOMAIN live : live'[i].start = live[i].start /\ live'[i].end = live[i].end
      BY <3>1, <3>3
    <3>5. Fit(live, job.size) /\ Covers(live, job.size)
      BY <1>0, <2>1 DEF LayoutInv
    <3> QED BY <3>4, <3>5 DEF Fit, Lone, Covers
  <2>2. CASE ~job.fresh
    <3>1. PICK healed \in RepairLayout(live, job.size) : live' = Clamped(healed, Len(part))
      BY <1>0, <2>2 DEF ReconcileProgress
    <3>2. Len(part) \in Nat
      BY Parts DEF BaseInv
    <3> QED BY <1>0, <3>1, <3>2, Parts, ResumeTiles
  <2> QED BY <2>1, <2>2
<1>2. Fit(db.segs, db.size)' /\ Fit(dbDur.segs, dbDur.size)'
  BY <1>0 DEF LayoutInv, Fit, Lone
<1>3. Fit(live, job.size)' /\ (Lone(db.segs)' => Lone(live)')
  <2>1. Lone(db.segs) => Lone(live)
    BY <1>0 DEF LayoutInv
  <2> QED BY <1>0, <1>1, <2>1 DEF Fit, Lone
<1>4. Covers(live, job.size)'
  BY <1>0, <1>1 DEF Covers
<1>5. (\A w \in Workers : AtEnd(worker[w].rows)') /\ AtEnd(cp.rows)'
  <2>1. worker = [w \in Workers |-> Free] /\ cp = Idle
    BY <1>0, Parts, PoolIsEmpty
  <2>2. (\A w \in Workers : worker'[w].rows = <<>>) /\ cp'.rows = <<>>
    BY <1>0, <2>1 DEF Free, Idle
  <2> QED BY <2>2 DEF AtEnd
<1> QED BY <1>2, <1>3, <1>4, <1>5 DEF LayoutInv

\* A run ends, and saves its layout or none.
LEMMA EndTiles ==
    ASSUME IInv, LayoutInv, RangedWorld,
           FinishCompleted \/ FinishFailed \/ Kill \/ PowerLoss \/ OpenFails
    PROVE  LayoutInv'
<1>1. pc' = "idle" /\ live' = <<>> /\ UNCHANGED world
  BY DEF FinishCompleted, FinishFailed, Kill, PowerLoss, OpenFails, EndRun
<1>2. Fit(db.segs, db.size)' /\ Fit(dbDur.segs, dbDur.size)'
  <2>1. CASE UNCHANGED rowVars
    BY <1>1, <2>1 DEF rowVars, LayoutInv, Fit, Lone
  <2>2. CASE \E status : Record(status) /\ pc # "idle"
    <3>1. PICK status : Record(status) /\ pc # "idle"
      BY <2>2
    <3>2. RecordInv(db) /\ job.size = db.size
      BY <3>1, Parts DEF StoreInv, RunInv
    <3>3. db'.segs = live /\ db'.size = db.size /\ dbDur' = db
      BY <3>1, <3>2 DEF Record, RecordInv
    <3>4. Fit(live, job.size)
      BY <3>1 DEF LayoutInv
    <3> QED BY <1>1, <3>2, <3>3, <3>4 DEF LayoutInv, Fit, Lone
  <2>3. CASE db' \in {db, dbDur} /\ dbDur' = db'
    BY <1>1, <2>3 DEF LayoutInv, Fit, Lone
  <2> QED BY <2>1, <2>2, <2>3 DEF FinishCompleted, FinishFailed, Kill, PowerLoss, OpenFails
<1> QED BY <1>1, <1>2, LayoutEnds

\* Every step keeps the layout.
LEMMA TilingStep ==
    ASSUME IInv, TilingInv, TwoSegmentPlans, [Next]_vars
    PROVE  TilingInv'
<1>w. world' = world
  BY DEF Next, vars, Run, Open, Dispatch, Take, Stream, Write, Publish, RangeRefused, FlushFinal,
         PersistRow, Retry, GiveUp, Steal, Break, TickSnapshot, Tick, TickSync, TickPersist,
         Body, BodyAttempt, BodyWrite, BodyEnds, BodyGivesUp, Finish, EndRanges, FinalSync,
         VerifyChecksum, Rename, SyncDir, FinishCompleted, FailSync, FinishFailed, Environment,
         Kill, PowerLoss, LosePart, RemoteChanges, Cancel, BodyBreaks, OpenFails
<1> SUFFICES ASSUME RangedWorld, LayoutInv PROVE LayoutInv'
  BY <1>w DEF TilingInv, RangedWorld
<1>1. CASE Run \/ Open
  BY <1>1, RunTiles, OpenTiles
<1>2. CASE Dispatch
  BY <1>2, WorkersTile DEF Dispatch
<1>3. ASSUME NEW w \in Workers, Stream(w) \/ Steal(w) \/ Break(w) PROVE LayoutInv'
  BY <1>3, WorkersTile, PublishTiles, FlushTiles, PersistTiles, StealTiles DEF Stream
<1>4. CASE TickSnapshot \/ Tick
  BY <1>4, TicksTile
<1>5. CASE Body \/ BodyBreaks
  <2> pc \in {"body", "streaming"}
    BY <1>5 DEF Body, BodyAttempt, BodyWrite, BodyEnds, BodyGivesUp, BodyBreaks
  <2> QED BY Parts DEF RunInv
<1>6. CASE EndRanges \/ FinalSync \/ VerifyChecksum \/ Rename \/ SyncDir \/ FailSync
  <2>1. UNCHANGED <<db, dbDur, job, live, worker, cp>>
    BY <1>6 DEF EndRanges, FinalSync, VerifyChecksum, Rename, SyncDir, FailSync, rowVars
  <2>2. pc # "idle" /\ pc' \notin {"idle", "open", "ranges"}
    BY <1>6 DEF EndRanges, FinalSync, VerifyChecksum, Rename, SyncDir, FailSync
  <2> QED BY <1>w, <2>1, <2>2, LayoutQuiet
<1>7. CASE FinishCompleted \/ FinishFailed \/ Kill \/ PowerLoss \/ OpenFails
  BY <1>7, EndTiles
<1>8. CASE LosePart \/ RemoteChanges \/ Cancel \/ UNCHANGED vars
  <2>1. UNCHANGED <<db, dbDur, job, live, worker, cp, pc>>
    BY <1>8 DEF LosePart, RemoteChanges, Cancel, vars, rowVars, memVars
  <2> QED BY <1>w, <2>1, LayoutQuiet
<1> QED BY <1>1, <1>2, <1>3, <1>4, <1>5, <1>6, <1>7, <1>8 DEF Next, Finish, Environment

(***************************************************************************)
(* The segments of a ranged run tile the file, from the moment they are    *)
(* reconciled and through every steal.                                     *)
(***************************************************************************)
THEOREM LayoutHolds == ASSUME TwoSegmentPlans PROVE Spec => []LayoutTiles
<1>1. Init => TilingInv
  <2> SUFFICES ASSUME Init PROVE LayoutInv
    BY DEF TilingInv
  <2>1. db.segs = NoRows /\ dbDur.segs = NoRows /\ pc = "idle" /\ live = <<>>
    BY DEF Init
  <2> QED BY <2>1, NotLone DEF LayoutInv, Fit
<1>2. IInv /\ TilingInv /\ [Next]_vars => TilingInv'
  BY TilingStep
<1>3. IInv /\ TilingInv => LayoutTiles
  <2> SUFFICES ASSUME IInv, TilingInv, pc = "ranges" PROVE Tiles(live, job.size)
    BY DEF LayoutTiles
  <2>1. RangedWorld /\ Ranged(live, job.size) /\ Apart(live) /\ job.size \in Nat
    BY Parts, RangesFacts
  <2>2. Covers(live, job.size)
    BY <2>1 DEF TilingInv, LayoutInv
  <2> QED BY <2>1, <2>2, TilesFrom
<1> QED BY <1>1, <1>2, <1>3, Invariant, PTL DEF Spec
=============================================================================

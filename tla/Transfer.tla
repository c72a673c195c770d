------------------------------ MODULE Transfer ------------------------------
(***************************************************************************)
(* One download's runs, from the probe to the record of completion, over a *)
(* file and a database that a crash or a power loss may set back.          *)
(*                                                                         *)
(* Engine.Run of internal/engine/download_run.go resolves the record       *)
(* against a probe, opens the .part file and reconciles the counters with  *)
(* it, lets workers stream ranges into it while the checkpointer           *)
(* (checkpoint.go) fsyncs and persists their counters, and at the end      *)
(* fsyncs, checks the checksum, renames the .part over the destination,    *)
(* fsyncs the directory and records the completion.                        *)
(*                                                                         *)
(* A byte is the version of the remote file it was read from, 0 for a byte *)
(* never written.  Every file and every row is kept twice: as the          *)
(* processes see it and as a power loss would leave it.  The manager runs  *)
(* one Run at a time for a download (Manager.SingleRun).  What the steal   *)
(* coordinator decides is the subject of WorkStealing: here a steal takes  *)
(* any split beyond the donor's frontier and the write in flight.          *)
(***************************************************************************)
EXTENDS SegmentLayout

CONSTANTS
    Workers,        \* the goroutines of a run, SegmentsPerDownload of them
    SegmentCount,   \* the segments a fresh plan asks for
    MinSegment,     \* minSegmentSize
    MaxSlots,       \* MaxSegments: the slots a stealing run may use
    Size,           \* Size[v]: the length of version v of the remote file
    Worlds,         \* the servers, settings and checksums to consider
    MaxFaults       \* bound: faults of all kinds in one behaviour

ASSUME TransferAssumption ==
    /\ IsFiniteSet(Workers) /\ Workers # {}
    /\ SegmentCount \in Nat \ {0}
    /\ MinSegment \in Nat \ {0}
    /\ MaxSlots \in Nat
    /\ Size \in Seq(Nat \ {0}) /\ Size # <<>>
    /\ MaxFaults \in Nat

Versions == DOMAIN Size

(***************************************************************************)
(* A world is what stays the same between runs: whether the server has     *)
(* ranges, sends validators and discloses the size, whether stealing is on,*)
(* the version the download's checksum is of (0 when it has none), the     *)
(* version served first, and the kinds of fault that happen.               *)
(***************************************************************************)
Faults == {"kill", "power", "lose", "change", "cancel", "break", "sync", "store", "open", "rename"}

ASSUME WorldsAssumption ==
    Worlds \subseteq [ranges : BOOLEAN, tags : BOOLEAN, disclosed : BOOLEAN,
                      stealing : BOOLEAN, sum : Versions \cup {0}, first : Versions,
                      faults : SUBSET Faults]

VARIABLES
    world,      \* the world of this behaviour
    remote,     \* the version the server serves now
    db, dbDur,  \* the download's row and its segments; what a power loss may leave of it
    part, partDur,  \* the .part file; what of it is on the disk
    dest, destDur,  \* the destination file, Absent when there is none
    pc,         \* where Engine.Run is, "idle" between runs
    job,        \* the run's resolved record: version, size, and whether it is fresh
    live,       \* the run's segments with their live counters
    pending,    \* slots no worker has taken yet
    worker,     \* what each worker does
    cp,         \* the checkpointer: where its tick is, and the rows it holds
    cancelled,  \* the run's context is cancelled
    faults,     \* faults so far
    suspect     \* history: this behaviour has done what the code cannot detect

rowVars  == <<db, dbDur>>
fileVars == <<part, partDur, dest, destDur>>
memVars  == <<pc, job, live, pending, worker, cp, cancelled>>
vars == <<world, remote, rowVars, fileVars, memVars, faults, suspect>>

\* An empty file is not told from one that is not there.
Absent == <<>>
NoRows == [i \in {} |-> Segment(0, -1)]
Free   == [pc |-> "free", slot |-> 0, rows |-> <<>>]
Idle   == [pc |-> "wait", rows |-> <<>>]
NoJob  == [fresh |-> FALSE, version |-> 0, tag |-> 0, size |-> 0]

Fault(kind) == kind \in world.faults /\ faults < MaxFaults /\ faults' = faults + 1

\* A file that holds exactly one version of the remote file.
Whole(file) == \E v \in Versions : file = [i \in 1..Size[v] |-> v]

Init ==
    /\ world \in Worlds
    /\ remote = world.first
    /\ db = [status |-> "queued", tag |-> 0, size |-> 0, segs |-> NoRows] /\ dbDur = db
    /\ part = <<>> /\ partDur = <<>>
    /\ dest = Absent /\ destDur = Absent
    /\ pc = "idle" /\ job = NoJob /\ live = <<>> /\ pending = {}
    /\ worker = [w \in Workers |-> Free] /\ cp = Idle /\ cancelled = FALSE
    /\ faults = 0 /\ suspect = FALSE

-----------------------------------------------------------------------------
(* The store.  A commit is seen by every later read; a power loss may drop *)
(* a commit that the WAL has not synced (synchronous=NORMAL), here at most *)
(* the last one: a bound, since a checkpoint syncs at a moment of its own. *)

Save(status) == db' = [status |-> status, tag |-> job'.tag, size |-> job'.size,
                       segs |-> live'] /\ dbDur' = db

UpdateSegment(row) ==
    /\ db' = [db EXCEPT !.segs = [i \in DOMAIN @ \cup {row.slot} |->
                                    IF i = row.slot THEN row.seg ELSE @[i]]]
    /\ dbDur' = db

(* The file.  An fsync makes what the file holds durable, or fails and     *)
(* makes nothing durable.                                                  *)

Sync     == partDur' = part
SyncFail == Fault("sync") /\ UNCHANGED partDur

-----------------------------------------------------------------------------
(* Engine.Run up to the transfer: probe, resolve the record, save it       *)
(* active.  A probe or a save that fails leaves everything as it was.      *)

Probe == [tag |-> IF world.tags THEN remote ELSE 0,
          size |-> IF world.disclosed THEN Size[remote] ELSE -1]

\* Defect: a remote that changed is resumed like one that did not.
ValidatorsMatch_Ignored(row, probe) == TRUE
ValidatorsMatch(row, probe) ==
    IF row.tag # 0 \/ probe.tag # 0 THEN row.tag = probe.tag ELSE row.size = probe.size

ResolveRecord(probe) ==
    LET fresh == DOMAIN db.segs = {} \/ ~ValidatorsMatch(db, probe)
    IN  /\ job' = IF fresh
                    THEN [fresh |-> TRUE, version |-> remote,
                          tag |-> probe.tag, size |-> probe.size]
                    ELSE [fresh |-> FALSE, version |-> remote, tag |-> db.tag, size |-> db.size]
        /\ live' = IF fresh
                     THEN PlanFor(world.ranges, probe.size, SegmentCount, MinSegment)
                     ELSE db.segs

Run ==
    /\ pc = "idle" /\ db.status # "completed"
    /\ ResolveRecord(Probe)
    /\ Save("active")
    /\ pc' = "open"
    /\ UNCHANGED <<world, remote, fileVars, pending, worker, cp, cancelled, faults, suspect>>

-----------------------------------------------------------------------------
(* transfer's beginning: open or create the .part, give a fresh one its    *)
(* size, and on a resume regrow it, heal the layout and cap the counters.  *)

Grown(file, size) ==
    [i \in 1..Max({Len(file), size}) |-> IF i <= Len(file) THEN file[i] ELSE 0]

\* Every byte the counters claim is a byte of the probed version.
Backed(segs, file) ==
    \A i \in DOMAIN segs : \A k \in Counted(segs[i]) :
        k < Len(file) /\ file[k + 1] = job.version

\* Where there was no .part a new file is made; the removal or the rename of the one
\* before it is then no longer undone by a power loss.
OpenPart ==
    /\ part' = Grown(part, job.size)
    /\ partDur' = IF part = <<>> THEN <<>> ELSE partDur
    /\ destDur' = IF dest # destDur THEN partDur ELSE destDur

ReconcileProgress ==
    IF job.fresh
      THEN live' = [i \in DOMAIN live |-> [live[i] EXCEPT !.done = 0]]
      ELSE \E healed \in RepairLayout(live, job.size) : live' = Clamped(healed, Len(part))

Open ==
    /\ pc = "open"
    /\ OpenPart /\ ReconcileProgress
    /\ pending' = IF IsWholeBody(live') THEN {} ELSE {i \in DOMAIN live' : ~IsDone(live'[i])}
    /\ pc' = IF IsWholeBody(live') THEN "body" ELSE "ranges"
    /\ suspect' = \/ suspect
                  \/ ~Backed(live', part')
                  \/ (~IsWholeBody(live') /\ Len(part) > job.size)
    /\ UNCHANGED <<world, remote, rowVars, dest, job, worker, cp, cancelled, faults>>

\* The open, the preallocation or the resize fails: the row stays active.
OpenFails ==
    /\ pc = "open" /\ Fault("open")
    /\ pc' = "idle" /\ job' = NoJob /\ live' = <<>>
    /\ UNCHANGED <<world, remote, rowVars, fileVars, pending, worker, cp, cancelled, suspect>>

-----------------------------------------------------------------------------
(* The workers.  A worker is free, streams a slot's range, has written a   *)
(* byte that its counter does not show yet, or holds rows to persist:      *)
(* those of a split it has just made, or its slot's row after a stream     *)
(* that ended ("eof") or broke ("error").                                  *)

Running == pc = "ranges" /\ ~cancelled

Live(i) == [slot |-> i, seg |-> live[i]]

Frontier(i) == live[i].start + live[i].done

Becomes(w, state) == worker' = [worker EXCEPT ![w] = state]

\* The goroutines are interchangeable: the free one of the least number goes next.
NextFree(w) == worker[w] = Free /\ \A v \in Workers : worker[v] = Free => w <= v

\* Static slots, and the first slots of a stealing run, go out in order.
Take(w) ==
    /\ Running /\ NextFree(w) /\ pending # {}
    /\ Becomes(w, [pc |-> "stream", slot |-> Min(pending), rows |-> <<>>])
    /\ pending' = pending \ {Min(pending)}
    /\ UNCHANGED <<world, remote, rowVars, fileVars, pc, job, live, cp, cancelled, faults, suspect>>

Steal(w) ==
    /\ Running /\ world.stealing /\ NextFree(w) /\ pending = {}
    /\ Len(live) < MaxSlots
    /\ \E d \in Workers, mid \in 1..(job.size - 1) :
         LET donor == worker[d].slot
             tail  == Segment(mid, live[donor].end)
         IN  /\ worker[d].pc # "free"
             /\ mid \in (Frontier(donor) + 1) .. live[donor].end
             /\ live' = Append([live EXCEPT ![donor].end = mid - 1], tail)
             /\ Becomes(w, [pc |-> "split", slot |-> Len(live) + 1,
                            rows |-> <<[slot |-> donor, seg |-> live'[donor]],
                                       [slot |-> Len(live) + 1, seg |-> tail]>>])
    /\ UNCHANGED <<world, remote, rowVars, fileVars, pc, job, pending, cp,
                   cancelled, faults, suspect>>

\* WriteAt of one buffer, at the frontier and never past the live end.
Write(w) ==
    LET i == worker[w].slot IN
    /\ pc = "ranges" /\ worker[w].pc = "stream"
    /\ ~IsDone(live[i]) /\ Frontier(i) < Size[remote]
    /\ part' = [part EXCEPT ![Frontier(i) + 1] = remote]
    /\ Becomes(w, [worker[w] EXCEPT !.pc = "wrote"])
    /\ UNCHANGED <<world, remote, rowVars, partDur, dest, destDur, pc, job, live, pending,
                   cp, cancelled, faults, suspect>>

Publish(w) ==
    /\ worker[w].pc = "wrote"
    /\ live' = [live EXCEPT ![worker[w].slot].done = @ + 1]
    /\ Becomes(w, [worker[w] EXCEPT !.pc = "stream"])
    /\ UNCHANGED <<world, remote, rowVars, fileVars, pc, job, pending, cp,
                   cancelled, faults, suspect>>

\* A lost connection, a short body, a stall, a cancelled context.
Break(w) ==
    /\ pc = "ranges" /\ worker[w].pc = "stream"
    /\ Becomes(w, [worker[w] EXCEPT !.pc = "broken"])
    /\ IF cancelled THEN UNCHANGED faults ELSE Fault("break")
    /\ UNCHANGED <<world, remote, rowVars, fileVars, pc, job, live, pending, cp,
                   cancelled, suspect>>

\* The remote file has no byte at the frontier: the server refuses the range.
Refused(i) == ~IsDone(live[i]) /\ Frontier(i) >= Size[remote]

\* Where no stream was opened there is none to flush; one that was open when the file shrank
\* ends at the new size and is flushed.
RangeRefused(w) ==
    /\ pc = "ranges" /\ worker[w].pc = "stream" /\ Refused(worker[w].slot)
    /\ \E how \in {"error", "broken"} : Becomes(w, [worker[w] EXCEPT !.pc = how])
    /\ UNCHANGED <<world, remote, rowVars, fileVars, pc, job, live, pending, cp, cancelled,
                   faults, suspect>>

\* With its rows persisted, a split's tail is streamed and a slot streamed to its end frees
\* the worker; what an error leads to is Retry or GiveUp.
Persisted(state) ==
    CASE state.rows # <<>>                        -> state
      [] state.rows = <<>> /\ state.pc = "split"  -> [state EXCEPT !.pc = "stream"]
      [] state.rows = <<>> /\ state.pc = "eof"    -> Free
      [] state.rows = <<>> /\ state.pc = "error"  -> state

\* Defect: the error of the fsync is dropped and the row persisted all the same.
FlushFinal_IgnoresSync(w) ==
    LET state == worker[w]
        ended == IF state.pc = "broken" THEN "error" ELSE "eof"
    IN  /\ \/ state.pc = "broken"
           \/ state.pc = "stream" /\ IsDone(live[state.slot])
        /\ (Sync /\ UNCHANGED faults) \/ SyncFail
        /\ Becomes(w, [state EXCEPT !.pc = ended, !.rows = <<Live(state.slot)>>])
        /\ UNCHANGED <<world, remote, rowVars, part, dest, destDur, pc, job, live, pending,
                       cp, cancelled, suspect>>

(***************************************************************************)
(* flushFinal: read the slot's row, fsync, and then persist the row; when  *)
(* the fsync fails, persist nothing.  The slot's counter rests meanwhile,  *)
(* so the read and the fsync are one step.                                 *)
(***************************************************************************)
FlushFinal(w) ==
    LET state == worker[w]
        ended == IF state.pc = "broken" THEN "error" ELSE "eof"
    IN  /\ \/ state.pc = "broken"
           \/ state.pc = "stream" /\ IsDone(live[state.slot])
        /\ \/ /\ Sync /\ UNCHANGED faults
              /\ Becomes(w, [state EXCEPT !.pc = ended, !.rows = <<Live(state.slot)>>])
           \/ SyncFail /\ Becomes(w, Persisted([state EXCEPT !.pc = ended]))
        /\ UNCHANGED <<world, remote, rowVars, part, dest, destDur, pc, job, live, pending,
                       cp, cancelled, suspect>>

\* One UpdateSegment; an error of the store is swallowed and only loses the row.
PersistRow(w) ==
    /\ worker[w].rows # <<>>
    /\ \/ UpdateSegment(Head(worker[w].rows)) /\ UNCHANGED faults
       \/ Fault("store") /\ UNCHANGED rowVars
    /\ Becomes(w, Persisted([worker[w] EXCEPT !.rows = Tail(@)]))
    /\ UNCHANGED <<world, remote, fileVars, pc, job, live, pending, cp, cancelled, suspect>>

\* After an error the slot is tried again while it has bytes left and retries last; a
\* range that is refused is refused each time.
Retry(w) ==
    /\ worker[w].pc = "error" /\ worker[w].rows = <<>>
    /\ ~cancelled /\ ~IsDone(live[worker[w].slot]) /\ ~Refused(worker[w].slot)
    /\ Becomes(w, [worker[w] EXCEPT !.pc = "stream"])
    /\ UNCHANGED <<world, remote, rowVars, fileVars, pc, job, live, pending, cp, cancelled,
                   faults, suspect>>

\* The worker gives up and cancels its siblings, as a pause or a shutdown does.
GiveUp(w) ==
    /\ worker[w].pc = "error" /\ worker[w].rows = <<>>
    /\ Becomes(w, Free) /\ cancelled' = TRUE
    /\ UNCHANGED <<world, remote, rowVars, fileVars, pc, job, live, pending, cp, faults, suspect>>

Cancel ==
    /\ pc \in {"ranges", "body", "streaming"} /\ ~cancelled /\ Fault("cancel")
    /\ cancelled' = TRUE
    /\ UNCHANGED <<world, remote, rowVars, fileVars, pc, job, live, pending, worker, cp, suspect>>

-----------------------------------------------------------------------------
(* The checkpointer's tick: read every slot, fsync, persist the rows read. *)

TickSnapshot ==
    /\ pc = "ranges" /\ cp.pc = "wait"
    /\ cp' = [pc |-> "snapped", rows |-> [i \in DOMAIN live |-> Live(i)]]
    /\ UNCHANGED <<world, remote, rowVars, fileVars, pc, job, live, pending, worker, cancelled,
                   faults, suspect>>

\* Defect: the rows are persisted though the fsync failed.
TickSync_IgnoresError ==
    /\ cp.pc = "snapped"
    /\ (Sync /\ UNCHANGED faults) \/ SyncFail
    /\ cp' = [cp EXCEPT !.pc = "synced"]
    /\ UNCHANGED <<world, remote, rowVars, part, dest, destDur, pc, job, live, pending, worker,
                   cancelled, suspect>>

TickSync ==
    /\ cp.pc = "snapped"
    /\ \/ Sync /\ UNCHANGED faults /\ cp' = [cp EXCEPT !.pc = "synced"]
       \/ SyncFail /\ cp' = Idle
    /\ UNCHANGED <<world, remote, rowVars, part, dest, destDur, pc, job, live, pending, worker,
                   cancelled, suspect>>

TickPersist ==
    /\ cp.pc = "synced"
    /\ \/ UpdateSegment(Head(cp.rows)) /\ UNCHANGED faults
       \/ Fault("store") /\ UNCHANGED rowVars
    /\ cp' = IF Len(cp.rows) = 1 THEN Idle ELSE [cp EXCEPT !.rows = Tail(@)]
    /\ UNCHANGED <<world, remote, fileVars, pc, job, live, pending, worker, cancelled, suspect>>

-----------------------------------------------------------------------------
(* The whole-body fallback: every attempt empties the file and streams it  *)
(* from the start; there is no checkpoint.  pending is unused.             *)

BodyAttempt ==
    /\ pc = "body" /\ ~cancelled
    /\ part' = <<>> /\ live' = WholeBody
    /\ pc' = "streaming"
    /\ UNCHANGED <<world, remote, rowVars, partDur, dest, destDur, job, pending, worker, cp,
                   cancelled, faults, suspect>>

BodyWrite ==
    /\ pc = "streaming" /\ Len(part) < Size[remote]
    /\ part' = Append(part, remote)
    /\ live' = [live EXCEPT ![1].done = @ + 1]
    /\ UNCHANGED <<world, remote, rowVars, partDur, dest, destDur, pc, job, pending, worker, cp,
                   cancelled, faults, suspect>>

\* Defect: a clean end is the end, whatever length was promised.
BodyEnds_AnyLength ==
    /\ pc = "streaming" /\ ~cancelled
    /\ IF Len(part) >= Size[remote] THEN UNCHANGED faults ELSE Fault("break")
    /\ pc' = "gate"
    /\ suspect' = (suspect \/ (job.size <= 0 /\ Len(part) < Size[remote]))
    /\ UNCHANGED <<world, remote, rowVars, fileVars, job, live, pending, worker, cp, cancelled>>

(***************************************************************************)
(* A clean end.  A disclosed size must have arrived: a body cut short is   *)
(* asked for again, one of another length is refused each time.  Of an     *)
(* undisclosed size any clean end is the end.                              *)
(***************************************************************************)
BodyEnds ==
    /\ pc = "streaming" /\ ~cancelled
    /\ IF Len(part) >= Size[remote] THEN UNCHANGED faults ELSE Fault("break")
    /\ pc' = IF job.size <= 0 \/ live[1].done = job.size THEN "gate"
             ELSE IF Len(part) < Size[remote] THEN "body" ELSE "failing"
    /\ suspect' = (suspect \/ (pc' = "gate" /\ job.size <= 0 /\ Len(part) < Size[remote]))
    /\ UNCHANGED <<world, remote, rowVars, fileVars, job, live, pending, worker, cp, cancelled>>

\* A broken stream is tried again from the start, or was the last try.
BodyBreaks ==
    /\ pc = "streaming" /\ Fault("break")
    /\ pc' \in {"body", "failing"}
    /\ UNCHANGED <<world, remote, rowVars, fileVars, job, live, pending, worker, cp,
                   cancelled, suspect>>

BodyGivesUp ==
    /\ pc \in {"body", "streaming"} /\ cancelled
    /\ pc' = "failing"
    /\ UNCHANGED <<world, remote, rowVars, fileVars, job, live, pending, worker, cp, cancelled,
                   faults, suspect>>

-----------------------------------------------------------------------------
(* The end of a run.  The workers have returned and the checkpointer has   *)
(* stopped; a run that covered the file is fsynced, verified, renamed and  *)
(* recorded, any other is fsynced and recorded as failed.                  *)

EndRanges ==
    /\ pc = "ranges" /\ \A w \in Workers : worker[w] = Free
    /\ cp = Idle
    /\ cancelled \/ pending = {}
    /\ pc' = IF cancelled \/ ~VerifyComplete(live, job.size) THEN "failing" ELSE "gate"
    /\ pending' = {}
    /\ UNCHANGED <<world, remote, rowVars, fileVars, job, live, worker, cp,
                   cancelled, faults, suspect>>

\* Defect: the error of the fsync before the rename is dropped.
FinalSync_IgnoresError ==
    /\ pc = "gate"
    /\ (Sync /\ UNCHANGED faults) \/ SyncFail
    /\ pc' = IF world.sum = 0 THEN "rename" ELSE "verify"
    /\ UNCHANGED <<world, remote, rowVars, part, dest, destDur, job, live, pending, worker, cp,
                   cancelled, suspect>>

FinalSync ==
    /\ pc = "gate"
    /\ \/ Sync /\ UNCHANGED faults /\ pc' = IF world.sum = 0 THEN "rename" ELSE "verify"
       \/ SyncFail /\ pc' = "failed"
    /\ UNCHANGED <<world, remote, rowVars, part, dest, destDur, job, live, pending, worker, cp,
                   cancelled, suspect>>

Matches(file, version) == file = [i \in 1..Size[version] |-> version]

\* Defect: a resumed run is taken for verified.
VerifyChecksum_FreshOnly ==
    /\ pc = "verify"
    /\ IF ~job.fresh \/ Matches(part, world.sum)
         THEN pc' = "rename" /\ UNCHANGED part
         ELSE pc' = "failed" /\ part' = <<>>
    /\ UNCHANGED <<world, remote, rowVars, partDur, dest, destDur, job, live, pending, worker, cp,
                   cancelled, faults, suspect>>

\* A digest that differs, or a read that a cancelled context cuts short, removes the .part.
VerifyChecksum ==
    /\ pc = "verify"
    /\ \/ /\ Matches(part, world.sum)
          /\ pc' = "rename" /\ UNCHANGED <<part, faults>>
       \/ /\ IF Matches(part, world.sum) THEN Fault("cancel") ELSE UNCHANGED faults
          /\ pc' = "failed" /\ part' = <<>>
    /\ UNCHANGED <<world, remote, rowVars, partDur, dest, destDur, job, live, pending, worker, cp,
                   cancelled, suspect>>

\* Defect: the rename is recorded without an fsync of the directory.
Rename_NoDirSync ==
    /\ pc = "rename"
    /\ dest' = part /\ part' = <<>> /\ pc' = "complete"
    /\ UNCHANGED <<world, remote, rowVars, partDur, destDur, job, live, pending, worker, cp,
                   cancelled, faults, suspect>>

Rename ==
    /\ pc = "rename"
    /\ \/ dest' = part /\ part' = <<>> /\ pc' = "syncdir" /\ UNCHANGED faults
       \/ Fault("rename") /\ pc' = "failed" /\ UNCHANGED <<part, dest>>
    /\ UNCHANGED <<world, remote, rowVars, partDur, destDur, job, live, pending, worker, cp,
                   cancelled, suspect>>

\* What the directory names is now durable; so is as much of it as was fsynced.
SyncDir ==
    /\ pc = "syncdir"
    /\ \/ destDur' = partDur /\ partDur' = <<>> /\ pc' = "complete" /\ UNCHANGED faults
       \/ Fault("sync") /\ pc' = "failed" /\ UNCHANGED <<partDur, destDur>>
    /\ UNCHANGED <<world, remote, rowVars, part, dest, job, live, pending, worker, cp, cancelled,
                   suspect>>

EndRun ==
    /\ pc' = "idle" /\ job' = NoJob /\ live' = <<>> /\ pending' = {}
    /\ worker' = [w \in Workers |-> Free] /\ cp' = Idle /\ cancelled' = FALSE

Record(status) == db' = [db EXCEPT !.status = status, !.segs = live] /\ dbDur' = db

\* With the run's own context: a store error or a cancel leaves the row active.
FinishCompleted ==
    /\ pc = "complete"
    /\ \/ Record("completed") /\ UNCHANGED faults
       \/ Fault("store") /\ UNCHANGED rowVars
    /\ EndRun
    /\ UNCHANGED <<world, remote, fileVars, suspect>>

\* An fsync whose error is ignored comes before the counters are saved.
FailSync ==
    /\ pc = "failing"
    /\ \/ Sync /\ UNCHANGED faults
       \/ SyncFail
    /\ pc' = "failed"
    /\ UNCHANGED <<world, remote, rowVars, part, dest, destDur, job, live, pending, worker, cp,
                   cancelled, suspect>>

FinishFailed ==
    /\ pc = "failed"
    /\ \/ Record("failed") /\ UNCHANGED faults
       \/ Fault("store") /\ UNCHANGED rowVars
    /\ EndRun
    /\ UNCHANGED <<world, remote, fileVars, suspect>>

-----------------------------------------------------------------------------
(* The environment: the process dies, the machine loses power, the .part   *)
(* is removed between runs, the remote file changes.                       *)

Kill ==
    /\ pc # "idle" /\ Fault("kill")
    /\ EndRun
    /\ UNCHANGED <<world, remote, rowVars, fileVars, suspect>>

Byte(file, i) == IF i \in DOMAIN file THEN file[i] ELSE 0

\* What a power loss may leave: any unsynced byte, and an unsynced length, kept or not.
Remains(file, dur) ==
    IF file = <<>> THEN {file, dur} ELSE
    UNION {{f \in [1..len -> Versions \cup {0}] :
              \A i \in 1..len : f[i] \in {Byte(file, i), Byte(dur, i)}} :
           len \in {Len(file), Len(dur)}}

PowerLoss ==
    /\ Fault("power")
    /\ db' \in {db, dbDur} /\ dbDur' = db'
    /\ \/ dest' \in Remains(dest, IF dest = destDur THEN destDur ELSE partDur)
          /\ part' \in Remains(part, IF dest = destDur THEN partDur ELSE <<>>)
       \/ dest # destDur /\ dest' = destDur /\ part' = partDur
    /\ partDur' = part' /\ destDur' = dest'
    /\ EndRun
    /\ UNCHANGED <<world, remote, suspect>>

LosePart ==
    /\ pc = "idle" /\ part # <<>> /\ Fault("lose")
    /\ part' = <<>> /\ partDur' = <<>>
    /\ UNCHANGED <<world, remote, rowVars, dest, destDur, memVars, suspect>>

RemoteChanges ==
    /\ Fault("change")
    /\ remote' \in {v \in Versions : v > remote}
    /\ suspect' = (suspect \/ pc # "idle")
    /\ UNCHANGED <<world, rowVars, fileVars, memVars>>

-----------------------------------------------------------------------------
Stream(w) == \/ Write(w) \/ Publish(w) \/ RangeRefused(w)
             \/ FlushFinal(w) \/ PersistRow(w) \/ Retry(w) \/ GiveUp(w)
Dispatch  == \E w \in Workers : Take(w)
Tick      == TickSync \/ TickPersist
Body      == BodyAttempt \/ BodyWrite \/ BodyEnds \/ BodyGivesUp
Finish    == \/ EndRanges \/ FinalSync \/ VerifyChecksum \/ Rename \/ SyncDir
             \/ FinishCompleted \/ FailSync \/ FinishFailed

Environment == \/ Kill \/ PowerLoss \/ LosePart \/ RemoteChanges \/ Cancel
               \/ BodyBreaks \/ OpenFails

Next ==
    \/ Run \/ Open
    \/ Dispatch \/ (\E w \in Workers : Stream(w) \/ Steal(w) \/ Break(w))
    \/ TickSnapshot \/ Tick
    \/ Body \/ Finish
    \/ Environment

(***************************************************************************)
(* The goroutines and the store get their turns, faults are finite (every  *)
(* retry budget is), and an unfinished download is run again: recovered at *)
(* the next start or resumed by the user.  The checkpointer is told to     *)
(* stop when the workers are back, and hears it between two ticks.         *)
(***************************************************************************)
Fairness ==
    /\ WF_vars(Run) /\ WF_vars(Open) /\ WF_vars(Dispatch)
    /\ \A w \in Workers : WF_vars(Stream(w))
    /\ WF_vars(Tick) /\ WF_vars(Body) /\ WF_vars(Finish) /\ SF_vars(EndRanges)

Spec == Init /\ [][Next]_vars /\ Fairness

-----------------------------------------------------------------------------
Row == [slot : Nat, seg : [start : Nat, end : Int, done : Nat]]

TypeOK ==
    /\ world \in Worlds /\ remote \in Versions
    /\ \A row \in {db, dbDur} :
          /\ row.status \in {"queued", "active", "failed", "completed"}
          /\ row.tag \in Versions \cup {0} /\ row.size \in Nat \cup {-1}
          /\ DOMAIN row.segs \subseteq 1..Max({MaxSlots, SegmentCount})
    /\ \A file \in {part, partDur, dest, destDur} : file \in Seq(Versions \cup {0})
    /\ pc \in {"idle", "open", "ranges", "body", "streaming", "gate", "verify", "rename",
               "syncdir", "complete", "failing", "failed"}
    /\ pending \subseteq 1..Max({MaxSlots, SegmentCount})
    /\ \A w \in Workers :
          /\ worker[w].pc \in {"free", "stream", "wrote", "broken", "split", "eof", "error"}
          /\ worker[w].rows \in Seq(Row)
    /\ cp.pc \in {"wait", "snapped", "synced"} /\ cp.rows \in Seq(Row)
    /\ cancelled \in BOOLEAN /\ faults \in 0..MaxFaults /\ suspect \in BOOLEAN

\* The bytes a counter claims are on the disk as the run sees them.
Durable(seg) ==
    \A k \in Counted(seg) : k < Len(partDur) /\ k < Len(part) /\ partDur[k + 1] = part[k + 1]

Written(seg) == \A k \in Counted(seg) : k < Len(part) /\ part[k + 1] # 0

\* A later run trusts the rows of a ranged download that is not completed.
RowsAreDurable ==
    db.status # "completed" => \A i \in DOMAIN db.segs :
        db.segs[i].end >= 0 => Durable(db.segs[i]) /\ Written(db.segs[i])

(***************************************************************************)
(* Past its fsync, every row the checkpointer or a worker's flushFinal is  *)
(* about to persist counts durable bytes only, whatever the other workers  *)
(* wrote since (the order checkpoint.go calls load-bearing).               *)
(***************************************************************************)
BarrierCountsDurableBytes ==
    /\ cp.pc = "synced" => \A i \in DOMAIN cp.rows : Durable(cp.rows[i].seg)
    /\ \A w \in Workers : worker[w].pc \in {"eof", "error"} =>
          \A i \in DOMAIN worker[w].rows : Durable(worker[w].rows[i].seg)

(***************************************************************************)
(* While the .part is there and no run was resumed over counters that it   *)
(* does not back, the store's counters get ahead of the disk in three ways *)
(* only: the donor's row of a steal, persisted without an fsync; the       *)
(* record of a failed run whose last fsync failed and was ignored; and a   *)
(* power loss that takes back commits which had lowered a counter (a fresh *)
(* start's, or those of a run that found its .part gone), and so brings    *)
(* back what was counted in a .part that was removed before them.          *)
(***************************************************************************)
OnlySplitsRunAhead ==
    [][RowsAreDurable /\ ~RowsAreDurable' /\ part' # <<>> /\ ~suspect' =>
          \/ \E w \in Workers : worker[w].pc = "split" /\ worker'[w] # worker[w]
          \/ pc = "failed" /\ part # partDur
          \/ /\ db # dbDur /\ db' = dbDur /\ faults' # faults
             /\ \E i \in DOMAIN dbDur.segs :
                  i \in DOMAIN db.segs => db.segs[i].done < dbDur.segs[i].done]_vars

(***************************************************************************)
(* The segments of a ranged run cover the file once, from the moment they  *)
(* are reconciled with rows that splits, stale rows and lost commits may   *)
(* have torn, and through every steal.                                     *)
(***************************************************************************)
LayoutTiles == pc = "ranges" => Tiles(live, job.size)

(***************************************************************************)
(* The destination is absent or exactly one version of the remote file,    *)
(* unless a run of this behaviour did what the code cannot notice: it was  *)
(* resumed over counters the file did not back, it wrote ranges into a     *)
(* .part longer than the file, the remote file changed under it, or a body *)
(* of an unknown length ended early.                                       *)
(***************************************************************************)
CompletedIsExact == ~suspect => dest = Absent \/ Whole(dest)

(***************************************************************************)
(* A download recorded as completed has its whole file on the disk: no     *)
(* power loss keeps the record and loses the file.                         *)
(***************************************************************************)
RecordedIsDurable ==
    db.status = "completed" => dest = destDur /\ (~suspect => Whole(destDur))

(***************************************************************************)
(* With a checksum, what is published is the file the checksum is of, also *)
(* where nothing else would have noticed.                                  *)
(***************************************************************************)
ChecksumGuards == world.sum # 0 => dest = Absent \/ Matches(dest, world.sum)

(***************************************************************************)
(* No interruption leaves a record that cannot be resumed: once the faults *)
(* end, the download completes, unless its checksum is of a file that the  *)
(* server no longer serves.                                                *)
(***************************************************************************)
NeverWedged ==
    <>[](db.status = "completed" \/ world.sum \notin {0, remote})

-----------------------------------------------------------------------------
(* The abstract specification, and how this module implements it.          *)

VersionOf(file) ==
    IF file = Absent THEN 0
    ELSE IF Whole(file) THEN CHOOSE v \in Versions : Matches(file, v) ELSE -1

Published == INSTANCE Publication WITH
    None <- 0, Other <- -1,
    shown <- VersionOf(dest), safe <- VersionOf(destDur),
    recorded <- db.status = "completed", tainted <- suspect

(***************************************************************************)
(* Whatever is interrupted, the destination goes through the steps of      *)
(* Publication: it is replaced only by a whole version and only while the  *)
(* download is not recorded, it is recorded only once it is durable, and   *)
(* a power loss shows what was durable and keeps no record without it.     *)
(***************************************************************************)
ImplementsPublication == Published!Spec

-----------------------------------------------------------------------------
(* What the source says of interruptions, which its code does not keep.    *)

(***************************************************************************)
(* A resumed download is never renamed with a hole: a region that the      *)
(* .part does not back is fetched again rather than skipped as zeros       *)
(* (reconcileProgress).                                                    *)
(***************************************************************************)
NoZeroFilledHoles == \A i \in DOMAIN dest : dest[i] # 0
=============================================================================

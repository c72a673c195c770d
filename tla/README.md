# gidm: a verification project

gidm is a download manager: a daemon (`gidmd`) that fetches files over HTTP in
parallel byte ranges, keeps its downloads in SQLite, resumes them after a stop
or a crash, and is driven by small clients over a local socket. This directory
holds TLA+ modules translated from its Go source, the configurations with which
TLC checks small instances of them, and theorems that TLAPS proves for every
value of their constants. `PROJECT.json` maps each definition to the lines it
models and lists the hazards, the findings and, for every property, a plausible
bug (a *mutant*) that the property catches.

    tlc -workers 2 -config MCManager.cfg MCManager      # any run of PROJECT.json
    tlapm WorkStealingProofs.tla                        # the proofs
    tlapm ManagerProofs.tla
    tlapm PromiseProofs.tla
    tlapm ControlPlaneProofs.tla
    tlapm BandwidthProofs.tla

Paths below are relative to `src/`.

## 1. The system

### Inventory

| component | state it keeps | operations | what makes it hard, and correct |
|---|---|---|---|
| **download manager** `internal/engine/manager.go` | `pending` (priority, then FIFO), `cancels`, `intents`, `deleting`, `restarting`, `closed`, all under one mutex; rows in the store, not under it | Submit, Pause, Cancel, Resume, Delete, Restart, SetPriority, SetAuth; worker pool (pop, run, finishJob, classify, persistOverride); Start/recover, Shutdown | load, lock and save are separate steps of concurrent goroutines; a stop races a start; crash and restart. One run per download; a stop holds; a deleted download is gone; interrupted work is recovered; no caller waits for ever |
| **work-stealing coordinator** `internal/engine/steal.go` | live plan: per slot `Start`, atomic `End`, `active`; mutex `mu` | next, trySteal (tentative shrink, recheck, commit or undo), settled | `End` and counters are read outside the lock by writers. Slots tile the file, no byte has two writers |
| **segment worker** `internal/engine/segment.go`, `copy.go`, `stall.go` | flush buffer, cursor, attempt counter, stall timer | runSegment (attempts, resume), streamInto, progressWriter.Write | short writes, stalls, short bodies, a range that shrinks under the writer. A counter never passes what was written |
| **engine run pipeline** `internal/engine/download_run.go`, `engine.go` | the record, the `.part` file | Run: probe, reconcile, plan, transfer, verifyComplete, fsync + rename, terminal saves | order of fsync, rename and save; which context each save takes. A complete download is whole |
| **checkpointer and resume** `internal/engine/checkpoint.go`, `reconcileProgress`, `repairLayout` | none of its own; persists counters each interval | tick, flushFinal, persist; on resume clamp and re-tile | crash between a write and an fsync, torn split. A persisted counter is backed by durable bytes |
| **planner** `internal/engine/plan.go` | none | planSegments | tiles the file, at most as many segments as bytes |
| **progress counters** `internal/engine/progress.go` | one atomic per slot | load, store, snapshotInto | read while written |
| **rate limiter** `internal/engine/ratelimit.go` | token bucket under a mutex, swapped atomically | WaitN, rateBurst | concurrent waiters, a flush as large as the burst |
| **rate sampler** `internal/engine/ratesample.go` | moving average per download | sampleLoop | display only |
| **runtime settings** `internal/engine/settings.go` | atomics in the engine, rows in `settings` | SetSettings, LoadSettings, ApplySettings | live value and persisted value may differ after an error or two concurrent calls |
| **SQLite store** `internal/store/sqlite/` | tables downloads, segments, settings | Save, Load, List, Delete, UpdateSegment, settings | whole-row upsert; LoadDownload reads row and segments in two queries |
| **secret vault** `internal/secret/` | one key in the OS keychain or a file | Encrypt, Decrypt | no protocol |
| **HTTP client** `internal/httpx/`, **fetcher adapter** `internal/httpfetch/` | connection pool | Probe, RangeGet, Get, retry with backoff | retry budget, Retry-After |
| **configuration** `internal/config/` | none after start | load, validate | parsing |
| **API server** `internal/apiserver/` | listener, `active` connections, `closing`, WaitGroup | Serve, handleConn, dispatch, Close | accept racing close, drain before Manager.Shutdown, single instance |
| **daemon** `cmd/gidmd/main.go` | process | start order, signal, drain | Start precedes Serve; deadlines |
| **wire protocol** `api/` | none | framing, validation | data formats |
| **clients** `cmd/gidm`, `cmd/gidm-host`, `desktop/`, `extensions/chrome/` | user interface | one request each | none |
| **installers** `scripts/` | none | packaging | none |

### How they interact

A client's connection is one goroutine (`handleConn`), whose `dispatch` calls one
Manager operation. An operation loads the download's row, works on its copy,
takes `Manager.mu` for a moment to look at or change the maps, then writes the
whole copy back. `Submit`, `Resume` and `Restart` append to `pending`;
`MaxConcurrent` worker goroutines pop from it, register a cancel function and
call `Engine.Run`, which probes, plans segments and hands them to
`runStealing`: `SegmentsPerDownload` goroutines that share the live plan and one
`.part` file. `Pause`, `Cancel`, `Delete` and `Restart` of a running download
cancel its context and leave the rest to the worker's `finishJob`. The daemon
calls `Manager.Start` before it serves; a signal cancels the server's context
(every handler's store call), `Close` drains the handlers, and only then
`Manager.Shutdown` cancels the runs and waits for the workers.

### Hard behaviours

The full list, each at its line, is `hazards` in `PROJECT.json`. In short: the
unlocked reads around a steal; a flush in progress while the segment shrinks;
retries and undone steals that cost no budget; rows written back from stale
copies; duplicate queue entries; a stop, a delete or a restart that races a
worker which has loaded a row and not yet registered; a completion save that the
job's own cancelled context refuses; crashes between any two of these steps; the
order of fsync, checkpoint and rename.

## 2. The plan

In order of importance to the users' data.

1. **WorkStealing**: the workers of one transfer. *Done*, with proofs.
2. **Manager**: queue, workers and operations over the store. *Done*, with proofs
   of its type, `OneRunPerDownload` and `RequestsServed`, and of what its stops and
   its shutdown promise.
3. **Transfer** over `SegmentLayout`: runs, checkpoints, crashes, resume and
   publication; it implements `Publication`. *Done*, with proofs of its type, its
   safety invariants and the refinement. Left: `OnlySplitsRunAhead`.
4. **Daemon** and **Settings**, composed by `ControlPlane`. *Done*, with proofs.
5. **Bandwidth**: the token buckets and their replacement. *Done*, with proofs.
6. **Lifecycle**: the status machine that Manager's rows are meant to follow. Left:
   the steps that leave it are now stated by `OrphanedOnlyBy`.

| module | extends or instantiates | run with | proofs |
|---|---|---|---|
| `WorkStealing` | | `MCWorkStealing` | `WorkStealingProofs`, over `Counting` |
| `Manager` | | `MCManager` | `ManagerProofs`, and `PromiseProofs` over it |
| `Transfer` | `SegmentLayout`; `Publication` by a refinement mapping | `MCTransfer` | `TransferProofs`, over `LayoutProofs` and `Counting` |
| `ControlPlane` | `Daemon`, `Settings`, in joint actions | `MCControlPlane` | `ControlPlaneProofs` |
| `Bandwidth` | | `MCBandwidth` | `BandwidthProofs` |

The modules meet at narrow seams. `Manager` reduces `Engine.Run` to its saves and
its return, which `WorkStealing`'s `RunReturns` justifies for its core and
`Transfer`'s `NeverWedged` for the whole of it. `Transfer` lets one run at a time touch a download,
which is `Manager`'s `OneRunPerDownload`. `Manager`'s `Shutdown` begins when no
handler is left, which is `ControlPlane`'s `NoHandlerAfterClose`. A flush of
`WorkStealing` and `Transfer` passes `Bandwidth`.

## 3. WorkStealing

One call of `runStealing`: a fixed pool of workers over a plan of slots, each an
inclusive byte range, with a cancel from the outside.

| in the module | in the code |
|---|---|
| `starts`, `ends`, `active` | `livePlan` (`steal.go`): fixed starts, atomic ends, slots in use |
| `completed` | the published counters of `segProgress` |
| `part[b]` | the slots whose worker wrote byte `b` of the `.part` file |
| `cursor` | `stealCoord`'s next initial slot to hand out |
| `mu`, `thief` | `stealCoord.mu` and `trySteal`'s local variables |
| `pc`, `slot`, `tries`, `chunk`, `flush`, `sig`, `stalled` | a worker's control point and the locals of `runSegment` and `Write` |
| `cancelled`, `first`, `outcome` | the run's context, `fail`'s first error, what runStealing returned |

Each lock section or unlocked atomic access that another goroutine can observe is
a step: `HandOut`, `BeginSteal`, one `ScanSlot` per slot (fattest reads each
counter at a different moment), `Shrink`, `Commit` or `Undo`, `PersistSplit`; then
`Connect`, `ReadChunk`, `Clip` (reads `End`), `Write` (any prefix may land),
`Publish`, `FlushFinal`, and the ways an attempt ends. A body may deliver fewer
bytes than asked, fail at any point or stall; `StallFires` may happen at any time
an attempt is open. Bytes have no values: what counts is who wrote them.

**Properties.** `OneWriterPerByte`, `SlotsTile` (every byte in exactly one slot,
whatever moment of a steal), `CountersBacked` (a published counter counts bytes in
the file, written by the slot's own worker), `CompleteIsWhole`,
`GateRefusesOnlyHoles` (the gate's sum over counters refuses no whole file),
`StolenTailUntouched` (action property: at a commit the tail is unwritten and no
flush in progress reaches it), and `RunReturns` (liveness).

| run | instance | shows |
|---|---|---|
| `work_stealing` | 2 workers, 12 bytes as 11 + 1, the first with 0 or 1 byte resumed, 2-byte buffer, 3 slots, 1 retry | all safety properties |
| `work_stealing_returns` | 1-byte buffer, 6 + 6 bytes, 4 slots, no retry | RunReturns, with steals from both segments and a steal from a stolen tail |
| `stranded_bytes` (violation) | one segment of 10 bytes | finding 1 |
| `fetched_fails` (violation) | one segment of 10 bytes | finding 2 |

*Why these bounds are enough to be interesting.* A steal needs a remainder of at
least `2 * (2 * BufferSize + 1)` bytes; with a buffer of 2 that is 10, so 11 + 1
bytes lets the worker of the short segment steal while the donor is anywhere
between clip and publish, and a buffer of 2 makes a donor's flush overlap the
margin. A buffer of 1 lets 6 bytes be split, which is what the liveness run needs to nest
steals. Two workers are one donor and one thief; a third adds a second thief,
which `mu` excludes. The theorems have no bound.

*Fairness.* `FairSpec`: goroutines are scheduled and I/O returns or is ended by
the watchdog (weak fairness of each worker's steps), and Go's mutex does not
starve (strong fairness of the two steps that acquire it). Cancel, stalls and
retries are never required to happen.

## 4. Manager

| in the module | in the code |
|---|---|
| `store` | the downloads table, reduced to status and priority |
| `phase` | down, serving, stopping (signalled: handlers' context cancelled), draining (`Shutdown` has run) |
| `pending` | `m.pending`, in `seq` order; entries may repeat |
| `intents`, `cancels`, `deleting`, `restarting` | the maps of the same names; a cancel function is its worker, a done channel a ticket |
| `released` | done channels closed and not yet received from |
| `pc`, `job`, `row` | an actor's control point, download and loaded copy |
| `hit` | the job's context was cancelled; `Dead` adds the base context |
| `goal`, `outcome`, `tries`, `owes` | `run`'s and `finishJob`'s locals |
| `promise` | history, read by properties only: what the last answered call promised |

A handler goes `Call`, `Load`, then by operation: `StopMark` (Pause, Cancel),
`IdleMark` or `HandOver` then `Released` (Delete, Restart), `ResumeClear`, `Save`,
`Enqueue`, `Reorder`, `RemoveIdle`, or the shared `ResetLoad`, `ResetSave`,
`ResetQueue`. A worker goes `Pop`, `RunLoad`, `Register`, `PersistActive`, the run
(`PersistRun`, `TransferCompletes`, `PersistCompleted`, or one of `RunAborts`,
`TransferFails`, `CompletionLost`), `FinishJob`, then `RemoveRecord`, the reset or
`OverrideLoad`, `OverrideSave`. Any store call of theirs may fail (`CallFails`,
`RunLoadFails`, `PersistActiveFails`, `PersistCompletedFails`, `SettleFails`,
`OverrideFails`), within `MaxFaults`. `Start`, `Signal`, `Shutdown`, `Exit` and
`Crash` are the daemon. Rows are written back whole, as `SaveDownload` does, so a
stale copy overwrites what happened meanwhile.

Steps merged because nothing can see between them: the unlock and the cancel in
`stop`, the intent's clearing and the append in `resetAndEnqueue`, and the
broadcast after a change of `pending`. That the base context is cancelled is read by
`run` before finishJob's lock section, and a shutdown may come in between: `FinishJob`
takes either of `Endings`. `Pop` stands for the wait on the
condition variable as well: every append signals, and `Shutdown` broadcasts.

**Properties.** `OneRunPerDownload`; `RequestsServed` (a registered Delete or
Restart has a live worker that will find it); `StopHolds` (no run begins of a
download whose last answered call was a stop); `StopNeverDropped` (once nobody
works on it, the row shows the stop); `ShutdownRecoverable` (a drained daemon
leaves nothing interrupted where Start passes it over); `CallerReleased` and
`QueuedRuns` (liveness); `DeleteGone`; `OrphanedOnlyBy` (action property: a row that
says queued or active is left with no entry, worker or caller only by a store
error or by one of four named steps, each of them in section 9).

| run | instance | shows |
|---|---|---|
| `manager` | 2 workers (symmetric), 1 download, client 1: cancel, resume, restart, client 2: delete, set priority; 3 calls, 1 store fault, 1 crash | TypeOK, OneRunPerDownload, RequestsServed, OrphanedOnlyBy (1,250,000 states) |
| `manager_promises` | 1 worker, 2 downloads, client 1: submit, delete, client 2: pause; 3 calls, 2 sessions | the promises and liveness |
| `stopped_runs` (violation) | pause, resume, pause | finding 3 |
| `deleted_returns` (violation) | one delete | finding 4 |

*Bounds.* Two workers and one download are what a double run needs, and three
calls reach pause, resume, pause and delete against restart against resume; a
second download only adds queueing, which the promises run has. Two sessions are one restart, so recovery
of what the first left. `MaxCalls`, `MaxStarts`, `MaxCrashes`, `MaxFaults` cap the
exploration; `OverrideAttempts` is 3 in the code and in the promises run, and 1
where one fault must exhaust it. The promises run has no Resume or Restart, because
with them `StopHolds` is false (finding 3), `QueuedRuns` is false (a resume dropped
as a duplicate) and `StopNeverDropped` meets a stale write. It has one client that
deletes, because `CallerReleased` is false with two, and no store error. Section 9 has each of these.
`OrphanedOnlyBy` is what holds with all operations and one store error.

*Fairness.* Handlers and workers are scheduled and their store calls return, and
`Engine.Run` returns, which `RunReturns` shows for its core and `NeverWedged` for
the whole of it. No client is made to
call, no store error has to happen, and the daemon need not stop.

## 5. Transfer

`WorkStealing` is one transfer in one process. `Transfer` is a download over
its whole life: run after run of `Engine.Run`, over a file and a database that a
kill or a power loss may set back. `SegmentLayout` is its arithmetic (planSegments,
repairLayout, clampSegments, verifyComplete), `Publication` the abstract
specification it implements.

| in the modules | in the code |
|---|---|
| `db`, `dbDur` | the row and its segments as readers see them; what a power loss may leave |
| `part`, `partDur`, `dest`, `destDur` | the `.part` and the destination, in the page cache and on the disk; a byte is the version of the remote file it came from, 0 for a hole |
| `pc`, `job`, `live`, `pending`, `worker` | the control point of `Run`, the resolved record, the segments with their live counters, the slots still to hand out, what each worker does |
| `cp` | the checkpointer's tick: snapshot taken, fsync done, rows still to write |
| `world`, `remote` | what the server offers (ranges, validators, length), the checksum, stealing on or off, the faults of this behaviour; the version served now |
| `suspect` | history: the run did what the code cannot detect |

`Run` (probe, ResolveRecord, the save as active) and `Open` (the `.part`, grown
and clamped, then repaired) lead to the ranges (`Take`, `Steal`, `Write`,
`Publish`, `FlushFinal`, `PersistRow`, `Retry`, with the ticks `TickSnapshot`,
`TickSync`, `TickPersist` between them) or to a whole body (`BodyAttempt`,
`BodyWrite`, `BodyEnds`); then `EndRanges`, `FinalSync`, `VerifyChecksum`,
`Rename`, `SyncDir`, `FinishCompleted` or `FinishFailed`. Each step that reaches
the disk or the database has its failure. `Kill` loses the memory, `PowerLoss`
also what was not synced: any subset of unsynced bytes, at most the last commit,
an unsynced rename. `LosePart` removes the `.part` between runs, `RemoteChanges`
replaces the remote file.

**Properties.** `BarrierCountsDurableBytes` (past its fsync, what is about to be
persisted counts durable bytes only, whatever is written meanwhile);
`OnlySplitsRunAhead` (unless the behaviour is suspect, the rows overtake the disk by
three named steps only: a split's rows, the record of a failed run, a power loss that
takes back commits which had lowered a counter);
`LayoutTiles` (a reconciled layout covers the file once); `CompletedIsExact` and
`ChecksumGuards` (what is at the destination is one version of the remote file);
`RecordedIsDurable` (a completed row outlives no file);
`ImplementsPublication` (refinement: `VersionOf(dest)` is what is shown,
`VersionOf(destDur)` what is safe); `NeverWedged` (liveness: once the faults end,
the download completes).

| run | instance | shows |
|---|---|---|
| `transfer` | 2 workers, 2 segments, 3 slots, remote versions of 3, 2 and 2 bytes, six worlds, 2 faults | all of these (505,000 states) |
| `regrown_part` (violation) | a steady remote and a process that may die twice | finding 5 |

*Bounds.* Three bytes in two segments leave one of them splittable. Two faults are one that
leaves a bad state and one that meets the recovery from it, which
is what finding 5 needs. The worlds split the faults because their product is not
reachable: every fault but a changed remote; a change of equal size that only the
checksum tells; a change that shrinks the file; steals; and the whole body with
and without a disclosed length. A steal here takes any split beyond the donor's
frontier and its write in flight, which is more than the coordinator would
(`WorkStealing` decides that).

*Fairness.* `Fairness`: each goroutine's and the store's steps are weakly fair;
`EndRanges` is strongly fair, because the checkpointer hears its stop between two
ticks, and Go's `select` does not prefer the ticker for ever; an unfinished
download is run again (recovered, or resumed by its user). No fault has to
happen, and `MaxFaults` makes them finite, as retry budgets do.

*What else is abstract.* A power loss takes back at most the last commit. A new
`.part` makes an unsynced rename or removal before it durable, as a file system with
a metadata journal does once the new entry is; one that reorders directory
operations may bring the old name back. A range that has nothing left to fetch,
because the remote file shrank, ends as a refused request or as an open stream cut
at the new size, which is flushed. An empty
file is an absent one. Reading a row with its segments is one step: within a run
nobody else writes them. `suspect` marks what no code could notice: a resume over
counters the file does not back, ranges written into a `.part` longer than the
file (Linux's preallocation and the resize cut nothing; the preallocation of other
systems, and its fallback, cut such a file to its length, so the model has the worse
case), a
change of the remote under the run, a body of unknown length that ends early. It
weakens `CompletedIsExact`, the file half of `RecordedIsDurable` and, as its taint,
`Publication`; `ChecksumGuards` and the others do without it.
`LayoutTiles` is checked where a plan has two rows or the lone row is split by a
run that then has two; see the further divergences for the lone row.

## 6. ControlPlane

`Daemon` is gidmd processes contending for one socket path; `Settings` is the
configurable values from the configuration's layers to the engine's atomics and the
table; `ControlPlane` composes them: a handler that decoded a set-config runs it
before it responds, a signal or a Close cancels the store calls of the handlers, a
start loads what earlier processes persisted.

| in the modules | in the code |
|---|---|
| `main`, `signalled` | `serve()` of `cmd/gidmd/main.go`: serving, Close in its steps, drain, down; the signal context |
| `accept`, `listener`, `known`, `closing` | the goroutine of `Serve`, its socket, `Server.listener` and `Server.closing` |
| `conn` | connections and their handlers; `Handled` is what the WaitGroup counts |
| `socket`, `private` | the process that the socket file belongs to; whether the file has mode 0600 |
| `found` | history: what the guard took for stale |
| `live`, `rows` | the engine's settings, the settings table |
| `call` | per handler: the set-config in progress, with the keys it has still to persist |
| `told` | history: the last successful answer of a call that ran alone |

A process goes `Boot`, `GuardSingleInstance` (a ping, which a live daemon may
answer too late), `RemoveStale`, `Bind`, `Chmod`, then `Publish`, where Serve stores
the listener, and the accept loop (`AcceptConn`, `Register`, `AcceptFails`), or, where
the socket could not be secured (`VerifyFails`, or nothing to chmod), `Abandon`.
Chmod, its check and every removal are by path: they meet whichever file is there by
then, and closing a listener is such a removal (`Unbind`). To stop, `BeginClose`, `CloseListener`,
`CloseActive` (the timeout), `ConnsDrained`, `RemoveSocket`, `Exit`; or `Kill`. A
set-config is `BeginSet` (validate, overlay the live values), `ApplySettings`,
one `PersistField` per key, `Answer`.

**Properties.** `NoAddAfterWait` and `NoHandlerAfterClose` (the drain is whole: no
handler meets a Manager that shuts down); `SocketTakenOnlyBy` (the four ways in which
a bound daemon loses its socket file: to one that closes, to one that asked before it
was bound, to one it answered too late, to one that gives up a socket it could not
secure);
`AnsweredIsPersisted` and `AnsweredSurvives`
(what a client was told is what the table holds and what the next daemon runs
with); `StopEnds` (a daemon that is told to stop, or is refused the socket, ends).

| run | instance | shows |
|---|---|---|
| `control_plane` | 2 processes, 2 connections, three keys of the three kinds, two configurations of which the second is invalid, 5 events | all of these (344,000 states) |

*Bounds.* Two processes are what a contention for the path needs, and one after
the other is a restart; a process may be started again, within `MaxEvents`, which
counts starts, connections, signals and faults. Five are a start, a request, an
error or a kill, a second start and its signal; a start whose table has rows it
cannot read counts one more for each. The keys are a directory (empty
means the default), a count (0 is refused) and a rate (0 means unlimited).

*Fairness.* The steps of a process and of its handlers are weakly fair: goroutines
are scheduled, reads have deadlines, writes and store calls return. `Runs` leaves
`events` unchanged, so fairness never makes a late answer or an error happen.

*What else is abstract.* The atomics are stored in one step and read in one.
On Windows `secureSocket` does nothing; the model is of the other systems.
Processes that are down are interchangeable, and so are unused connections: the
least one goes next.

## 7. Bandwidth

| in the module | in the code |
|---|---|
| `rate`, `burst`, `tokens`, `age` | `rateLimiter`; `age` is the time since its last refill, in ticks |
| `holder` | the engine's atomic pointer and the run's own one: which bucket each holds |
| `pc`, `size`, `use`, `sleep` | a connection in `progressWriter.Write`: the buckets it loaded for this flush, and `WaitN`'s sleep |
| `running`, `cancelled` | downloads in `transfer` |
| `watch`, `late` | history: the observed window and its room; grants from a replaced bucket |

`BeginFlush` loads both pointers; for each bucket in turn `Unlimited`, `Admit`
(refill, take), `Throttle` (refill, sleep) or `Abort`; then `Write`. `Stall` is the
watchdog, which may take any wait for silence. `SetGlobalRate`,
`SetDownloadRate`, `StartRun` and `EndRun` replace the buckets.

**Properties.** `CapHolds` (no window of time admits more than the capacity and
what accrues in it); `SwapHeard` (after a replacement a connection is admitted by
the old bucket for the flush it was in, and never again); `WaitEnds` (every wait
ends). `TypeOK` says here that tokens never exceed the capacity and that a sleep is
bounded.

| run | instance | shows |
|---|---|---|
| `bandwidth` | 2 connections of one download, 1-byte buffer, rates 0 and 2, 2 flushes and 1, 3 changes, windows of 1 tick over the engine's bucket | all of these (311,000 states) |

*Bounds.* Two connections race on one bucket; three changes are the engine's
limit, the run's and one replacement of either. Capacity is 2, the room for two
buffers, so a third flush must wait. A fractional tick is not modelled: a refill
and its sleep are whole ticks, and what fills the bucket caps `age`. The theorems
have no bound.

*Fairness.* Time passes (`Tick`), and a connection's flush is scheduled. A body is
finite (`todo`): with an endless rival, the code's bucket has no queue and gives
no bound on a wait.

## 8. What is proved

Every theorem is for all values of the constants that satisfy the named
assumptions of its module.

### WorkStealing

`WorkStealingProofs`, for any number of workers, file size, initial
layout that tiles the file, buffer size, steal floor, slot ceiling and retry
budget (`SizesAssumption`, `LayoutsAssumption`, ...):

| theorem | statement |
|---|---|
| `TypeCorrect` | `Spec => []TypeOK` |
| `Tiling` | `Spec => []SlotsTile` |
| `CountersAreBacked` | `Spec => []CountersBacked` |
| `CompletionIsWhole` | `Spec => []CompleteIsWhole` |
| `NoDoubleWrite` | `Spec => []OneWriterPerByte` |
| `StolenTailsAreClean` | `Spec => StolenTailUntouched` |
| `GateRefuses` | `Spec => []GateRefusesOnlyHoles` |

None of the properties is inductive alone. The inductive invariant `IInv` adds:
`OwnersInv` (a slot has at most one owner, an initial slot only after it was
handed out), `LockInv` (the worker inside trySteal holds `mu`, and a slot is free),
`DonorInv` (the frontier a thief remembers is at or behind the donor's, and the
tentative `End` is the split computed from it), `WritersInv` (a written byte is
behind its writer's published frontier or in the flush about to be published),
`FlushInv` (a flush in progress ends inside its slot as it would be after an
undo), `PublishInv` (the flush about to be published is in the file) and
`TriesInv`.

The heart is `TailUntouched`: at a commit the recheck under the lock has seen the
donor's counter at least a margin (one buffer) below the split; a flush in
progress started at or above that counter and is at most one buffer long, so it
ends below the split, and every later flush is clipped by the shrunk `End`. Hence
`CommitStep` can give the tail to the thief. `InitIInv` and `NextStep` (one lemma
per action that disturbs a conjunct, `QuietStep` and `IdleStep` for the rest)
give `Invariance`, from which the theorems follow.

`GateRefuses` is about a sum. With every worker at rest and the file whole, each
byte was written by a slot that tiles it, below that slot's frontier; so the
published ranges are disjoint and together are the file (`WholeIsPublished`), and
their lengths, the counters, add up to its size (`WholePassesGate`, by
`Counting`'s `SumCounts`). `GateStep` carries it from `Finish` on.

### Counting and SegmentLayout

The gate adds counters up with a fold over a finite set, whose recursion only an
induction unfolds, and the provers cannot instantiate an induction rule.
`Counting` replaces it by the least counterexample: `Least` finds a least element
of a set of naturals from the library's well-founded order, `RecursExists` shows
that the fold's recursion has a solution, and `SumCounts` that the sum of the
sizes of disjoint sets is the size of their union.

`LayoutProofs` states what the operators of `SegmentLayout` return, for any size,
number of segments, floor and rows:

| theorem | statement |
|---|---|
| `PlanIsLayout` | a plan is `1..n` segments that are apart and cover the file |
| `RepairIsLayout` | a repaired layout is apart, and covers the file from two rows on |
| `SumCovers` | counters of segments apart that add up to the size cover the file |

### Transfer

`TransferProofs`, for any workers, plan, slot ceiling, versions and sizes of the
remote file, worlds and number of faults (`TransferAssumption`,
`WorldsAssumption`):

| theorem | statement |
|---|---|
| `Invariant` | `Spec => []IInv` |
| `TypeCorrect` | `Spec => []TypeOK` |
| `BarrierHolds` | `Spec => []BarrierCountsDurableBytes` |
| `CompletedHolds` | `Spec => []CompletedIsExact` |
| `RecordedHolds` | `Spec => []RecordedIsDurable` |
| `ChecksumHolds` | `Spec => []ChecksumGuards` |
| `LayoutHolds` | `TwoSegmentPlans` implies `Spec => []LayoutTiles` |
| `RefinesPublication` | `Spec => ImplementsPublication` |

`IInv` has eight parts; TLC checked each of them, and `TilingInv`, on the
instance of `MCTransfer` before they were proved.

- `BaseInv`, `StoreInv` and `RunInv` are the types: `StoreInv` of both states of
  the database, whose rows have the world's shape (`Shaped`: ranges inside the
  file, slot 1 the one at the start, or the lone open-ended segment), `RunInv` of
  the run, which works on the row that it saved as active.
- `PoolInv` and `CheckpointInv`: no two workers stream the same slot, and every
  row that a worker or the tick holds was read from its slot (`RowOf`), whose
  counter and range may have moved on since.
- `BarrierCountsDurableBytes`. A row's counter is at most its segment's, and its
  range is inside the `.part`; so the fsync between the read and the save makes
  what it counts durable (`SyncMakes`), and no later write takes that back, because
  `partDur` only changes by another fsync (`SyncKeeps`).
- `PublishInv`: a `.part` is renamed only as it was synced, and while the
  directory is not synced the destination's new file is the durable `.part`. So a
  power loss leaves the new file whole or brings both names back.
- `ContentInv`: unless suspect, every byte that a counter claims is of the version
  served (`Fetched`). Without it `CompletedIsExact` is not inductive: the rename
  would publish any file whose counters add up. A write goes to a frontier, which
  no counter claims (`FrontierIsNew`) and no other worker holds (`FrontiersApart`);
  at the gate, `SumCovers` turns the sum into a file without a hole
  (`GateCoversFile`).

`RefinesPublication` maps `Rename` to `Publish`, `SyncDir` and `Open` (which makes
a new directory entry durable) to `Settle`, `FinishCompleted` to `Record`,
`PowerLoss` to `PowerLoss`, and the rest to `Taint`, which a step that only
stutters is as well (`StepPublishes`).

`LayoutHolds` takes a second invariant, `TilingInv`: the layout covers the file
while ranges are streamed, and what a resume may find is either two rows or more,
which `RepairIsLayout` makes cover it, or a lone row that is all of it. Its
hypothesis `TwoSegmentPlans` is that where workers steal, a plan has two segments
or more. The defaults have it, in that they never split a lone plan. A
download planned with one segment and resumed with more does not, and there the
property is false (section 9, the lone torn row), so a theorem without a
hypothesis of this kind cannot hold. The other theorems do not need it.

### Manager

`ManagerProofs`, for any pool, clients, menu, downloads and
initial database in creation order (`BoundsAssumption`, `ActorsAssumption`,
`MenuAssumption`, `StoresAssumption`), with any number of calls, starts, crashes
and store errors:

| theorem | statement |
|---|---|
| `TypeCorrect` | `Spec => []TypeOK` |
| `SingleRun` | `Spec => []OneRunPerDownload` |
| `RequestsAreServed` | `Spec => []RequestsServed` |

The inductive invariant is `TypeOK` with
`LocalsInv` (what each control point says of its actor's locals: a job, a loaded
row where one is about to be written, the call being answered, a status to
force; without it the types are not inductive, since a row that was never
loaded could be written back), `RegistryInv` (`cancels` maps a download to `w`
exactly when `w` is between its registration and the settle path's lock section),
`RequestsInv` (only a registered download has a waiting Delete or Restart) and
`DownInv` (nobody is at work while the daemon is down, so that a start finds an
empty registry). Only `Register` and `FinishJob` change the registry, in one lock
section each; every other step is covered by `QuietRegistry`. `OneActor` reduces
`LocalsInv` to the actor that moves.

`PromiseProofs`, for the same, under the hypotheses of the run `promises`: no store error,
and clients that submit, pause, cancel and delete (`Undisturbed`), and for the last two
theorems no crash:

| theorem | statement |
|---|---|
| `InterruptedRecoverable` | `Undisturbed` implies `Spec => []ShutdownRecoverable` |
| `StopsKept` | `Undisturbed` and no crash imply `Spec => []StopNeverDropped` |
| `StoppedNeverRuns` | `Undisturbed` and no crash imply `Spec => StopHolds` |

The hypotheses are not for the proof's convenience: TLC finds a stop undone, and a run
of a stopped download, with one store error, with one crash (a stop of a running
download is answered before its worker saves the status) and with each of resume, restart
and priority in the menu; `ShutdownRecoverable` fails with a store error, a resume or a
restart. An override gives up after its last failed attempt; a resume leaves a second
entry behind (finding 3); a restart's reset forgets the intent and requeues; a priority
call writes back the row it loaded before the stop. Nothing bounds the pool, the
clients, the downloads, the calls and the starts.

The invariant is `PInv` with `StopInv`. `MenuInv` says where calls and workers can be
under that menu, and that only a shutdown has a worker force a download back to
queued. `EntryInv` and `UnusedInv` say that a download is in one place: an entry, a
worker, or a Submit whose identifier no other call can have loaded. So the steps of two
actors on one download are a worker's and a stop's or a Delete's. `InterruptInv`: a run
under way whose context is alive has no intent and no waiting Delete, so what the shutdown
interrupts is forced back to queued. `StopInv`: from a stop's mark on, whoever has
the download or is to take it finds the intent or is forcing the status (`Heeded`), and
once the stop is answered the row shows it, unless a worker that will force it has
begun to write over it. `WorkerKept` and `ClientKept` reduce
a step to a few facts about its own download; `Pop`, `Enqueue`, `Call` and
`Start`, which move a download between places, are proved on their own. A crash breaks
`StopInv` only, which is why it is apart from `PInv`.

### ControlPlane

`ControlPlaneProofs`, for any processes, connections, keys, configurations,
patches and number of events (`DaemonAssumption`, `SettingsAssumption`,
`LayersAssumption`, `SameNamesAssumption`):

| theorem | statement |
|---|---|
| `TypeCorrect` | `Spec => []TypeOK` |
| `NoHandlerOutlivesClose` | `Spec => []NoHandlerAfterClose` |
| `WaitGroupIsClosed` | `Spec => NoAddAfterWait` |
| `SocketIsKept` | `Spec => SocketTakenOnlyBy` |
| `AnswersArePersisted` | `Spec => []AnsweredIsPersisted` |
| `AnswersSurvive` | `Spec => AnsweredSurvives` |

`IInv` is in two halves. `DaemonInv`: `DaemonTypes`, `ServeInv` (which control
points of the accept goroutine go with which listener), `ClosingInv` (`closing` is
set from BeginClose until the process ends), `ConnInv` (a handler's process is up) and
`NoHandlerAfterClose` itself. `SocketIsKept` goes through the steps that unlink:
`RemoveStale` has `found` from the guard's look, `CloseListener` and `RemoveSocket`
are a closing daemon's, and `Abandon` is the fourth way; that the one who loses its
file is not the one that unlinks it follows from `ServeInv` and `ClosingInv`. `AnswersSurvive` lets any
set of rows be unreadable, and uses that the keys are finitely many (`KeysFinite`). `SettingsInv`: `SettingsTypes`, `LiveInv` (a process
that is up has a meaningful value for every key), `CallInv` (a call's wanted values
are meaningful, its process is up, and keys are left while it persists), `SoloInv` (of a
call that ran alone so far, what it has persisted is what it wanted and what is
live) and `ToldInv`. The last two carry `AnswersArePersisted`: values become live
at once and persisted one by one, and only a call that nobody joined may be
answered with what both have become. `Steps` splits `Next` in steps of one half
that leave the other alone (`QuietStep`, `ServesStep`), and `Inductive` puts them
together.

### Bandwidth

`BandwidthProofs`, for any connections, downloads, buffer, rates, burst and number
of changes (`SizesAssumption`, `NamesAssumption`):

| theorem | statement |
|---|---|
| `TypeCorrect` | `Spec => []TypeOK` |
| `NeverOverGranted` | `Spec => []CapHolds` |
| `SwapsAreHeard` | `Spec => []SwapHeard` |

`IInv` is `TypeOK` with `MadeInv` (a bucket in use has been made, and has a
capacity for a buffer), `RoomInv` (the level of the watched bucket
is at most the window's room: what is granted leaves both, what accrues enters
both), `LateInv` (who may still be holding a replaced bucket) and `SwapHeard`.

### Only model-checked

- `Transfer`'s `OnlySplitsRunAhead`: after a power loss the rows may be older than
  the file, and a proof has to relate every counter of every row that may come
  back, also the torn ones of a steal, to the bytes that the disk had when it was
  written. `IInv` relates only the rows that a worker or the tick holds.
- `LayoutTiles` where a lone plan is split: it is false there.
- `Manager`'s `OrphanedOnlyBy`, which is about all operations and store errors at
  once: a proof has to follow every stale copy of a row, and every second entry of a
  download, to the step that takes it on. `ShutdownRecoverable` where clients also set
  priorities: it held on an instance of two downloads, but such a call may write back
  a row that the download's worker has changed since.
- Every liveness property (`RunReturns`, `CallerReleased`, `QueuedRuns`,
  `NeverWedged`, `StopEnds`, `WaitEnds`): liveness under fairness and `ENABLED`
  are beyond the prover.

## 9. Findings

1. **A clean EOF can strand bytes** (`segment.go:116`, run `stranded_bytes`).
   `steal.go:120-122` says an undo can never strand bytes; a body that ends early
   is judged by the tentative `End`, without the lock.
2. **A fully fetched segment can fail its download** (`segment.go:67`, run
   `fetched_fails`), when the watchdog fires during the last fsync.
3. **A stopped download can start again** (`manager.go:675`, run `stopped_runs`),
   from a queue entry that an earlier pause left behind.
4. **A deleted download can come back** (`manager.go:362`, run
   `deleted_returns`), when the Delete finds no registered worker because one is
   just starting.
5. **A resume can publish zeros** (`download_run.go:301`, run `regrown_part`).
   `reconcileProgress` grows a missing `.part` to full size and clamps the counters
   in memory; the old ones are already saved. A kill before the first checkpoint
   leaves zeros of full length beside rows that count bytes, and the next resume
   trusts them. One kill between rename and completed save, and one after the
   regrowth, replace a finished file by zeros and record it completed.

### Further divergences

Met while modelling and kept out of the runs, whose properties are stated so that
they hold of the code. TLC found the first ten with variations of these runs;
the others are read off the code.

- **A lone torn row wedges its download** (`download_run.go:343`): repairLayout
  leaves a single row alone. With `SegmentCount = 1` and stealing, a kill between
  the two rows of the first split (lines 519-520) leaves the donor's shrunk row
  only; `LayoutTiles` and `NeverWedged` fail, since nothing is left to fetch
  and the gate (line 596) refuses for ever. In the code this takes a download planned with
  one segment and resumed with a larger `segments_per_download`.
- **A daemon signalled early never ends** (`apiserver/server.go:197`): a Close that comes
  before Serve has stored its listener finds none and leaves no mark that
  Serve looks at; Serve then accepts for ever and `main.go:165-166` waits for it.
  `StopEnds` exempts this state, `Wedged`.
- **Two daemons can serve side by side** (`apiserver/socket.go:84`). The guard pings
  the socket and then removes whatever the path names. Two daemons that start on the
  socket of a killed one both find it stale; the second removes the file that the
  first has bound meanwhile, binds too, and each serves with its own Manager.
  `socket.go:22-24` says the socket of a live daemon is not taken, and
  `secret/keystore.go:39-41` relies on there being one daemon.
  `SocketTakenOnlyBy`'s second case.
- **A daemon that fails to start can unlink the one that serves**
  (`apiserver/socket.go:42`): its chmod finds no file, because another one's guard
  removed it; that one binds and serves, and the `l.Close` of the first unlinks the
  path. `SocketTakenOnlyBy`'s fourth case.
- **A duplicate entry can refetch a completed download** (`manager.go:675`): the
  completed check reads the row before the worker registers.
- **An error of Engine.Run need not be recorded** (`manager.go:813` and `:830` say
  it was): a failing probe, directory or `.part` returns without a save
  (`download_run.go:60-88`), and the row stays active, which Resume refuses.
  `OrphanedOnlyBy`'s `ReturnsUnsaved`.
- **A Resume between the engine's failed save and finishJob is dropped as a
  duplicate** (`manager.go:688`): the row says queued, and nothing runs it until
  the next start. `DropsLate`.
- **A stop saved while a refused start is being put back is overwritten**
  (`manager.go:721`, `persistOverride`): persistActive failed, the worker has
  loaded the row to force queued, a pause saves, and queued is written over it,
  with no entry. `ForcesQueued`.
- **A priority set on a running download is lost** (`manager.go:550` against
  544-549): the run writes its own copy back (`download_run.go:85`, 610, 628).
  SetRate (`settings.go:241-242`) and SetAuth likewise. The reverse, a stale copy
  that brings back a stopped or deleted row, is `WritesBackStale`.
- **A second Delete of a running download releases only itself**
  (`manager.go:357` against 342-345): it overwrites the first one's done channel.
  With two deleters `CallerReleased` fails.
- **The final fsync of a failed run may be ignored** (`finishFailed`), and then the
  rows count what the disk may not have; and a `.part` removed before a fresh
  start's commit is lost leaves old counters. Both are named in `OnlySplitsRunAhead`.
- `server.go:223-224` calls the second removal of the socket a no-op otherwise; by
  then the path may be a successor's. `SocketTakenOnlyBy`'s first case.
- `desktop/daemon.go:33-34` calls a redundant spawn harmless; its Manager has
  recovered and started the downloads before the guard looks (`main.go:137`).
- A set-config persists every key: afterwards "a key never set falls back to
  config" (`settings.go:182`) holds of none. An unreadable row falls back at
  boot, and the next set-config persists the fallback. After an error the live
  values stay ahead of the table, and two concurrent calls may lose each other's
  patch; `AnsweredIsPersisted` is about calls that ran alone.
- Two downloads of one destination share a `.part` (`download_run.go:57-59`).
- A Cancel during the checksum pass makes it fail, and the failure path removes
  the `.part` (`download_run.go:182`) that `manager.go:37` says a pause keeps.

## 10. Not modelled, and why

- **Lifecycle** as an abstract status machine over Manager's rows: `OrphanedOnlyBy`
  states the part of it that the code keeps.
- **Manager with files**: a Restart that removes the `.part` of a run that is just
  starting (`manager.go:492`) needs Manager's maps and Transfer's files in one
  state; the product is out of TLC's reach at a size where it occurs.
- `LoadDownload`'s two reads, `Engine.Download` and `loadResumable` (called by tests
  only), destination naming, the retries inside one HTTP request (no state
  between two calls).
- A limit so slow that the watchdog takes every wait for silence
  (`segment.go:302`): `Stall` may end any wait, but the two clocks are not compared.
- The rate sampler, views, rendering, wire formats, configuration parsing, the
  vault, the fetcher adapter, the clients, the desktop application, the extension
  and the installers hold no protocol: they are data conversions or one request
  each.

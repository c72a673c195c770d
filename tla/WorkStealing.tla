---------------------------- MODULE WorkStealing ----------------------------
(* One run of Engine.runStealing (internal/engine/download_run.go): a fixed   *)
(* pool of workers over a live segmentation (internal/engine/steal.go), each  *)
(* transferring slots with runSegment (internal/engine/segment.go) while idle *)
(* workers steal the tail of the fattest slot in flight.                      *)
(*                                                                            *)
(* The plan's Ends and the progress counters are atomics that workers read    *)
(* without the coordinator lock, so every such read and every write of them   *)
(* is a step of its own; what the code does under stealCoord.mu without       *)
(* touching an atomic another goroutine uses is part of the step around it.   *)
(* A body is whatever a server sends: any number of chunks of at most one     *)
(* buffer, then a clean EOF or an error.                                      *)
EXTENDS Integers, FiniteSets, Functions

CONSTANTS
    Workers,        \* the SegmentsPerDownload goroutines of the pool
    TotalSize,      \* bytes of the remote file
    NSegs,          \* segments of the record the run starts from
    MaxSlots,       \* config MaxSegments, the ceiling of the live plan
    Layouts,        \* the segment sets a run may start from: a fresh plan or a resumed record
    BufferSize,     \* transfer buffer: the most one flush writes
    MinStealSize,   \* configured minimum of a stolen piece
    MaxRetries,     \* attempts after the first
    NoWorker        \* nobody holds stealCoord.mu

ASSUME SizesAssumption ==
    /\ TotalSize \in Nat \ {0}
    /\ NSegs \in Nat \ {0}
    /\ MaxSlots \in Nat /\ MaxSlots >= NSegs
    /\ BufferSize \in Nat \ {0}
    /\ MinStealSize \in Nat
    /\ MaxRetries \in Nat

ASSUME WorkersAssumption == NoWorker \notin Workers

Bytes == 0 .. TotalSize - 1
Slots == 0 .. MaxSlots - 1
Initial == 0 .. NSegs - 1
Segment == [start : Bytes, end : Bytes, completed : 0 .. TotalSize]

\* What planSegments returns for a first run and repairLayout for a resumed one:
\* segments that cover the file without overlapping, none holding more than its size.
ASSUME LayoutsAssumption ==
    \A L \in Layouts :
        /\ L \in [Initial -> Segment]
        /\ \A i \in Initial : L[i].start <= L[i].end
        /\ \A i \in Initial : L[i].start + L[i].completed <= L[i].end + 1
        /\ \A i, j \in Initial : i # j => L[i].end < L[j].start \/ L[j].end < L[i].start
        /\ \A b \in Bytes : \E i \in Initial : b \in L[i].start .. L[i].end

VARIABLES
    starts, ends,   \* livePlan: immutable Start and live inclusive End of each slot
    completed,      \* segProgress: bytes of each slot its worker has published
    part,           \* the .part file: which slots' workers have written each byte
    cursor, active, \* stealCoord: next initial slot to hand out, slots in use
    mu,             \* holder of stealCoord.mu across a trySteal
    thief,          \* trySteal's and fattest's locals (of the worker that holds mu)
    pc, slot, tries,\* per worker: control point, current slot, attempt number
    chunk,          \* bytes the last body read delivered (per worker)
    flush,          \* bytes the flush in progress writes (per worker)
    sig,            \* how the copy goes on or ended (per worker)
    stalled,        \* stallWatch.stalled of the worker's attempt
    cancelled,      \* the run's parent context: Pause, Cancel, Delete, Shutdown
    first,          \* runStealing's fail() has recorded an error and cancelled the run
    outcome         \* of runStealing

plan == <<starts, ends, active>>
lock == <<mu, thief>>
local == <<pc, slot, tries, chunk, flush, sig, stalled>>
run == <<cancelled, first, outcome>>
vars == <<starts, ends, completed, part, cursor, active, mu, thief,
          pc, slot, tries, chunk, flush, sig, stalled, cancelled, first, outcome>>

NoSlot == -1
Thief == [at : 0 .. MaxSlots, excluded : SUBSET Slots, donor : Slots \cup {NoSlot},
          from : Int, rem : Int, oldEnd : Int, mid : Int]
NoThief == [at |-> 0, excluded |-> {}, donor |-> NoSlot,
            from |-> 0, rem |-> 0, oldEnd |-> 0, mid |-> 0]

\* Engine.stealFloor: a split keeps each piece above two buffers.
StealFloor == IF MinStealSize < 2 * BufferSize + 1 THEN 2 * BufferSize + 1 ELSE MinStealSize
\* Defect: no gap for the donor's write in flight.
Margin_None == 0
Margin == BufferSize

RunDone == cancelled \/ first           \* runCtx.Err() != nil
Size(s) == ends[s] - starts[s] + 1
Frontier(s) == starts[s] + completed[s]
IsDone(s) == completed[s] >= Size(s)
Unfetched(s) == ends[s] - Frontier(s) + 1

Control == {"next", "scan", "split", "recheck", "persist", "segment", "attempt",
            "read", "clip", "write", "publish", "flush", "ended", "exit", "failed"}
Streaming == {"read", "clip", "write", "publish", "flush", "ended"}

-----------------------------------------------------------------------------
(* newLivePlan and newSegProgressSized over the record's segments. The bytes  *)
(* a resumed segment counts are in the .part already.                         *)
Init ==
    /\ \E L \in Layouts :
        /\ starts = [s \in Slots |-> IF s \in Initial THEN L[s].start ELSE 0]
        /\ ends = [s \in Slots |-> IF s \in Initial THEN L[s].end ELSE 0]
        /\ completed = [s \in Slots |-> IF s \in Initial THEN L[s].completed ELSE 0]
        /\ part = [b \in Bytes |->
                     {s \in Initial : b \in L[s].start .. L[s].start + L[s].completed - 1}]
    /\ cursor = 0 /\ active = NSegs
    /\ mu = NoWorker /\ thief = NoThief
    /\ pc = [w \in Workers |-> "next"]
    /\ slot = [w \in Workers |-> NoSlot]
    /\ tries = [w \in Workers |-> 0]
    /\ chunk = [w \in Workers |-> 0]
    /\ flush = [w \in Workers |-> 0]
    /\ sig = [w \in Workers |-> "more"]
    /\ stalled = [w \in Workers |-> FALSE]
    /\ cancelled = FALSE /\ first = FALSE /\ outcome = "running"

Goto(w, p) == pc' = [pc EXCEPT ![w] = p]
-----------------------------------------------------------------------------
(* The dispatch loop: stealCoord.next hands out the initial slots in order,   *)
(* then tries to steal.                                                       *)

LeavePool(w) ==
    /\ pc[w] = "next" /\ RunDone
    /\ Goto(w, "exit")
    /\ UNCHANGED <<plan, completed, part, cursor, lock, run,
                   slot, tries, chunk, flush, sig, stalled>>

HandOut(w) ==
    /\ pc[w] = "next" /\ ~RunDone /\ mu = NoWorker
    /\ cursor < NSegs
    /\ cursor' = cursor + 1
    /\ slot' = [slot EXCEPT ![w] = cursor]
    /\ Goto(w, "segment")
    /\ UNCHANGED <<plan, completed, part, lock, run, tries, chunk, flush, sig, stalled>>

\* Every slot is in use: no tail can be opened, so the worker leaves the pool.
PlanFull(w) ==
    /\ pc[w] = "next" /\ ~RunDone /\ mu = NoWorker
    /\ cursor = NSegs /\ active = MaxSlots
    /\ Goto(w, "exit")
    /\ UNCHANGED <<plan, completed, part, cursor, lock, run,
                   slot, tries, chunk, flush, sig, stalled>>

BeginSteal(w) ==
    /\ pc[w] = "next" /\ ~RunDone /\ mu = NoWorker
    /\ cursor = NSegs /\ active < MaxSlots
    /\ mu' = w /\ thief' = NoThief
    /\ Goto(w, "scan")
    /\ UNCHANGED <<plan, completed, part, cursor, run,
                   slot, tries, chunk, flush, sig, stalled>>

\* One iteration of fattest: a slot's counter and End are read while the worker
\* that owns the slot keeps advancing it.
ScanSlot(w) ==
    /\ pc[w] = "scan"
    /\ LET s == thief.at
           fatter == s \notin thief.excluded /\ Unfetched(s) > thief.rem IN
       thief' = [thief EXCEPT !.at = s + 1,
                              !.donor = IF fatter THEN s ELSE @,
                              !.from = IF fatter THEN Frontier(s) ELSE @,
                              !.rem = IF fatter THEN Unfetched(s) ELSE @]
    /\ Goto(w, IF thief.at + 1 = active THEN "split" ELSE "scan")
    /\ UNCHANGED <<plan, completed, part, cursor, mu, run,
                   slot, tries, chunk, flush, sig, stalled>>

NothingToSteal(w) ==
    /\ pc[w] = "split"
    /\ thief.donor = NoSlot \/ thief.rem < 2 * StealFloor
    /\ mu' = NoWorker /\ thief' = NoThief
    /\ Goto(w, "exit")
    /\ UNCHANGED <<plan, completed, part, cursor, run,
                   slot, tries, chunk, flush, sig, stalled>>

\* The tentative shrink of the donor's End.
Shrink(w) ==
    /\ pc[w] = "split"
    /\ thief.donor # NoSlot /\ thief.rem >= 2 * StealFloor
    /\ LET mid == thief.from + thief.rem \div 2 - 1 IN
       /\ ends' = [ends EXCEPT ![thief.donor] = mid]
       /\ thief' = [thief EXCEPT !.mid = mid, !.oldEnd = ends[thief.donor]]
    /\ Goto(w, "recheck")
    /\ UNCHANGED <<starts, active, completed, part, cursor, mu, run,
                   slot, tries, chunk, flush, sig, stalled>>

\* Defect: commits without looking at the donor's frontier again.
Commit_NoRecheck(w) ==
    /\ pc[w] = "recheck"
    /\ starts' = [starts EXCEPT ![active] = thief.mid + 1]
    /\ ends' = [ends EXCEPT ![active] = thief.oldEnd]
    /\ completed' = [completed EXCEPT ![active] = 0]
    /\ active' = active + 1
    /\ slot' = [slot EXCEPT ![w] = active]
    /\ mu' = NoWorker /\ thief' = NoThief
    /\ Goto(w, "persist")
    /\ UNCHANGED <<part, cursor, run, tries, chunk, flush, sig, stalled>>

\* The donor is still a buffer behind the split: its tail becomes a new slot.
Commit(w) ==
    /\ pc[w] = "recheck"
    /\ Frontier(thief.donor) <= thief.mid - Margin
    /\ starts' = [starts EXCEPT ![active] = thief.mid + 1]
    /\ ends' = [ends EXCEPT ![active] = thief.oldEnd]
    /\ completed' = [completed EXCEPT ![active] = 0]
    /\ active' = active + 1
    /\ slot' = [slot EXCEPT ![w] = active]
    /\ mu' = NoWorker /\ thief' = NoThief
    /\ Goto(w, "persist")
    /\ UNCHANGED <<part, cursor, run, tries, chunk, flush, sig, stalled>>

\* Defect: the undone donor is excluded but keeps the shrunk End.
Undo_KeepsShrink(w) ==
    /\ pc[w] = "recheck"
    /\ Frontier(thief.donor) > thief.mid - Margin
    /\ thief' = [NoThief EXCEPT !.excluded = thief.excluded \cup {thief.donor}]
    /\ Goto(w, "scan")
    /\ UNCHANGED <<plan, completed, part, cursor, mu, run,
                   slot, tries, chunk, flush, sig, stalled>>

\* The donor ran into the margin while its End was being shrunk: give the range
\* back and look for another donor.
Undo(w) ==
    /\ pc[w] = "recheck"
    /\ Frontier(thief.donor) > thief.mid - Margin
    /\ ends' = [ends EXCEPT ![thief.donor] = thief.oldEnd]
    /\ thief' = [NoThief EXCEPT !.excluded = thief.excluded \cup {thief.donor}]
    /\ Goto(w, "scan")
    /\ UNCHANGED <<starts, active, completed, part, cursor, mu, run,
                   slot, tries, chunk, flush, sig, stalled>>

\* UpdateSegment of the donor's and the tail's rows, off the lock. The store is
\* outside this module: only the window it opens matters here.
PersistSplit(w) ==
    /\ pc[w] = "persist"
    /\ Goto(w, "segment")
    /\ UNCHANGED <<plan, completed, part, cursor, lock, run,
                   slot, tries, chunk, flush, sig, stalled>>
-----------------------------------------------------------------------------
(* runSegment: attempts on one slot, streamInto's copy loop, and the copy's   *)
(* outcome.                                                                   *)

\* fail(): the first error is the run's, and cancels the siblings.
Fail(w, p) == first' = TRUE /\ Goto(w, p)

StartSegment(w) ==
    /\ pc[w] = "segment"
    /\ Goto(w, IF IsDone(slot[w]) THEN "next" ELSE "attempt")
    /\ tries' = [tries EXCEPT ![w] = 0]
    /\ UNCHANGED <<plan, completed, part, cursor, lock, run,
                   slot, chunk, flush, sig, stalled>>

\* The run was cancelled: before an attempt, in its backoff sleep, or in RangeGet.
AttemptCancelled(w) ==
    /\ pc[w] = "attempt" /\ tries[w] <= MaxRetries /\ RunDone
    /\ Fail(w, "exit")
    /\ UNCHANGED <<plan, completed, part, cursor, lock, cancelled, outcome,
                   slot, tries, chunk, flush, sig, stalled>>

\* The budget is spent, or the live End read before the attempt is behind the
\* frontier: both leave the loop with an error.
GiveUp(w) ==
    /\ pc[w] = "attempt"
    /\ tries[w] > MaxRetries \/ (~RunDone /\ Frontier(slot[w]) > ends[slot[w]])
    /\ Fail(w, "failed")
    /\ UNCHANGED <<plan, completed, part, cursor, lock, cancelled, outcome,
                   slot, tries, chunk, flush, sig, stalled>>

\* Defect: one attempt more than the budget.
CanAttempt_OffByOne(w) ==
    /\ pc[w] = "attempt" /\ tries[w] <= MaxRetries + 1 /\ ~RunDone
    /\ Frontier(slot[w]) <= ends[slot[w]]
CanAttempt(w) ==
    /\ pc[w] = "attempt" /\ tries[w] <= MaxRetries /\ ~RunDone
    /\ Frontier(slot[w]) <= ends[slot[w]]

\* Defect: failed attempts are not counted.
Retry_Uncounted(w) ==
    /\ tries' = tries
    /\ Goto(w, "attempt")
\* Spend one attempt.
Retry(w) ==
    /\ tries' = [tries EXCEPT ![w] = @ + 1]
    /\ Goto(w, "attempt")

ConnectFails(w) ==
    /\ CanAttempt(w)
    /\ Retry(w)
    /\ UNCHANGED <<plan, completed, part, cursor, lock, run,
                   slot, chunk, flush, sig, stalled>>

Connect(w) ==
    /\ CanAttempt(w)
    /\ Goto(w, "read")
    /\ UNCHANGED <<plan, completed, part, cursor, lock, run,
                   slot, tries, chunk, flush, sig, stalled>>

\* The watchdog fires when the counter has been flat for StallTimeout: a silent
\* peer, a wait for bandwidth, a slow disk write or a slow fsync in flushFinal.
StallFires(w) ==
    /\ pc[w] \in Streaming /\ ~stalled[w]
    /\ stalled' = [stalled EXCEPT ![w] = TRUE]
    /\ UNCHANGED <<plan, completed, part, cursor, lock, run,
                   pc, slot, tries, chunk, flush, sig>>

ReadChunk(w) ==
    /\ pc[w] = "read"
    /\ \E n \in 1 .. BufferSize : chunk' = [chunk EXCEPT ![w] = n]
    /\ Goto(w, "clip")
    /\ UNCHANGED <<plan, completed, part, cursor, lock, run,
                   slot, tries, flush, sig, stalled>>

\* The body ends: a clean EOF wherever the server stops, or an error.
ReadEnds(w) ==
    /\ pc[w] = "read"
    /\ \E how \in {"eof", "err"} : sig' = [sig EXCEPT ![w] = how]
    /\ Goto(w, "flush")
    /\ UNCHANGED <<plan, completed, part, cursor, lock, run,
                   slot, tries, chunk, flush, stalled>>

\* WaitN gives up on a cancelled context.
ThrottleAborts(w) ==
    /\ pc[w] = "clip" /\ (RunDone \/ stalled[w])
    /\ sig' = [sig EXCEPT ![w] = "err"]
    /\ chunk' = [chunk EXCEPT ![w] = 0]
    /\ Goto(w, "flush")
    /\ UNCHANGED <<plan, completed, part, cursor, lock, run, slot, tries, flush, stalled>>

\* progressWriter reads the live End and clips the flush to it.
Room(s) == Size(s) - completed[s]
Clip(w) ==
    /\ pc[w] = "clip"
    /\ LET room == Room(slot[w]) IN
       /\ flush' = [flush EXCEPT ![w] =
                      IF room <= 0 THEN 0 ELSE IF chunk[w] >= room THEN room ELSE chunk[w]]
       /\ sig' = [sig EXCEPT ![w] = IF chunk[w] >= room THEN "stolen" ELSE "more"]
       /\ Goto(w, IF room <= 0 THEN "flush" ELSE "write")
    /\ chunk' = [chunk EXCEPT ![w] = 0]
    /\ UNCHANGED <<plan, completed, part, cursor, lock, run, slot, tries, stalled>>

\* Defect: a short write still counts the whole flush.
Write_CountsAll(w) ==
    /\ pc[w] = "write"
    /\ \E n \in 0 .. flush[w] :
        /\ part' = [b \in Bytes |->
                      IF b \in Frontier(slot[w]) .. Frontier(slot[w]) + n - 1
                      THEN part[b] \cup {slot[w]} ELSE part[b]]
        /\ sig' = [sig EXCEPT ![w] = IF n < flush[w] THEN "err" ELSE @]
    /\ Goto(w, "publish")
    /\ UNCHANGED <<plan, completed, cursor, lock, run, slot, tries, chunk, flush, stalled>>

\* WriteAt at the segment's offset; a short write is an error.
Write(w) ==
    /\ pc[w] = "write"
    /\ \E n \in 0 .. flush[w] :
        /\ part' = [b \in Bytes |->
                      IF b \in Frontier(slot[w]) .. Frontier(slot[w]) + n - 1
                      THEN part[b] \cup {slot[w]} ELSE part[b]]
        /\ flush' = [flush EXCEPT ![w] = n]
        /\ sig' = [sig EXCEPT ![w] = IF n < flush[w] THEN "err" ELSE @]
    /\ Goto(w, "publish")
    /\ UNCHANGED <<plan, completed, cursor, lock, run, slot, tries, chunk, stalled>>

Publish(w) ==
    /\ pc[w] = "publish"
    /\ completed' = [completed EXCEPT ![slot[w]] = @ + flush[w]]
    /\ flush' = [flush EXCEPT ![w] = 0]
    /\ Goto(w, IF sig[w] = "more" THEN "read" ELSE "flush")
    /\ UNCHANGED <<plan, part, cursor, lock, run, slot, tries, chunk, sig, stalled>>

\* checkpointer.flushFinal, inside streamInto: the watchdog is still running.
FlushFinal(w) ==
    /\ pc[w] = "flush"
    /\ Goto(w, "ended")
    /\ UNCHANGED <<plan, completed, part, cursor, lock, run,
                   slot, tries, chunk, flush, sig, stalled>>

\* The attempt's body is closed and its watchdog stopped.
CloseStream(w) ==
    /\ sig' = [sig EXCEPT ![w] = "more"]
    /\ stalled' = [stalled EXCEPT ![w] = FALSE]

StreamCancelled(w) ==
    /\ pc[w] = "ended" /\ RunDone
    /\ Fail(w, "exit")
    /\ CloseStream(w)
    /\ UNCHANGED <<plan, completed, part, cursor, lock, cancelled, outcome,
                   slot, tries, chunk, flush>>

\* The copy filled the slot up to the End it saw. Under the lock no steal is half
\* done: either the slot is complete or an undone steal restored a larger End.
Settled(s) == completed[s] >= Size(s)
Settle(w) ==
    /\ pc[w] = "ended" /\ ~RunDone /\ ~stalled[w] /\ sig[w] = "stolen"
    /\ mu = NoWorker
    /\ Goto(w, IF Settled(slot[w]) THEN "next" ELSE "attempt")
    /\ CloseStream(w)
    /\ UNCHANGED <<plan, completed, part, cursor, lock, run, slot, tries, chunk, flush>>

\* A clean EOF at the slot's live End, which is read without the lock.
EofComplete(w) ==
    /\ pc[w] = "ended" /\ ~RunDone /\ ~stalled[w] /\ sig[w] = "eof"
    /\ IsDone(slot[w])
    /\ Goto(w, "next")
    /\ CloseStream(w)
    /\ UNCHANGED <<plan, completed, part, cursor, lock, run, slot, tries, chunk, flush>>

\* A stall, a transfer error or a short body: try again from the frontier.
StreamFails(w) ==
    /\ pc[w] = "ended" /\ ~RunDone
    /\ stalled[w] \/ sig[w] = "err" \/ (sig[w] = "eof" /\ ~IsDone(slot[w]))
    /\ Retry(w)
    /\ CloseStream(w)
    /\ UNCHANGED <<plan, completed, part, cursor, lock, run, slot, chunk, flush>>
-----------------------------------------------------------------------------
(* The end of the run: every worker has left, and verifyComplete is the gate  *)
(* before the .part may be renamed.                                           *)

Cancel ==
    /\ outcome = "running" /\ ~cancelled
    /\ cancelled' = TRUE
    /\ UNCHANGED <<plan, completed, part, cursor, lock, local, first, outcome>>

\* Defect: the sum is taken over the initial segments.
VerifyComplete_InitialSum ==
    /\ \A s \in 0 .. active - 1 : IsDone(s)
    /\ SumFunctionOnSet(completed, Initial) = TotalSize
VerifyComplete ==
    /\ \A s \in 0 .. active - 1 : IsDone(s)
    /\ SumFunctionOnSet(completed, 0 .. active - 1) = TotalSize

\* Defect: takes the workers' silence for success.
Finish_Ungated ==
    /\ outcome = "running"
    /\ \A w \in Workers : pc[w] \in {"exit", "failed"}
    /\ outcome' = IF ~first /\ ~cancelled THEN "complete" ELSE "failed"
    /\ UNCHANGED <<plan, completed, part, cursor, lock, local, cancelled, first>>

Finish ==
    /\ outcome = "running"
    /\ \A w \in Workers : pc[w] \in {"exit", "failed"}
    /\ outcome' = IF ~first /\ ~cancelled /\ VerifyComplete THEN "complete" ELSE "failed"
    /\ UNCHANGED <<plan, completed, part, cursor, lock, local, cancelled, first>>

Returned == outcome # "running" /\ UNCHANGED vars

Dispatch(w) == LeavePool(w) \/ HandOut(w) \/ PlanFull(w) \/ BeginSteal(w)
Steal(w) ==
    \/ ScanSlot(w) \/ NothingToSteal(w) \/ Shrink(w)
    \/ Commit(w) \/ Undo(w) \/ PersistSplit(w)
Attempt(w) ==
    \/ StartSegment(w) \/ AttemptCancelled(w) \/ GiveUp(w)
    \/ ConnectFails(w) \/ Connect(w)
Stream(w) ==
    \/ ReadChunk(w) \/ ReadEnds(w) \/ ThrottleAborts(w)
    \/ Clip(w) \/ Write(w) \/ Publish(w) \/ FlushFinal(w)
Settling(w) == StreamCancelled(w) \/ Settle(w) \/ EofComplete(w) \/ StreamFails(w)
Work(w) == Dispatch(w) \/ Steal(w) \/ Attempt(w) \/ Stream(w) \/ Settling(w)

Next == (\E w \in Workers : Work(w) \/ StallFires(w)) \/ Cancel \/ Finish \/ Returned

Spec == Init /\ [][Next]_vars

(* Every goroutine runs, and the stall watchdog ends a silent read, so a read *)
(* always comes to something. sync.Mutex is starvation free, so a worker that *)
(* waits for stealCoord.mu again and again gets it: strong fairness there.    *)
FairSpec ==
    /\ Spec
    /\ \A w \in Workers : WF_vars(Work(w)) /\ SF_vars(Dispatch(w)) /\ SF_vars(Settle(w))
    /\ WF_vars(Finish)
-----------------------------------------------------------------------------
(* Properties.                                                                *)

\* The values each variable of runStealing's state can hold.
TypeOK ==
    /\ starts \in [Slots -> Bytes]
    /\ ends \in [Slots -> Bytes]
    /\ completed \in [Slots -> 0 .. TotalSize]
    /\ part \in [Bytes -> SUBSET Slots]
    /\ cursor \in 0 .. NSegs
    /\ active \in NSegs .. MaxSlots
    /\ mu \in Workers \cup {NoWorker}
    /\ thief \in Thief
    /\ pc \in [Workers -> Control]
    /\ slot \in [Workers -> Slots \cup {NoSlot}]
    /\ tries \in [Workers -> 0 .. MaxRetries + 1]
    /\ chunk \in [Workers -> 0 .. BufferSize]
    /\ flush \in [Workers -> 0 .. BufferSize]
    /\ sig \in [Workers -> {"more", "stolen", "eof", "err"}]
    /\ stalled \in [Workers -> BOOLEAN]
    /\ cancelled \in BOOLEAN /\ first \in BOOLEAN
    /\ outcome \in {"running", "complete", "failed"}

Active == 0 .. active - 1

\* A slot's End once the steal in progress is committed or undone.
Tentative(s) == mu # NoWorker /\ pc[mu] = "recheck" /\ thief.donor = s
RealEnd(s) == IF Tentative(s) THEN thief.oldEnd ELSE ends[s]

\* The steal-safety invariant of trySteal's comment: "no double-write". No byte of
\* the .part is ever written by the workers of two slots.
OneWriterPerByte == \A b \in Bytes : \A s, t \in part[b] : s = t

\* "No gap": up to the steal in progress, the slots in use cover every byte of the
\* file exactly once, and no counter runs past its slot.
SlotsTile ==
    /\ \A b \in Bytes : \E s \in Active : b \in starts[s] .. RealEnd(s)
    /\ \A s, t \in Active : s # t => RealEnd(s) < starts[t] \/ RealEnd(t) < starts[s]
    /\ \A s \in Active : Frontier(s) <= RealEnd(s) + 1

\* A counter that a checkpoint, a terminal persist or the completeness gate may
\* read never runs ahead of what the slot's worker has put in the file.
CountersBacked ==
    \A s \in Active : \A b \in Bytes :
        b \in starts[s] .. Frontier(s) - 1 => s \in part[b]

Whole == \A b \in Bytes : part[b] # {}

\* verifyComplete guards the rename: a run that reports success has written every
\* byte of the file, whatever the servers sent and whoever was stolen from.
CompleteIsWhole == outcome = "complete" => Whole

\* verifyComplete refuses nothing else: a run without an error or a cancel that it
\* fails has a hole (the per-slot counters and their sum do not misjudge a layout).
GateRefusesOnlyHoles == outcome = "failed" /\ ~first /\ ~cancelled => ~Whole

\* "The stolen tail is disjoint from every byte the donor has written or will
\* write": when a steal commits, nobody has written a byte of the tail, and no
\* flush already clipped to the donor's old End reaches it.
StolenTailUntouched ==
    [][active' > active =>
         LET tail == starts'[active] .. ends'[active] IN
         /\ tail # {} /\ \A b \in tail : part[b] = {}
         /\ \A w \in Workers :
              pc[w] = "write" =>
                tail \cap (Frontier(slot[w]) .. Frontier(slot[w]) + flush[w] - 1) = {}]_vars

\* The run always returns: no worker waits for the lock, retries or steals for ever,
\* however the servers behave.
RunReturns == <>(outcome # "running")

\* "An undo can never strand bytes": a run that saw no error and no cancel ends
\* with the whole file.
NoStrandedBytes == outcome = "failed" => first \/ cancelled

\* "Fully fetched between attempts": a segment whose every byte has arrived is done,
\* and is not what a run fails for.
FetchedNeverFails ==
    \A w \in Workers : pc[w] = "failed" => Frontier(slot[w]) <= ends[slot[w]]
=============================================================================

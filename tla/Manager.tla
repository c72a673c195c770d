------------------------------- MODULE Manager -------------------------------
(* Manager (internal/engine/manager.go): the pending set, the worker pool and *)
(* the operations API clients call on it, over the SQLite store's rows, with  *)
(* the start, signal, drain and crash of the daemon around it (cmd/gidmd).    *)
(*                                                                            *)
(* Manager.mu guards the maps, never the store: an operation loads a row,     *)
(* works on its copy, takes the lock for a moment, and writes the whole copy  *)
(* back. Each store call and each lock section is a step of its own, of a     *)
(* client's handler goroutine or of a worker. The transfer itself             *)
(* (Engine.Run) is reduced to what it saves and how it returns; WorkStealing  *)
(* shows that it does return.                                                 *)
EXTENDS Integers, FiniteSets, Sequences, SequencesExt

CONSTANTS
    MaxIds,         \* downloads ever submitted
    Workers,        \* the pool, of MaxConcurrent goroutines
    Clients,        \* API connections
    Menu,           \* the operations each client may call
    Prios,          \* priorities
    Stores,         \* what the database may hold when the daemon first starts
    OverrideAttempts, \* persistOverrideAttempts
    MaxCalls, MaxStarts, MaxCrashes, MaxFaults, \* bounds of the exploration
    NoWorker        \* nobody runs the download

Ops == {"submit", "pause", "cancel", "resume", "delete", "restart", "priority", "auth"}
Ids == 1 .. MaxIds
NoId == 0
Actors == Workers \cup Clients
Settled == {"paused", "canceled", "failed", "completed"}
Status == Settled \cup {"queued", "active"}
Row == [status : Status, prio : Prios]
NoRow == [status |-> "absent", prio |-> 0]

ASSUME BoundsAssumption ==
    /\ MaxIds \in Nat /\ OverrideAttempts \in Nat \ {0}
    /\ MaxCalls \in Nat /\ MaxStarts \in Nat /\ MaxCrashes \in Nat /\ MaxFaults \in Nat
ASSUME ActorsAssumption == NoWorker \notin Workers /\ Workers \cap Clients = {}
ASSUME MenuAssumption == Prios \subseteq Int /\ Menu \in [Clients -> SUBSET Ops]
\* Identifiers are numbered in the order of creation, which ListDownloads returns.
ASSUME StoresAssumption ==
    /\ Stores \subseteq [Ids -> Row \cup {NoRow}]
    /\ \A s \in Stores : \A i, j \in Ids : s[i] = NoRow /\ i < j => s[j] = NoRow

VARIABLES
    store,          \* rows of the downloads table
    created,        \* identifiers issued so far
    phase,          \* of the daemon: down, serving, stopping (signalled), draining (Shutdown)
    pending,        \* m.pending in seq order
    intents, cancels, deleting, restarting, \* the Manager's maps
    released,       \* done channels that have been closed
    pc, job, row,   \* per actor: control point, download, loaded copy of its row
    op,             \* per client: the call, its priority argument, its done channel
    goal,           \* per worker: the stop intent read, then the status to force
    hit,            \* per worker: the job's context was cancelled
    outcome,        \* per worker: how the run ended; "abort" with the base context cancelled
    tries,          \* per worker: failed attempts of persistOverride
    owes,           \* per worker: done channels to close
    calls, starts, crashes, faults, \* spent of the bounds
    promise         \* what the last answered call promised of each download (history)

maps == <<intents, cancels, deleting, restarting>>
worker == <<goal, hit, outcome, tries, owes>>
bounds == <<calls, starts, crashes, faults>>
vars == <<store, created, phase, pending, intents, cancels, deleting, restarting, released,
          pc, job, row, op, goal, hit, outcome, tries, owes,
          calls, starts, crashes, faults, promise>>

NoOp == [kind |-> "none", prio |-> 0, ticket |-> 0]
NoTicket == 0

Goto(a, p) == pc' = [pc EXCEPT ![a] = p]
Hold(a, r) == row' = [row EXCEPT ![a] = r]
Put(a, r) == store' = [store EXCEPT ![job[a]] = r]

\* The actor's call or job is over.
Rest(a) ==
    /\ Goto(a, "idle")
    /\ job' = [job EXCEPT ![a] = NoId]
    /\ Hold(a, NoRow)
Return(c) == Rest(c) /\ op' = [op EXCEPT ![c] = NoOp]

\* A handler's store calls take the server's context, cancelled by the signal.
Serving == phase = "serving"
\* Shutdown has run: m.closed is set and the base context cancelled.
Closed == phase = "draining"
\* The context of the worker's job is done.
Dead(w) == hit[w] \/ Closed

Init ==
    /\ store \in Stores
    /\ created = Cardinality({i \in Ids : store[i] # NoRow})
    /\ phase = "down"
    /\ pending = <<>>
    /\ intents = [i \in Ids |-> "none"]
    /\ cancels = [i \in Ids |-> NoWorker]
    /\ deleting = [i \in Ids |-> NoTicket]
    /\ restarting = [i \in Ids |-> NoTicket]
    /\ released = {}
    /\ pc = [a \in Actors |-> IF a \in Workers THEN "exit" ELSE "idle"]
    /\ job = [a \in Actors |-> NoId]
    /\ row = [a \in Actors |-> NoRow]
    /\ op = [c \in Clients |-> NoOp]
    /\ goal = [w \in Workers |-> "none"]
    /\ hit = [w \in Workers |-> FALSE]
    /\ outcome = [w \in Workers |-> "none"]
    /\ tries = [w \in Workers |-> 0]
    /\ owes = [w \in Workers |-> {}]
    /\ calls = 0 /\ starts = 0 /\ crashes = 0 /\ faults = 0
    /\ promise = [i \in Ids |-> "none"]
-----------------------------------------------------------------------------
(* Client calls. Every operation but Submit begins by loading the row.        *)

Call(c) ==
    /\ Serving /\ pc[c] = "idle" /\ calls < MaxCalls
    /\ calls' = calls + 1
    /\ \E kind \in Menu[c], p \in Prios :
        /\ kind \in {"submit", "priority"} \/ p = CHOOSE q \in Prios : TRUE
        /\ op' = [op EXCEPT ![c] = [kind |-> kind, prio |-> p, ticket |-> calls + 1]]
        /\ \/ /\ kind = "submit" /\ created < MaxIds
              /\ created' = created + 1
              /\ job' = [job EXCEPT ![c] = created + 1]
              /\ Hold(c, [status |-> "queued", prio |-> p])
              /\ Goto(c, "save")
              /\ UNCHANGED promise
           \/ /\ kind # "submit"
              /\ \E i \in 1 .. created :
                  /\ job' = [job EXCEPT ![c] = i]
                  /\ promise' = IF kind \in {"resume", "restart"}
                                THEN [promise EXCEPT ![i] = "none"] ELSE promise
              /\ Goto(c, "load")
              /\ UNCHANGED <<created, row>>
    /\ UNCHANGED <<store, phase, pending, maps, released, worker, starts, crashes, faults>>

\* LoadDownload. Resume goes on only from a settled row (ErrNotResumable).
Load(c) ==
    /\ Serving /\ pc[c] = "load"
    /\ LET r == store[job[c]] kind == op[c].kind IN
       IF r = NoRow \/ (kind = "resume" /\ r.status \notin Settled)
       THEN Return(c)
       ELSE /\ Hold(c, CASE kind = "priority" -> [r EXCEPT !.prio = op[c].prio]
                         [] kind = "restart" -> NoRow
                         [] OTHER -> r)
            /\ Goto(c, CASE kind = "resume" -> "clear"
                         [] kind \in {"priority", "auth"} -> "save"
                         [] OTHER -> "mark")
            /\ UNCHANGED <<job, op>>
    /\ UNCHANGED <<store, created, phase, pending, maps, released, worker, bounds, promise>>

Target(kind) == IF kind = "pause" THEN "paused" ELSE "canceled"

\* Cancels the context of the job's worker.
Abort(i) == hit' = [hit EXCEPT ![cancels[i]] = TRUE]

\* Defect: records the intent of a running download only.
StopMark_RunningOnly(c) ==
    /\ pc[c] = "mark" /\ op[c].kind \in {"pause", "cancel"}
    /\ LET i == job[c] target == Target(op[c].kind) IN
       IF cancels[i] # NoWorker
       THEN /\ intents' = [intents EXCEPT ![i] = target]
            /\ Abort(i) /\ Return(c) /\ promise' = [promise EXCEPT ![i] = "stopped"]
       ELSE /\ Hold(c, [row[c] EXCEPT !.status = target])
            /\ Goto(c, "save")
            /\ UNCHANGED <<intents, hit, job, op, promise>>
    /\ UNCHANGED <<store, created, phase, pending, cancels, deleting, restarting, released,
                   goal, outcome, tries, owes, bounds>>

\* stop: the intent, and the cancel of a running job, whose worker will persist
\* the status. Nothing observes the moment between the unlock and the cancel.
StopMark(c) ==
    /\ pc[c] = "mark" /\ op[c].kind \in {"pause", "cancel"}
    /\ LET i == job[c] target == Target(op[c].kind) IN
       /\ intents' = [intents EXCEPT ![i] = target]
       /\ IF cancels[i] # NoWorker
          THEN Abort(i) /\ Return(c) /\ promise' = [promise EXCEPT ![i] = "stopped"]
          ELSE /\ Hold(c, [row[c] EXCEPT !.status = target])
               /\ Goto(c, "save")
               /\ UNCHANGED <<hit, job, op, promise>>
    /\ UNCHANGED <<store, created, phase, pending, cancels, deleting, restarting, released,
                   goal, outcome, tries, owes, bounds>>

\* Delete and Restart of a download no worker has registered.
IdleMark(c) ==
    /\ pc[c] = "mark" /\ op[c].kind \in {"delete", "restart"}
    /\ cancels[job[c]] = NoWorker
    /\ Goto(c, IF op[c].kind = "delete" THEN "remove" ELSE "reset")
    /\ UNCHANGED <<store, created, phase, pending, maps, released, job, row, op,
                   worker, bounds, promise>>

\* Delete and Restart of a running one: abort it, hand the work to its worker's
\* settle path, and wait for the done channel.
HandOver(c) ==
    /\ pc[c] = "mark" /\ op[c].kind \in {"delete", "restart"}
    /\ LET i == job[c] IN
       /\ cancels[i] # NoWorker
       /\ IF op[c].kind = "delete"
          THEN deleting' = [deleting EXCEPT ![i] = op[c].ticket] /\ UNCHANGED restarting
          ELSE restarting' = [restarting EXCEPT ![i] = op[c].ticket] /\ UNCHANGED deleting
       /\ Abort(i)
    /\ Goto(c, "wait")
    /\ UNCHANGED <<store, created, phase, pending, intents, cancels, released, job, row, op,
                   goal, outcome, tries, owes, bounds, promise>>

Released(c) ==
    /\ pc[c] = "wait" /\ op[c].ticket \in released
    /\ released' = released \ {op[c].ticket}
    /\ promise' = IF op[c].kind = "delete" THEN [promise EXCEPT ![job[c]] = "gone"] ELSE promise
    /\ Return(c)
    /\ UNCHANGED <<store, created, phase, pending, maps, worker, bounds>>

\* Resume forgets an earlier stop.
ResumeClear(c) ==
    /\ pc[c] = "clear"
    /\ intents' = [intents EXCEPT ![job[c]] = "none"]
    /\ Hold(c, [row[c] EXCEPT !.status = "queued"])
    /\ Goto(c, "save")
    /\ UNCHANGED <<store, created, phase, pending, cancels, deleting, restarting, released,
                   job, op, worker, bounds, promise>>

\* SaveDownload of the handler's copy, whatever became of the row meanwhile.
Save(c) ==
    /\ Serving /\ pc[c] = "save"
    /\ Put(c, row[c])
    /\ LET kind == op[c].kind IN
       /\ IF kind \in {"submit", "resume", "priority"}
          THEN Goto(c, IF kind = "priority" THEN "reorder" ELSE "enqueue")
               /\ UNCHANGED <<job, row, op>>
          ELSE Return(c)
       /\ promise' = IF kind \in {"pause", "cancel"}
                     THEN [promise EXCEPT ![job[c]] = "stopped"] ELSE promise
    /\ UNCHANGED <<created, phase, pending, maps, released, worker, bounds>>

\* enqueue refuses once the Manager is closed.
Queue(a) ==
    pending' = IF Closed THEN pending
               ELSE Append(pending, [id |-> job[a], prio |-> row[a].prio])

\* Defect: an entry is not appended while a worker has the download.
Enqueue_IdleOnly(c) ==
    /\ pc[c] = "enqueue"
    /\ IF cancels[job[c]] = NoWorker THEN Queue(c) ELSE UNCHANGED pending
    /\ Return(c)
    /\ UNCHANGED <<store, created, phase, maps, released, worker, bounds, promise>>

Enqueue(c) ==
    /\ pc[c] = "enqueue"
    /\ Queue(c)
    /\ Return(c)
    /\ UNCHANGED <<store, created, phase, maps, released, worker, bounds, promise>>

\* SetPriority updates the first entry it finds in a slice popHighest permutes.
Reorder(c) ==
    /\ pc[c] = "reorder"
    /\ LET mine == {n \in DOMAIN pending : pending[n].id = job[c]} IN
       \/ mine = {} /\ UNCHANGED pending
       \/ \E n \in mine : pending' = [pending EXCEPT ![n].prio = op[c].prio]
    /\ Return(c)
    /\ UNCHANGED <<store, created, phase, maps, released, worker, bounds, promise>>

\* removeRecord of an idle download.
RemoveIdle(c) ==
    /\ Serving /\ pc[c] = "remove"
    /\ Put(c, NoRow)
    /\ promise' = [promise EXCEPT ![job[c]] = "gone"]
    /\ Return(c)
    /\ UNCHANGED <<created, phase, pending, maps, released, worker, bounds>>

\* The signal cancels the server's context: a store call or a wait returns an error.
CallAborts(c) ==
    /\ phase = "stopping"
    /\ pc[c] \in {"load", "save", "remove", "wait", "reset", "rewrite"}
    /\ Return(c)
    /\ UNCHANGED <<store, created, phase, pending, maps, released, worker, bounds, promise>>
-----------------------------------------------------------------------------
(* resetAndEnqueue, run by Restart's caller when the download is idle and by  *)
(* the worker's settle path otherwise.                                        *)

\* A worker closes the done channels it owes when the step is over.
Done(a) ==
    /\ Rest(a)
    /\ IF a \in Clients
       THEN op' = [op EXCEPT ![a] = NoOp] /\ UNCHANGED <<released, owes>>
       ELSE /\ released' = released \cup owes[a]
            /\ owes' = [owes EXCEPT ![a] = {}]
            /\ UNCHANGED op

ResetLoad(a) ==
    /\ pc[a] = "reset" /\ (a \in Clients => Serving)
    /\ LET r == store[job[a]] IN
       IF r = NoRow THEN Done(a)
       ELSE /\ Hold(a, [r EXCEPT !.status = "queued"])
            /\ Goto(a, "rewrite")
            /\ UNCHANGED <<job, op, released, owes>>
    /\ UNCHANGED <<store, created, phase, pending, maps,
                   goal, hit, outcome, tries, bounds, promise>>

ResetSave(a) ==
    /\ pc[a] = "rewrite" /\ (a \in Clients => Serving)
    /\ Put(a, row[a])
    /\ Goto(a, "requeue")
    /\ UNCHANGED <<created, phase, pending, maps, released, job, row, op,
                   worker, bounds, promise>>

\* The intent is cleared in one lock section and the entry appended in the next;
\* nothing can tell them apart.
ResetQueue(a) ==
    /\ pc[a] = "requeue"
    /\ intents' = [intents EXCEPT ![job[a]] = "none"]
    /\ Queue(a)
    /\ Done(a)
    /\ UNCHANGED <<store, created, phase, cancels, deleting, restarting,
                   goal, hit, outcome, tries, bounds, promise>>
-----------------------------------------------------------------------------
(* Workers: Manager.worker and run.                                           *)

\* popHighest: the highest priority, the oldest entry of it.
Best(n) == \A k \in DOMAIN pending :
              \/ pending[n].prio > pending[k].prio
              \/ pending[n].prio = pending[k].prio /\ n <= k

Pop(w) ==
    /\ pc[w] = "idle" /\ ~Closed
    /\ \E n \in DOMAIN pending :
        /\ Best(n)
        /\ job' = [job EXCEPT ![w] = pending[n].id]
        /\ pending' = RemoveAt(pending, n)
    /\ Goto(w, "load")
    /\ UNCHANGED <<store, created, phase, maps, released, row, op, worker, bounds, promise>>

Leave(w) ==
    /\ pc[w] = "idle" /\ Closed
    /\ Goto(w, "exit")
    /\ UNCHANGED <<store, created, phase, pending, maps, released, job, row, op,
                   worker, bounds, promise>>

\* The load takes the base context; a completed download is not fetched again.
RunLoad(w) ==
    /\ pc[w] = "load"
    /\ LET r == store[job[w]] IN
       IF Closed \/ r = NoRow \/ r.status = "completed"
       THEN Rest(w)
       ELSE Hold(w, r) /\ Goto(w, "register") /\ UNCHANGED job
    /\ UNCHANGED <<store, created, phase, pending, maps, released, op, worker, bounds, promise>>

\* Defect: a redundant entry is not dropped while another worker owns the download.
Register_NoDuplicateCheck(w) ==
    /\ pc[w] = "register"
    /\ LET i == job[w] IN
       IF Closed
       THEN Rest(w) /\ UNCHANGED <<cancels, goal>>
       ELSE /\ cancels' = [cancels EXCEPT ![i] = w]
            /\ goal' = [goal EXCEPT ![w] = intents[i]]
            /\ Goto(w, IF intents[i] = "none" THEN "active" ELSE "finish")
            /\ UNCHANGED <<job, row>>
    /\ UNCHANGED <<store, created, phase, pending, intents, deleting, restarting, released, op,
                   hit, outcome, tries, owes, bounds, promise>>

\* Register the cancel and read the intent under one lock; a stop that came first
\* is settled without a run.
Register(w) ==
    /\ pc[w] = "register"
    /\ LET i == job[w] IN
       IF Closed \/ cancels[i] # NoWorker
       THEN Rest(w) /\ UNCHANGED <<cancels, goal>>
       ELSE /\ cancels' = [cancels EXCEPT ![i] = w]
            /\ goal' = [goal EXCEPT ![w] = intents[i]]
            /\ Goto(w, IF intents[i] = "none" THEN "active" ELSE "finish")
            /\ UNCHANGED <<job, row>>
    /\ UNCHANGED <<store, created, phase, pending, intents, deleting, restarting, released, op,
                   hit, outcome, tries, owes, bounds, promise>>

PersistActive(w) ==
    /\ pc[w] = "active"
    /\ LET r == [row[w] EXCEPT !.status = "active"] IN Put(w, r) /\ Hold(w, r)
    /\ Goto(w, "run")
    /\ UNCHANGED <<created, phase, pending, maps, released, job, op, worker, bounds, promise>>

\* How the run ended, and whether it was for the daemon's shutdown alone.  A base context that
\* is cancelled by now is so when run looks at it.
EndRun(w, how) ==
    /\ outcome' = [outcome EXCEPT ![w] = IF how = "err" /\ Closed THEN "abort" ELSE how]
    /\ Goto(w, "finish")
    /\ promise' = IF how = "err" /\ Closed /\ ~hit[w]
                  THEN [promise EXCEPT ![job[w]] = "interrupted"] ELSE promise

\* Engine.Run returns without having saved a status: the probe, the directory, the
\* save, the .part or its reconciliation failed, or the failed save was lost.
RunAborts(w) ==
    /\ pc[w] \in {"run", "transfer"}
    /\ EndRun(w, "err")
    /\ UNCHANGED <<store, created, phase, pending, maps, released, job, row, op,
                   goal, hit, tries, owes, bounds>>

\* Engine.Run saves the reconciled record with the job's context.
PersistRun(w) ==
    /\ pc[w] = "run" /\ ~Dead(w)
    /\ Put(w, row[w])
    /\ Goto(w, "transfer")
    /\ UNCHANGED <<created, phase, pending, maps, released, job, row, op,
                   worker, bounds, promise>>

\* finishFailed saves on a detached context, whatever stopped the transfer.
TransferFails(w) ==
    /\ pc[w] = "transfer"
    /\ Put(w, [row[w] EXCEPT !.status = "failed"])
    /\ EndRun(w, "err")
    /\ UNCHANGED <<created, phase, pending, maps, released, job, row, op,
                   goal, hit, tries, owes, bounds>>

\* The whole file is in place.
TransferCompletes(w) ==
    /\ pc[w] = "transfer"
    /\ Goto(w, "complete")
    /\ UNCHANGED <<store, created, phase, pending, maps, released, job, row, op,
                   worker, bounds, promise>>

\* finishCompleted saves with the job's context, which a stop may have cancelled.
PersistCompleted(w) ==
    /\ pc[w] = "complete" /\ ~Dead(w)
    /\ Put(w, [row[w] EXCEPT !.status = "completed"])
    /\ EndRun(w, "ok")
    /\ UNCHANGED <<created, phase, pending, maps, released, job, row, op,
                   goal, hit, tries, owes, bounds>>

CompletionLost(w) ==
    /\ pc[w] = "complete" /\ Dead(w)
    /\ EndRun(w, "err")
    /\ UNCHANGED <<store, created, phase, pending, maps, released, job, row, op,
                   goal, hit, tries, owes, bounds>>
-----------------------------------------------------------------------------
(* finishJob and classify: what the stop intent, a waiting Delete or Restart, *)
(* or the shutdown make of a run that has returned.                           *)

\* Defect: a shutdown is taken for a failure.
Override_ShutdownFails(intent, how) ==
    CASE intent # "none" -> intent
      [] intent = "none" /\ how = "unmarked" -> "queued"
      [] OTHER -> "none"

\* Defect: a run that succeeded needs no status, whatever the operator asked.
Override_SuccessFirst(intent, how) ==
    CASE how = "ok" -> "none"
      [] how # "ok" /\ intent # "none" -> intent
      [] intent = "none" /\ how \in {"unmarked", "abort"} -> "queued"
      [] OTHER -> "none"

\* The status to force: a stop's, or queued after a shutdown or a refused start.
Override(intent, how) ==
    CASE intent # "none" -> intent
      [] intent = "none" /\ how \in {"unmarked", "abort"} -> "queued"
      [] OTHER -> "none"

\* What the worker owes callers, and where it goes, after the lock section.
Settle(w, del, res, status) ==
    /\ owes' = [owes EXCEPT ![w] = {del, res} \ {NoTicket}]
    /\ goal' = [goal EXCEPT ![w] = IF del # NoTicket \/ res # NoTicket THEN "none" ELSE status]
    /\ IF del = NoTicket /\ res = NoTicket /\ status = "none"
       THEN Rest(w)
       ELSE /\ Goto(w, CASE del # NoTicket -> "remove"
                         [] del = NoTicket /\ res # NoTicket -> "reset"
                         [] OTHER -> "override")
            /\ Hold(w, NoRow) /\ UNCHANGED job

\* What finishJob is told: run reads the base context before finishJob takes the lock, so a
\* shutdown in between may be seen or not.
Endings(w) == IF outcome[w] = "err" /\ Closed THEN {"err", "abort"} ELSE {outcome[w]}

\* Defect: a stop intent is settled before the waiting Delete or Restart is looked at.
FinishJob_IntentFirst(w) ==
    /\ pc[w] = "finish"
    /\ LET i == job[w]
           intent == IF intents[i] = "none" THEN goal[w] ELSE intents[i] IN
       /\ intents' = [intents EXCEPT ![i] = "none"]
       /\ cancels' = [cancels EXCEPT ![i] = NoWorker]
       /\ deleting' = [deleting EXCEPT ![i] = NoTicket]
       /\ restarting' = [restarting EXCEPT ![i] = NoTicket]
       /\ IF intent # "none"
          THEN Settle(w, NoTicket, NoTicket, intent)
          ELSE \E how \in Endings(w) :
                  Settle(w, deleting[i], restarting[i], Override(intent, how))
    /\ hit' = [hit EXCEPT ![w] = FALSE]
    /\ outcome' = [outcome EXCEPT ![w] = "none"]
    /\ UNCHANGED <<store, created, phase, pending, released, op, tries, bounds, promise>>

\* Defect: a Restart overtaken by a Delete stays in the map.
FinishJob_KeepsRestart(w) ==
    /\ pc[w] = "finish"
    /\ LET i == job[w]
           intent == IF intents[i] = "none" THEN goal[w] ELSE intents[i] IN
       /\ intents' = [intents EXCEPT ![i] = "none"]
       /\ cancels' = [cancels EXCEPT ![i] = NoWorker]
       /\ deleting' = [deleting EXCEPT ![i] = NoTicket]
       /\ restarting' = IF deleting[i] = NoTicket
                        THEN [restarting EXCEPT ![i] = NoTicket] ELSE restarting
       /\ \E how \in Endings(w) : Settle(w, deleting[i], restarting[i], Override(intent, how))
    /\ hit' = [hit EXCEPT ![w] = FALSE]
    /\ outcome' = [outcome EXCEPT ![w] = "none"]
    /\ UNCHANGED <<store, created, phase, pending, released, op, tries, bounds, promise>>

FinishJob(w) ==
    /\ pc[w] = "finish"
    /\ LET i == job[w]
           intent == IF intents[i] = "none" THEN goal[w] ELSE intents[i] IN
       /\ intents' = [intents EXCEPT ![i] = "none"]
       /\ cancels' = [cancels EXCEPT ![i] = NoWorker]
       /\ deleting' = [deleting EXCEPT ![i] = NoTicket]
       /\ restarting' = [restarting EXCEPT ![i] = NoTicket]
       /\ \E how \in Endings(w) : Settle(w, deleting[i], restarting[i], Override(intent, how))
    /\ hit' = [hit EXCEPT ![w] = FALSE]
    /\ outcome' = [outcome EXCEPT ![w] = "none"]
    /\ UNCHANGED <<store, created, phase, pending, released, op, tries, bounds, promise>>

\* The waiting Delete's removeRecord, and the close of its done channel.
RemoveRecord(w) ==
    /\ pc[w] = "remove"
    /\ Put(w, NoRow)
    /\ Done(w)
    /\ UNCHANGED <<created, phase, pending, maps, goal, hit, outcome, tries, bounds, promise>>

\* persistOverride: load, then save.
OverrideLoad(w) ==
    /\ pc[w] = "override"
    /\ LET r == store[job[w]] IN
       IF r = NoRow
       THEN Rest(w) /\ goal' = [goal EXCEPT ![w] = "none"] /\ tries' = [tries EXCEPT ![w] = 0]
       ELSE /\ Hold(w, [r EXCEPT !.status = goal[w]])
            /\ Goto(w, "force")
            /\ UNCHANGED <<job, goal, tries>>
    /\ UNCHANGED <<store, created, phase, pending, maps, released, op,
                   hit, outcome, owes, bounds, promise>>

OverrideSave(w) ==
    /\ pc[w] = "force"
    /\ Put(w, row[w])
    /\ Rest(w)
    /\ goal' = [goal EXCEPT ![w] = "none"] /\ tries' = [tries EXCEPT ![w] = 0]
    /\ UNCHANGED <<created, phase, pending, maps, released, op,
                   hit, outcome, owes, bounds, promise>>
-----------------------------------------------------------------------------
(* Store errors: each caller's error path.                                    *)

Fault == faults < MaxFaults /\ faults' = faults + 1

\* The handler returns the error.
CallFails(c) ==
    /\ Fault
    /\ Serving /\ pc[c] \in {"load", "save", "remove", "reset", "rewrite"}
    /\ Return(c)
    /\ UNCHANGED <<store, created, phase, pending, maps, released, worker,
                   calls, starts, crashes, promise>>

\* The worker forgets a job whose row it cannot load.
RunLoadFails(w) ==
    /\ Fault
    /\ pc[w] = "load"
    /\ Rest(w)
    /\ UNCHANGED <<store, created, phase, pending, maps, released, op, worker,
                   calls, starts, crashes, promise>>

\* persistActive failed: no run, and the record is to stay recoverable.
PersistActiveFails(w) ==
    /\ Fault
    /\ pc[w] = "active"
    /\ Goto(w, "finish")
    /\ outcome' = [outcome EXCEPT ![w] = "unmarked"]
    /\ UNCHANGED <<store, created, phase, pending, maps, released, job, row, op,
                   goal, hit, tries, owes, calls, starts, crashes, promise>>

PersistCompletedFails(w) ==
    /\ Fault
    /\ pc[w] = "complete"
    /\ EndRun(w, "err")
    /\ UNCHANGED <<store, created, phase, pending, maps, released, job, row, op,
                   goal, hit, tries, owes, calls, starts, crashes>>

\* A removal or a reset that fails on the settle path is logged, and the caller released.
SettleFails(w) ==
    /\ Fault
    /\ pc[w] \in {"remove", "reset", "rewrite"}
    /\ Done(w)
    /\ UNCHANGED <<store, created, phase, pending, maps, goal, hit, outcome, tries,
                   calls, starts, crashes, promise>>

\* Defect: a failed attempt is not counted.
OverrideFails_Uncounted(w) ==
    /\ Fault
    /\ pc[w] \in {"override", "force"}
    /\ IF tries[w] + 1 > OverrideAttempts
       THEN Rest(w) /\ goal' = [goal EXCEPT ![w] = "none"] /\ tries' = [tries EXCEPT ![w] = 0]
       ELSE Goto(w, "override") /\ tries' = [tries EXCEPT ![w] = @ + 1]
            /\ UNCHANGED <<job, row, goal>>
    /\ UNCHANGED <<store, created, phase, pending, maps, released, op,
                   hit, outcome, owes, calls, starts, crashes, promise>>

\* persistOverride tries again, and gives up after its last attempt.
OverrideFails(w) ==
    /\ Fault
    /\ pc[w] \in {"override", "force"}
    /\ IF tries[w] + 1 = OverrideAttempts
       THEN Rest(w) /\ goal' = [goal EXCEPT ![w] = "none"] /\ tries' = [tries EXCEPT ![w] = 0]
       ELSE /\ Goto(w, "override") /\ tries' = [tries EXCEPT ![w] = @ + 1]
            /\ Hold(w, NoRow)
            /\ UNCHANGED <<job, goal>>
    /\ UNCHANGED <<store, created, phase, pending, maps, released, op,
                   hit, outcome, owes, calls, starts, crashes, promise>>
-----------------------------------------------------------------------------
(* The daemon.                                                                *)

\* Defect: only interrupted transfers are recovered.
Recoverable_ActiveOnly == {"active"}
Recoverable == {"active", "queued"}

\* Start: recover seeds the pending set, in the order of creation, before any
\* worker or client exists.
Start ==
    /\ phase = "down" /\ starts < MaxStarts
    /\ starts' = starts + 1
    /\ phase' = "serving"
    /\ LET due == {i \in Ids : store[i].status \in Recoverable} IN
       \E order \in [1 .. Cardinality(due) -> due] :
           /\ \A m, n \in DOMAIN order : m < n => order[m] < order[n]
           /\ pending' = [n \in DOMAIN order |-> [id |-> order[n], prio |-> store[order[n]].prio]]
    /\ pc' = [a \in Actors |-> "idle"]
    /\ promise' = [i \in Ids |-> IF promise[i] = "interrupted" THEN "none" ELSE promise[i]]
    /\ UNCHANGED <<store, created, maps, released, job, row, op, worker, calls, crashes, faults>>

Signal ==
    /\ Serving
    /\ phase' = "stopping"
    /\ UNCHANGED <<store, created, pending, maps, released, pc, job, row, op,
                   worker, bounds, promise>>

\* The server has drained its handlers (apiserver's Close) before Shutdown runs.
Shutdown ==
    /\ phase = "stopping"
    /\ \A c \in Clients : pc[c] = "idle"
    /\ phase' = "draining"
    /\ UNCHANGED <<store, created, pending, maps, released, pc, job, row, op,
                   worker, bounds, promise>>

\* The process is gone: only the database is left.
Forget ==
    /\ phase' = "down"
    /\ pending' = <<>> /\ released' = {}
    /\ intents' = [i \in Ids |-> "none"]
    /\ cancels' = [i \in Ids |-> NoWorker]
    /\ deleting' = [i \in Ids |-> NoTicket]
    /\ restarting' = [i \in Ids |-> NoTicket]
    /\ pc' = [a \in Actors |-> IF a \in Workers THEN "exit" ELSE "idle"]
    /\ job' = [a \in Actors |-> NoId]
    /\ row' = [a \in Actors |-> NoRow]
    /\ op' = [c \in Clients |-> NoOp]
    /\ goal' = [w \in Workers |-> "none"]
    /\ hit' = [w \in Workers |-> FALSE]
    /\ outcome' = [w \in Workers |-> "none"]
    /\ tries' = [w \in Workers |-> 0]
    /\ owes' = [w \in Workers |-> {}]
    /\ UNCHANGED <<store, created, calls, starts, faults, promise>>

\* Every worker has returned within the drain's deadline.
Exit ==
    /\ Closed
    /\ \A w \in Workers : pc[w] = "exit"
    /\ Forget
    /\ UNCHANGED crashes

\* A crash, or a drain that ran into its deadline.
Crash ==
    /\ phase # "down" /\ crashes < MaxCrashes
    /\ Forget
    /\ crashes' = crashes + 1

Stopped == phase = "down" /\ starts = MaxStarts /\ UNCHANGED vars

Serve(c) ==
    \/ Load(c) \/ StopMark(c) \/ IdleMark(c) \/ HandOver(c) \/ Released(c)
    \/ ResumeClear(c) \/ Save(c) \/ Enqueue(c) \/ Reorder(c) \/ RemoveIdle(c)
    \/ CallAborts(c)
Reset(a) == ResetLoad(a) \/ ResetSave(a) \/ ResetQueue(a)
Run(w) ==
    \/ Pop(w) \/ Leave(w) \/ RunLoad(w) \/ Register(w) \/ PersistActive(w)
    \/ RunAborts(w) \/ PersistRun(w) \/ TransferFails(w) \/ TransferCompletes(w)
    \/ PersistCompleted(w) \/ CompletionLost(w)
Finish(w) == FinishJob(w) \/ RemoveRecord(w) \/ OverrideLoad(w) \/ OverrideSave(w)
StoreError(w) ==
    \/ RunLoadFails(w) \/ PersistActiveFails(w) \/ PersistCompletedFails(w)
    \/ SettleFails(w) \/ OverrideFails(w)

Handle(c) == Serve(c) \/ Reset(c)
Work(w) == Run(w) \/ Finish(w) \/ Reset(w)

Next ==
    \/ \E c \in Clients : Call(c) \/ Handle(c) \/ CallFails(c)
    \/ \E w \in Workers : Work(w) \/ StoreError(w)
    \/ Start \/ Signal \/ Shutdown \/ Exit \/ Crash \/ Stopped

Spec == Init /\ [][Next]_vars

(* Goroutines are scheduled, a handler's and a worker's store calls return,   *)
(* and Engine.Run returns (WorkStealing's RunReturns). Nothing makes a client *)
(* call or the daemon stop.                                                   *)
FairSpec ==
    /\ Spec
    /\ \A c \in Clients : WF_vars(Handle(c))
    /\ \A w \in Workers : WF_vars(Work(w))
-----------------------------------------------------------------------------
(* Properties.                                                                *)

Control == {"idle", "exit", "load", "mark", "clear", "save", "enqueue", "reorder", "remove",
            "wait", "reset", "rewrite", "requeue", "register", "active", "run", "transfer",
            "complete", "finish", "override", "force"}

TableTypes ==
    /\ store \in [Ids -> Row \cup {NoRow}]
    /\ created \in 0 .. MaxIds
    /\ phase \in {"down", "serving", "stopping", "draining"}
    /\ pending \in Seq([id : Ids, prio : Prios])
MapTypes ==
    /\ intents \in [Ids -> {"none", "paused", "canceled"}]
    /\ cancels \in [Ids -> Workers \cup {NoWorker}]
    /\ deleting \in [Ids -> 0 .. MaxCalls]
    /\ restarting \in [Ids -> 0 .. MaxCalls]
    /\ released \subseteq 1 .. MaxCalls
LocalTypes ==
    /\ pc \in [Actors -> Control]
    /\ job \in [Actors -> Ids \cup {NoId}]
    /\ row \in [Actors -> Row \cup {NoRow}]
    /\ op \in [Clients -> [kind : Ops \cup {"none"}, prio : Prios \cup {0}, ticket : 0 .. MaxCalls]]
WorkerTypes ==
    /\ goal \in [Workers -> {"none", "paused", "canceled", "queued"}]
    /\ hit \in [Workers -> BOOLEAN]
    /\ outcome \in [Workers -> {"none", "ok", "err", "abort", "unmarked"}]
    /\ tries \in [Workers -> 0 .. OverrideAttempts - 1]
    /\ owes \in [Workers -> SUBSET (1 .. MaxCalls)]
BoundTypes ==
    /\ calls \in 0 .. MaxCalls /\ starts \in 0 .. MaxStarts
    /\ crashes \in 0 .. MaxCrashes /\ faults \in 0 .. MaxFaults
    /\ promise \in [Ids -> {"none", "stopped", "gone", "interrupted"}]

\* The values the Manager's state can hold.
TypeOK == TableTypes /\ MapTypes /\ LocalTypes /\ WorkerTypes /\ BoundTypes

Running == {"active", "run", "transfer", "complete", "finish"}

\* Resume "guarantees a single worker per download and rules out two concurrent runs
\* against one destination", whatever entries are queued twice.
OneRunPerDownload ==
    \A v, w \in Workers : v # w /\ pc[v] \in Running /\ pc[w] \in Running => job[v] # job[w]

\* A Delete or a Restart that waits for a download's worker is served: the download
\* has a worker, whose settle path is still to come, or has already taken the request.
RequestsServed ==
    \A i \in Ids :
        deleting[i] # NoTicket \/ restarting[i] # NoTicket =>
            \E w \in Workers : cancels[i] = w /\ job[w] = i /\ pc[w] \in Running

\* "The transfer can no longer run after the operator stopped it": no run begins of a
\* download whose last answered call was a pause or a cancel.
StopHolds ==
    [][\A w \in Workers :
          pc[w] = "register" /\ pc'[w] = "active" => promise[job[w]] # "stopped"]_vars

\* "A stop is never silently dropped": once nobody works on the download, a pause or a
\* cancel that was answered shows in its row, however it raced the run's own saves.
StopNeverDropped ==
    \A i \in Ids :
        promise[i] = "stopped" /\ (\A a \in Actors : job[a] # i) =>
            store[i].status \in {"paused", "canceled", "absent"}

\* "Start resumes exactly where a transfer was interrupted": a drained daemon leaves no
\* download that its shutdown interrupted in a state Start passes over.
ShutdownRecoverable ==
    Closed /\ (\A w \in Workers : pc[w] = "exit") =>
        \A i \in Ids : promise[i] = "interrupted" => store[i].status \notin Settled

\* A Delete's or Restart's caller is released.
CallerReleased == \A c \in Clients : pc[c] = "wait" ~> pc[c] # "wait"

\* A queued download gets its run while the daemon serves.
QueuedRuns ==
    \A i \in Ids : store[i].status = "queued" /\ phase = "serving"
                     ~> store[i].status # "queued" \/ phase # "serving"

\* "Either way the record and its .part are gone on return."
DeleteGone == \A i \in Ids : promise[i] = "gone" => store[i] = NoRow

\* The worker has the download on its way to a saved status: all but a run that has
\* returned with nothing left to force.
Tends(w, i) ==
    /\ job[w] = i
    /\ \/ pc[w] \notin {"finish", "override", "force"}
       \/ /\ pc[w] = "finish"
          /\ \/ goal[w] # "none" \/ intents[i] # "none"
             \/ deleting[i] # NoTicket \/ restarting[i] # NoTicket
       \/ pc[w] \in {"override", "force"} /\ goal[w] # "queued"

\* The client is about to queue the download.
Queues(c, i) ==
    /\ job[c] = i
    /\ \/ pc[c] \in {"enqueue", "rewrite", "requeue"}
       \/ pc[c] = "save" /\ op[c].kind = "resume"

\* The row says that the download waits or runs, and nothing in the process will take it on.
Orphan(i) ==
    /\ Serving /\ store[i].status \in {"queued", "active"}
    /\ \A n \in DOMAIN pending : pending[n].id # i
    /\ \A w \in Workers : ~Tends(w, i)
    /\ \A c \in Clients : ~Queues(c, i)

\* The steps known to strand a download: a run that returns without having saved a status,
\* the drop of an entry while another worker's run is over but not yet settled, a queued
\* status forced after a run that could not be marked active, over a stop saved meanwhile,
\* and a priority or auth write-back of a row that has changed since.
ReturnsUnsaved(i) ==
    \E w \in Workers : /\ job[w] = i /\ pc[w] \in {"run", "transfer", "complete"}
                       /\ pc'[w] = "finish" /\ outcome'[w] = "err"
DropsLate(i) ==
    \E v, w \in Workers : /\ job[v] = i /\ pc[v] = "register" /\ pc'[v] = "idle"
                          /\ cancels[i] = w /\ pc[w] = "finish"
ForcesQueued(i) ==
    \E w \in Workers : job[w] = i /\ pc[w] = "force" /\ pc'[w] = "idle" /\ goal[w] = "queued"
WritesBackStale(i) ==
    \E c \in Clients : /\ job[c] = i /\ pc[c] = "save" /\ op[c].kind \in {"priority", "auth"}
                       /\ pc'[c] # "save" /\ row[c] # [store[i] EXCEPT !.prio = row[c].prio]

\* While the daemon serves, a download whose row says queued or active is left with no
\* entry, worker or caller only by a store error or by one of those four steps: every
\* other order of stops, resumes, restarts, deletes and duplicate entries keeps it alive.
OrphanedOnlyBy ==
    [][\A i \in Ids :
          ~Orphan(i) /\ Orphan(i)' =>
             \/ faults' # faults \/ ReturnsUnsaved(i) \/ DropsLate(i)
             \/ ForcesQueued(i) \/ WritesBackStale(i)]_vars
=============================================================================

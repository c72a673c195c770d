---------------------------- MODULE PromiseProofs ----------------------------
(* What an answered call promises of a Manager whose store does not fail and  *)
(* whose clients submit, pause, cancel and delete: a stop is not dropped, no  *)
(* run begins of a stopped download, and a shutdown leaves what it interrupts *)
(* for the next start. Any pool, clients, downloads, calls and starts.        *)
(*                                                                            *)
(* The argument: under that menu a download is in one place only, an entry, a *)
(* worker or a Submit on its way, so the steps of two actors that have the    *)
(* same download are a worker's and a stop's or a Delete's, and the intent a  *)
(* stop leaves is there whenever the worker is to look at it.                 *)
EXTENDS ManagerProofs

\* A failed save gives a stop up (persistOverride logs it); Resume and Restart forget it;
\* they, SetPriority and SetAuth write a stale row back.
Undisturbed ==
    /\ MaxFaults = 0
    /\ \A c \in Clients : Menu[c] \subseteq {"submit", "pause", "cancel", "delete"}

Stopping == {"paused", "canceled"}
StoppedRow == {"paused", "canceled", "absent"}
Before == {"load", "register", "active", "run", "transfer", "complete"}
Early == {"load", "register"}
Midway == {"active", "run", "transfer", "complete"}

\* What a client can be doing, and with which copy of the row it stops.
Calling(c) ==
    /\ op[c].kind \in {"none", "submit", "pause", "cancel", "delete"}
    /\ pc[c] \in {"idle", "load", "mark", "save", "enqueue", "remove", "wait"}
    /\ pc[c] = "idle" => job[c] = NoId
    /\ pc[c] # "idle" => op[c].kind # "none"
    /\ pc[c] \in {"load", "mark"} => op[c].kind # "submit"
    /\ pc[c] = "save" => op[c].kind # "delete"
    /\ pc[c] = "save" /\ op[c].kind # "submit" => row[c].status \in Stopping
    /\ pc[c] = "enqueue" => op[c].kind = "submit"

\* The call is to queue a new download; to save it first; to save a stop.
Submits(c) == pc[c] \in {"save", "enqueue"} /\ op[c].kind = "submit"
Unsaved(c) == pc[c] = "save" /\ op[c].kind = "submit"
Stopper(c) == pc[c] = "save" /\ op[c].kind \in {"pause", "cancel"}

\* What a worker can be doing: only the shutdown makes it force a download back to queued.
AtWork(w) ==
    /\ pc[w] \notin {"reset", "rewrite", "requeue"}
    /\ pc[w] \in Resting => job[w] = NoId
    /\ pc[w] = "exit" => phase \in {"draining", "down"}
    /\ outcome[w] # "unmarked"
    /\ outcome[w] = "abort" => pc[w] = "finish" /\ phase = "draining"
    /\ goal[w] = "queued" => pc[w] \in {"override", "force"} /\ phase = "draining"
    /\ pc[w] = "force" => row[w].status = goal[w]

MenuInv ==
    /\ \A c \in Clients : Calling(c)
    /\ \A w \in Workers : AtWork(w)
    /\ \A i \in Ids : restarting[i] = NoTicket
    /\ phase \in {"draining", "down"} => \A c \in Clients : pc[c] = "idle"
    /\ phase = "down" => \A w \in Workers : pc[w] = "exit"

Entered(i) == \E n \in DOMAIN pending : pending[n].id = i

\* A download is in one place: one entry, one worker, or one Submit on its way.
EntryInv ==
    /\ \A m, n \in DOMAIN pending : m # n => pending[m].id # pending[n].id
    /\ \A w \in Workers : job[w] # NoId =>
         /\ ~Entered(job[w])
         /\ \A v \in Workers : v # w => job[v] # job[w]
    /\ \A c \in Clients : Submits(c) =>
         /\ ~Entered(job[c])
         /\ \A w \in Workers : job[w] # job[c]
         /\ \A d \in Clients : d # c /\ Submits(d) => job[d] # job[c]

\* An identifier not issued has no row; one just issued is known to its Submit alone, and
\* a call that guesses it has yet to load it.
UnusedInv ==
    /\ \A a \in Actors : job[a] <= created
    /\ \A n \in DOMAIN pending : pending[n].id <= created
    /\ \A i \in Ids : i > created => store[i] = NoRow /\ promise[i] = "none"
    /\ \A c \in Clients : Unsaved(c) =>
         /\ store[job[c]] = NoRow /\ promise[job[c]] # "stopped"
         /\ \A d \in Clients : d # c /\ job[d] = job[c] => pc[d] = "load"

\* The worker that has a stopped download will read the intent, or has and will force it.
Minds(w) ==
    /\ pc[w] \in Before => intents[job[w]] # "none"
    /\ pc[w] = "finish" => intents[job[w]] # "none" \/ goal[w] \in Stopping
    /\ pc[w] \in {"override", "force"} => goal[w] \in Stopping

\* Whoever has the download, or is to take it, will find the stop.
Heeded(i) ==
    /\ \A w \in Workers : job[w] = i => Minds(w)
    /\ Entered(i) => intents[i] # "none"
    /\ \A c \in Clients : Submits(c) /\ job[c] = i => intents[i] # "none"

\* A stop is heeded from its mark on; once it is answered, its status is in the row, or
\* a worker that will force it has begun to write over it.
StopInv ==
    /\ \A c \in Clients : Stopper(c) => Heeded(job[c])
    /\ \A i \in Ids : promise[i] = "stopped" =>
         /\ Heeded(i)
         /\ (\A w \in Workers : job[w] = i => pc[w] \in Early) => store[i].status \in StoppedRow

\* Nobody asked for the run to end.
Unasked(w) == intents[job[w]] = "none" /\ deleting[job[w]] = NoTicket /\ goal[w] = "none"

\* The worker is to force the download back to queued.
Interrupted(w) ==
    \/ pc[w] = "finish" /\ outcome[w] = "abort" /\ Unasked(w)
    \/ pc[w] \in {"override", "force"} /\ goal[w] = "queued"

\* A run that nobody stopped was not asked to stop; what the shutdown interrupted is
\* requeued by its worker, or already in a row that Start recovers.
InterruptInv ==
    /\ \A w \in Workers : pc[w] \in Midway /\ ~hit[w] => Unasked(w)
    /\ \A i \in Ids : promise[i] = "interrupted" =>
         /\ phase \in {"draining", "down"}
         /\ \A w \in Workers : job[w] = i => Interrupted(w)
         /\ phase = "draining" /\ (\A w \in Workers : job[w] # i) => store[i].status \notin Settled

\* StopInv is apart: a crash loses the stop of a run that is under way.
PInv == MenuInv /\ EntryInv /\ UnusedInv /\ InterruptInv
Kept == PInv' /\ (StopInv => StopInv')

-----------------------------------------------------------------------------
(* The steps of workers.                                                      *)

\* The step of one actor, on its own download.
Alone(a) ==
    /\ \A b \in Actors \ {a} : pc'[b] = pc[b] /\ job'[b] = job[b] /\ row'[b] = row[b]
    /\ \A c \in Clients \ {a} : op'[c] = op[c]
    /\ \A w \in Workers \ {a} : goal'[w] = goal[w] /\ outcome'[w] = outcome[w]
    /\ \A i \in Ids \ {job[a]} :
         store'[i] = store[i] /\ promise'[i] = promise[i] /\ intents'[i] = intents[i]
           /\ deleting'[i] = deleting[i]
    /\ \A i \in Ids : restarting'[i] = NoTicket
    /\ job'[a] \in {job[a], NoId}
    /\ UNCHANGED <<created, phase>>

LEMMA Jobs == IInv => \A a \in Actors : job[a] \in Ids \cup {NoId} /\ NoId \notin Ids
BY DEF IInv, TypeOK, LocalTypes, NoId, Ids

LEMMA WorkerEntries ==
  ASSUME IInv, PInv, NEW w \in Workers, Alone(w), pending' = pending
  PROVE  EntryInv'
<1>1. w \notin Clients /\ (\A c \in Clients : c \in Actors) /\ (\A v \in Workers : v \in Actors)
  BY NotAWorker DEF Actors
<1>2. \A c \in Clients : Submits(c)' = Submits(c) /\ job'[c] = job[c]
  BY <1>1 DEF Alone, Submits
<1>3. \A v \in Workers : job'[v] \in {job[v], NoId}
  BY <1>1 DEF Alone
<1>4. \A i : Entered(i)' = Entered(i)
  BY DEF Entered
<1>5. \A c \in Clients : Submits(c) => job[c] # NoId
  BY <1>1, Jobs DEF Submits, IInv, LocalsInv, Sound, Resting, NoId, Ids
<1> QED BY <1>1, <1>2, <1>3, <1>4, <1>5 DEF PInv, EntryInv

LEMMA WorkerUnused ==
  ASSUME IInv, PInv, NEW w \in Workers, Alone(w), pending' = pending
  PROVE  UnusedInv'
<1>1. w \notin Clients /\ (\A c \in Clients : c \in Actors) /\ (\A v \in Workers : v \in Actors)
  BY NotAWorker DEF Actors
<1>2. \A c \in Clients : Unsaved(c)' = Unsaved(c) /\ job'[c] = job[c] /\ pc'[c] = pc[c]
  BY <1>1 DEF Alone, Unsaved
<1>3. created \in Nat /\ created' = created
  BY BoundsAssumption DEF IInv, TypeOK, TableTypes, Alone
<1>4. \A a \in Actors : job'[a] <= created'
  BY <1>3 DEF PInv, UnusedInv, Alone, NoId
<1>5. ASSUME NEW i \in Ids, i > created PROVE store'[i] = NoRow /\ promise'[i] = "none"
  <2>1. i # job[w]
    BY <1>1, <1>3, <1>5, Jobs DEF PInv, UnusedInv, Ids, NoId
  <2> QED BY <1>5, <2>1 DEF PInv, UnusedInv, Alone
<1>6. ASSUME NEW c \in Clients, Unsaved(c) PROVE job[c] \in Ids /\ job[c] # job[w]
  <2>1. job[c] \in Ids
    BY <1>1, <1>6 DEF Unsaved, IInv, LocalsInv, Sound, Resting
  <2> QED BY <1>6, <2>1 DEF PInv, EntryInv, Submits, Unsaved
<1>7. ASSUME NEW c \in Clients, Unsaved(c)'
      PROVE  /\ store'[job'[c]] = NoRow /\ promise'[job'[c]] # "stopped"
             /\ \A d \in Clients : d # c /\ job'[d] = job'[c] => pc'[d] = "load"
  BY <1>2, <1>6, <1>7 DEF PInv, UnusedInv, Alone
<1> QED BY <1>3, <1>4, <1>5, <1>7 DEF PInv, UnusedInv

LEMMA WorkerMenu ==
  ASSUME IInv, PInv, NEW w \in Workers, Alone(w), AtWork(w)', phase = "down" => pc'[w] = "exit"
  PROVE  MenuInv'
<1>1. w \notin Clients /\ (\A c \in Clients : c \in Actors) /\ (\A v \in Workers : v \in Actors)
  BY NotAWorker DEF Actors
<1>2. \A c \in Clients : Calling(c)'
  BY <1>1 DEF PInv, MenuInv, Alone, Calling
<1>3. \A v \in Workers : AtWork(v)'
  BY <1>1 DEF PInv, MenuInv, Alone, AtWork
<1> QED BY <1>1, <1>2, <1>3 DEF PInv, MenuInv, Alone

LEMMA WorkerInterrupt ==
  ASSUME IInv, PInv, NEW w \in Workers, Alone(w), \A v \in Workers \ {w} : hit'[v] = hit[v],
         pc'[w] \in Midway /\ ~hit'[w] => Unasked(w)',
         job[w] \in Ids /\ promise'[job[w]] = "interrupted" =>
            /\ phase \in {"draining", "down"}
            /\ job'[w] # NoId => Interrupted(w)'
            /\ job'[w] = NoId => store'[job[w]].status \notin Settled
  PROVE  InterruptInv'
<1>1. w \notin Clients /\ (\A c \in Clients : c \in Actors) /\ (\A v \in Workers : v \in Actors)
  BY NotAWorker DEF Actors
<1>2. ASSUME NEW v \in Workers \ {w}, job[v] \in Ids
      PROVE  /\ job'[v] = job[v] /\ pc'[v] = pc[v] /\ goal'[v] = goal[v] /\ outcome'[v] = outcome[v]
             /\ intents'[job[v]] = intents[job[v]] /\ deleting'[job[v]] = deleting[job[v]]
  <2>1. job[v] # job[w]
    BY <1>1, <1>2, Jobs DEF PInv, EntryInv
  <2> QED BY <1>1, <1>2, <2>1 DEF Alone
<1>3. ASSUME NEW v \in Workers, pc'[v] \in Midway /\ ~hit'[v] PROVE Unasked(v)'
  <2>1. CASE v = w
    BY <1>3, <2>1
  <2>2. CASE v # w
    <3>1. pc[v] \in Midway /\ ~hit[v]
      BY <1>1, <1>3, <2>2 DEF Alone
    <3>2. job[v] \in Ids
      BY <1>1, <3>1 DEF IInv, LocalsInv, Sound, Resting, Midway
    <3>3. Unasked(v)
      BY <3>1 DEF PInv, InterruptInv
    <3> QED BY <1>2, <2>2, <3>2, <3>3 DEF Unasked
  <2> QED BY <2>1, <2>2
<1>4. ASSUME NEW i \in Ids, promise'[i] = "interrupted"
      PROVE  /\ phase' \in {"draining", "down"}
             /\ \A v \in Workers : job'[v] = i => Interrupted(v)'
             /\ phase' = "draining" /\ (\A v \in Workers : job'[v] # i)
                  => store'[i].status \notin Settled
  <2>1. CASE i = job[w]
    <3>1. phase' \in {"draining", "down"}
      BY <1>4, <2>1 DEF Alone
    <3>2. \A v \in Workers \ {w} : job'[v] # i
      BY <1>1, <1>2, <2>1, Jobs DEF PInv, EntryInv, Alone
    <3>3. job'[w] \in {i, NoId} /\ i # NoId
      BY <2>1, Jobs DEF Alone, Ids, NoId
    <3> QED BY <1>4, <2>1, <3>1, <3>2, <3>3
  <2>2. CASE i # job[w]
    <3>1. promise[i] = "interrupted" /\ store'[i] = store[i] /\ phase' = phase
      BY <1>4, <2>2 DEF Alone
    <3>2. job'[w] # i
      BY <1>1, <2>2, Jobs DEF Alone, Ids, NoId
    <3>3. ASSUME NEW v \in Workers, job'[v] = i PROVE Interrupted(v)'
      <4>1. v # w /\ job[v] = i
        BY <1>1, <3>2, <3>3 DEF Alone
      <4>2. Interrupted(v)
        BY <3>1, <4>1 DEF PInv, InterruptInv
      <4> QED BY <1>2, <4>1, <4>2 DEF Interrupted, Unasked
    <3>4. (\A v \in Workers : job'[v] # i) => (\A v \in Workers : job[v] # i)
      BY <1>1, <2>2 DEF Alone
    <3> QED BY <3>1, <3>3, <3>4 DEF PInv, InterruptInv
  <2> QED BY <2>1, <2>2
<1> QED BY <1>3, <1>4 DEF InterruptInv

\* A worker that goes on minding the stop of its own download drops no other.
LEMMA WorkerHeeds ==
  ASSUME IInv, PInv, NEW w \in Workers, Alone(w), pending' = pending,
         job'[w] # NoId /\ Minds(w) => Minds(w)', NEW i \in Ids, Heeded(i)
  PROVE  Heeded(i)'
<1>1. w \notin Clients /\ (\A c \in Clients : c \in Actors) /\ (\A v \in Workers : v \in Actors)
  BY NotAWorker DEF Actors
<1>2. \A c \in Clients : Submits(c)' = Submits(c) /\ job'[c] = job[c]
  BY <1>1 DEF Alone, Submits
<1>3. Entered(i)' = Entered(i)
  BY DEF Entered
<1>4. CASE i = job[w]
  <2>1. \A v \in Workers \ {w} : job'[v] # i
    BY <1>1, <1>4, Jobs DEF PInv, EntryInv, Alone
  <2>2. ~Entered(i) /\ \A c \in Clients : Submits(c) => job[c] # i
    BY <1>1, <1>4, Jobs DEF PInv, EntryInv
  <2>3. job'[w] = i => Minds(w)'
    BY <1>1, <1>4, Jobs DEF Heeded
  <2> QED BY <1>2, <1>3, <2>1, <2>2, <2>3 DEF Heeded
<1>5. CASE i # job[w]
  <2>1. intents'[i] = intents[i]
    BY <1>5 DEF Alone
  <2>2. ASSUME NEW v \in Workers, job'[v] = i PROVE Minds(v)'
    <3>1. v # w
      BY <1>1, <1>5, <2>2, Jobs DEF Alone
    <3>2. pc'[v] = pc[v] /\ job'[v] = job[v] /\ goal'[v] = goal[v]
      BY <1>1, <3>1 DEF Alone
    <3>3. Minds(v)
      BY <2>2, <3>2 DEF Heeded
    <3> QED BY <2>1, <2>2, <3>2, <3>3 DEF Minds
  <2> QED BY <1>2, <1>3, <2>1, <2>2 DEF Heeded
<1> QED BY <1>4, <1>5

LEMMA WorkerStop ==
  ASSUME IInv, PInv, StopInv, NEW w \in Workers, Alone(w), pending' = pending,
         job'[w] # NoId /\ Minds(w) => Minds(w)',
         job[w] \in Ids => promise'[job[w]] \in {promise[job[w]], "interrupted"},
         job[w] \in Ids /\ Minds(w) /\ (job'[w] = NoId \/ pc'[w] \in Early)
           /\ (pc[w] \in Early => store[job[w]].status \in StoppedRow)
              => store'[job[w]].status \in StoppedRow
  PROVE  StopInv'
<1>1. w \notin Clients /\ (\A c \in Clients : c \in Actors) /\ (\A v \in Workers : v \in Actors)
  BY NotAWorker DEF Actors
<1>2. ASSUME NEW c \in Clients, Stopper(c)' PROVE Heeded(job[c])'
  <2>1. Stopper(c) /\ job'[c] = job[c]
    BY <1>1, <1>2 DEF Alone, Stopper
  <2>2. job[c] \in Ids
    BY <1>1, <2>1 DEF Stopper, IInv, LocalsInv, Sound, Resting
  <2>3. Heeded(job[c])
    BY <2>1 DEF StopInv
  <2>4. PICK i \in Ids : i = job[c]
    BY <2>2
  <2>5. Heeded(i)'
    BY <2>3, <2>4, WorkerHeeds
  <2> QED BY <2>1, <2>4, <2>5
<1>3. ASSUME NEW i \in Ids, promise'[i] = "stopped"
      PROVE  /\ Heeded(i)'
             /\ (\A v \in Workers : job'[v] = i => pc'[v] \in Early)
                  => store'[i].status \in StoppedRow
  <2>1. promise[i] = "stopped"
    BY <1>3 DEF Alone
  <2>2. Heeded(i) /\ ((\A v \in Workers : job[v] = i => pc[v] \in Early)
                         => store[i].status \in StoppedRow)
    BY <2>1 DEF StopInv
  <2>3. Heeded(i)'
    BY <2>2, WorkerHeeds
  <2>4. ASSUME \A v \in Workers : job'[v] = i => pc'[v] \in Early
        PROVE  store'[i].status \in StoppedRow
    <3>1. \A v \in Workers \ {w} : pc'[v] = pc[v] /\ job'[v] = job[v]
      BY <1>1 DEF Alone
    <3>2. CASE i = job[w]
      <4>1. Minds(w)
        BY <2>2, <3>2 DEF Heeded
      <4>2. \A v \in Workers \ {w} : job[v] # i
        BY <1>1, <3>2, Jobs DEF PInv, EntryInv
      <4>3. pc[w] \in Early => store[i].status \in StoppedRow
        BY <2>2, <3>2, <4>2
      <4>4. job'[w] = NoId \/ pc'[w] \in Early
        BY <2>4, <3>2 DEF Alone
      <4> QED BY <3>2, <4>1, <4>3, <4>4
    <3>3. CASE i # job[w]
      <4>1. store'[i] = store[i]
        BY <3>3 DEF Alone
      <4>2. \A v \in Workers : job[v] = i => pc[v] \in Early
        BY <2>4, <3>1, <3>3
      <4> QED BY <2>2, <4>1, <4>2
    <3> QED BY <3>2, <3>3
  <2> QED BY <2>3, <2>4
<1> QED BY <1>1, <1>2, <1>3 DEF StopInv, Alone

\* What a worker's step has to show: it stays sound, it leaves a run unasked or cancelled,
\* what it leaves interrupted is recoverable, and it goes on minding a stop, or saves it.
LEMMA WorkerKept ==
  ASSUME IInv, PInv, NEW w \in Workers, Alone(w), pending' = pending,
         \A v \in Workers \ {w} : hit'[v] = hit[v],
         AtWork(w)', phase = "down" => pc'[w] = "exit",
         pc'[w] \in Midway /\ ~hit'[w] => Unasked(w)',
         job[w] \in Ids /\ promise'[job[w]] = "interrupted" =>
            /\ phase \in {"draining", "down"}
            /\ job'[w] # NoId => Interrupted(w)'
            /\ job'[w] = NoId => store'[job[w]].status \notin Settled,
         job'[w] # NoId /\ Minds(w) => Minds(w)',
         job[w] \in Ids => promise'[job[w]] \in {promise[job[w]], "interrupted"},
         job[w] \in Ids /\ Minds(w) /\ (job'[w] = NoId \/ pc'[w] \in Early)
           /\ (pc[w] \in Early => store[job[w]].status \in StoppedRow)
              => store'[job[w]].status \in StoppedRow
  PROVE  Kept
<1>1. PInv'
  BY WorkerEntries, WorkerUnused, WorkerMenu, WorkerInterrupt DEF PInv
<1>2. StopInv => StopInv'
  BY WorkerStop
<1> QED BY <1>1, <1>2 DEF Kept

LEMMA AtJob ==
  ASSUME IInv, NEW w \in Workers, pc[w] \notin Resting
  PROVE  w \in Actors /\ w \notin Clients /\ job[w] \in Ids /\ job[w] # NoId
BY NotAWorker DEF Actors, IInv, LocalsInv, Sound, NoId, Ids

\* Each step of a worker, in the order of a job, against what WorkerKept asks of it.
LEMMA RunLoadKept == ASSUME IInv, PInv, NEW w \in Workers, RunLoad(w) PROVE Kept
<1> USE DEF RunLoad, Rest, Goto, Hold, Put, maps, worker, bounds, IInv, TypeOK, TableTypes,
            MapTypes, LocalTypes, WorkerTypes, BoundTypes
<1>1. w \in Actors /\ w \notin Clients /\ job[w] \in Ids /\ job[w] # NoId
  BY AtJob DEF Resting
<1>2. AtWork(w) /\ (phase = "down" => pc[w] = "exit") /\ \A i \in Ids : restarting[i] = NoTicket
  BY DEF PInv, MenuInv
<1>3. promise[job[w]] = "interrupted" => phase \in {"draining", "down"} /\ Interrupted(w)
  BY <1>1 DEF PInv, InterruptInv
<1>4. pc[w] \in Midway /\ ~hit[w] => Unasked(w)
  BY DEF PInv, InterruptInv
<1>5. Alone(w)
  BY <1>1, <1>2 DEF Alone, Actors
<1>6. /\ pending' = pending /\ \A v \in Workers \ {w} : hit'[v] = hit[v]
      /\ phase = "down" => pc'[w] = "exit"
  BY <1>1, <1>2
<1>7. AtWork(w)'
  BY <1>1, <1>2 DEF AtWork, Resting, Closed
<1>8. pc'[w] \in Midway /\ ~hit'[w] => Unasked(w)'
  BY <1>1, <1>2, <1>4 DEF Midway, Unasked, RequestsInv
<1>9. promise'[job[w]] = "interrupted" =>
            /\ phase \in {"draining", "down"}
            /\ job'[w] # NoId => Interrupted(w)'
            /\ job'[w] = NoId => store'[job[w]].status \notin Settled
  BY <1>1, <1>2, <1>3, <1>4 DEF Interrupted, Midway, Unasked, Settled, NoRow, Closed, AtWork
<1>10. job'[w] # NoId /\ Minds(w) => Minds(w)'
  BY <1>1, <1>2 DEF Minds, Before, Stopping
<1>11. promise'[job[w]] \in {promise[job[w]], "interrupted"}
  BY <1>1
<1>12. Minds(w) /\ (job'[w] = NoId \/ pc'[w] \in Early)
           /\ (pc[w] \in Early => store[job[w]].status \in StoppedRow)
              => store'[job[w]].status \in StoppedRow
  BY <1>1, <1>2 DEF Minds, Early, StoppedRow, Stopping, NoRow, AtWork
<1> QED BY <1>1, <1>5, <1>6, <1>7, <1>8, <1>9, <1>10, <1>11, <1>12, WorkerKept

LEMMA RegisterKept == ASSUME IInv, PInv, NEW w \in Workers, Register(w) PROVE Kept
<1> USE DEF Register, Rest, Goto, Hold, Put, maps, worker, bounds, IInv, TypeOK, TableTypes,
            MapTypes, LocalTypes, WorkerTypes, BoundTypes
<1>1. w \in Actors /\ w \notin Clients /\ job[w] \in Ids /\ job[w] # NoId
  BY AtJob DEF Resting
<1>2. AtWork(w) /\ (phase = "down" => pc[w] = "exit") /\ \A i \in Ids : restarting[i] = NoTicket
  BY DEF PInv, MenuInv
<1>3. promise[job[w]] = "interrupted" => phase \in {"draining", "down"} /\ Interrupted(w)
  BY <1>1 DEF PInv, InterruptInv
<1>4. pc[w] \in Midway /\ ~hit[w] => Unasked(w)
  BY DEF PInv, InterruptInv
<1>5. Alone(w)
  BY <1>1, <1>2 DEF Alone, Actors
<1>6. /\ pending' = pending /\ \A v \in Workers \ {w} : hit'[v] = hit[v]
      /\ phase = "down" => pc'[w] = "exit"
  BY <1>1, <1>2
<1>7. AtWork(w)'
  <2>1. goal[w] # "queued" /\ outcome[w] # "unmarked" /\ intents[job[w]] # "queued"
    BY <1>1, <1>2 DEF AtWork
  <2>2. CASE Closed
    BY <1>1, <1>2, <2>1, <2>2 DEF AtWork, Resting, Closed
  <2>3. CASE cancels[job[w]] # NoWorker
    BY <1>1, <1>2, <2>1, <2>3 DEF AtWork, Resting
  <2>4. CASE ~Closed /\ cancels[job[w]] = NoWorker
    BY <1>1, <1>2, <2>1, <2>4 DEF AtWork, Resting
  <2> QED BY <2>2, <2>3, <2>4
<1>8. pc'[w] \in Midway /\ ~hit'[w] => Unasked(w)'
  BY <1>1, <1>2, <1>4 DEF Midway, Unasked, RequestsInv
<1>9. promise'[job[w]] = "interrupted" =>
            /\ phase \in {"draining", "down"}
            /\ job'[w] # NoId => Interrupted(w)'
            /\ job'[w] = NoId => store'[job[w]].status \notin Settled
  BY <1>1, <1>2, <1>3, <1>4 DEF Interrupted, Midway, Unasked, Settled, NoRow, Closed, AtWork
<1>10. job'[w] # NoId /\ Minds(w) => Minds(w)'
  BY <1>1, <1>2 DEF Minds, Before, Stopping
<1>11. promise'[job[w]] \in {promise[job[w]], "interrupted"}
  BY <1>1
<1>12. Minds(w) /\ (job'[w] = NoId \/ pc'[w] \in Early)
           /\ (pc[w] \in Early => store[job[w]].status \in StoppedRow)
              => store'[job[w]].status \in StoppedRow
  BY <1>1, <1>2 DEF Minds, Early, StoppedRow, Stopping, NoRow, AtWork
<1> QED BY <1>1, <1>5, <1>6, <1>7, <1>8, <1>9, <1>10, <1>11, <1>12, WorkerKept

LEMMA PersistActiveKept == ASSUME IInv, PInv, NEW w \in Workers, PersistActive(w) PROVE Kept
<1> USE DEF PersistActive, Goto, Hold, Put, maps, worker, bounds, IInv, TypeOK, TableTypes,
            MapTypes, LocalTypes, WorkerTypes, BoundTypes
<1>1. w \in Actors /\ w \notin Clients /\ job[w] \in Ids /\ job[w] # NoId
  BY AtJob DEF Resting
<1>2. AtWork(w) /\ (phase = "down" => pc[w] = "exit") /\ \A i \in Ids : restarting[i] = NoTicket
  BY DEF PInv, MenuInv
<1>3. promise[job[w]] = "interrupted" => phase \in {"draining", "down"} /\ Interrupted(w)
  BY <1>1 DEF PInv, InterruptInv
<1>4. pc[w] \in Midway /\ ~hit[w] => Unasked(w)
  BY DEF PInv, InterruptInv
<1>5. Alone(w)
  BY <1>1, <1>2 DEF Alone, Actors
<1>6. /\ pending' = pending /\ \A v \in Workers \ {w} : hit'[v] = hit[v]
      /\ phase = "down" => pc'[w] = "exit"
  BY <1>1, <1>2
<1>7. AtWork(w)'
  BY <1>1, <1>2 DEF AtWork, Resting, Closed
<1>8. pc'[w] \in Midway /\ ~hit'[w] => Unasked(w)'
  BY <1>1, <1>2, <1>4 DEF Midway, Unasked, RequestsInv
<1>9. promise'[job[w]] = "interrupted" =>
            /\ phase \in {"draining", "down"}
            /\ job'[w] # NoId => Interrupted(w)'
            /\ job'[w] = NoId => store'[job[w]].status \notin Settled
  BY <1>1, <1>2, <1>3, <1>4 DEF Interrupted, Midway, Unasked, Settled, NoRow, Closed, AtWork
<1>10. job'[w] # NoId /\ Minds(w) => Minds(w)'
  BY <1>1, <1>2 DEF Minds, Before, Stopping
<1>11. promise'[job[w]] \in {promise[job[w]], "interrupted"}
  BY <1>1
<1>12. Minds(w) /\ (job'[w] = NoId \/ pc'[w] \in Early)
           /\ (pc[w] \in Early => store[job[w]].status \in StoppedRow)
              => store'[job[w]].status \in StoppedRow
  BY <1>1, <1>2 DEF Minds, Early, StoppedRow, Stopping, NoRow, AtWork
<1> QED BY <1>1, <1>5, <1>6, <1>7, <1>8, <1>9, <1>10, <1>11, <1>12, WorkerKept

LEMMA RunAbortsKept == ASSUME IInv, PInv, NEW w \in Workers, RunAborts(w) PROVE Kept
<1> USE DEF RunAborts, EndRun, Goto, Hold, Put, maps, worker, bounds, IInv, TypeOK,
            TableTypes, MapTypes, LocalTypes, WorkerTypes, BoundTypes
<1>1. w \in Actors /\ w \notin Clients /\ job[w] \in Ids /\ job[w] # NoId
  BY AtJob DEF Resting
<1>2. AtWork(w) /\ (phase = "down" => pc[w] = "exit") /\ \A i \in Ids : restarting[i] = NoTicket
  BY DEF PInv, MenuInv
<1>3. promise[job[w]] = "interrupted" => phase \in {"draining", "down"} /\ Interrupted(w)
  BY <1>1 DEF PInv, InterruptInv
<1>4. pc[w] \in Midway /\ ~hit[w] => Unasked(w)
  BY DEF PInv, InterruptInv
<1>5. Alone(w)
  BY <1>1, <1>2 DEF Alone, Actors
<1>6. /\ pending' = pending /\ \A v \in Workers \ {w} : hit'[v] = hit[v]
      /\ phase = "down" => pc'[w] = "exit"
  BY <1>1, <1>2
<1>7. AtWork(w)'
  BY <1>1, <1>2 DEF AtWork, Resting, Closed
<1>8. pc'[w] \in Midway /\ ~hit'[w] => Unasked(w)'
  BY <1>1, <1>2, <1>4 DEF Midway, Unasked, RequestsInv
<1>9. promise'[job[w]] = "interrupted" =>
            /\ phase \in {"draining", "down"}
            /\ job'[w] # NoId => Interrupted(w)'
            /\ job'[w] = NoId => store'[job[w]].status \notin Settled
  BY <1>1, <1>2, <1>3, <1>4 DEF Interrupted, Midway, Unasked, Settled, NoRow, Closed, AtWork
<1>10. job'[w] # NoId /\ Minds(w) => Minds(w)'
  BY <1>1, <1>2 DEF Minds, Before, Stopping
<1>11. promise'[job[w]] \in {promise[job[w]], "interrupted"}
  BY <1>1
<1>12. Minds(w) /\ (job'[w] = NoId \/ pc'[w] \in Early)
           /\ (pc[w] \in Early => store[job[w]].status \in StoppedRow)
              => store'[job[w]].status \in StoppedRow
  BY <1>1, <1>2 DEF Minds, Early, StoppedRow, Stopping, NoRow, AtWork
<1> QED BY <1>1, <1>5, <1>6, <1>7, <1>8, <1>9, <1>10, <1>11, <1>12, WorkerKept

LEMMA PersistRunKept == ASSUME IInv, PInv, NEW w \in Workers, PersistRun(w) PROVE Kept
<1> USE DEF PersistRun, Goto, Hold, Put, maps, worker, bounds, IInv, TypeOK, TableTypes,
            MapTypes, LocalTypes, WorkerTypes, BoundTypes
<1>1. w \in Actors /\ w \notin Clients /\ job[w] \in Ids /\ job[w] # NoId
  BY AtJob DEF Resting
<1>2. AtWork(w) /\ (phase = "down" => pc[w] = "exit") /\ \A i \in Ids : restarting[i] = NoTicket
  BY DEF PInv, MenuInv
<1>3. promise[job[w]] = "interrupted" => phase \in {"draining", "down"} /\ Interrupted(w)
  BY <1>1 DEF PInv, InterruptInv
<1>4. pc[w] \in Midway /\ ~hit[w] => Unasked(w)
  BY DEF PInv, InterruptInv
<1>5. Alone(w)
  BY <1>1, <1>2 DEF Alone, Actors
<1>6. /\ pending' = pending /\ \A v \in Workers \ {w} : hit'[v] = hit[v]
      /\ phase = "down" => pc'[w] = "exit"
  BY <1>1, <1>2
<1>7. AtWork(w)'
  BY <1>1, <1>2 DEF AtWork, Resting, Closed
<1>8. pc'[w] \in Midway /\ ~hit'[w] => Unasked(w)'
  BY <1>1, <1>2, <1>4 DEF Midway, Unasked, RequestsInv
<1>9. promise'[job[w]] = "interrupted" =>
            /\ phase \in {"draining", "down"}
            /\ job'[w] # NoId => Interrupted(w)'
            /\ job'[w] = NoId => store'[job[w]].status \notin Settled
  BY <1>1, <1>2, <1>3, <1>4 DEF Interrupted, Midway, Unasked, Settled, NoRow, Closed, AtWork
<1>10. job'[w] # NoId /\ Minds(w) => Minds(w)'
  BY <1>1, <1>2 DEF Minds, Before, Stopping
<1>11. promise'[job[w]] \in {promise[job[w]], "interrupted"}
  BY <1>1
<1>12. Minds(w) /\ (job'[w] = NoId \/ pc'[w] \in Early)
           /\ (pc[w] \in Early => store[job[w]].status \in StoppedRow)
              => store'[job[w]].status \in StoppedRow
  BY <1>1, <1>2 DEF Minds, Early, StoppedRow, Stopping, NoRow, AtWork
<1> QED BY <1>1, <1>5, <1>6, <1>7, <1>8, <1>9, <1>10, <1>11, <1>12, WorkerKept

LEMMA TransferFailsKept == ASSUME IInv, PInv, NEW w \in Workers, TransferFails(w) PROVE Kept
<1> USE DEF TransferFails, EndRun, Goto, Hold, Put, maps, worker, bounds, IInv, TypeOK,
            TableTypes, MapTypes, LocalTypes, WorkerTypes, BoundTypes
<1>1. w \in Actors /\ w \notin Clients /\ job[w] \in Ids /\ job[w] # NoId
  BY AtJob DEF Resting
<1>2. AtWork(w) /\ (phase = "down" => pc[w] = "exit") /\ \A i \in Ids : restarting[i] = NoTicket
  BY DEF PInv, MenuInv
<1>3. promise[job[w]] = "interrupted" => phase \in {"draining", "down"} /\ Interrupted(w)
  BY <1>1 DEF PInv, InterruptInv
<1>4. pc[w] \in Midway /\ ~hit[w] => Unasked(w)
  BY DEF PInv, InterruptInv
<1>5. Alone(w)
  BY <1>1, <1>2 DEF Alone, Actors
<1>6. /\ pending' = pending /\ \A v \in Workers \ {w} : hit'[v] = hit[v]
      /\ phase = "down" => pc'[w] = "exit"
  BY <1>1, <1>2
<1>7. AtWork(w)'
  BY <1>1, <1>2 DEF AtWork, Resting, Closed
<1>8. pc'[w] \in Midway /\ ~hit'[w] => Unasked(w)'
  BY <1>1, <1>2, <1>4 DEF Midway, Unasked, RequestsInv
<1>9. promise'[job[w]] = "interrupted" =>
            /\ phase \in {"draining", "down"}
            /\ job'[w] # NoId => Interrupted(w)'
            /\ job'[w] = NoId => store'[job[w]].status \notin Settled
  BY <1>1, <1>2, <1>3, <1>4 DEF Interrupted, Midway, Unasked, Settled, NoRow, Closed, AtWork
<1>10. job'[w] # NoId /\ Minds(w) => Minds(w)'
  BY <1>1, <1>2 DEF Minds, Before, Stopping
<1>11. promise'[job[w]] \in {promise[job[w]], "interrupted"}
  BY <1>1
<1>12. Minds(w) /\ (job'[w] = NoId \/ pc'[w] \in Early)
           /\ (pc[w] \in Early => store[job[w]].status \in StoppedRow)
              => store'[job[w]].status \in StoppedRow
  BY <1>1, <1>2 DEF Minds, Early, StoppedRow, Stopping, NoRow, AtWork
<1> QED BY <1>1, <1>5, <1>6, <1>7, <1>8, <1>9, <1>10, <1>11, <1>12, WorkerKept

LEMMA TransferCompletesKept == ASSUME IInv, PInv, NEW w \in Workers, TransferCompletes(w) PROVE Kept
<1> USE DEF TransferCompletes, Goto, Hold, Put, maps, worker, bounds, IInv, TypeOK,
            TableTypes, MapTypes, LocalTypes, WorkerTypes, BoundTypes
<1>1. w \in Actors /\ w \notin Clients /\ job[w] \in Ids /\ job[w] # NoId
  BY AtJob DEF Resting
<1>2. AtWork(w) /\ (phase = "down" => pc[w] = "exit") /\ \A i \in Ids : restarting[i] = NoTicket
  BY DEF PInv, MenuInv
<1>3. promise[job[w]] = "interrupted" => phase \in {"draining", "down"} /\ Interrupted(w)
  BY <1>1 DEF PInv, InterruptInv
<1>4. pc[w] \in Midway /\ ~hit[w] => Unasked(w)
  BY DEF PInv, InterruptInv
<1>5. Alone(w)
  BY <1>1, <1>2 DEF Alone, Actors
<1>6. /\ pending' = pending /\ \A v \in Workers \ {w} : hit'[v] = hit[v]
      /\ phase = "down" => pc'[w] = "exit"
  BY <1>1, <1>2
<1>7. AtWork(w)'
  BY <1>1, <1>2 DEF AtWork, Resting, Closed
<1>8. pc'[w] \in Midway /\ ~hit'[w] => Unasked(w)'
  BY <1>1, <1>2, <1>4 DEF Midway, Unasked, RequestsInv
<1>9. promise'[job[w]] = "interrupted" =>
            /\ phase \in {"draining", "down"}
            /\ job'[w] # NoId => Interrupted(w)'
            /\ job'[w] = NoId => store'[job[w]].status \notin Settled
  BY <1>1, <1>2, <1>3, <1>4 DEF Interrupted, Midway, Unasked, Settled, NoRow, Closed, AtWork
<1>10. job'[w] # NoId /\ Minds(w) => Minds(w)'
  BY <1>1, <1>2 DEF Minds, Before, Stopping
<1>11. promise'[job[w]] \in {promise[job[w]], "interrupted"}
  BY <1>1
<1>12. Minds(w) /\ (job'[w] = NoId \/ pc'[w] \in Early)
           /\ (pc[w] \in Early => store[job[w]].status \in StoppedRow)
              => store'[job[w]].status \in StoppedRow
  BY <1>1, <1>2 DEF Minds, Early, StoppedRow, Stopping, NoRow, AtWork
<1> QED BY <1>1, <1>5, <1>6, <1>7, <1>8, <1>9, <1>10, <1>11, <1>12, WorkerKept

LEMMA PersistCompletedKept == ASSUME IInv, PInv, NEW w \in Workers, PersistCompleted(w) PROVE Kept
<1> USE DEF PersistCompleted, EndRun, Goto, Hold, Put, maps, worker, bounds, IInv, TypeOK,
            TableTypes, MapTypes, LocalTypes, WorkerTypes, BoundTypes
<1>1. w \in Actors /\ w \notin Clients /\ job[w] \in Ids /\ job[w] # NoId
  BY AtJob DEF Resting
<1>2. AtWork(w) /\ (phase = "down" => pc[w] = "exit") /\ \A i \in Ids : restarting[i] = NoTicket
  BY DEF PInv, MenuInv
<1>3. promise[job[w]] = "interrupted" => phase \in {"draining", "down"} /\ Interrupted(w)
  BY <1>1 DEF PInv, InterruptInv
<1>4. pc[w] \in Midway /\ ~hit[w] => Unasked(w)
  BY DEF PInv, InterruptInv
<1>5. Alone(w)
  BY <1>1, <1>2 DEF Alone, Actors
<1>6. /\ pending' = pending /\ \A v \in Workers \ {w} : hit'[v] = hit[v]
      /\ phase = "down" => pc'[w] = "exit"
  BY <1>1, <1>2
<1>7. AtWork(w)'
  BY <1>1, <1>2 DEF AtWork, Resting, Closed
<1>8. pc'[w] \in Midway /\ ~hit'[w] => Unasked(w)'
  BY <1>1, <1>2, <1>4 DEF Midway, Unasked, RequestsInv
<1>9. promise'[job[w]] = "interrupted" =>
            /\ phase \in {"draining", "down"}
            /\ job'[w] # NoId => Interrupted(w)'
            /\ job'[w] = NoId => store'[job[w]].status \notin Settled
  BY <1>1, <1>2, <1>3, <1>4 DEF Interrupted, Midway, Unasked, Settled, NoRow, Closed, AtWork
<1>10. job'[w] # NoId /\ Minds(w) => Minds(w)'
  BY <1>1, <1>2 DEF Minds, Before, Stopping
<1>11. promise'[job[w]] \in {promise[job[w]], "interrupted"}
  BY <1>1
<1>12. Minds(w) /\ (job'[w] = NoId \/ pc'[w] \in Early)
           /\ (pc[w] \in Early => store[job[w]].status \in StoppedRow)
              => store'[job[w]].status \in StoppedRow
  BY <1>1, <1>2 DEF Minds, Early, StoppedRow, Stopping, NoRow, AtWork
<1> QED BY <1>1, <1>5, <1>6, <1>7, <1>8, <1>9, <1>10, <1>11, <1>12, WorkerKept

LEMMA CompletionLostKept == ASSUME IInv, PInv, NEW w \in Workers, CompletionLost(w) PROVE Kept
<1> USE DEF CompletionLost, EndRun, Goto, Hold, Put, maps, worker, bounds, IInv, TypeOK,
            TableTypes, MapTypes, LocalTypes, WorkerTypes, BoundTypes
<1>1. w \in Actors /\ w \notin Clients /\ job[w] \in Ids /\ job[w] # NoId
  BY AtJob DEF Resting
<1>2. AtWork(w) /\ (phase = "down" => pc[w] = "exit") /\ \A i \in Ids : restarting[i] = NoTicket
  BY DEF PInv, MenuInv
<1>3. promise[job[w]] = "interrupted" => phase \in {"draining", "down"} /\ Interrupted(w)
  BY <1>1 DEF PInv, InterruptInv
<1>4. pc[w] \in Midway /\ ~hit[w] => Unasked(w)
  BY DEF PInv, InterruptInv
<1>5. Alone(w)
  BY <1>1, <1>2 DEF Alone, Actors
<1>6. /\ pending' = pending /\ \A v \in Workers \ {w} : hit'[v] = hit[v]
      /\ phase = "down" => pc'[w] = "exit"
  BY <1>1, <1>2
<1>7. AtWork(w)'
  BY <1>1, <1>2 DEF AtWork, Resting, Closed
<1>8. pc'[w] \in Midway /\ ~hit'[w] => Unasked(w)'
  BY <1>1, <1>2, <1>4 DEF Midway, Unasked, RequestsInv
<1>9. promise'[job[w]] = "interrupted" =>
            /\ phase \in {"draining", "down"}
            /\ job'[w] # NoId => Interrupted(w)'
            /\ job'[w] = NoId => store'[job[w]].status \notin Settled
  BY <1>1, <1>2, <1>3, <1>4 DEF Interrupted, Midway, Unasked, Settled, NoRow, Closed, AtWork
<1>10. job'[w] # NoId /\ Minds(w) => Minds(w)'
  BY <1>1, <1>2 DEF Minds, Before, Stopping
<1>11. promise'[job[w]] \in {promise[job[w]], "interrupted"}
  BY <1>1
<1>12. Minds(w) /\ (job'[w] = NoId \/ pc'[w] \in Early)
           /\ (pc[w] \in Early => store[job[w]].status \in StoppedRow)
              => store'[job[w]].status \in StoppedRow
  BY <1>1, <1>2 DEF Minds, Early, StoppedRow, Stopping, NoRow, AtWork
<1> QED BY <1>1, <1>5, <1>6, <1>7, <1>8, <1>9, <1>10, <1>11, <1>12, WorkerKept

LEMMA FinishJobKept == ASSUME IInv, PInv, NEW w \in Workers, FinishJob(w) PROVE Kept
<1> USE DEF FinishJob, Endings, Rest, Settle, Override, Goto, Hold, Put, maps, worker, bounds, IInv,
            TypeOK, TableTypes, MapTypes, LocalTypes, WorkerTypes, BoundTypes
<1>1. w \in Actors /\ w \notin Clients /\ job[w] \in Ids /\ job[w] # NoId
  BY AtJob DEF Resting
<1>2. AtWork(w) /\ (phase = "down" => pc[w] = "exit") /\ \A i \in Ids : restarting[i] = NoTicket
  BY DEF PInv, MenuInv
<1>3. promise[job[w]] = "interrupted" => phase \in {"draining", "down"} /\ Interrupted(w)
  BY <1>1 DEF PInv, InterruptInv
<1>4. pc[w] \in Midway /\ ~hit[w] => Unasked(w)
  BY DEF PInv, InterruptInv
<1>5. Alone(w)
  BY <1>1, <1>2 DEF Alone, Actors
<1>6. /\ pending' = pending /\ \A v \in Workers \ {w} : hit'[v] = hit[v]
      /\ phase = "down" => pc'[w] = "exit"
  BY <1>1, <1>2
<1>7. AtWork(w)'
  <2> DEFINE intent == IF intents[job[w]] = "none" THEN goal[w] ELSE intents[job[w]]
  <2>1. goal[w] # "queued" /\ outcome[w] # "unmarked" /\ intent # "queued"
    BY <1>1, <1>2 DEF AtWork
  <2>2. outcome'[w] = "none" /\ phase' = phase
    BY <1>1
  <2>7. PICK how \in Endings(w) :
          Settle(w, deleting[job[w]], restarting[job[w]], Override(intent, how))
    BY <1>1
  <2>8. how = "abort" => phase = "draining"
    BY <1>1, <1>2 DEF AtWork, Endings, Closed
  <2>3. Override(intent, how) = "queued" => phase = "draining"
    BY <2>1, <2>8 DEF Endings
  <2>4. pc'[w] \in {"idle", "remove", "override"} /\ (pc'[w] = "idle" => job'[w] = NoId)
    BY <1>1, <1>2, <2>7
  <2>5. pc'[w] # "override" => goal'[w] = "none"
    BY <1>1, <1>2, <2>7
  <2>6. pc'[w] = "override" => goal'[w] = Override(intent, how)
    BY <1>1, <1>2, <2>7
  <2> QED BY <1>1, <1>2, <2>2, <2>3, <2>4, <2>5, <2>6 DEF AtWork, Resting
<1>8. pc'[w] \in Midway /\ ~hit'[w] => Unasked(w)'
  BY <1>1, <1>2, <1>4 DEF Midway, Unasked, RequestsInv
<1>9. promise'[job[w]] = "interrupted" =>
            /\ phase \in {"draining", "down"}
            /\ job'[w] # NoId => Interrupted(w)'
            /\ job'[w] = NoId => store'[job[w]].status \notin Settled
  BY <1>1, <1>2, <1>3, <1>4 DEF Interrupted, Midway, Unasked, Settled, NoRow, Closed, AtWork
<1>10. job'[w] # NoId /\ Minds(w) => Minds(w)'
  BY <1>1, <1>2 DEF Minds, Before, Stopping
<1>11. promise'[job[w]] \in {promise[job[w]], "interrupted"}
  BY <1>1
<1>12. Minds(w) /\ (job'[w] = NoId \/ pc'[w] \in Early)
           /\ (pc[w] \in Early => store[job[w]].status \in StoppedRow)
              => store'[job[w]].status \in StoppedRow
  BY <1>1, <1>2 DEF Minds, Early, StoppedRow, Stopping, NoRow, AtWork
<1> QED BY <1>1, <1>5, <1>6, <1>7, <1>8, <1>9, <1>10, <1>11, <1>12, WorkerKept

LEMMA RemoveRecordKept == ASSUME IInv, PInv, NEW w \in Workers, RemoveRecord(w) PROVE Kept
<1> USE DEF RemoveRecord, Rest, Done, Goto, Hold, Put, maps, worker, bounds, IInv, TypeOK,
            TableTypes, MapTypes, LocalTypes, WorkerTypes, BoundTypes
<1>1. w \in Actors /\ w \notin Clients /\ job[w] \in Ids /\ job[w] # NoId
  BY AtJob DEF Resting
<1>2. AtWork(w) /\ (phase = "down" => pc[w] = "exit") /\ \A i \in Ids : restarting[i] = NoTicket
  BY DEF PInv, MenuInv
<1>3. promise[job[w]] = "interrupted" => phase \in {"draining", "down"} /\ Interrupted(w)
  BY <1>1 DEF PInv, InterruptInv
<1>4. pc[w] \in Midway /\ ~hit[w] => Unasked(w)
  BY DEF PInv, InterruptInv
<1>5. Alone(w)
  BY <1>1, <1>2 DEF Alone, Actors
<1>6. /\ pending' = pending /\ \A v \in Workers \ {w} : hit'[v] = hit[v]
      /\ phase = "down" => pc'[w] = "exit"
  BY <1>1, <1>2
<1>7. AtWork(w)'
  BY <1>1, <1>2 DEF AtWork, Resting, Closed
<1>8. pc'[w] \in Midway /\ ~hit'[w] => Unasked(w)'
  BY <1>1, <1>2, <1>4 DEF Midway, Unasked, RequestsInv
<1>9. promise'[job[w]] = "interrupted" =>
            /\ phase \in {"draining", "down"}
            /\ job'[w] # NoId => Interrupted(w)'
            /\ job'[w] = NoId => store'[job[w]].status \notin Settled
  BY <1>1, <1>2, <1>3, <1>4 DEF Interrupted, Midway, Unasked, Settled, NoRow, Closed, AtWork
<1>10. job'[w] # NoId /\ Minds(w) => Minds(w)'
  BY <1>1, <1>2 DEF Minds, Before, Stopping
<1>11. promise'[job[w]] \in {promise[job[w]], "interrupted"}
  BY <1>1
<1>12. Minds(w) /\ (job'[w] = NoId \/ pc'[w] \in Early)
           /\ (pc[w] \in Early => store[job[w]].status \in StoppedRow)
              => store'[job[w]].status \in StoppedRow
  BY <1>1, <1>2 DEF Minds, Early, StoppedRow, Stopping, NoRow, AtWork
<1> QED BY <1>1, <1>5, <1>6, <1>7, <1>8, <1>9, <1>10, <1>11, <1>12, WorkerKept

LEMMA OverrideLoadKept == ASSUME IInv, PInv, NEW w \in Workers, OverrideLoad(w) PROVE Kept
<1> USE DEF OverrideLoad, Rest, Goto, Hold, Put, maps, worker, bounds, IInv, TypeOK,
            TableTypes, MapTypes, LocalTypes, WorkerTypes, BoundTypes
<1>1. w \in Actors /\ w \notin Clients /\ job[w] \in Ids /\ job[w] # NoId
  BY AtJob DEF Resting
<1>2. AtWork(w) /\ (phase = "down" => pc[w] = "exit") /\ \A i \in Ids : restarting[i] = NoTicket
  BY DEF PInv, MenuInv
<1>3. promise[job[w]] = "interrupted" => phase \in {"draining", "down"} /\ Interrupted(w)
  BY <1>1 DEF PInv, InterruptInv
<1>4. pc[w] \in Midway /\ ~hit[w] => Unasked(w)
  BY DEF PInv, InterruptInv
<1>5. Alone(w)
  BY <1>1, <1>2 DEF Alone, Actors
<1>6. /\ pending' = pending /\ \A v \in Workers \ {w} : hit'[v] = hit[v]
      /\ phase = "down" => pc'[w] = "exit"
  BY <1>1, <1>2
<1>7. AtWork(w)'
  BY <1>1, <1>2 DEF AtWork, Resting, Closed, NoRow, Row
<1>8. pc'[w] \in Midway /\ ~hit'[w] => Unasked(w)'
  BY <1>1, <1>2, <1>4 DEF Midway, Unasked, RequestsInv
<1>9. promise'[job[w]] = "interrupted" =>
            /\ phase \in {"draining", "down"}
            /\ job'[w] # NoId => Interrupted(w)'
            /\ job'[w] = NoId => store'[job[w]].status \notin Settled
  BY <1>1, <1>2, <1>3, <1>4 DEF Interrupted, Midway, Unasked, Settled, NoRow, Closed, AtWork
<1>10. job'[w] # NoId /\ Minds(w) => Minds(w)'
  BY <1>1, <1>2 DEF Minds, Before, Stopping
<1>11. promise'[job[w]] \in {promise[job[w]], "interrupted"}
  BY <1>1
<1>12. Minds(w) /\ (job'[w] = NoId \/ pc'[w] \in Early)
           /\ (pc[w] \in Early => store[job[w]].status \in StoppedRow)
              => store'[job[w]].status \in StoppedRow
  BY <1>1, <1>2 DEF Minds, Early, StoppedRow, Stopping, NoRow, AtWork
<1> QED BY <1>1, <1>5, <1>6, <1>7, <1>8, <1>9, <1>10, <1>11, <1>12, WorkerKept

LEMMA OverrideSaveKept == ASSUME IInv, PInv, NEW w \in Workers, OverrideSave(w) PROVE Kept
<1> USE DEF OverrideSave, Rest, Goto, Hold, Put, maps, worker, bounds, IInv, TypeOK,
            TableTypes, MapTypes, LocalTypes, WorkerTypes, BoundTypes
<1>1. w \in Actors /\ w \notin Clients /\ job[w] \in Ids /\ job[w] # NoId
  BY AtJob DEF Resting
<1>2. AtWork(w) /\ (phase = "down" => pc[w] = "exit") /\ \A i \in Ids : restarting[i] = NoTicket
  BY DEF PInv, MenuInv
<1>3. promise[job[w]] = "interrupted" => phase \in {"draining", "down"} /\ Interrupted(w)
  BY <1>1 DEF PInv, InterruptInv
<1>4. pc[w] \in Midway /\ ~hit[w] => Unasked(w)
  BY DEF PInv, InterruptInv
<1>5. Alone(w)
  BY <1>1, <1>2 DEF Alone, Actors
<1>6. /\ pending' = pending /\ \A v \in Workers \ {w} : hit'[v] = hit[v]
      /\ phase = "down" => pc'[w] = "exit"
  BY <1>1, <1>2
<1>7. AtWork(w)'
  BY <1>1, <1>2 DEF AtWork, Resting, Closed
<1>8. pc'[w] \in Midway /\ ~hit'[w] => Unasked(w)'
  BY <1>1, <1>2, <1>4 DEF Midway, Unasked, RequestsInv
<1>9. promise'[job[w]] = "interrupted" =>
            /\ phase \in {"draining", "down"}
            /\ job'[w] # NoId => Interrupted(w)'
            /\ job'[w] = NoId => store'[job[w]].status \notin Settled
  BY <1>1, <1>2, <1>3, <1>4 DEF Interrupted, Midway, Unasked, Settled, NoRow, Closed, AtWork
<1>10. job'[w] # NoId /\ Minds(w) => Minds(w)'
  BY <1>1, <1>2 DEF Minds, Before, Stopping
<1>11. promise'[job[w]] \in {promise[job[w]], "interrupted"}
  BY <1>1
<1>12. Minds(w) /\ (job'[w] = NoId \/ pc'[w] \in Early)
           /\ (pc[w] \in Early => store[job[w]].status \in StoppedRow)
              => store'[job[w]].status \in StoppedRow
  BY <1>1, <1>2 DEF Minds, Early, StoppedRow, Stopping, NoRow, AtWork
<1> QED BY <1>1, <1>5, <1>6, <1>7, <1>8, <1>9, <1>10, <1>11, <1>12, WorkerKept

-----------------------------------------------------------------------------
(* The steps of clients.                                                      *)

\* Where a call is under way the daemon serves or drains its handlers, and no run has been
\* interrupted by the shutdown.
LEMMA AtCall ==
  ASSUME IInv, PInv, NEW c \in Clients, pc[c] # "idle"
  PROVE  /\ c \in Actors /\ c \notin Workers /\ job[c] \in Ids /\ job[c] # NoId
         /\ phase \notin {"draining", "down"}
         /\ \A i \in Ids : promise[i] # "interrupted"
         /\ \A w \in Workers : w \in Actors /\ w \notin Clients /\ w # c
         /\ \A d \in Clients : d \in Actors
<1>1. /\ c \in Actors /\ c \notin Workers
      /\ \A w \in Workers : w \in Actors /\ w \notin Clients /\ w # c
      /\ \A d \in Clients : d \in Actors
  BY NotAWorker DEF Actors
<1>2. phase \notin {"draining", "down"}
  BY DEF PInv, MenuInv
<1>3. pc[c] \notin Resting
  BY DEF Resting, PInv, MenuInv, Calling
<1>4. job[c] \in Ids /\ job[c] # NoId
  BY <1>1, <1>3, Jobs DEF IInv, LocalsInv, Sound
<1> QED BY <1>1, <1>2, <1>4 DEF PInv, InterruptInv

LEMMA ClientEntries ==
  ASSUME IInv, PInv, NEW c \in Clients, pc[c] # "idle", Alone(c), pending' = pending,
         Submits(c)' => Submits(c) /\ job'[c] = job[c]
  PROVE  EntryInv'
<1>1. \A w \in Workers : job'[w] = job[w]
  BY AtCall DEF Alone
<1>2. \A d \in Clients : Submits(d)' => Submits(d) /\ job'[d] = job[d]
  BY AtCall DEF Alone, Submits
<1>3. \A i : Entered(i)' = Entered(i)
  BY DEF Entered
<1> QED BY <1>1, <1>2, <1>3 DEF PInv, EntryInv

LEMMA ClientUnused ==
  ASSUME IInv, PInv, NEW c \in Clients, pc[c] # "idle", Alone(c), pending' = pending,
         ~Unsaved(c)',
         pc[c] = "load" /\ store[job[c]] = NoRow =>
            job'[c] = NoId /\ store'[job[c]] = NoRow /\ promise'[job[c]] = promise[job[c]]
  PROVE  UnusedInv'
<1>1. created \in Nat /\ created' = created
  BY BoundsAssumption DEF IInv, TypeOK, TableTypes, Alone
<1>2. \A a \in Actors : job'[a] <= created'
  BY <1>1 DEF PInv, UnusedInv, Alone, NoId
<1>3. ASSUME NEW i \in Ids, i > created PROVE store'[i] = NoRow /\ promise'[i] = "none"
  <2>1. i # job[c]
    BY AtCall, <1>1, <1>3 DEF PInv, UnusedInv, Ids
  <2> QED BY <1>3, <2>1 DEF PInv, UnusedInv, Alone
<1>4. ASSUME NEW d \in Clients, Unsaved(d)'
      PROVE  /\ store'[job'[d]] = NoRow /\ promise'[job'[d]] # "stopped"
             /\ \A e \in Clients : e # d /\ job'[e] = job'[d] => pc'[e] = "load"
  <2>1. d # c /\ Unsaved(d) /\ job'[d] = job[d] /\ pc'[d] = pc[d]
    BY AtCall, <1>4 DEF Alone, Unsaved
  <2>2. job[d] \in Ids
    BY AtCall, <2>1 DEF Unsaved
  <2>3. /\ store[job[d]] = NoRow /\ promise[job[d]] # "stopped"
        /\ \A e \in Clients : e # d /\ job[e] = job[d] => pc[e] = "load"
    BY <2>1 DEF PInv, UnusedInv
  <2>4. store'[job[d]] = NoRow /\ promise'[job[d]] # "stopped"
    BY <2>1, <2>2, <2>3 DEF Alone
  <2>5. ASSUME NEW e \in Clients, e # d, job'[e] = job[d] PROVE pc'[e] = "load"
    <3>1. CASE e = c
      BY AtCall, <2>1, <2>2, <2>3, <2>5, <3>1, Jobs DEF Alone
    <3>2. CASE e # c
      BY AtCall, <2>3, <2>5, <3>2 DEF Alone
    <3> QED BY <3>1, <3>2
  <2> QED BY <2>1, <2>4, <2>5
<1> QED BY <1>1, <1>2, <1>3, <1>4 DEF PInv, UnusedInv

LEMMA ClientMenu ==
  ASSUME IInv, PInv, NEW c \in Clients, pc[c] # "idle", Alone(c), Calling(c)'
  PROVE  MenuInv'
<1>1. \A d \in Clients : Calling(d)'
  BY AtCall DEF PInv, MenuInv, Alone, Calling
<1>2. \A w \in Workers : AtWork(w)'
  BY AtCall DEF PInv, MenuInv, Alone, AtWork
<1> QED BY AtCall, <1>1, <1>2 DEF PInv, MenuInv, Alone

LEMMA ClientInterrupt ==
  ASSUME IInv, PInv, NEW c \in Clients, pc[c] # "idle", Alone(c), promise'[job[c]] # "interrupted",
         \A w \in Workers : pc[w] \in Midway /\ ~hit'[w] =>
            /\ ~hit[w]
            /\ job[w] = job[c] => /\ intents'[job[c]] = intents[job[c]]
                                 /\ deleting'[job[c]] = deleting[job[c]]
  PROVE  InterruptInv'
<1>1. \A i \in Ids : promise'[i] # "interrupted"
  BY AtCall DEF Alone
<1>2. ASSUME NEW w \in Workers, pc'[w] \in Midway, ~hit'[w] PROVE Unasked(w)'
  <2>1. pc[w] = pc'[w] /\ job'[w] = job[w] /\ goal'[w] = goal[w]
    BY AtCall DEF Alone
  <2>2. Unasked(w)
    BY <1>2, <2>1 DEF PInv, InterruptInv
  <2>3. job[w] \in Ids
    BY AtCall, <1>2, <2>1 DEF IInv, LocalsInv, Sound, Resting, Midway
  <2>4. intents'[job[w]] = intents[job[w]] /\ deleting'[job[w]] = deleting[job[w]]
    BY <1>2, <2>1, <2>3 DEF Alone
  <2> QED BY <2>1, <2>2, <2>4 DEF Unasked
<1> QED BY <1>1, <1>2 DEF InterruptInv

LEMMA ClientHeeds ==
  ASSUME IInv, PInv, NEW c \in Clients, pc[c] # "idle", Alone(c), pending' = pending,
         Submits(c)' => Submits(c) /\ job'[c] = job[c],
         intents[job[c]] # "none" => intents'[job[c]] # "none",
         NEW i \in Ids, Heeded(i)
  PROVE  Heeded(i)'
<1>1. intents[i] # "none" => intents'[i] # "none"
  BY DEF Alone
<1>2. ASSUME NEW w \in Workers, job'[w] = i PROVE Minds(w)'
  <2>1. pc'[w] = pc[w] /\ job'[w] = job[w] /\ goal'[w] = goal[w]
    BY AtCall DEF Alone
  <2>2. Minds(w)
    BY <1>2, <2>1 DEF Heeded
  <2> QED BY <1>1, <1>2, <2>1, <2>2 DEF Minds
<1>3. Entered(i)' = Entered(i)
  BY DEF Entered
<1>4. \A d \in Clients : Submits(d)' => Submits(d) /\ job'[d] = job[d]
  BY AtCall DEF Alone, Submits
<1> QED BY <1>1, <1>2, <1>3, <1>4 DEF Heeded

\* A stop that has marked its download, whoever has it, before the shutdown.
LEMMA MarkHeeds ==
  ASSUME IInv, PInv, NEW c \in Clients, pc[c] # "idle", Alone(c),
         NEW i, i = job[c], intents'[i] # "none"
  PROVE  Heeded(i)'
<1>1. ASSUME NEW w \in Workers, job'[w] = i PROVE Minds(w)'
  <2>1. pc'[w] = pc[w] /\ job'[w] = job[w] /\ goal'[w] = goal[w]
    BY AtCall DEF Alone
  <2>2. pc[w] \in {"override", "force"} => goal[w] \in Stopping
    <3>1. goal[w] # "queued"
      BY AtCall DEF PInv, MenuInv, AtWork
    <3>2. pc[w] \in {"override", "force"} => goal[w] # "none"
      BY AtCall DEF IInv, LocalsInv, Sound, Forcing
    <3> QED BY <3>1, <3>2 DEF IInv, TypeOK, WorkerTypes, Stopping
  <2> QED BY <1>1, <2>1, <2>2 DEF Minds
<1> QED BY <1>1 DEF Heeded

LEMMA ClientStop ==
  ASSUME IInv, PInv, StopInv, NEW c \in Clients, pc[c] # "idle", Alone(c), pending' = pending,
         Submits(c)' => Submits(c) /\ job'[c] = job[c],
         intents[job[c]] # "none" => intents'[job[c]] # "none",
         NEW k, k = job[c],
         Stopper(c)' => job'[c] = k /\ Heeded(k)',
         promise'[k] = "stopped" =>
            /\ Heeded(k)'
            /\ (\A w \in Workers : job[w] = job[c] => pc[w] \in Early)
                 => store'[job[c]].status \in StoppedRow
  PROVE  StopInv'
<1>1. ASSUME NEW d \in Clients, Stopper(d)' PROVE Heeded(job[d])'
  <2>1. CASE d = c
    BY <1>1, <2>1
  <2>2. CASE d # c
    <3>1. Stopper(d) /\ job'[d] = job[d]
      BY AtCall, <1>1, <2>2 DEF Alone, Stopper
    <3>2. job[d] \in Ids
      BY <3>1, AtCall DEF Stopper
    <3>3. Heeded(job[d])
      BY <3>1 DEF StopInv
    <3>4. PICK i \in Ids : i = job[d]
      BY <3>2
    <3>5. Heeded(i)'
      BY <3>3, <3>4, ClientHeeds
    <3> QED BY <3>1, <3>4, <3>5
  <2> QED BY <2>1, <2>2
<1>2. ASSUME NEW i \in Ids, promise'[i] = "stopped"
      PROVE  /\ Heeded(i)'
             /\ (\A w \in Workers : job'[w] = i => pc'[w] \in Early)
                  => store'[i].status \in StoppedRow
  <2>1. \A w \in Workers : pc'[w] = pc[w] /\ job'[w] = job[w]
    BY AtCall DEF Alone
  <2>2. CASE i = job[c]
    BY <1>2, <2>1, <2>2
  <2>3. CASE i # job[c]
    <3>1. promise[i] = "stopped" /\ store'[i] = store[i]
      BY <1>2, <2>3 DEF Alone
    <3>2. Heeded(i) /\ ((\A w \in Workers : job[w] = i => pc[w] \in Early)
                          => store[i].status \in StoppedRow)
      BY <3>1 DEF StopInv
    <3> QED BY <2>1, <3>1, <3>2, ClientHeeds
  <2> QED BY <2>2, <2>3
<1> QED BY <1>1, <1>2 DEF StopInv

\* What a client's step has to show: it forgets no intent, a run it asks to end is cancelled
\* in the same step, and a stop it answers is heeded.
LEMMA ClientKept ==
  ASSUME IInv, PInv, NEW c \in Clients, pc[c] # "idle", Alone(c), pending' = pending,
         Calling(c)', ~Unsaved(c)',
         Submits(c)' => Submits(c) /\ job'[c] = job[c],
         pc[c] = "load" /\ store[job[c]] = NoRow =>
            job'[c] = NoId /\ store'[job[c]] = NoRow /\ promise'[job[c]] = promise[job[c]],
         promise'[job[c]] # "interrupted",
         \A w \in Workers : pc[w] \in Midway /\ ~hit'[w] =>
            /\ ~hit[w]
            /\ job[w] = job[c] => /\ intents'[job[c]] = intents[job[c]]
                                 /\ deleting'[job[c]] = deleting[job[c]],
         intents[job[c]] # "none" => intents'[job[c]] # "none",
         NEW k, k = job[c],
         StopInv /\ Stopper(c)' => job'[c] = k /\ Heeded(k)',
         StopInv /\ promise'[k] = "stopped" =>
            /\ Heeded(k)'
            /\ (\A w \in Workers : job[w] = job[c] => pc[w] \in Early)
                 => store'[job[c]].status \in StoppedRow
  PROVE  Kept
<1>1. PInv'
  BY ClientEntries, ClientUnused, ClientMenu, ClientInterrupt DEF PInv
<1>2. StopInv => StopInv'
  BY ClientStop
<1> QED BY <1>1, <1>2 DEF Kept

\* Each step of a call, in its order, against what ClientKept asks of it.
LEMMA LoadKept == ASSUME IInv, PInv, NEW c \in Clients, Load(c) PROVE Kept
<1> USE DEF Load, Return, Rest, Goto, Hold, Put, maps, worker, bounds, IInv, TypeOK,
            TableTypes, MapTypes, LocalTypes, WorkerTypes, BoundTypes
<1>0. pc[c] # "idle" /\ Calling(c) /\ \A i \in Ids : restarting[i] = NoTicket
  BY DEF PInv, MenuInv
<1>1. PICK k \in Ids : k = job[c] /\ c \in Actors /\ c \notin Workers
         /\ phase \notin {"draining", "down"} /\ promise[k] # "interrupted"
         /\ k # NoId
         /\ \A w \in Workers : w \in Actors /\ w # c
  BY <1>0, AtCall
<1>2. op[c].kind \in {"submit", "pause", "cancel", "delete"}
  BY <1>0 DEF Calling
<1>5. Alone(c)
  BY <1>0, <1>1, <1>2 DEF Alone, Actors
<1>6. pending' = pending
  BY <1>1
<1>7. Submits(c)' => Submits(c) /\ job'[c] = job[c]
  BY <1>0, <1>1, <1>2 DEF Submits, Calling
<1>8. ~Unsaved(c)'
  BY <1>0, <1>1, <1>2 DEF Unsaved, Calling
<1>9. Calling(c)'
  BY <1>0, <1>1, <1>2 DEF Calling, Stopping, NoOp, NoRow, Row
<1>10. pc[c] = "load" /\ store[job[c]] = NoRow =>
            job'[c] = NoId /\ store'[job[c]] = NoRow /\ promise'[job[c]] = promise[job[c]]
  BY <1>1, <1>2
<1>11. intents[k] # "none" => intents'[k] # "none"
  BY <1>1
<1>12. \A w \in Workers : pc[w] \in Midway /\ ~hit'[w] =>
            /\ ~hit[w]
            /\ job[w] = job[c] => /\ intents'[job[c]] = intents[job[c]]
                                 /\ deleting'[job[c]] = deleting[job[c]]
  BY <1>1 DEF RegistryInv, Midway, Running
<1>13. StopInv /\ Heeded(k) => Heeded(k)'
  BY <1>1, <1>5, <1>6, <1>7, <1>10, <1>11, ClientHeeds
<1>14. StopInv /\ Stopper(c)' => job'[c] = k /\ Heeded(k)'
  BY <1>0, <1>1, <1>2, <1>13 DEF Stopper, StopInv, Calling
<1>15. StopInv /\ promise'[k] = "stopped" =>
            /\ Heeded(k)'
            /\ (\A w \in Workers : job[w] = job[c] => pc[w] \in Early)
                 => store'[job[c]].status \in StoppedRow
  BY <1>0, <1>1, <1>2, <1>13
     DEF Stopper, StopInv, StoppedRow, Stopping, Calling, NoRow, PInv, UnusedInv, Unsaved,
         RegistryInv, Running, Early
<1>16. promise'[k] # "interrupted"
  BY <1>1
<1> QED BY <1>0, <1>1, <1>5, <1>6, <1>7, <1>8, <1>9, <1>10, <1>11, <1>12, <1>14, <1>15, <1>16,
           ClientKept

LEMMA StopMarkKept == ASSUME IInv, PInv, NEW c \in Clients, StopMark(c) PROVE Kept
<1> USE DEF StopMark, Return, Rest, Abort, Target, Goto, Hold, Put, maps, worker, bounds,
            IInv, TypeOK, TableTypes, MapTypes, LocalTypes, WorkerTypes, BoundTypes
<1>0. pc[c] # "idle" /\ Calling(c) /\ \A i \in Ids : restarting[i] = NoTicket
  BY DEF PInv, MenuInv
<1>1. PICK k \in Ids : k = job[c] /\ c \in Actors /\ c \notin Workers
         /\ phase \notin {"draining", "down"} /\ promise[k] # "interrupted"
         /\ k # NoId
         /\ \A w \in Workers : w \in Actors /\ w # c
  BY <1>0, AtCall
<1>2. op[c].kind \in {"submit", "pause", "cancel", "delete"}
  BY <1>0 DEF Calling
<1>5. Alone(c)
  BY <1>0, <1>1, <1>2 DEF Alone, Actors
<1>6. pending' = pending
  BY <1>1
<1>7. Submits(c)' => Submits(c) /\ job'[c] = job[c]
  BY <1>0, <1>1, <1>2 DEF Submits, Calling
<1>8. ~Unsaved(c)'
  BY <1>0, <1>1, <1>2 DEF Unsaved, Calling
<1>9. Calling(c)'
  BY <1>0, <1>1, <1>2 DEF Calling, Stopping, NoOp, NoRow, Row
<1>10. pc[c] = "load" /\ store[job[c]] = NoRow =>
            job'[c] = NoId /\ store'[job[c]] = NoRow /\ promise'[job[c]] = promise[job[c]]
  BY <1>1, <1>2
<1>11. intents[k] # "none" => intents'[k] # "none"
  BY <1>1
<1>12. \A w \in Workers : pc[w] \in Midway /\ ~hit'[w] =>
            /\ ~hit[w]
            /\ job[w] = job[c] => /\ intents'[job[c]] = intents[job[c]]
                                 /\ deleting'[job[c]] = deleting[job[c]]
  <2>1. ASSUME NEW w \in Workers, pc[w] \in Midway, ~hit'[w]
        PROVE  /\ ~hit[w]
               /\ job[w] = job[c] => /\ intents'[job[c]] = intents[job[c]]
                                    /\ deleting'[job[c]] = deleting[job[c]]
    <3>1. cancels[job[w]] = w
      BY <2>1 DEF RegistryInv, Midway, Running
    <3>2. w # NoWorker
      BY NotAWorker
    <3>3. CASE cancels[k] # NoWorker
      <4>1. hit' = [hit EXCEPT ![cancels[k]] = TRUE]
        BY <1>1, <3>3
      <4> QED BY <1>1, <2>1, <3>1, <4>1
    <3>4. CASE cancels[k] = NoWorker
      <4>1. job[w] # k /\ hit' = hit
        BY <1>1, <3>1, <3>2, <3>4
      <4> QED BY <1>1, <2>1, <4>1
    <3> QED BY <3>3, <3>4
  <2> QED BY <2>1
<1>13. Heeded(k)'
  BY <1>1, <1>5, <1>11, MarkHeeds DEF Target
<1>14. StopInv /\ Stopper(c)' => job'[c] = k /\ Heeded(k)'
  BY <1>0, <1>1, <1>2, <1>13 DEF Stopper, StopInv, Calling
<1>15. StopInv /\ promise'[k] = "stopped" =>
            /\ Heeded(k)'
            /\ (\A w \in Workers : job[w] = job[c] => pc[w] \in Early)
                 => store'[job[c]].status \in StoppedRow
  <2>1. CASE cancels[k] # NoWorker
    <3>1. PICK v \in Workers : pc[v] \in Running /\ job[v] = k
      BY <1>1, <2>1 DEF RegistryInv
    <3>2. pc[v] \notin Early
      BY <3>1 DEF Running, Early
    <3> QED BY <1>1, <1>13, <3>1, <3>2
  <2>2. CASE cancels[k] = NoWorker
    <3>1. promise' = promise /\ store' = store
      BY <1>1, <2>2
    <3> QED BY <1>1, <1>13, <3>1 DEF StopInv
  <2> QED BY <2>1, <2>2
<1>16. promise'[k] # "interrupted"
  BY <1>1
<1> QED BY <1>0, <1>1, <1>5, <1>6, <1>7, <1>8, <1>9, <1>10, <1>11, <1>12, <1>14, <1>15, <1>16,
           ClientKept

LEMMA IdleMarkKept == ASSUME IInv, PInv, NEW c \in Clients, IdleMark(c) PROVE Kept
<1> USE DEF IdleMark, Goto, Hold, Put, maps, worker, bounds, IInv, TypeOK, TableTypes,
            MapTypes, LocalTypes, WorkerTypes, BoundTypes
<1>0. pc[c] # "idle" /\ Calling(c) /\ \A i \in Ids : restarting[i] = NoTicket
  BY DEF PInv, MenuInv
<1>1. PICK k \in Ids : k = job[c] /\ c \in Actors /\ c \notin Workers
         /\ phase \notin {"draining", "down"} /\ promise[k] # "interrupted"
         /\ k # NoId
         /\ \A w \in Workers : w \in Actors /\ w # c
  BY <1>0, AtCall
<1>2. op[c].kind \in {"submit", "pause", "cancel", "delete"}
  BY <1>0 DEF Calling
<1>5. Alone(c)
  BY <1>0, <1>1, <1>2 DEF Alone, Actors
<1>6. pending' = pending
  BY <1>1
<1>7. Submits(c)' => Submits(c) /\ job'[c] = job[c]
  BY <1>0, <1>1, <1>2 DEF Submits, Calling
<1>8. ~Unsaved(c)'
  BY <1>0, <1>1, <1>2 DEF Unsaved, Calling
<1>9. Calling(c)'
  BY <1>0, <1>1, <1>2 DEF Calling, Stopping, NoOp, NoRow, Row
<1>10. pc[c] = "load" /\ store[job[c]] = NoRow =>
            job'[c] = NoId /\ store'[job[c]] = NoRow /\ promise'[job[c]] = promise[job[c]]
  BY <1>1, <1>2
<1>11. intents[k] # "none" => intents'[k] # "none"
  BY <1>1
<1>12. \A w \in Workers : pc[w] \in Midway /\ ~hit'[w] =>
            /\ ~hit[w]
            /\ job[w] = job[c] => /\ intents'[job[c]] = intents[job[c]]
                                 /\ deleting'[job[c]] = deleting[job[c]]
  BY <1>1 DEF RegistryInv, Midway, Running
<1>13. StopInv /\ Heeded(k) => Heeded(k)'
  BY <1>1, <1>5, <1>6, <1>7, <1>10, <1>11, ClientHeeds
<1>14. StopInv /\ Stopper(c)' => job'[c] = k /\ Heeded(k)'
  BY <1>0, <1>1, <1>2, <1>13 DEF Stopper, StopInv, Calling
<1>15. StopInv /\ promise'[k] = "stopped" =>
            /\ Heeded(k)'
            /\ (\A w \in Workers : job[w] = job[c] => pc[w] \in Early)
                 => store'[job[c]].status \in StoppedRow
  BY <1>0, <1>1, <1>2, <1>13
     DEF Stopper, StopInv, StoppedRow, Stopping, Calling, NoRow, PInv, UnusedInv, Unsaved,
         RegistryInv, Running, Early
<1>16. promise'[k] # "interrupted"
  BY <1>1
<1> QED BY <1>0, <1>1, <1>5, <1>6, <1>7, <1>8, <1>9, <1>10, <1>11, <1>12, <1>14, <1>15, <1>16,
           ClientKept

LEMMA HandOverKept == ASSUME IInv, PInv, NEW c \in Clients, HandOver(c) PROVE Kept
<1> USE DEF HandOver, Abort, Goto, Hold, Put, maps, worker, bounds, IInv, TypeOK, TableTypes,
            MapTypes, LocalTypes, WorkerTypes, BoundTypes
<1>0. pc[c] # "idle" /\ Calling(c) /\ \A i \in Ids : restarting[i] = NoTicket
  BY DEF PInv, MenuInv
<1>1. PICK k \in Ids : k = job[c] /\ c \in Actors /\ c \notin Workers
         /\ phase \notin {"draining", "down"} /\ promise[k] # "interrupted"
         /\ k # NoId
         /\ \A w \in Workers : w \in Actors /\ w # c
  BY <1>0, AtCall
<1>2. op[c].kind \in {"submit", "pause", "cancel", "delete"}
  BY <1>0 DEF Calling
<1>5. Alone(c)
  BY <1>0, <1>1, <1>2 DEF Alone, Actors
<1>6. pending' = pending
  BY <1>1
<1>7. Submits(c)' => Submits(c) /\ job'[c] = job[c]
  BY <1>0, <1>1, <1>2 DEF Submits, Calling
<1>8. ~Unsaved(c)'
  BY <1>0, <1>1, <1>2 DEF Unsaved, Calling
<1>9. Calling(c)'
  BY <1>0, <1>1, <1>2 DEF Calling, Stopping, NoOp, NoRow, Row
<1>10. pc[c] = "load" /\ store[job[c]] = NoRow =>
            job'[c] = NoId /\ store'[job[c]] = NoRow /\ promise'[job[c]] = promise[job[c]]
  BY <1>1, <1>2
<1>11. intents[k] # "none" => intents'[k] # "none"
  BY <1>1
<1>12. \A w \in Workers : pc[w] \in Midway /\ ~hit'[w] =>
            /\ ~hit[w]
            /\ job[w] = job[c] => /\ intents'[job[c]] = intents[job[c]]
                                 /\ deleting'[job[c]] = deleting[job[c]]
  BY <1>1 DEF RegistryInv, Midway, Running
<1>13. StopInv /\ Heeded(k) => Heeded(k)'
  BY <1>1, <1>5, <1>6, <1>7, <1>10, <1>11, ClientHeeds
<1>14. StopInv /\ Stopper(c)' => job'[c] = k /\ Heeded(k)'
  BY <1>0, <1>1, <1>2, <1>13 DEF Stopper, StopInv, Calling
<1>15. StopInv /\ promise'[k] = "stopped" =>
            /\ Heeded(k)'
            /\ (\A w \in Workers : job[w] = job[c] => pc[w] \in Early)
                 => store'[job[c]].status \in StoppedRow
  BY <1>0, <1>1, <1>2, <1>13
     DEF Stopper, StopInv, StoppedRow, Stopping, Calling, NoRow, PInv, UnusedInv, Unsaved,
         RegistryInv, Running, Early
<1>16. promise'[k] # "interrupted"
  BY <1>1
<1> QED BY <1>0, <1>1, <1>5, <1>6, <1>7, <1>8, <1>9, <1>10, <1>11, <1>12, <1>14, <1>15, <1>16,
           ClientKept

LEMMA ReleasedKept == ASSUME IInv, PInv, NEW c \in Clients, Released(c) PROVE Kept
<1> USE DEF Released, Return, Rest, Goto, Hold, Put, maps, worker, bounds, IInv, TypeOK,
            TableTypes, MapTypes, LocalTypes, WorkerTypes, BoundTypes
<1>0. pc[c] # "idle" /\ Calling(c) /\ \A i \in Ids : restarting[i] = NoTicket
  BY DEF PInv, MenuInv
<1>1. PICK k \in Ids : k = job[c] /\ c \in Actors /\ c \notin Workers
         /\ phase \notin {"draining", "down"} /\ promise[k] # "interrupted"
         /\ k # NoId
         /\ \A w \in Workers : w \in Actors /\ w # c
  BY <1>0, AtCall
<1>2. op[c].kind \in {"submit", "pause", "cancel", "delete"}
  BY <1>0 DEF Calling
<1>5. Alone(c)
  BY <1>0, <1>1, <1>2 DEF Alone, Actors
<1>6. pending' = pending
  BY <1>1
<1>7. Submits(c)' => Submits(c) /\ job'[c] = job[c]
  BY <1>0, <1>1, <1>2 DEF Submits, Calling
<1>8. ~Unsaved(c)'
  BY <1>0, <1>1, <1>2 DEF Unsaved, Calling
<1>9. Calling(c)'
  BY <1>0, <1>1, <1>2 DEF Calling, Stopping, NoOp, NoRow, Row
<1>10. pc[c] = "load" /\ store[job[c]] = NoRow =>
            job'[c] = NoId /\ store'[job[c]] = NoRow /\ promise'[job[c]] = promise[job[c]]
  BY <1>1, <1>2
<1>11. intents[k] # "none" => intents'[k] # "none"
  BY <1>1
<1>12. \A w \in Workers : pc[w] \in Midway /\ ~hit'[w] =>
            /\ ~hit[w]
            /\ job[w] = job[c] => /\ intents'[job[c]] = intents[job[c]]
                                 /\ deleting'[job[c]] = deleting[job[c]]
  BY <1>1 DEF RegistryInv, Midway, Running
<1>13. StopInv /\ Heeded(k) => Heeded(k)'
  BY <1>1, <1>5, <1>6, <1>7, <1>10, <1>11, ClientHeeds
<1>14. StopInv /\ Stopper(c)' => job'[c] = k /\ Heeded(k)'
  BY <1>0, <1>1, <1>2, <1>13 DEF Stopper, StopInv, Calling
<1>15. StopInv /\ promise'[k] = "stopped" =>
            /\ Heeded(k)'
            /\ (\A w \in Workers : job[w] = job[c] => pc[w] \in Early)
                 => store'[job[c]].status \in StoppedRow
  BY <1>0, <1>1, <1>2, <1>13
     DEF Stopper, StopInv, StoppedRow, Stopping, Calling, NoRow, PInv, UnusedInv, Unsaved,
         RegistryInv, Running, Early
<1>16. promise'[k] # "interrupted"
  BY <1>1
<1> QED BY <1>0, <1>1, <1>5, <1>6, <1>7, <1>8, <1>9, <1>10, <1>11, <1>12, <1>14, <1>15, <1>16,
           ClientKept

LEMMA SaveKept == ASSUME IInv, PInv, NEW c \in Clients, Save(c) PROVE Kept
<1> USE DEF Save, Return, Rest, Goto, Hold, Put, maps, worker, bounds, IInv, TypeOK,
            TableTypes, MapTypes, LocalTypes, WorkerTypes, BoundTypes
<1>0. pc[c] # "idle" /\ Calling(c) /\ \A i \in Ids : restarting[i] = NoTicket
  BY DEF PInv, MenuInv
<1>1. PICK k \in Ids : k = job[c] /\ c \in Actors /\ c \notin Workers
         /\ phase \notin {"draining", "down"} /\ promise[k] # "interrupted"
         /\ k # NoId
         /\ \A w \in Workers : w \in Actors /\ w # c
  BY <1>0, AtCall
<1>2. op[c].kind \in {"submit", "pause", "cancel", "delete"}
  BY <1>0 DEF Calling
<1>5. Alone(c)
  BY <1>0, <1>1, <1>2 DEF Alone, Actors
<1>6. pending' = pending
  BY <1>1
<1>7. Submits(c)' => Submits(c) /\ job'[c] = job[c]
  BY <1>0, <1>1, <1>2 DEF Submits, Calling
<1>8. ~Unsaved(c)'
  BY <1>0, <1>1, <1>2 DEF Unsaved, Calling
<1>9. Calling(c)'
  BY <1>0, <1>1, <1>2 DEF Calling, Stopping, NoOp, NoRow, Row
<1>10. pc[c] = "load" /\ store[job[c]] = NoRow =>
            job'[c] = NoId /\ store'[job[c]] = NoRow /\ promise'[job[c]] = promise[job[c]]
  BY <1>1, <1>2
<1>11. intents[k] # "none" => intents'[k] # "none"
  BY <1>1
<1>12. \A w \in Workers : pc[w] \in Midway /\ ~hit'[w] =>
            /\ ~hit[w]
            /\ job[w] = job[c] => /\ intents'[job[c]] = intents[job[c]]
                                 /\ deleting'[job[c]] = deleting[job[c]]
  BY <1>1 DEF RegistryInv, Midway, Running
<1>13. StopInv /\ Heeded(k) => Heeded(k)'
  BY <1>1, <1>5, <1>6, <1>7, <1>10, <1>11, ClientHeeds
<1>14. StopInv /\ Stopper(c)' => job'[c] = k /\ Heeded(k)'
  BY <1>0, <1>1, <1>2, <1>13 DEF Stopper, StopInv, Calling
<1>15. StopInv /\ promise'[k] = "stopped" =>
            /\ Heeded(k)'
            /\ (\A w \in Workers : job[w] = job[c] => pc[w] \in Early)
                 => store'[job[c]].status \in StoppedRow
  BY <1>0, <1>1, <1>2, <1>13
     DEF Stopper, StopInv, StoppedRow, Stopping, Calling, NoRow, PInv, UnusedInv, Unsaved,
         RegistryInv, Running, Early
<1>16. promise'[k] # "interrupted"
  BY <1>1
<1> QED BY <1>0, <1>1, <1>5, <1>6, <1>7, <1>8, <1>9, <1>10, <1>11, <1>12, <1>14, <1>15, <1>16,
           ClientKept

LEMMA RemoveIdleKept == ASSUME IInv, PInv, NEW c \in Clients, RemoveIdle(c) PROVE Kept
<1> USE DEF RemoveIdle, Return, Rest, Goto, Hold, Put, maps, worker, bounds, IInv, TypeOK,
            TableTypes, MapTypes, LocalTypes, WorkerTypes, BoundTypes
<1>0. pc[c] # "idle" /\ Calling(c) /\ \A i \in Ids : restarting[i] = NoTicket
  BY DEF PInv, MenuInv
<1>1. PICK k \in Ids : k = job[c] /\ c \in Actors /\ c \notin Workers
         /\ phase \notin {"draining", "down"} /\ promise[k] # "interrupted"
         /\ k # NoId
         /\ \A w \in Workers : w \in Actors /\ w # c
  BY <1>0, AtCall
<1>2. op[c].kind \in {"submit", "pause", "cancel", "delete"}
  BY <1>0 DEF Calling
<1>5. Alone(c)
  BY <1>0, <1>1, <1>2 DEF Alone, Actors
<1>6. pending' = pending
  BY <1>1
<1>7. Submits(c)' => Submits(c) /\ job'[c] = job[c]
  BY <1>0, <1>1, <1>2 DEF Submits, Calling
<1>8. ~Unsaved(c)'
  BY <1>0, <1>1, <1>2 DEF Unsaved, Calling
<1>9. Calling(c)'
  BY <1>0, <1>1, <1>2 DEF Calling, Stopping, NoOp, NoRow, Row
<1>10. pc[c] = "load" /\ store[job[c]] = NoRow =>
            job'[c] = NoId /\ store'[job[c]] = NoRow /\ promise'[job[c]] = promise[job[c]]
  BY <1>1, <1>2
<1>11. intents[k] # "none" => intents'[k] # "none"
  BY <1>1
<1>12. \A w \in Workers : pc[w] \in Midway /\ ~hit'[w] =>
            /\ ~hit[w]
            /\ job[w] = job[c] => /\ intents'[job[c]] = intents[job[c]]
                                 /\ deleting'[job[c]] = deleting[job[c]]
  BY <1>1 DEF RegistryInv, Midway, Running
<1>13. StopInv /\ Heeded(k) => Heeded(k)'
  BY <1>1, <1>5, <1>6, <1>7, <1>10, <1>11, ClientHeeds
<1>14. StopInv /\ Stopper(c)' => job'[c] = k /\ Heeded(k)'
  BY <1>0, <1>1, <1>2, <1>13 DEF Stopper, StopInv, Calling
<1>15. StopInv /\ promise'[k] = "stopped" =>
            /\ Heeded(k)'
            /\ (\A w \in Workers : job[w] = job[c] => pc[w] \in Early)
                 => store'[job[c]].status \in StoppedRow
  BY <1>0, <1>1, <1>2, <1>13
     DEF Stopper, StopInv, StoppedRow, Stopping, Calling, NoRow, PInv, UnusedInv, Unsaved,
         RegistryInv, Running, Early
<1>16. promise'[k] # "interrupted"
  BY <1>1
<1> QED BY <1>0, <1>1, <1>5, <1>6, <1>7, <1>8, <1>9, <1>10, <1>11, <1>12, <1>14, <1>15, <1>16,
           ClientKept

LEMMA CallAbortsKept == ASSUME IInv, PInv, NEW c \in Clients, CallAborts(c) PROVE Kept
<1> USE DEF CallAborts, Return, Rest, Goto, Hold, Put, maps, worker, bounds, IInv, TypeOK,
            TableTypes, MapTypes, LocalTypes, WorkerTypes, BoundTypes
<1>0. pc[c] # "idle" /\ Calling(c) /\ \A i \in Ids : restarting[i] = NoTicket
  BY DEF PInv, MenuInv
<1>1. PICK k \in Ids : k = job[c] /\ c \in Actors /\ c \notin Workers
         /\ phase \notin {"draining", "down"} /\ promise[k] # "interrupted"
         /\ k # NoId
         /\ \A w \in Workers : w \in Actors /\ w # c
  BY <1>0, AtCall
<1>2. op[c].kind \in {"submit", "pause", "cancel", "delete"}
  BY <1>0 DEF Calling
<1>5. Alone(c)
  BY <1>0, <1>1, <1>2 DEF Alone, Actors
<1>6. pending' = pending
  BY <1>1
<1>7. Submits(c)' => Submits(c) /\ job'[c] = job[c]
  BY <1>0, <1>1, <1>2 DEF Submits, Calling
<1>8. ~Unsaved(c)'
  BY <1>0, <1>1, <1>2 DEF Unsaved, Calling
<1>9. Calling(c)'
  BY <1>0, <1>1, <1>2 DEF Calling, Stopping, NoOp, NoRow, Row
<1>10. pc[c] = "load" /\ store[job[c]] = NoRow =>
            job'[c] = NoId /\ store'[job[c]] = NoRow /\ promise'[job[c]] = promise[job[c]]
  BY <1>1, <1>2
<1>11. intents[k] # "none" => intents'[k] # "none"
  BY <1>1
<1>12. \A w \in Workers : pc[w] \in Midway /\ ~hit'[w] =>
            /\ ~hit[w]
            /\ job[w] = job[c] => /\ intents'[job[c]] = intents[job[c]]
                                 /\ deleting'[job[c]] = deleting[job[c]]
  BY <1>1 DEF RegistryInv, Midway, Running
<1>13. StopInv /\ Heeded(k) => Heeded(k)'
  BY <1>1, <1>5, <1>6, <1>7, <1>10, <1>11, ClientHeeds
<1>14. StopInv /\ Stopper(c)' => job'[c] = k /\ Heeded(k)'
  BY <1>0, <1>1, <1>2, <1>13 DEF Stopper, StopInv, Calling
<1>15. StopInv /\ promise'[k] = "stopped" =>
            /\ Heeded(k)'
            /\ (\A w \in Workers : job[w] = job[c] => pc[w] \in Early)
                 => store'[job[c]].status \in StoppedRow
  BY <1>0, <1>1, <1>2, <1>13
     DEF Stopper, StopInv, StoppedRow, Stopping, Calling, NoRow, PInv, UnusedInv, Unsaved,
         RegistryInv, Running, Early
<1>16. promise'[k] # "interrupted"
  BY <1>1
<1> QED BY <1>0, <1>1, <1>5, <1>6, <1>7, <1>8, <1>9, <1>10, <1>11, <1>12, <1>14, <1>15, <1>16,
           ClientKept

-----------------------------------------------------------------------------
(* The steps that touch the pending set, and the issue of an identifier.      *)

LEMMA LeaveKept == ASSUME IInv, PInv, NEW w \in Workers, Leave(w) PROVE Kept
<1> USE DEF Leave, Goto, maps, worker, bounds, IInv, TypeOK, LocalTypes
<1>1. w \in Actors /\ w \notin Clients
  BY NotAWorker DEF Actors
<1>2. AtWork(w) /\ \A i \in Ids : restarting[i] = NoTicket
  BY DEF PInv, MenuInv
<1>3. job[w] = NoId /\ job[w] \notin Ids
  BY <1>1, <1>2, Jobs DEF AtWork, Resting
<1>4. Alone(w)
  BY <1>1, <1>2 DEF Alone, Actors
<1>5. AtWork(w)' /\ pc'[w] = "exit" /\ job'[w] = NoId
  BY <1>1, <1>2, <1>3 DEF AtWork, Resting, Closed
<1>6. pending' = pending /\ hit' = hit /\ pc'[w] \notin Midway
  BY <1>5 DEF Midway
<1> QED BY <1>1, <1>3, <1>4, <1>5, <1>6, WorkerKept

\* The entries that stay when one is taken are the others, each once.
LEMMA Removed ==
  ASSUME NEW S, NEW s \in Seq(S), NEW n \in DOMAIN s
  PROVE  /\ \A m \in DOMAIN RemoveAt(s, n) :
              m \in Nat /\ IF m < n THEN m \in DOMAIN s ELSE m + 1 \in DOMAIN s
         /\ \A m \in DOMAIN RemoveAt(s, n) : RemoveAt(s, n)[m] = s[IF m < n THEN m ELSE m + 1]
<1>1. /\ Len(s) \in Nat /\ DOMAIN s = 1 .. Len(s) /\ n \in 1 .. Len(s)
      /\ \A m \in 1 .. Len(s) : s[m] \in S
  BY LenProperties, ElementOfSeq
<1> DEFINE a == SubSeq(s, 1, n - 1)
           b == SubSeq(s, n + 1, Len(s))
<1>2. a \in Seq(S) /\ Len(a) = n - 1 /\ \A m \in 1 .. n - 1 : a[m] = s[m]
  BY <1>1, SubSeqProperties
<1>3. b \in Seq(S) /\ Len(b) = Len(s) - n /\ \A m \in 1 .. Len(s) - n : b[m] = s[n + m]
  BY <1>1, SubSeqProperties
<1> HIDE DEF a, b
<1>4. /\ Len(a \o b) = Len(s) - 1 /\ a \o b \in Seq(S)
      /\ \A m \in 1 .. Len(s) - 1 : (a \o b)[m] = IF m <= n - 1 THEN a[m] ELSE b[m - (n - 1)]
  <2>1. /\ a \o b \in Seq(S) /\ Len(a \o b) = Len(a) + Len(b)
        /\ \A m \in 1 .. Len(a) + Len(b) : (a \o b)[m] = IF m <= Len(a) THEN a[m] ELSE b[m - Len(a)]
    BY <1>2, <1>3, ConcatProperties
  <2>2. Len(a) + Len(b) = Len(s) - 1
    BY <1>1, <1>2, <1>3
  <2> QED BY <1>2, <2>1, <2>2
<1>5. DOMAIN (a \o b) = 1 .. Len(s) - 1
  BY <1>4, LenProperties
<1>6. RemoveAt(s, n) = a \o b
  BY DEF RemoveAt, a, b
<1>7. ASSUME NEW m \in 1 .. Len(s) - 1
      PROVE  (a \o b)[m] = s[IF m < n THEN m ELSE m + 1]
  <2>1. CASE m < n
    BY <1>1, <1>2, <1>4, <2>1
  <2>2. CASE ~(m < n)
    <3>1. m - (n - 1) \in 1 .. Len(s) - n /\ n + (m - (n - 1)) = m + 1
      BY <1>1, <2>2
    <3>2. (a \o b)[m] = b[m - (n - 1)]
      BY <1>1, <1>4, <2>2
    <3>3. b[m - (n - 1)] = s[n + (m - (n - 1))]
      BY <1>3, <3>1
    <3> QED BY <2>2, <3>1, <3>2, <3>3
  <2> QED BY <2>1, <2>2
<1>8. ASSUME NEW m \in 1 .. Len(s) - 1
      PROVE  m \in Nat /\ IF m < n THEN m \in DOMAIN s ELSE m + 1 \in DOMAIN s
  BY <1>1
<1> QED BY <1>5, <1>6, <1>7, <1>8

LEMMA PopKept == ASSUME IInv, PInv, NEW w \in Workers, Pop(w) PROVE Kept
<1> USE DEF Goto, maps, worker, bounds
<1>1. /\ w \in Actors /\ w \notin Clients
      /\ (\A v \in Workers : v \in Actors) /\ (\A c \in Clients : c \in Actors)
  BY NotAWorker DEF Actors
<1>2. PICK n \in DOMAIN pending :
          job' = [job EXCEPT ![w] = pending[n].id] /\ pending' = RemoveAt(pending, n)
  BY DEF Pop
<1>3. PICK i \in Ids : i = pending[n].id
  <2>1. pending[n] \in [id : Ids, prio : Prios]
    BY <1>2, LenProperties, ElementOfSeq DEF IInv, TypeOK, TableTypes
  <2> QED BY <2>1
<1>4. /\ UNCHANGED <<store, created, phase, intents, cancels, deleting, restarting, row, op,
                     goal, hit, outcome, promise>>
      /\ pc[w] = "idle" /\ pc'[w] = "load" /\ job'[w] = i
      /\ \A a \in Actors \ {w} : pc'[a] = pc[a] /\ job'[a] = job[a]
  BY <1>1, <1>2, <1>3 DEF Pop, IInv, TypeOK, LocalTypes
<1>5. \A m \in DOMAIN pending' :
         \E k \in DOMAIN pending \ {n} : pending'[m] = pending[k] /\ k = IF m < n THEN m ELSE m + 1
  <2>1. pending \in Seq([id : Ids, prio : Prios])
    BY DEF IInv, TypeOK, TableTypes
  <2>2. n \in Nat
    BY <1>2, <2>1, LenProperties
  <2> QED BY <1>2, <2>1, <2>2, Removed
<1>6. \A m, l \in DOMAIN pending' : m # l => pending'[m].id # pending'[l].id
  <2>1. \A m \in DOMAIN pending' : m \in Nat
    BY <1>2, Removed DEF IInv, TypeOK, TableTypes
  <2>2. n \in Nat
    BY <1>2, LenProperties DEF IInv, TypeOK, TableTypes
  <2> QED BY <1>5, <2>1, <2>2 DEF PInv, EntryInv
<1>7. \A j : Entered(j)' => Entered(j) /\ j # i
  BY <1>2, <1>3, <1>5 DEF Entered, PInv, EntryInv
<1>8. Entered(i) /\ job[w] = NoId /\ phase \notin {"draining", "down"}
  <2>1. AtWork(w) /\ (phase = "down" => pc[w] = "exit")
    BY DEF PInv, MenuInv
  <2> QED BY <1>2, <1>3, <1>4, <2>1 DEF Entered, AtWork, Resting, Pop, Closed
<1>9. i # NoId /\ \A v \in Workers : job[v] # i
  BY <1>8, Jobs, <1>1 DEF PInv, EntryInv
<1>10. MenuInv'
  <2>1. \A c \in Clients : Calling(c)'
    BY <1>1, <1>4 DEF PInv, MenuInv, Calling
  <2>2. \A v \in Workers \ {w} : AtWork(v)'
    BY <1>1, <1>4 DEF PInv, MenuInv, AtWork
  <2>3. AtWork(w)'
    BY <1>1, <1>4, <1>8 DEF PInv, MenuInv, AtWork, Resting
  <2> QED BY <1>1, <1>4, <1>8, <2>1, <2>2, <2>3 DEF PInv, MenuInv
<1>11. \A c \in Clients : /\ Submits(c)' = Submits(c) /\ Unsaved(c)' = Unsaved(c)
                         /\ job'[c] = job[c] /\ pc'[c] = pc[c]
  BY <1>1, <1>4 DEF Submits, Unsaved
<1>12. EntryInv'
  <2>1. ASSUME NEW v \in Workers, job'[v] # NoId
        PROVE  /\ ~Entered(job[v])'
               /\ \A u \in Workers : u # v => job'[u] # job'[v]
    <3>1. CASE v = w
      BY <1>1, <1>4, <1>7, <1>9, <3>1
    <3>2. CASE v # w
      <4>1. job'[v] = job[v] /\ ~Entered(job[v]) /\ \A u \in Workers : u # v => job[u] # job[v]
        BY <1>1, <1>4, <2>1, <3>2 DEF PInv, EntryInv
      <4>2. \A j : j = job[v] => ~Entered(j)'
        BY <1>7, <4>1
      <4> QED BY <1>1, <1>4, <1>9, <3>2, <4>1, <4>2
    <3> QED BY <3>1, <3>2
  <2>2. ASSUME NEW c \in Clients, Submits(c)'
        PROVE  /\ ~Entered(job[c])'
               /\ \A v \in Workers : job'[v] # job'[c]
               /\ \A d \in Clients : d # c /\ Submits(d)' => job'[d] # job'[c]
    <3>1. /\ job'[c] = job[c] /\ ~Entered(job[c]) /\ (\A v \in Workers : job[v] # job[c])
          /\ \A d \in Clients : d # c /\ Submits(d) => job[d] # job[c]
      BY <1>11, <2>2 DEF PInv, EntryInv
    <3>2. \A j : j = job[c] => ~Entered(j)'
      BY <1>7, <3>1
    <3>3. \A v \in Workers : job'[v] # job[c]
      <4>1. job'[w] # job[c]
        BY <1>4, <1>8, <3>1
      <4> QED BY <1>1, <1>4, <3>1, <4>1
    <3> QED BY <1>11, <3>1, <3>2, <3>3
  <2> QED BY <1>6, <2>1, <2>2 DEF EntryInv
<1>13. UnusedInv'
  <2>1. i <= created
    BY <1>3 DEF PInv, UnusedInv
  <2>2. \A a \in Actors : job'[a] <= created'
    BY <1>4, <2>1 DEF PInv, UnusedInv
  <2>3. \A m \in DOMAIN pending' : pending'[m].id <= created'
    BY <1>4, <1>5 DEF PInv, UnusedInv
  <2> QED BY <1>4, <1>11, <2>2, <2>3 DEF PInv, UnusedInv
<1>14. InterruptInv'
  <2>1. \A v \in Workers : pc'[v] \in Midway /\ ~hit'[v] => Unasked(v)'
    <3>1. pc'[w] \notin Midway
      BY <1>4 DEF Midway
    <3>2. \A v \in Workers \ {w} : Unasked(v)' = Unasked(v)
      BY <1>1, <1>4 DEF Unasked
    <3> QED BY <1>1, <1>4, <3>1, <3>2 DEF PInv, InterruptInv
  <2>2. \A j \in Ids : promise'[j] # "interrupted"
    BY <1>4, <1>8 DEF PInv, InterruptInv
  <2> QED BY <2>1, <2>2 DEF InterruptInv
<1>15. ASSUME NEW j \in Ids, Heeded(j) PROVE Heeded(j)'
  <2>1. \A v \in Workers \ {w} : job'[v] = j => Minds(v)'
    BY <1>1, <1>4, <1>15 DEF Heeded, Minds
  <2>2. job'[w] = j => Minds(w)'
    BY <1>4, <1>8, <1>15 DEF Heeded, Minds
  <2> QED BY <1>4, <1>7, <1>11, <1>15, <2>1, <2>2 DEF Heeded
<1>16. ASSUME StopInv PROVE StopInv'
  <2>1. ASSUME NEW c \in Clients, Stopper(c)' PROVE Heeded(job[c])'
    <3>1. Stopper(c) /\ job'[c] = job[c]
      BY <1>1, <1>4, <2>1 DEF Stopper
    <3>2. job[c] \in Ids
      BY <1>1, <3>1 DEF Stopper, IInv, LocalsInv, Sound, Resting
    <3>3. PICK j \in Ids : j = job[c]
      BY <3>2
    <3>4. Heeded(j)'
      BY <1>15, <1>16, <3>1, <3>3 DEF StopInv
    <3> QED BY <3>1, <3>3, <3>4
  <2>2. ASSUME NEW j \in Ids, promise'[j] = "stopped"
        PROVE  /\ Heeded(j)'
               /\ (\A v \in Workers : job'[v] = j => pc'[v] \in Early)
                    => store'[j].status \in StoppedRow
    <3>1. promise[j] = "stopped" /\ store'[j] = store[j]
      BY <1>4, <2>2
    <3>2. /\ Heeded(j)
          /\ (\A v \in Workers : job[v] = j => pc[v] \in Early) => store[j].status \in StoppedRow
      BY <1>16, <3>1 DEF StopInv
    <3>3. ASSUME \A v \in Workers : job'[v] = j => pc'[v] \in Early
          PROVE  \A v \in Workers : job[v] = j => pc[v] \in Early
      BY <1>1, <1>4, <1>8, <3>3, Jobs DEF Early
    <3> QED BY <1>15, <3>1, <3>2, <3>3
  <2> QED BY <2>1, <2>2 DEF StopInv
<1> QED BY <1>10, <1>12, <1>13, <1>14, <1>16 DEF Kept, PInv

LEMMA EnqueueKept == ASSUME IInv, PInv, NEW c \in Clients, Enqueue(c) PROVE Kept
<1> USE DEF Enqueue, Return, Rest, Goto, Hold, maps, worker, bounds
<1>1. PICK k \in Ids : k = job[c] /\ c \in Actors /\ c \notin Workers
         /\ phase \notin {"draining", "down"} /\ promise[k] # "interrupted"
         /\ k # NoId /\ pc[c] # "idle"
         /\ (\A w \in Workers : w \in Actors /\ w # c) /\ (\A d \in Clients : d \in Actors)
  BY AtCall
<1>2. Submits(c)
  BY DEF PInv, MenuInv, Calling, Submits
<1>3. /\ ~Entered(k) /\ (\A w \in Workers : job[w] # k)
      /\ \A d \in Clients : d # c /\ Submits(d) => job[d] # k
  <2>1. \A j : j = job[c] => ~Entered(j)
    BY <1>2 DEF PInv, EntryInv
  <2> QED BY <1>1, <1>2, <2>1 DEF PInv, EntryInv
<1>4. Alone(c)
  BY <1>1 DEF Alone, Actors, PInv, MenuInv, IInv, TypeOK, LocalTypes
<1>5. pc'[c] = "idle" /\ job'[c] = NoId /\ op'[c] = NoOp
  BY <1>1 DEF IInv, TypeOK, LocalTypes
<1>6. /\ \A m \in DOMAIN pending' :
           \/ m \in DOMAIN pending /\ pending'[m] = pending[m]
           \/ m = Len(pending) + 1 /\ pending'[m].id = k
      /\ Len(pending) + 1 \notin DOMAIN pending
  <2> DEFINE e == [id |-> job[c], prio |-> row[c].prio]
  <2>1. /\ pending \in Seq([id : Ids, prio : Prios])
        /\ Len(pending) \in Nat /\ DOMAIN pending = 1 .. Len(pending)
    BY LenProperties DEF IInv, TypeOK, TableTypes
  <2>2. e \in [id : Ids, prio : Prios] /\ e.id = k
    BY <1>1, RowUpdate DEF IInv, LocalsInv, Sound, Copying, Resting
  <2>3. pending' = Append(pending, e)
    BY <1>1 DEF Queue, Closed
  <2> HIDE DEF e
  <2>4. /\ Len(pending') = Len(pending) + 1 /\ pending' \in Seq([id : Ids, prio : Prios])
        /\ \A m \in 1 .. Len(pending) : pending'[m] = pending[m]
        /\ pending'[Len(pending) + 1] = e
    BY <2>1, <2>2, <2>3, AppendProperties
  <2>5. DOMAIN pending' = 1 .. Len(pending) + 1
    BY <2>4, LenProperties
  <2> QED BY <2>1, <2>2, <2>4, <2>5
<1>7. \A j : Entered(j)' => Entered(j) \/ j = k
  BY <1>6 DEF Entered
<1>8. MenuInv'
  BY <1>1, <1>4, <1>5, ClientMenu DEF Calling, NoOp
<1>9. InterruptInv'
  BY <1>1, <1>4, ClientInterrupt DEF Alone
<1>10. \A d \in Clients : Submits(d)' => Submits(d) /\ d # c /\ job'[d] = job[d]
  BY <1>1, <1>4, <1>5 DEF Alone, Submits
<1>11. EntryInv'
  <2>1. \A m, n \in DOMAIN pending' : m # n => pending'[m].id # pending'[n].id
    BY <1>3, <1>6 DEF PInv, EntryInv, Entered
  <2>2. ASSUME NEW w \in Workers, job'[w] # NoId
        PROVE  ~Entered(job[w])' /\ \A v \in Workers : v # w => job'[v] # job'[w]
    <3>1. job'[w] = job[w] /\ ~Entered(job[w]) /\ job[w] # k
          /\ \A v \in Workers : job'[v] = job[v]
      BY <1>1, <1>3, <1>4, <2>2 DEF PInv, EntryInv, Alone
    <3>2. \A j : j = job[w] => ~Entered(j)'
      BY <1>7, <3>1
    <3> QED BY <2>2, <3>1, <3>2 DEF PInv, EntryInv
  <2>3. ASSUME NEW d \in Clients, Submits(d)'
        PROVE  /\ ~Entered(job[d])'
               /\ \A w \in Workers : job'[w] # job'[d]
               /\ \A e \in Clients : e # d /\ Submits(e)' => job'[e] # job'[d]
    <3>1. Submits(d) /\ d # c /\ job'[d] = job[d] /\ job[d] # k
          /\ (\A w \in Workers : job'[w] = job[w]) /\ ~Entered(job[d])
      BY <1>1, <1>3, <1>4, <1>10, <2>3 DEF PInv, EntryInv, Alone
    <3>2. \A j : j = job[d] => ~Entered(j)'
      BY <1>7, <3>1
    <3> QED BY <1>10, <3>1, <3>2 DEF PInv, EntryInv
  <2> QED BY <2>1, <2>2, <2>3 DEF EntryInv
<1>12. UnusedInv'
  <2>1. created \in Nat /\ created' = created /\ k <= created
    BY <1>1, <1>4, BoundsAssumption DEF IInv, TypeOK, TableTypes, PInv, UnusedInv, Alone
  <2>2. \A a \in Actors : job'[a] <= created'
    BY <1>1, <1>4, <1>5, <2>1 DEF PInv, UnusedInv, Alone, NoId
  <2>3. \A m \in DOMAIN pending' : pending'[m].id <= created'
    BY <1>6, <2>1 DEF PInv, UnusedInv
  <2>4. ASSUME NEW d \in Clients, Unsaved(d)'
        PROVE  /\ store'[job'[d]] = NoRow /\ promise'[job'[d]] # "stopped"
               /\ \A e \in Clients : e # d /\ job'[e] = job'[d] => pc'[e] = "load"
    <3>1. d # c /\ Unsaved(d) /\ job'[d] = job[d]
      BY <1>1, <1>4, <1>5, <2>4 DEF Alone, Unsaved
    <3>2. job[d] # NoId
      BY <1>1, <3>1, Jobs DEF Unsaved, IInv, LocalsInv, Sound, Resting
    <3>3. \A e \in Clients : e # d /\ job'[e] = job[d] => job[e] = job[d] /\ pc'[e] = pc[e]
      BY <1>1, <1>4, <1>5, <3>2 DEF Alone
    <3> QED BY <3>1, <3>3 DEF PInv, UnusedInv
  <2> QED BY <2>1, <2>2, <2>3, <2>4 DEF PInv, UnusedInv
<1>13. ASSUME NEW j \in Ids, Heeded(j) PROVE Heeded(j)'
  <2>1. intents' = intents /\ \A w \in Workers : Minds(w)' = Minds(w) /\ job'[w] = job[w]
    BY <1>1, <1>4 DEF Alone, Minds
  <2>2. j = k => intents[j] # "none"
    BY <1>1, <1>2, <1>13 DEF Heeded
  <2> QED BY <1>7, <1>10, <1>13, <2>1, <2>2 DEF Heeded
<1>14. ASSUME StopInv PROVE StopInv'
  <2>1. ASSUME NEW d \in Clients, Stopper(d)' PROVE Heeded(job[d])'
    <3>1. d # c /\ Stopper(d) /\ job'[d] = job[d]
      BY <1>1, <1>4, <1>5, <2>1 DEF Alone, Stopper
    <3>2. job[d] \in Ids
      BY <1>1, <3>1 DEF Stopper, IInv, LocalsInv, Sound, Resting
    <3>3. PICK j \in Ids : j = job[d]
      BY <3>2
    <3>4. Heeded(j)'
      BY <1>13, <1>14, <3>1, <3>3 DEF StopInv
    <3> QED BY <3>1, <3>3, <3>4
  <2>2. \A w \in Workers : pc'[w] = pc[w] /\ job'[w] = job[w]
    BY <1>1, <1>4 DEF Alone
  <2> QED BY <1>13, <1>14, <2>1, <2>2 DEF StopInv
<1> QED BY <1>8, <1>9, <1>11, <1>12, <1>14 DEF Kept, PInv

LEMMA CallKept == ASSUME Undisturbed, IInv, PInv, NEW c \in Clients, Call(c) PROVE Kept
<1> USE DEF Goto, Hold, maps, worker
<1>1. /\ c \in Actors /\ c \notin Workers /\ (\A w \in Workers : w \in Actors /\ w # c)
      /\ (\A d \in Clients : d \in Actors) /\ phase = "serving" /\ pc[c] = "idle"
  BY NotAWorker DEF Actors, Call, Serving
<1>2. created \in Nat
  BY BoundsAssumption DEF IInv, TypeOK, TableTypes
<1>3. PICK i \in Ids :
        /\ job' = [job EXCEPT ![c] = i]
        /\ \/ i = created + 1 /\ created' = created + 1 /\ pc' = [pc EXCEPT ![c] = "save"]
              /\ \E p \in Prios, t \in Nat :
                   op' = [op EXCEPT ![c] = [kind |-> "submit", prio |-> p, ticket |-> t]]
           \/ i <= created /\ created' = created /\ pc' = [pc EXCEPT ![c] = "load"]
              /\ \E kind \in {"pause", "cancel", "delete"}, p \in Prios, t \in Nat :
                   op' = [op EXCEPT ![c] = [kind |-> kind, prio |-> p, ticket |-> t]]
        /\ UNCHANGED <<store, phase, pending, intents, cancels, deleting, restarting,
                       goal, hit, outcome, promise>>
        /\ \A a \in Actors \ {c} : row'[a] = row[a]
  <2>1. PICK kind \in Menu[c], p \in Prios :
          /\ op' = [op EXCEPT ![c] = [kind |-> kind, prio |-> p, ticket |-> calls + 1]]
          /\ \/ /\ kind = "submit" /\ created < MaxIds
                /\ created' = created + 1
                /\ job' = [job EXCEPT ![c] = created + 1]
                /\ Hold(c, [status |-> "queued", prio |-> p])
                /\ Goto(c, "save")
                /\ UNCHANGED promise
             \/ /\ kind # "submit"
                /\ \E i \in 1 .. created :
                    /\ job' = [job EXCEPT ![c] = i]
                    /\ promise' = IF kind \in {"resume", "restart"}
                                  THEN [promise EXCEPT ![i] = "none"] ELSE promise
                /\ Goto(c, "load")
                /\ UNCHANGED <<created, row>>
    BY DEF Call
  <2>2. kind \in {"submit", "pause", "cancel", "delete"}
    BY DEF Undisturbed
  <2>3. calls + 1 \in Nat
    BY DEF IInv, TypeOK, BoundTypes
  <2>4. UNCHANGED <<store, phase, pending, intents, cancels, deleting, restarting,
                    goal, hit, outcome>>
    BY DEF Call
  <2>5. row \in [Actors -> Row \cup {NoRow}] /\ created \in 0 .. MaxIds /\ MaxIds \in Nat
    BY BoundsAssumption DEF IInv, TypeOK, LocalTypes, TableTypes
  <2>6. CASE kind = "submit"
    <3>1. created + 1 \in Ids
      BY <2>1, <2>5, <2>6 DEF Ids
    <3> QED BY <1>1, <2>1, <2>3, <2>4, <2>5, <2>6, <3>1
  <2>7. CASE kind # "submit"
    <3>1. PICK i \in 1 .. created : job' = [job EXCEPT ![c] = i]
      BY <2>1, <2>7
    <3>2. i \in Ids /\ i <= created
      BY <2>5 DEF Ids
    <3>3. promise' = promise /\ created' = created /\ row' = row /\ pc' = [pc EXCEPT ![c] = "load"]
      BY <2>1, <2>2, <2>7
    <3> QED BY <2>1, <2>2, <2>3, <2>4, <2>7, <3>1, <3>2, <3>3
  <2> QED BY <2>6, <2>7
<1>4. /\ \A a \in Actors \ {c} : pc'[a] = pc[a] /\ job'[a] = job[a]
      /\ \A d \in Clients \ {c} : op'[d] = op[d]
      /\ job'[c] = i /\ pc'[c] \in {"save", "load"}
      /\ pc'[c] = "save" => i = created + 1 /\ op'[c].kind = "submit"
      /\ pc'[c] = "load" => i <= created /\ op'[c].kind \in {"pause", "cancel", "delete"}
      /\ created <= created' /\ i <= created' /\ created' \in Nat
  BY <1>1, <1>2, <1>3 DEF IInv, TypeOK, LocalTypes
<1>5. MenuInv'
  <2>1. Calling(c)'
    BY <1>4 DEF Calling
  <2>2. \A d \in Clients \ {c} : Calling(d)'
    BY <1>1, <1>3, <1>4 DEF PInv, MenuInv, Calling
  <2>3. \A w \in Workers : AtWork(w)'
    BY <1>1, <1>3, <1>4 DEF PInv, MenuInv, AtWork
  <2> QED BY <1>1, <1>3, <2>1, <2>2, <2>3 DEF PInv, MenuInv
<1>6. \A j : Entered(j)' = Entered(j)
  BY <1>3 DEF Entered
<1>7. /\ ~Entered(created + 1) /\ \A a \in Actors : job[a] # created + 1
  BY <1>2 DEF Entered, PInv, UnusedInv, IInv, TypeOK, LocalTypes, Ids, NoId
<1>8. \A d \in Clients : Submits(d)' =>
         \/ d # c /\ Submits(d) /\ job'[d] = job[d]
         \/ d = c /\ job'[d] = created + 1
  BY <1>1, <1>4 DEF Submits
<1>9. EntryInv'
  <2>1. \A w \in Workers : job'[w] = job[w]
    BY <1>1, <1>4
  <2>2. ASSUME NEW d \in Clients, Submits(d)'
        PROVE  /\ ~Entered(job[d])'
               /\ \A w \in Workers : job'[w] # job'[d]
               /\ \A e \in Clients : e # d /\ Submits(e)' => job'[e] # job'[d]
    <3>1. CASE d = c
      <4>1. job'[d] = created + 1
        BY <1>8, <2>2, <3>1
      <4> QED BY <1>1, <1>6, <1>7, <1>8, <2>1, <3>1, <4>1
    <3>2. CASE d # c
      <4>1. Submits(d) /\ job'[d] = job[d]
        BY <1>8, <2>2, <3>2
      <4>2. ~Entered(job[d]) /\ (\A w \in Workers : job[w] # job[d])
            /\ \A e \in Clients : e # d /\ Submits(e) => job[e] # job[d]
        BY <4>1 DEF PInv, EntryInv
      <4> QED BY <1>1, <1>6, <1>7, <1>8, <2>1, <4>1, <4>2
    <3> QED BY <3>1, <3>2
  <2> QED BY <1>3, <1>6, <2>1, <2>2 DEF PInv, EntryInv
<1>10. UnusedInv'
  <2>1. \A a \in Actors : job'[a] <= created'
    <3>1. \A a \in Actors : job[a] <= created /\ job[a] \in Nat
      BY DEF PInv, UnusedInv, IInv, TypeOK, LocalTypes, Ids, NoId
    <3> QED BY <1>2, <1>4, <3>1
  <2>2. \A m \in DOMAIN pending' : pending'[m].id <= created'
    <3>1. \A m \in DOMAIN pending : pending[m].id <= created /\ pending[m].id \in Nat
      <4>1. \A m \in DOMAIN pending : pending[m] \in [id : Ids, prio : Prios]
        BY LenProperties, ElementOfSeq DEF IInv, TypeOK, TableTypes
      <4>2. \A m \in DOMAIN pending : pending[m].id \in Ids
        BY <4>1
      <4> QED BY <4>2 DEF PInv, UnusedInv, Ids
    <3> QED BY <1>2, <1>3, <1>4, <3>1
  <2>3. \A j \in Ids : j > created' => store'[j] = NoRow /\ promise'[j] = "none"
    BY <1>2, <1>3, <1>4 DEF PInv, UnusedInv, Ids
  <2>4. ASSUME NEW d \in Clients, Unsaved(d)'
        PROVE  /\ store'[job'[d]] = NoRow /\ promise'[job'[d]] # "stopped"
               /\ \A e \in Clients : e # d /\ job'[e] = job'[d] => pc'[e] = "load"
    <3>1. CASE d = c
      <4>1. job'[d] = created + 1 /\ created + 1 \in Ids /\ created + 1 > created
        BY <1>2, <1>3, <1>4, <2>4, <3>1 DEF Unsaved
      <4>2. store[created + 1] = NoRow /\ promise[created + 1] = "none"
        BY <4>1 DEF PInv, UnusedInv
      <4>3. \A e \in Clients : e # c => job'[e] # created + 1
        BY <1>1, <1>4, <1>7
      <4> QED BY <1>3, <3>1, <4>1, <4>2, <4>3
    <3>2. CASE d # c
      <4>1. Unsaved(d) /\ job'[d] = job[d]
        BY <1>1, <1>4, <2>4, <3>2 DEF Unsaved
      <4>2. /\ store[job[d]] = NoRow /\ promise[job[d]] # "stopped"
            /\ \A e \in Clients : e # d /\ job[e] = job[d] => pc[e] = "load"
        BY <4>1 DEF PInv, UnusedInv
      <4>3. job'[c] = job[d] => pc'[c] = "load"
        BY <1>1, <1>4, <1>7
      <4> QED BY <1>1, <1>3, <1>4, <4>1, <4>2, <4>3
    <3> QED BY <3>1, <3>2
  <2> QED BY <2>1, <2>2, <2>3, <2>4 DEF UnusedInv
<1>11. InterruptInv'
  <2>1. \A w \in Workers : Unasked(w)' = Unasked(w) /\ pc'[w] = pc[w] /\ hit'[w] = hit[w]
    BY <1>1, <1>3, <1>4 DEF Unasked
  <2> QED BY <1>1, <1>3, <2>1 DEF PInv, InterruptInv
<1>12. ASSUME NEW j \in Ids, j <= created, Heeded(j) PROVE Heeded(j)'
  <2>1. \A w \in Workers : job'[w] = job[w] /\ Minds(w)' = Minds(w)
    BY <1>1, <1>3, <1>4 DEF Minds
  <2>2. \A d \in Clients : Submits(d)' /\ job'[d] = j => Submits(d) /\ job[d] = j
    BY <1>2, <1>8, <1>12 DEF Ids
  <2> QED BY <1>3, <1>6, <1>12, <2>1, <2>2 DEF Heeded
<1>13. ASSUME StopInv PROVE StopInv'
  <2>1. ASSUME NEW d \in Clients, Stopper(d)' PROVE Heeded(job[d])'
    <3>1. d # c /\ Stopper(d) /\ job'[d] = job[d]
      BY <1>1, <1>4, <2>1 DEF Stopper
    <3>2. job[d] \in Ids
      BY <1>1, <3>1 DEF Stopper, IInv, LocalsInv, Sound, Resting
    <3>3. PICK j \in Ids : j = job[d]
      BY <3>2
    <3>4. j <= created
      BY <1>1, <3>3 DEF PInv, UnusedInv
    <3>5. Heeded(j)'
      BY <1>12, <1>13, <3>1, <3>3, <3>4 DEF StopInv
    <3> QED BY <3>1, <3>3, <3>5
  <2>2. ASSUME NEW j \in Ids, promise'[j] = "stopped"
        PROVE  /\ Heeded(j)'
               /\ (\A w \in Workers : job'[w] = j => pc'[w] \in Early)
                    => store'[j].status \in StoppedRow
    <3>1. promise[j] = "stopped"
      BY <1>3, <2>2
    <3>2. j <= created
      BY <1>2, <3>1 DEF PInv, UnusedInv, Ids
    <3>3. \A w \in Workers : job'[w] = job[w] /\ pc'[w] = pc[w]
      BY <1>1, <1>4
    <3> QED BY <1>3, <1>12, <1>13, <3>1, <3>2, <3>3 DEF StopInv
  <2> QED BY <2>1, <2>2 DEF StopInv
<1> QED BY <1>5, <1>9, <1>10, <1>11, <1>13 DEF Kept, PInv

-----------------------------------------------------------------------------
(* The daemon, and every step.                                                *)

\* Start queues each download once, and none whose stop was answered.
LEMMA StartKept == ASSUME IInv, PInv, Start PROVE Kept
<1> USE DEF maps, worker
<1> DEFINE due == {i \in Ids : store[i].status \in Recoverable}
<1>1. /\ UNCHANGED <<store, created, intents, deleting, restarting, job, op, goal, hit, outcome>>
      /\ phase = "down" /\ phase' = "serving"
      /\ (\A a \in Actors : pc'[a] = "idle")
      /\ \A i \in Ids : promise'[i] = IF promise[i] = "interrupted" THEN "none" ELSE promise[i]
  BY DEF Start
<1>2. /\ \A w \in Workers : w \in Actors /\ pc[w] = "exit" /\ AtWork(w) /\ job[w] = NoId
      /\ \A c \in Clients : c \in Actors /\ job[c] = NoId /\ Calling(c)
      /\ \A i \in Ids : restarting[i] = NoTicket
  BY <1>1 DEF PInv, MenuInv, AtWork, Resting, Calling, Actors
<1>3. PICK order \in [1 .. Cardinality(due) -> due] :
        /\ \A m, n \in DOMAIN order : m < n => order[m] < order[n]
        /\ pending' = [n \in DOMAIN order |-> [id |-> order[n], prio |-> store[order[n]].prio]]
  BY DEF Start
<1>4. Cardinality(due) \in Nat
  <2>1. IsFiniteSet(Ids)
    BY BoundsAssumption, FS_Interval DEF Ids
  <2>2. due \subseteq Ids
    OBVIOUS
  <2> HIDE DEF due
  <2> QED BY <2>1, <2>2, FS_Subset, FS_CardinalityType
<1>5. /\ \A n \in DOMAIN pending' : pending'[n].id \in due
      /\ \A m, n \in DOMAIN pending' : m # n => pending'[m].id # pending'[n].id
  <2>1. \A n \in DOMAIN order : order[n] \in Int
    BY <1>3 DEF Ids
  <2> HIDE DEF due
  <2>2. DOMAIN order = 1 .. Cardinality(due) /\ DOMAIN pending' = DOMAIN order
    BY <1>3
  <2>3. \A n \in DOMAIN order : pending'[n].id = order[n] /\ order[n] \in due
    BY <1>3, <2>2
  <2>4. \A m, n \in DOMAIN order : m # n => m < n \/ n < m
    BY <1>4, <2>2
  <2>5. ASSUME NEW m \in DOMAIN order, NEW n \in DOMAIN order, m # n PROVE order[m] # order[n]
    BY <1>3, <2>1, <2>4, <2>5
  <2> QED BY <2>2, <2>3, <2>5
<1>6. \A i \in Ids : Entered(i)' => store[i].status \in Recoverable
  BY <1>5 DEF Entered
<1> HIDE DEF due
<1>7. MenuInv'
  <2>1. \A c \in Clients : Calling(c)'
    BY <1>1, <1>2 DEF Calling
  <2>2. \A w \in Workers : AtWork(w)'
    BY <1>1, <1>2 DEF AtWork, Resting
  <2> QED BY <1>1, <1>2, <2>1, <2>2 DEF MenuInv
<1>8. \A c \in Clients : ~Submits(c)' /\ ~Unsaved(c)' /\ ~Stopper(c)'
  BY <1>1, <1>2 DEF Submits, Unsaved, Stopper
<1>9. EntryInv'
  BY <1>1, <1>2, <1>5, <1>8 DEF EntryInv
<1>10. UnusedInv'
  <2>1. ASSUME NEW i \in Ids, store[i].status \in Recoverable PROVE i <= created
    <3>1. store[i] # NoRow
      BY <2>1 DEF Recoverable, NoRow
    <3> QED BY <3>1, BoundsAssumption DEF PInv, UnusedInv, IInv, TypeOK, TableTypes, Ids
  <2>2. \A n \in DOMAIN pending' : pending'[n].id <= created
    BY <1>5, <2>1 DEF due
  <2> QED BY <1>1, <1>8, <2>2 DEF PInv, UnusedInv
<1>11. InterruptInv'
  BY <1>1, <1>2 DEF InterruptInv, Midway
<1>12. ASSUME StopInv PROVE StopInv'
  <2>1. ASSUME NEW i \in Ids, promise'[i] = "stopped"
        PROVE  Heeded(i)' /\ store'[i].status \in StoppedRow
    <3>1. promise[i] = "stopped" /\ i # NoId
      BY <1>1, <2>1 DEF Ids, NoId
    <3>2. store[i].status \in StoppedRow
      BY <1>2, <1>12, <3>1 DEF StopInv
    <3>3. ~Entered(i)'
      BY <1>6, <3>2 DEF StoppedRow, Recoverable
    <3> QED BY <1>1, <1>2, <1>8, <3>1, <3>2, <3>3 DEF Heeded
  <2> QED BY <1>8, <2>1 DEF StopInv
<1> QED BY <1>7, <1>9, <1>10, <1>11, <1>12 DEF Kept, PInv

\* Whatever leaves all but the phase as it is.
LEMMA PhaseKept ==
  ASSUME IInv, PInv,
         UNCHANGED <<store, created, pending, maps, released, pc, job, row, op, worker, promise>>,
         \/ phase' = phase
         \/ phase = "serving" /\ phase' = "stopping"
         \/ phase = "stopping" /\ phase' = "draining" /\ \A c \in Clients : pc[c] = "idle"
  PROVE  Kept
<1> USE DEF maps, worker
<1>1. MenuInv'
  <2>1. \A c \in Clients : Calling(c)'
    BY DEF PInv, MenuInv, Calling
  <2>2. \A w \in Workers : AtWork(w)'
    BY DEF PInv, MenuInv, AtWork
  <2> QED BY <2>1, <2>2 DEF PInv, MenuInv
<1>2. /\ \A c \in Clients : /\ Submits(c)' = Submits(c) /\ Unsaved(c)' = Unsaved(c)
                            /\ Stopper(c)' = Stopper(c)
      /\ \A i : Entered(i)' = Entered(i)
      /\ \A w \in Workers : /\ Minds(w)' = Minds(w) /\ Unasked(w)' = Unasked(w)
                            /\ Interrupted(w)' = Interrupted(w)
  BY DEF Submits, Unsaved, Stopper, Entered, Minds, Unasked, Interrupted
<1>3. EntryInv' /\ UnusedInv'
  BY <1>2 DEF PInv, EntryInv, UnusedInv
<1>4. InterruptInv'
  BY <1>2 DEF PInv, InterruptInv
<1>5. \A i : Heeded(i)' = Heeded(i)
  BY <1>2 DEF Heeded
<1>6. ASSUME StopInv PROVE StopInv'
  <2>1. ASSUME NEW c \in Clients, Stopper(c)' PROVE Heeded(job[c])'
    <3>1. PICK j : j = job[c] /\ Heeded(j)
      BY <1>2, <1>6, <2>1 DEF StopInv
    <3>2. Heeded(j)' /\ job'[c] = j
      BY <1>5, <3>1
    <3> QED BY <3>2
  <2> QED BY <1>2, <1>5, <1>6, <2>1 DEF StopInv
<1> QED BY <1>1, <1>3, <1>4, <1>6 DEF Kept, PInv

\* Only the database is left; an orderly exit leaves the stops in it.
LEMMA ForgetKept ==
  ASSUME IInv, PInv, Forget
  PROVE  PInv' /\ (Exit /\ StopInv => StopInv')
<1> USE DEF Forget
<1>1. /\ \A w \in Workers : /\ w \in Actors /\ pc'[w] = "exit" /\ job'[w] = NoId
                            /\ goal'[w] = "none" /\ outcome'[w] = "none"
      /\ \A c \in Clients : /\ c \in Actors /\ pc'[c] = "idle" /\ job'[c] = NoId
                            /\ op'[c].kind = "none"
      /\ \A a \in Actors : job'[a] = NoId
      /\ \A i \in Ids : restarting'[i] = NoTicket
      /\ phase' = "down" /\ pending' = <<>> /\ UNCHANGED <<store, created, promise>>
  BY NotAWorker DEF Actors, NoOp
<1>2. /\ \A c \in Clients : ~Submits(c)' /\ ~Unsaved(c)' /\ ~Stopper(c)'
      /\ (\A i : ~Entered(i)') /\ DOMAIN pending' = {}
  BY <1>1 DEF Submits, Unsaved, Stopper, Entered
<1>3. MenuInv'
  BY <1>1 DEF MenuInv, Calling, AtWork, Resting
<1>4. EntryInv'
  BY <1>1, <1>2 DEF EntryInv
<1>5. UnusedInv'
  BY <1>1, <1>2, BoundsAssumption DEF PInv, UnusedInv, IInv, TypeOK, TableTypes, NoId
<1>6. \A i \in Ids : i # NoId
  BY DEF Ids, NoId
<1>7. InterruptInv'
  BY <1>1, <1>6 DEF InterruptInv, Midway
<1>8. ASSUME Exit, StopInv PROVE StopInv'
  <2>1. \A w \in Workers : pc[w] = "exit" /\ job[w] = NoId
    BY <1>8 DEF Exit, PInv, MenuInv, AtWork, Resting
  <2>2. \A i \in Ids : promise'[i] = "stopped" => store'[i].status \in StoppedRow
    BY <1>1, <1>6, <1>8, <2>1 DEF StopInv
  <2>3. \A i \in Ids : Heeded(i)'
    BY <1>1, <1>2, <1>6 DEF Heeded
  <2> QED BY <1>2, <2>2, <2>3 DEF StopInv
<1> QED BY <1>3, <1>4, <1>5, <1>7, <1>8 DEF PInv

\* The other operations' steps and the store errors are not possible: nothing leads to them.
LEMMA NextKept ==
  ASSUME Undisturbed, IInv, PInv, [Next]_vars
  PROVE  PInv' /\ (MaxCrashes = 0 /\ StopInv => StopInv')
<1>1. ~Fault
  BY DEF Fault, Undisturbed, IInv, TypeOK, BoundTypes
<1>2. ASSUME NEW a \in Actors, Reset(a) PROVE FALSE
  BY <1>2 DEF Reset, ResetLoad, ResetSave, ResetQueue, Actors, PInv, MenuInv, Calling, AtWork
<1>3. ASSUME NEW c \in Clients, Serve(c) PROVE Kept
  <2>1. ~ResumeClear(c) /\ ~Reorder(c)
    BY DEF ResumeClear, Reorder, PInv, MenuInv, Calling
  <2> QED BY <1>3, <2>1, LoadKept, StopMarkKept, IdleMarkKept, HandOverKept, ReleasedKept,
             SaveKept, EnqueueKept, RemoveIdleKept, CallAbortsKept DEF Serve
<1>4. ASSUME NEW c \in Clients, Call(c) \/ Handle(c) \/ CallFails(c) PROVE Kept
  BY <1>1, <1>2, <1>3, <1>4, CallKept DEF Handle, CallFails, Actors
<1>5. ASSUME NEW w \in Workers, Run(w) PROVE Kept
  BY <1>5, PopKept, LeaveKept, RunLoadKept, RegisterKept, PersistActiveKept, RunAbortsKept,
     PersistRunKept, TransferFailsKept, TransferCompletesKept, PersistCompletedKept,
     CompletionLostKept DEF Run
<1>6. ASSUME NEW w \in Workers, Finish(w) PROVE Kept
  BY <1>6, FinishJobKept, RemoveRecordKept, OverrideLoadKept, OverrideSaveKept DEF Finish
<1>7. ASSUME NEW w \in Workers, Work(w) \/ StoreError(w) PROVE Kept
  <2>1. ~StoreError(w)
    BY <1>1 DEF StoreError, RunLoadFails, PersistActiveFails, PersistCompletedFails,
                SettleFails, OverrideFails
  <2> QED BY <1>2, <1>5, <1>6, <1>7, <2>1 DEF Work, Actors
<1>8. CASE Start
  BY <1>8, StartKept DEF Kept
<1>9. CASE Signal \/ Shutdown \/ UNCHANGED vars
  <2>1. Kept
    BY <1>9, PhaseKept DEF Signal, Shutdown, Serving, vars, maps, worker
  <2> QED BY <2>1 DEF Kept
<1>10. CASE Exit
  BY <1>10, ForgetKept DEF Exit
<1>11. CASE Crash
  <2>1. MaxCrashes # 0
    BY <1>11 DEF Crash, IInv, TypeOK, BoundTypes
  <2> QED BY <1>11, <2>1, ForgetKept DEF Crash
<1> QED BY <1>4, <1>7, <1>8, <1>9, <1>10, <1>11 DEF Next, Stopped, Kept

\* StoresAssumption: the rows are those of the first identifiers, so "created" bounds them.
LEMMA InitKept == Init => PInv /\ StopInv
<1> SUFFICES ASSUME Init PROVE PInv /\ StopInv
  OBVIOUS
<1> USE DEF Init
<1>1. /\ \A w \in Workers : /\ w \in Actors /\ pc[w] = "exit" /\ job[w] = NoId
                            /\ goal[w] = "none" /\ outcome[w] = "none"
      /\ \A c \in Clients : c \in Actors /\ pc[c] = "idle" /\ job[c] = NoId /\ op[c].kind = "none"
      /\ \A a \in Actors : job[a] = NoId
      /\ \A i \in Ids : restarting[i] = NoTicket /\ promise[i] = "none" /\ i # NoId
      /\ phase = "down" /\ pending = <<>>
  BY NotAWorker DEF Actors, NoOp, Ids, NoId
<1>2. /\ \A c \in Clients : ~Submits(c) /\ ~Unsaved(c) /\ ~Stopper(c)
      /\ (\A i : ~Entered(i)) /\ DOMAIN pending = {}
  BY <1>1 DEF Submits, Unsaved, Stopper, Entered
<1>3. MenuInv
  BY <1>1 DEF MenuInv, Calling, AtWork, Resting
<1>4. EntryInv
  BY <1>1, <1>2 DEF EntryInv
<1> DEFINE used == {i \in Ids : store[i] # NoRow}
<1>5. created \in Nat /\ \A i \in Ids : store[i] # NoRow => i <= created
  <2>1. IsFiniteSet(used) /\ Cardinality(used) \in Nat
    <3>1. IsFiniteSet(Ids)
      BY BoundsAssumption, FS_Interval DEF Ids
    <3> QED BY <3>1, FS_Subset, FS_CardinalityType
  <2>2. ASSUME NEW i \in Ids, store[i] # NoRow PROVE i <= Cardinality(used)
    <3>1. 1 .. i \subseteq used
      <4>1. ASSUME NEW j \in 1 .. i PROVE j \in Ids /\ store[j] # NoRow
        <5>1. j \in Ids
          BY BoundsAssumption DEF Ids
        <5>2. j = i \/ j < i
          BY <2>2 DEF Ids
        <5> QED BY <2>2, <5>1, <5>2, StoresAssumption
      <4> QED BY <4>1
    <3>2. Cardinality(1 .. i) = i
      BY FS_Interval DEF Ids
    <3>3. Cardinality(1 .. i) <= Cardinality(used)
      BY <2>1, <3>1, FS_Subset
    <3> QED BY <3>2, <3>3
  <2> QED BY <2>1, <2>2
<1> HIDE DEF Init, used
<1>6. UnusedInv
  <2>1. \A a \in Actors : job[a] <= created
    BY <1>1, <1>5 DEF NoId
  <2>2. \A i \in Ids : i > created => store[i] = NoRow /\ promise[i] = "none"
    BY <1>1, <1>5 DEF Ids
  <2> QED BY <1>2, <2>1, <2>2 DEF UnusedInv
<1>7. InterruptInv
  BY <1>1 DEF InterruptInv, Midway
<1>8. StopInv
  BY <1>1, <1>2 DEF StopInv
<1> QED BY <1>3, <1>4, <1>6, <1>7, <1>8 DEF PInv

-----------------------------------------------------------------------------
(* The promises.                                                              *)

LEMMA UndisturbedInvariance == ASSUME Undisturbed PROVE Spec => []PInv
<1>1. IInv /\ PInv /\ [Next]_vars => PInv'
  BY NextKept
<1> QED BY InitKept, Invariance, <1>1, PTL DEF Spec

LEMMA StopsInvariance ==
  ASSUME Undisturbed, MaxCrashes = 0
  PROVE  Spec => [](PInv /\ StopInv)
<1>1. IInv /\ PInv /\ StopInv /\ [Next]_vars => PInv' /\ StopInv'
  BY NextKept
<1> QED BY InitKept, Invariance, <1>1, PTL DEF Spec

\* A drained daemon leaves no download that its shutdown interrupted in a status Start passes
\* over: classify forces a run that ended with the base context, and that nobody had asked
\* to end, back to queued, whatever finishFailed saved. Crashes are allowed.
THEOREM InterruptedRecoverable ==
  ASSUME Undisturbed
  PROVE  Spec => []ShutdownRecoverable
<1>1. PInv => ShutdownRecoverable
  <2> SUFFICES ASSUME PInv, Closed, \A w \in Workers : pc[w] = "exit",
                      NEW i \in Ids, promise[i] = "interrupted"
               PROVE  store[i].status \notin Settled
    BY DEF ShutdownRecoverable
  <2>1. \A w \in Workers : job[w] = NoId
    BY DEF PInv, MenuInv, AtWork, Resting
  <2>2. i # NoId
    BY DEF Ids, NoId
  <2> QED BY <2>1, <2>2 DEF PInv, InterruptInv, Closed
<1> QED BY <1>1, UndisturbedInvariance, PTL

\* A pause or a cancel that was answered shows in the row once nobody works on the download,
\* however stop's mark, its save and the worker's own saves are interleaved, over exits and
\* starts: the intent outlives every save but the one that settles it.
THEOREM StopsKept ==
  ASSUME Undisturbed, MaxCrashes = 0
  PROVE  Spec => []StopNeverDropped
<1>1. PInv /\ StopInv => StopNeverDropped
  <2> SUFFICES ASSUME StopInv, NEW i \in Ids, promise[i] = "stopped", \A a \in Actors : job[a] # i
               PROVE  store[i].status \in {"paused", "canceled", "absent"}
    BY DEF StopNeverDropped
  <2>1. \A w \in Workers : job[w] # i
    BY DEF Actors
  <2> QED BY <2>1 DEF StopInv, StoppedRow
<1> QED BY <1>1, StopsInvariance, PTL

\* A run begins only by a registration that found no stop.
LEMMA BeginsUnasked ==
  ASSUME IInv, [Next]_vars, NEW w \in Workers, pc[w] = "register", pc'[w] = "active"
  PROVE  intents[job[w]] = "none"
<1> USE DEF Rest, Goto, Return
<1>1. w \in Actors /\ pc \in [Actors -> Control] /\ w \notin Clients
  BY NotAWorker DEF Actors, IInv, TypeOK, LocalTypes
<1>2. ASSUME NEW c \in Clients, Call(c) \/ Serve(c) \/ CallFails(c) PROVE pc'[w] = pc[w]
  BY <1>1, <1>2 DEF Call, Serve, CallFails, Load, StopMark, IdleMark, HandOver, Released,
       ResumeClear, Save, Enqueue, Reorder, RemoveIdle, CallAborts
<1>3. ASSUME NEW a \in Actors, Reset(a) PROVE pc'[w] # "active"
  BY <1>1, <1>3 DEF Reset, ResetLoad, ResetSave, ResetQueue, Done
<1>4. ASSUME NEW v \in Workers, v # w, Run(v) PROVE pc'[w] = pc[w]
  BY <1>1, <1>4 DEF Run, Pop, Leave, RunLoad, Register, PersistActive, RunAborts, PersistRun,
       TransferFails, TransferCompletes, PersistCompleted, CompletionLost, EndRun
<1>5. ASSUME NEW v \in Workers, v # w, Finish(v) PROVE pc'[w] = pc[w]
  BY <1>1, <1>5 DEF Finish, FinishJob, Settle, RemoveRecord, Done, OverrideLoad, OverrideSave
<1>6. ASSUME NEW v \in Workers, StoreError(v) PROVE pc'[w] # "active"
  BY <1>1, <1>6 DEF StoreError, RunLoadFails, PersistActiveFails, PersistCompletedFails,
       SettleFails, OverrideFails, Done, EndRun
<1>7. ASSUME Run(w) \/ Finish(w) PROVE Register(w)
  BY <1>7 DEF Run, Pop, Leave, RunLoad, PersistActive, RunAborts, PersistRun,
       TransferFails, TransferCompletes, PersistCompleted, CompletionLost,
       Finish, FinishJob, RemoveRecord, OverrideLoad, OverrideSave
<1>8. Register(w) => intents[job[w]] = "none"
  BY <1>1 DEF Register
<1>9. Start \/ Exit \/ Crash \/ Signal \/ Shutdown \/ UNCHANGED vars => pc'[w] # "active"
  BY <1>1 DEF Start, Exit, Crash, Forget, Signal, Shutdown, vars
<1> QED
  BY <1>1, <1>2, <1>3, <1>4, <1>5, <1>6, <1>7, <1>8, <1>9
     DEF Next, Work, Handle, Stopped, Actors

\* No run begins of a download whose last answered call was a stop: run reads the intent in
\* the lock section that registers the worker, and the stop marked it before it was answered.
THEOREM StoppedNeverRuns ==
  ASSUME Undisturbed, MaxCrashes = 0
  PROVE  Spec => StopHolds
<1>1. IInv /\ StopInv /\ [Next]_vars =>
        [\A w \in Workers :
           pc[w] = "register" /\ pc'[w] = "active" => promise[job[w]] # "stopped"]_vars
  <2> SUFFICES ASSUME IInv, StopInv, [Next]_vars, NEW w \in Workers,
                      pc[w] = "register", pc'[w] = "active", promise[job[w]] = "stopped"
               PROVE  FALSE
    OBVIOUS
  <2>1. job[w] \in Ids
    BY DEF IInv, LocalsInv, Sound, Resting, Actors
  <2>2. intents[job[w]] # "none"
    BY <2>1 DEF StopInv, Heeded, Minds, Before
  <2> QED BY <2>2, BeginsUnasked
<1> QED BY <1>1, Invariance, StopsInvariance, PTL DEF Spec, StopHolds
=============================================================================

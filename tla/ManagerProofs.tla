---------------------------- MODULE ManagerProofs ----------------------------
(* Type correctness of Manager, one run per download, and the hand-over of    *)
(* Deletes and Restarts to workers, for any pool, clients and downloads.      *)
EXTENDS Manager, TLAPS, FiniteSetTheorems, SequenceTheorems

Resting == {"idle", "exit"}
Copying == {"clear", "save", "enqueue", "reorder", "rewrite", "requeue", "register", "active",
            "run", "transfer", "complete", "force"}
Stops == {"pause", "cancel"}
Forcing == {"override", "force"}

\* What an actor's control point says of its locals: it has a download, the row it
\* is about to write, the call it answers, the status it forces.
Sound(a) ==
    /\ pc[a] \notin Resting => job[a] \in Ids
    /\ pc[a] \in Copying => row[a] \in Row
    /\ a \in Clients /\ pc[a] # "idle" =>
         op[a].kind \in Ops /\ op[a].prio \in Prios /\ op[a].ticket \in 1 .. MaxCalls
    /\ a \in Clients /\ pc[a] = "mark" /\ op[a].kind \in Stops => row[a] \in Row
    /\ a \in Workers /\ pc[a] \in Forcing => goal[a] # "none"
LocalsInv == \A a \in Actors : Sound(a)

\* m.cancels is exactly who runs what.
RegistryInv ==
    /\ \A w \in Workers : pc[w] \in Running => cancels[job[w]] = w
    /\ \A i \in Ids : cancels[i] # NoWorker =>
         pc[cancels[i]] \in Running /\ job[cancels[i]] = i

\* A Delete or a Restart waits for a registered worker only.
RequestsInv ==
    \A i \in Ids : deleting[i] # NoTicket \/ restarting[i] # NoTicket => cancels[i] # NoWorker

\* Nobody is at work while the daemon is down.
DownInv ==
    phase = "down" => /\ \A w \in Workers : pc[w] = "exit"
                      /\ \A c \in Clients : pc[c] = "idle"

IInv == TypeOK /\ LocalsInv /\ RegistryInv /\ RequestsInv
-----------------------------------------------------------------------------
(* Records and the initial states.                                            *)

LEMMA RowUpdate ==
  ASSUME NEW r \in Row
  PROVE  /\ \A s \in Status : [r EXCEPT !.status = s] \in Row
         /\ \A p \in Prios : [r EXCEPT !.prio = p] \in Row
         /\ r.prio \in Prios /\ r.status \in Status
  BY DEF Row

LEMMA Statuses ==
  \A s \in {"queued", "active", "paused", "canceled", "failed", "completed"} : s \in Status
  BY DEF Status, Settled

LEMMA NotAWorker == NoWorker \notin Workers /\ \A w \in Workers : w \notin Clients
  BY ActorsAssumption

LEMMA InitIInv == Init => IInv
  <1> SUFFICES ASSUME Init PROVE IInv
    OBVIOUS
  <1> USE DEF Init
  <1>1. created \in 0 .. MaxIds
    <2>1. IsFiniteSet(Ids) /\ Cardinality(Ids) = MaxIds
      BY BoundsAssumption, FS_Interval DEF Ids
    <2>2. Cardinality({i \in Ids : store[i] # NoRow}) \in 0 .. MaxIds
      BY <2>1, FS_Subset, FS_CardinalityType, BoundsAssumption
    <2> QED
      BY <2>2
  <1>2. TypeOK
    <2>1. TableTypes
      BY <1>1, StoresAssumption, EmptySeq DEF TableTypes
    <2>2. MapTypes
      BY BoundsAssumption DEF MapTypes, NoTicket
    <2>3. LocalTypes
      BY BoundsAssumption DEF LocalTypes, Control, NoOp
    <2>4. WorkerTypes
      BY BoundsAssumption DEF WorkerTypes
    <2>5. BoundTypes
      BY BoundsAssumption DEF BoundTypes
    <2> QED
      BY <2>1, <2>2, <2>3, <2>4, <2>5 DEF TypeOK
  <1>3. LocalsInv
    BY NotAWorker DEF LocalsInv, Sound, Resting, Copying, Forcing, Actors
  <1>4. RegistryInv /\ RequestsInv
    BY DEF RegistryInv, RequestsInv, Running, Actors
  <1> QED
    BY <1>2, <1>3, <1>4 DEF IInv

-----------------------------------------------------------------------------
(* Steps that leave the registry alone.                                       *)

LEMMA QuietRegistry ==
  ASSUME RegistryInv, RequestsInv, UNCHANGED <<cancels, deleting, restarting>>,
         \A w \in Workers : pc'[w] \in Running <=> pc[w] \in Running,
         \A w \in Workers : pc[w] \in Running => job'[w] = job[w],
         cancels \in [Ids -> Workers \cup {NoWorker}]
  PROVE  RegistryInv' /\ RequestsInv'
  BY DEF RegistryInv, RequestsInv

\* The step of one actor: the others' locals are as they were.
LEMMA OneActor ==
  ASSUME LocalsInv, NEW a \in Actors, Sound(a)',
         \A b \in Actors : b # a =>
            pc'[b] = pc[b] /\ job'[b] = job[b] /\ row'[b] = row[b],
         \A b \in Clients : b # a => op'[b] = op[b],
         \A b \in Workers : b # a => goal'[b] = goal[b]
  PROVE  LocalsInv'
  BY DEF LocalsInv, Sound


\* An actor that returns or rests.
LEMMA RestLocals ==
  ASSUME IInv, NEW a \in Actors, Rest(a),
         op' = op \/ (a \in Clients /\ op' = [op EXCEPT ![a] = NoOp]),
         \A b \in Workers : b # a => goal'[b] = goal[b]
  PROVE  LocalTypes' /\ LocalsInv'
  <1> USE DEF IInv, TypeOK, Rest, Goto, Hold
  <1>1. LocalTypes'
    BY BoundsAssumption DEF LocalTypes, Control, NoOp
  <1>2. Sound(a)'
    BY DEF LocalTypes, Sound, Resting, Copying, Stops, Forcing
  <1>3. LocalsInv'
    BY <1>2, OneActor DEF LocalTypes
  <1> QED
    BY <1>1, <1>3

\* An actor that goes on with the same download and call.
LEMMA MoveLocals ==
  ASSUME IInv, NEW a \in Actors, NEW p \in Control, NEW r \in Row \cup {NoRow},
         Goto(a, p), Hold(a, r), UNCHANGED <<job, op>>, pc[a] \notin Resting,
         p \in Copying => r \in Row,
         a \in Clients /\ p = "mark" /\ op[a].kind \in Stops => r \in Row,
         a \in Workers /\ p \in Forcing => goal'[a] # "none",
         \A b \in Workers : b # a => goal'[b] = goal[b]
  PROVE  LocalTypes' /\ LocalsInv'
  <1> USE DEF IInv, TypeOK, Goto, Hold
  <1>1. LocalTypes'
    BY DEF LocalTypes
  <1>2. Sound(a)'
    BY DEF LocalTypes, LocalsInv, Sound, Resting
  <1>3. LocalsInv'
    BY <1>2, OneActor DEF LocalTypes
  <1> QED
    BY <1>1, <1>3

LEMMA FaultCounted ==
  ASSUME BoundTypes, Fault, UNCHANGED <<calls, starts, crashes>>,
         promise' \in [Ids -> {"none", "stopped", "gone", "interrupted"}]
  PROVE  BoundTypes'
  BY BoundsAssumption DEF BoundTypes, Fault

LEMMA QueueTypes ==
  ASSUME IInv, NEW a \in Actors, pc[a] \in Copying, Queue(a)
  PROVE  pending' \in Seq([id : Ids, prio : Prios])
  <1>1. pending \in Seq([id : Ids, prio : Prios])
    BY DEF IInv, TypeOK, TableTypes
  <1>2. [id |-> job[a], prio |-> row[a].prio] \in [id : Ids, prio : Prios]
    BY RowUpdate DEF IInv, LocalsInv, Sound, Copying, Resting
  <1> QED
    BY <1>1, <1>2, AppendProperties DEF Queue

LEMMA CallStep == ASSUME IInv, NEW c \in Clients, Call(c) PROVE IInv'
  <1> USE DEF IInv, TypeOK
  <1> DEFINE Issued(kind, p, i, r, n) ==
        /\ op' = [op EXCEPT ![c] = [kind |-> kind, prio |-> p, ticket |-> calls + 1]]
        /\ job' = [job EXCEPT ![c] = i]
        /\ row' = [row EXCEPT ![c] = r]
        /\ pc' = [pc EXCEPT ![c] = n]
        /\ n = "save" => r \in Row
        /\ created' \in 0 .. MaxIds
        /\ promise' = promise \/ promise' = [promise EXCEPT ![i] = "none"]
  <1>1. PICK kind \in Menu[c], p \in Prios :
          /\ op' = [op EXCEPT ![c] = [kind |-> kind, prio |-> p, ticket |-> calls + 1]]
          /\ \/ /\ kind = "submit" /\ created < MaxIds
                /\ created' = created + 1
                /\ job' = [job EXCEPT ![c] = created + 1]
                /\ Hold(c, [status |-> "queued", prio |-> p])
                /\ Goto(c, "save")
                /\ UNCHANGED promise
             \/ /\ kind # "submit"
                /\ \E i \in 1 .. created :
                    /\ job' = [job EXCEPT ![c] = i]
                    /\ promise' = IF kind \in {"resume", "restart"}
                                  THEN [promise EXCEPT ![i] = "none"] ELSE promise
                /\ Goto(c, "load")
                /\ UNCHANGED <<created, row>>
    BY DEF Call
  <1>2. kind \in Ops
    BY MenuAssumption
  <1>3. created \in 0 .. MaxIds /\ 1 .. created \subseteq Ids
    BY BoundsAssumption DEF TableTypes, Ids
  <1>4. \E i \in Ids, r \in Row \cup {NoRow}, n \in {"save", "load"} : Issued(kind, p, i, r, n)
    <2>1. CASE kind = "submit"
      <3>1. created + 1 \in Ids /\ created' \in 0 .. MaxIds
        BY <1>1, <1>3, <2>1, BoundsAssumption DEF Ids
      <3>2. [status |-> "queued", prio |-> p] \in Row
        BY Statuses DEF Row
      <3>3. Issued(kind, p, created + 1, [status |-> "queued", prio |-> p], "save")
        BY <1>1, <2>1, <3>1, <3>2 DEF Hold, Goto
      <3> QED
        BY <3>1, <3>2, <3>3
    <2>2. CASE kind # "submit"
      <3>1. PICK i \in 1 .. created :
              /\ job' = [job EXCEPT ![c] = i]
              /\ promise' = promise \/ promise' = [promise EXCEPT ![i] = "none"]
        BY <1>1, <2>2
      <3>2. row[c] \in Row \cup {NoRow} /\ row' = [row EXCEPT ![c] = row[c]]
        BY <1>1, <2>2 DEF LocalTypes, Actors
      <3>3. Issued(kind, p, i, row[c], "load")
        BY <1>1, <1>3, <2>2, <3>1, <3>2 DEF Goto
      <3> QED
        BY <1>3, <3>2, <3>3
    <2> QED
      BY <2>1, <2>2
  <1>5. PICK i \in Ids, r \in Row \cup {NoRow}, n \in {"save", "load"} : Issued(kind, p, i, r, n)
    BY <1>4
  <1>6. /\ pc[c] = "idle"
        /\ calls' \in 0 .. MaxCalls /\ calls + 1 \in 1 .. MaxCalls
        /\ UNCHANGED <<store, phase, pending, maps, released, worker, starts, crashes, faults>>
    BY BoundsAssumption DEF Call, BoundTypes
  <1>7. TableTypes' /\ MapTypes' /\ WorkerTypes' /\ BoundTypes'
    BY <1>5, <1>6 DEF TableTypes, MapTypes, WorkerTypes, BoundTypes, maps, worker
  <1>8. LocalTypes'
    BY <1>2, <1>5, <1>6 DEF LocalTypes, Control, Actors
  <1>9. Sound(c)'
    BY <1>2, <1>5, <1>6, NotAWorker
       DEF LocalTypes, Actors, Sound, Resting, Copying, Stops, Forcing
  <1>10. LocalsInv'
    BY <1>5, <1>6, <1>9, OneActor DEF LocalTypes, Actors, worker
  <1>11. RegistryInv' /\ RequestsInv'
    <2>1. \A w \in Workers : pc'[w] = pc[w] /\ job'[w] = job[w]
      BY <1>5, NotAWorker DEF LocalTypes, Actors
    <2> QED
      BY <1>6, <2>1, QuietRegistry DEF MapTypes, maps
  <1> QED
    BY <1>7, <1>8, <1>10, <1>11

LEMMA LoadStep == ASSUME IInv, NEW c \in Clients, Load(c) PROVE IInv'
  <1> USE NotAWorker DEF IInv, TypeOK
  <1>1. TableTypes' /\ MapTypes' /\ WorkerTypes' /\ BoundTypes'
    BY DEF Load, TableTypes, MapTypes, WorkerTypes, BoundTypes, maps, worker, bounds
  <1> DEFINE r == store[job[c]]
             kind == op[c].kind
             refused == r = NoRow \/ (kind = "resume" /\ r.status \notin Settled)
  <1>2. ASSUME refused PROVE LocalTypes' /\ LocalsInv'
    <2>1. Rest(c) /\ op' = [op EXCEPT ![c] = NoOp] /\ goal' = goal
      BY <1>2 DEF Load, Return, Rest, Goto, Hold, worker
    <2> QED
      BY <2>1, RestLocals DEF Actors
  <1>3. ASSUME ~refused PROVE LocalTypes' /\ LocalsInv'
    <2>1. r \in Row /\ kind \in Ops /\ op[c].prio \in Prios
      BY <1>3 DEF Load, TableTypes, LocalsInv, Sound, Resting, Actors
    <2>2. [r EXCEPT !.prio = op[c].prio] \in Row
      BY <2>1, RowUpdate
    <2>3. CASE kind = "priority"
      <3>1. Hold(c, [r EXCEPT !.prio = op[c].prio]) /\ Goto(c, "save")
        BY <1>3, <2>3 DEF Load, Hold, Goto
      <3>2. pc[c] = "load" /\ UNCHANGED <<job, op, goal>>
        BY <1>3 DEF Load, Hold, Goto, worker
      <3> QED
        BY <2>2, <2>3, <3>1, <3>2, MoveLocals DEF Actors, Control, Resting, Stops
    <2>4. CASE kind = "restart"
      <3>1. Hold(c, NoRow) /\ Goto(c, "mark")
        BY <1>3, <2>4 DEF Load, Hold, Goto
      <3>2. pc[c] = "load" /\ UNCHANGED <<job, op, goal>>
        BY <1>3 DEF Load, Hold, Goto, worker
      <3> QED
        BY <2>4, <3>1, <3>2, MoveLocals DEF Actors, Control, Resting, Copying, Stops
    <2>5. CASE kind \notin {"priority", "restart"}
      <3>1. PICK p \in {"clear", "save", "mark"} : Hold(c, r) /\ Goto(c, p)
        BY <1>3, <2>5 DEF Load, Hold, Goto
      <3>2. pc[c] = "load" /\ UNCHANGED <<job, op, goal>>
        BY <1>3 DEF Load, Hold, Goto, worker
      <3> QED
        BY <2>1, <3>1, <3>2, MoveLocals DEF Actors, Control, Resting
    <2> QED
      BY <2>3, <2>4, <2>5
  <1>4. RegistryInv' /\ RequestsInv'
    BY QuietRegistry DEF Load, Return, Rest, Goto, Hold, LocalTypes, MapTypes, maps, Actors, Running
  <1> QED
    BY <1>1, <1>2, <1>3, <1>4

LEMMA StopMarkStep == ASSUME IInv, NEW c \in Clients, StopMark(c) PROVE IInv'
  <1> USE NotAWorker DEF IInv, TypeOK
  <1>1. job[c] \in Ids /\ row[c] \in Row
    BY DEF StopMark, LocalsInv, Sound, Resting, Stops, Actors
  <1>2. TableTypes' /\ MapTypes' /\ BoundTypes'
    BY <1>1 DEF StopMark, Target, TableTypes, MapTypes, BoundTypes, bounds
  <1>3. WorkerTypes'
    BY DEF StopMark, Abort, WorkerTypes
  <1>4. ASSUME cancels[job[c]] # NoWorker PROVE LocalTypes' /\ LocalsInv'
    <2>1. Rest(c) /\ op' = [op EXCEPT ![c] = NoOp] /\ goal' = goal
      BY <1>4 DEF StopMark, Return, Rest, Goto, Hold
    <2> QED
      BY <2>1, RestLocals DEF Actors
  <1>5. ASSUME cancels[job[c]] = NoWorker PROVE LocalTypes' /\ LocalsInv'
    <2> DEFINE r == [row[c] EXCEPT !.status = Target(op[c].kind)]
    <2>1. r \in Row
      BY <1>1, RowUpdate, Statuses DEF Target
    <2>2. Hold(c, r) /\ Goto(c, "save") /\ UNCHANGED <<job, op, goal>>
      BY <1>5 DEF StopMark, Hold, Goto
    <2> QED
      BY <2>1, <2>2, MoveLocals DEF StopMark, Actors, Control, Resting
  <1>6. RegistryInv' /\ RequestsInv'
    BY QuietRegistry
       DEF StopMark, Return, Rest, Goto, Hold, LocalTypes, MapTypes, Actors, Running
  <1> QED
    BY <1>2, <1>3, <1>4, <1>5, <1>6

LEMMA IdleMarkStep == ASSUME IInv, NEW c \in Clients, IdleMark(c) PROVE IInv'
  <1> USE NotAWorker DEF IInv, TypeOK, IdleMark, Goto, Hold
  <1>1. TableTypes' /\ MapTypes' /\ BoundTypes'
    BY BoundsAssumption, RowUpdate
       DEF TableTypes, MapTypes, BoundTypes, LocalTypes, WorkerTypes, maps, bounds, worker,
           LocalsInv, Sound, Resting, Copying, Actors, NoTicket
  <1>2. LocalTypes' /\ WorkerTypes'
    BY BoundsAssumption, RowUpdate
       DEF TableTypes, MapTypes, LocalTypes, WorkerTypes, worker, Control, Actors, NoTicket,
           LocalsInv, Sound, Resting, Copying, Forcing, Status
  <1>3. Sound(c)'
    BY RowUpdate
       DEF TableTypes, LocalTypes, WorkerTypes, worker, Actors, LocalsInv, Sound,
           Resting, Copying, Stops, Forcing, Settled, Status
  <1>4. LocalsInv'
    BY <1>3, OneActor DEF LocalTypes, WorkerTypes, worker, Actors
  <1>5. RegistryInv' /\ RequestsInv'
    BY QuietRegistry DEF LocalTypes, MapTypes, maps, Actors, Running
  <1> QED
    BY <1>1, <1>2, <1>4, <1>5

LEMMA HandOverStep == ASSUME IInv, NEW c \in Clients, HandOver(c) PROVE IInv'
  <1> USE NotAWorker DEF IInv, TypeOK, HandOver, Abort, Goto, Hold
  <1>1. TableTypes' /\ MapTypes' /\ BoundTypes'
    BY BoundsAssumption, RowUpdate
       DEF TableTypes, MapTypes, BoundTypes, LocalTypes, WorkerTypes, maps, bounds, worker,
           LocalsInv, Sound, Resting, Copying, Actors, NoTicket
  <1>2. LocalTypes' /\ WorkerTypes'
    BY BoundsAssumption, RowUpdate
       DEF TableTypes, MapTypes, LocalTypes, WorkerTypes, worker, Control, Actors, NoTicket,
           LocalsInv, Sound, Resting, Copying, Forcing, Status
  <1>3. Sound(c)'
    BY RowUpdate
       DEF TableTypes, LocalTypes, WorkerTypes, worker, Actors, LocalsInv, Sound,
           Resting, Copying, Stops, Forcing, Settled, Status
  <1>4. LocalsInv'
    BY <1>3, OneActor DEF LocalTypes, WorkerTypes, worker, Actors
  <1>5. RegistryInv' /\ RequestsInv'
    <2>1. \A w \in Workers : pc'[w] = pc[w]
      BY DEF LocalTypes
    <2>2. RegistryInv'
      BY <2>1 DEF RegistryInv, MapTypes
    <2>3. RequestsInv'
      BY DEF RequestsInv, MapTypes
    <2> QED
      BY <2>2, <2>3
  <1> QED
    BY <1>1, <1>2, <1>4, <1>5

LEMMA ReleasedStep == ASSUME IInv, NEW c \in Clients, Released(c) PROVE IInv'
  <1> USE NotAWorker DEF IInv, TypeOK, Released, Return, Rest, NoOp, Goto, Hold
  <1>1. TableTypes' /\ MapTypes' /\ BoundTypes'
    BY BoundsAssumption, RowUpdate
       DEF TableTypes, MapTypes, BoundTypes, LocalTypes, WorkerTypes, maps, bounds, worker,
           LocalsInv, Sound, Resting, Copying, Actors, NoTicket
  <1>2. LocalTypes' /\ WorkerTypes'
    BY BoundsAssumption, RowUpdate
       DEF TableTypes, MapTypes, LocalTypes, WorkerTypes, worker, Control, Actors, NoTicket,
           LocalsInv, Sound, Resting, Copying, Forcing, Status
  <1>3. Sound(c)'
    BY RowUpdate
       DEF TableTypes, LocalTypes, WorkerTypes, worker, Actors, LocalsInv, Sound,
           Resting, Copying, Stops, Forcing, Settled, Status
  <1>4. LocalsInv'
    BY <1>3, OneActor DEF LocalTypes, WorkerTypes, worker, Actors
  <1>5. RegistryInv' /\ RequestsInv'
    BY QuietRegistry DEF LocalTypes, MapTypes, maps, Actors, Running
  <1> QED
    BY <1>1, <1>2, <1>4, <1>5

LEMMA ResumeClearStep == ASSUME IInv, NEW c \in Clients, ResumeClear(c) PROVE IInv'
  <1> USE NotAWorker DEF IInv, TypeOK, ResumeClear, Goto, Hold
  <1>1. TableTypes' /\ MapTypes' /\ BoundTypes'
    BY BoundsAssumption, RowUpdate
       DEF TableTypes, MapTypes, BoundTypes, LocalTypes, WorkerTypes, maps, bounds, worker,
           LocalsInv, Sound, Resting, Copying, Actors, NoTicket
  <1>2. LocalTypes' /\ WorkerTypes'
    BY BoundsAssumption, RowUpdate
       DEF TableTypes, MapTypes, LocalTypes, WorkerTypes, worker, Control, Actors, NoTicket,
           LocalsInv, Sound, Resting, Copying, Forcing, Status
  <1>3. Sound(c)'
    BY RowUpdate
       DEF TableTypes, LocalTypes, WorkerTypes, worker, Actors, LocalsInv, Sound,
           Resting, Copying, Stops, Forcing, Settled, Status
  <1>4. LocalsInv'
    BY <1>3, OneActor DEF LocalTypes, WorkerTypes, worker, Actors
  <1>5. RegistryInv' /\ RequestsInv'
    BY QuietRegistry DEF LocalTypes, MapTypes, maps, Actors, Running
  <1> QED
    BY <1>1, <1>2, <1>4, <1>5

LEMMA SaveStep == ASSUME IInv, NEW c \in Clients, Save(c) PROVE IInv'
  <1> USE NotAWorker DEF IInv, TypeOK, Save, Put, Return, Rest, NoOp, Goto, Hold
  <1>1. TableTypes' /\ MapTypes' /\ BoundTypes'
    BY BoundsAssumption, RowUpdate
       DEF TableTypes, MapTypes, BoundTypes, LocalTypes, WorkerTypes, maps, bounds, worker,
           LocalsInv, Sound, Resting, Copying, Actors, NoTicket
  <1>2. LocalTypes' /\ WorkerTypes'
    <2>1. WorkerTypes'
      BY DEF WorkerTypes, worker
    <2>2. CASE Rest(c)
      BY <2>1, <2>2, RestLocals DEF Actors, worker
    <2>3. CASE ~Rest(c)
      <3>1. UNCHANGED <<job, row, op>> /\ \E p \in {"reorder", "enqueue"} : Goto(c, p)
        BY <2>3
      <3> QED
        BY <2>1, <3>1 DEF LocalTypes, Control
    <2> QED
      BY <2>2, <2>3
  <1>3. Sound(c)'
    BY RowUpdate
       DEF TableTypes, LocalTypes, WorkerTypes, worker, Actors, LocalsInv, Sound,
           Resting, Copying, Stops, Forcing, Settled, Status
  <1>4. LocalsInv'
    BY <1>3, OneActor DEF LocalTypes, WorkerTypes, worker, Actors
  <1>5. RegistryInv' /\ RequestsInv'
    BY QuietRegistry DEF LocalTypes, MapTypes, maps, Actors, Running
  <1> QED
    BY <1>1, <1>2, <1>4, <1>5

LEMMA EnqueueStep == ASSUME IInv, NEW c \in Clients, Enqueue(c) PROVE IInv'
  <1> USE NotAWorker DEF IInv, TypeOK, Enqueue, Return, Rest, NoOp, Goto, Hold
  <1>1. TableTypes' /\ MapTypes' /\ BoundTypes'
    <2>1. pending' \in Seq([id : Ids, prio : Prios])
      BY QueueTypes DEF Copying, Actors
    <2> QED
      BY <2>1 DEF TableTypes, MapTypes, BoundTypes, maps, bounds
  <1>2. LocalTypes' /\ WorkerTypes'
    BY BoundsAssumption, RowUpdate
       DEF TableTypes, MapTypes, LocalTypes, WorkerTypes, worker, Control, Actors, NoTicket,
           LocalsInv, Sound, Resting, Copying, Forcing, Status
  <1>3. Sound(c)'
    BY RowUpdate
       DEF TableTypes, LocalTypes, WorkerTypes, worker, Actors, LocalsInv, Sound,
           Resting, Copying, Stops, Forcing, Settled, Status
  <1>4. LocalsInv'
    BY <1>3, OneActor DEF LocalTypes, WorkerTypes, worker, Actors
  <1>5. RegistryInv' /\ RequestsInv'
    BY QuietRegistry DEF LocalTypes, MapTypes, maps, Actors, Running
  <1> QED
    BY <1>1, <1>2, <1>4, <1>5

LEMMA ReorderStep == ASSUME IInv, NEW c \in Clients, Reorder(c) PROVE IInv'
  <1> USE NotAWorker DEF IInv, TypeOK, Reorder, Return, Rest, NoOp, Goto, Hold
  <1>1. TableTypes' /\ MapTypes' /\ BoundTypes'
    <2>1. op[c].prio \in Prios
      BY DEF LocalsInv, Sound, Actors
    <2>2. ASSUME NEW n \in DOMAIN pending
          PROVE  [pending EXCEPT ![n].prio = op[c].prio] \in Seq([id : Ids, prio : Prios])
      <3>1. pending \in Seq([id : Ids, prio : Prios]) /\ n \in 1 .. Len(pending)
        BY <2>2, LenProperties DEF TableTypes
      <3>2. [pending[n] EXCEPT !.prio = op[c].prio] \in [id : Ids, prio : Prios]
        <4>1. pending[n] \in [id : Ids, prio : Prios]
          BY <3>1, ElementOfSeq
        <4> QED
          BY <2>1, <4>1
      <3> QED
        BY <3>1, <3>2, ExceptSeq
    <2>3. pending' \in Seq([id : Ids, prio : Prios])
      BY <2>2 DEF TableTypes
    <2> QED
      BY <2>3 DEF TableTypes, MapTypes, BoundTypes, maps, bounds
  <1>2. LocalTypes' /\ WorkerTypes'
    <2>1. WorkerTypes'
      BY DEF WorkerTypes, worker
    <2>2. LocalTypes'
      BY BoundsAssumption DEF LocalTypes, Control, Actors, NoTicket
    <2> QED
      BY <2>1, <2>2
  <1>3. Sound(c)'
    BY RowUpdate
       DEF TableTypes, LocalTypes, WorkerTypes, worker, Actors, LocalsInv, Sound,
           Resting, Copying, Stops, Forcing, Settled, Status
  <1>4. LocalsInv'
    BY <1>3, OneActor DEF LocalTypes, WorkerTypes, worker, Actors
  <1>5. RegistryInv' /\ RequestsInv'
    BY QuietRegistry DEF LocalTypes, MapTypes, maps, Actors, Running
  <1> QED
    BY <1>1, <1>2, <1>4, <1>5

LEMMA RemoveIdleStep == ASSUME IInv, NEW c \in Clients, RemoveIdle(c) PROVE IInv'
  <1> USE NotAWorker DEF IInv, TypeOK, RemoveIdle, Put, Return, Rest, NoOp, Goto, Hold
  <1>1. TableTypes' /\ MapTypes' /\ BoundTypes'
    BY BoundsAssumption, RowUpdate
       DEF TableTypes, MapTypes, BoundTypes, LocalTypes, WorkerTypes, maps, bounds, worker,
           LocalsInv, Sound, Resting, Copying, Actors, NoTicket
  <1>2. LocalTypes' /\ WorkerTypes'
    BY BoundsAssumption, RowUpdate
       DEF TableTypes, MapTypes, LocalTypes, WorkerTypes, worker, Control, Actors, NoTicket,
           LocalsInv, Sound, Resting, Copying, Forcing, Status
  <1>3. Sound(c)'
    BY RowUpdate
       DEF TableTypes, LocalTypes, WorkerTypes, worker, Actors, LocalsInv, Sound,
           Resting, Copying, Stops, Forcing, Settled, Status
  <1>4. LocalsInv'
    BY <1>3, OneActor DEF LocalTypes, WorkerTypes, worker, Actors
  <1>5. RegistryInv' /\ RequestsInv'
    BY QuietRegistry DEF LocalTypes, MapTypes, maps, Actors, Running
  <1> QED
    BY <1>1, <1>2, <1>4, <1>5

LEMMA CallAbortsStep == ASSUME IInv, NEW c \in Clients, CallAborts(c) PROVE IInv'
  <1> USE NotAWorker DEF IInv, TypeOK, CallAborts, Return, Rest, NoOp, Goto, Hold
  <1>1. TableTypes' /\ MapTypes' /\ BoundTypes'
    BY BoundsAssumption, RowUpdate
       DEF TableTypes, MapTypes, BoundTypes, LocalTypes, WorkerTypes, maps, bounds, worker,
           LocalsInv, Sound, Resting, Copying, Actors, NoTicket
  <1>2. LocalTypes' /\ WorkerTypes'
    BY BoundsAssumption, RowUpdate
       DEF TableTypes, MapTypes, LocalTypes, WorkerTypes, worker, Control, Actors, NoTicket,
           LocalsInv, Sound, Resting, Copying, Forcing, Status
  <1>3. Sound(c)'
    BY RowUpdate
       DEF TableTypes, LocalTypes, WorkerTypes, worker, Actors, LocalsInv, Sound,
           Resting, Copying, Stops, Forcing, Settled, Status
  <1>4. LocalsInv'
    BY <1>3, OneActor DEF LocalTypes, WorkerTypes, worker, Actors
  <1>5. RegistryInv' /\ RequestsInv'
    BY QuietRegistry DEF LocalTypes, MapTypes, maps, Actors, Running
  <1> QED
    BY <1>1, <1>2, <1>4, <1>5

LEMMA CallFailsStep == ASSUME IInv, NEW c \in Clients, CallFails(c) PROVE IInv'
  <1> USE NotAWorker DEF IInv, TypeOK, CallFails, Return, Rest, NoOp, Goto, Hold
  <1>1. TableTypes' /\ MapTypes' /\ BoundTypes'
    <2>1. BoundTypes'
      BY FaultCounted DEF BoundTypes
    <2>2. TableTypes' /\ MapTypes'
      BY DEF TableTypes, MapTypes, maps
    <2> QED
      BY <2>1, <2>2
  <1>2. LocalTypes' /\ WorkerTypes'
    BY BoundsAssumption, RowUpdate
       DEF TableTypes, MapTypes, LocalTypes, WorkerTypes, worker, Control, Actors, NoTicket,
           LocalsInv, Sound, Resting, Copying, Forcing, Status
  <1>3. Sound(c)'
    BY RowUpdate
       DEF TableTypes, LocalTypes, WorkerTypes, worker, Actors, LocalsInv, Sound,
           Resting, Copying, Stops, Forcing, Settled, Status
  <1>4. LocalsInv'
    BY <1>3, OneActor DEF LocalTypes, WorkerTypes, worker, Actors
  <1>5. RegistryInv' /\ RequestsInv'
    BY QuietRegistry DEF LocalTypes, MapTypes, maps, Actors, Running
  <1> QED
    BY <1>1, <1>2, <1>4, <1>5

LEMMA ResetLoadStep == ASSUME IInv, NEW a \in Actors, ResetLoad(a) PROVE IInv'
  <1> USE NotAWorker DEF IInv, TypeOK
  <1>1. TableTypes' /\ MapTypes' /\ WorkerTypes' /\ BoundTypes'
    BY DEF ResetLoad, Done, Actors, TableTypes, MapTypes, WorkerTypes, BoundTypes, maps, bounds
  <1>2. ASSUME store[job[a]] = NoRow PROVE LocalTypes' /\ LocalsInv'
    <2>1. Rest(a) /\ goal' = goal
      BY <1>2 DEF ResetLoad, Done, Rest, Goto, Hold
    <2>2. op' = op \/ (a \in Clients /\ op' = [op EXCEPT ![a] = NoOp])
      BY <1>2 DEF ResetLoad, Done
    <2> QED
      BY <2>1, <2>2, RestLocals
  <1>3. ASSUME store[job[a]] # NoRow PROVE LocalTypes' /\ LocalsInv'
    <2> DEFINE r == [store[job[a]] EXCEPT !.status = "queued"]
    <2>1. store[job[a]] \in Row
      BY <1>3 DEF ResetLoad, TableTypes, LocalsInv, Sound, Resting
    <2>2. r \in Row
      BY <2>1, RowUpdate, Statuses
    <2>3. Hold(a, r) /\ Goto(a, "rewrite") /\ UNCHANGED <<job, op, goal>>
      BY <1>3 DEF ResetLoad, Hold, Goto
    <2> QED
      BY <2>2, <2>3, MoveLocals DEF ResetLoad, Control, Resting, Forcing
  <1>4. RegistryInv' /\ RequestsInv'
    BY QuietRegistry
       DEF ResetLoad, Done, Rest, Goto, Hold, LocalTypes, MapTypes, maps, Actors, Running
  <1> QED
    BY <1>1, <1>2, <1>3, <1>4

LEMMA ResetSaveStep == ASSUME IInv, NEW a \in Actors, ResetSave(a) PROVE IInv'
  <1> USE NotAWorker DEF IInv, TypeOK, ResetSave, Put, Goto, Hold
  <1>1. TableTypes' /\ MapTypes' /\ BoundTypes'
    BY BoundsAssumption, RowUpdate
       DEF TableTypes, MapTypes, BoundTypes, LocalTypes, WorkerTypes, maps, bounds, worker,
           LocalsInv, Sound, Resting, Copying, Actors, NoTicket
  <1>2. LocalTypes' /\ WorkerTypes'
    BY BoundsAssumption, RowUpdate
       DEF TableTypes, MapTypes, LocalTypes, WorkerTypes, worker, Control, Actors, NoTicket,
           LocalsInv, Sound, Resting, Copying, Forcing, Status
  <1>3. Sound(a)'
    BY RowUpdate
       DEF TableTypes, LocalTypes, WorkerTypes, worker, Actors, LocalsInv, Sound,
           Resting, Copying, Stops, Forcing, Settled, Status
  <1>4. LocalsInv'
    BY <1>3, OneActor DEF LocalTypes, WorkerTypes, worker, Actors
  <1>5. RegistryInv' /\ RequestsInv'
    BY QuietRegistry DEF LocalTypes, MapTypes, maps, Actors, Running
  <1> QED
    BY <1>1, <1>2, <1>4, <1>5

LEMMA ResetQueueStep == ASSUME IInv, NEW a \in Actors, ResetQueue(a) PROVE IInv'
  <1> USE NotAWorker DEF IInv, TypeOK
  <1>1. pending' \in Seq([id : Ids, prio : Prios])
    BY QueueTypes DEF ResetQueue, Copying
  <1>2. TableTypes' /\ BoundTypes'
    BY <1>1 DEF ResetQueue, TableTypes, BoundTypes, bounds
  <1>3. MapTypes' /\ WorkerTypes'
    BY DEF ResetQueue, Done, Actors, MapTypes, WorkerTypes
  <1>4. LocalTypes' /\ LocalsInv'
    BY RestLocals DEF ResetQueue, Done
  <1>5. RegistryInv' /\ RequestsInv'
    BY QuietRegistry
       DEF ResetQueue, Done, Rest, Goto, Hold, LocalTypes, MapTypes, Actors, Running
  <1> QED
    BY <1>2, <1>3, <1>4, <1>5

LEMMA PopStep == ASSUME IInv, NEW w \in Workers, Pop(w) PROVE IInv'
  <1> USE NotAWorker DEF IInv, TypeOK
  <1>1. PICK n \in DOMAIN pending :
          job' = [job EXCEPT ![w] = pending[n].id] /\ pending' = RemoveAt(pending, n)
    BY DEF Pop
  <1>2. pending \in Seq([id : Ids, prio : Prios]) /\ n \in 1 .. Len(pending)
    BY <1>1, LenProperties DEF TableTypes
  <1>3. pending[n].id \in Ids
    <2>1. pending[n] \in [id : Ids, prio : Prios]
      BY <1>2, ElementOfSeq
    <2> QED
      BY <2>1
  <1>4. RemoveAt(pending, n) \in Seq([id : Ids, prio : Prios])
    <2>1. \A k \in 1 .. Len(pending) : pending[k] \in [id : Ids, prio : Prios]
      BY <1>2, ElementOfSeq
    <2>2. Len(pending) \in Nat
      BY <1>2, LenProperties
    <2>3. SubSeq(pending, 1, n - 1) \in Seq([id : Ids, prio : Prios])
      BY <1>2, <2>1, <2>2, SubSeqProperties
    <2>4. SubSeq(pending, n + 1, Len(pending)) \in Seq([id : Ids, prio : Prios])
      BY <1>2, <2>1, <2>2, SubSeqProperties
    <2> QED
      BY <2>3, <2>4, ConcatProperties DEF RemoveAt
  <1>5. TableTypes' /\ MapTypes' /\ WorkerTypes' /\ BoundTypes'
    BY <1>1, <1>4 DEF Pop, TableTypes, MapTypes, WorkerTypes, BoundTypes, maps, worker, bounds
  <1>6. LocalTypes'
    BY <1>1, <1>3 DEF Pop, Goto, LocalTypes, Control, Actors
  <1>7. Sound(w)'
    BY <1>1, <1>3 DEF Pop, Goto, LocalTypes, Actors, Sound, Resting, Copying, Forcing
  <1>8. LocalsInv'
    BY <1>1, <1>7, OneActor DEF Pop, Goto, LocalTypes, Actors, worker
  <1>9. RegistryInv' /\ RequestsInv'
    BY <1>1, QuietRegistry DEF Pop, Goto, LocalTypes, MapTypes, maps, Actors, Running
  <1> QED
    BY <1>5, <1>6, <1>8, <1>9

LEMMA LeaveStep == ASSUME IInv, NEW w \in Workers, Leave(w) PROVE IInv'
  <1> USE NotAWorker DEF IInv, TypeOK, Leave, Goto, Hold
  <1>1. TableTypes' /\ MapTypes' /\ BoundTypes'
    BY BoundsAssumption, RowUpdate
       DEF TableTypes, MapTypes, BoundTypes, LocalTypes, WorkerTypes, maps, bounds, worker,
           LocalsInv, Sound, Resting, Copying, Actors, NoTicket
  <1>2. LocalTypes' /\ WorkerTypes'
    BY BoundsAssumption, RowUpdate
       DEF TableTypes, MapTypes, LocalTypes, WorkerTypes, worker, Control, Actors, NoTicket,
           LocalsInv, Sound, Resting, Copying, Forcing, Status
  <1>3. Sound(w)'
    BY RowUpdate
       DEF TableTypes, LocalTypes, WorkerTypes, worker, Actors, LocalsInv, Sound,
           Resting, Copying, Stops, Forcing, Settled, Status
  <1>4. LocalsInv'
    BY <1>3, OneActor DEF LocalTypes, WorkerTypes, worker, Actors
  <1>5. RegistryInv' /\ RequestsInv'
    BY QuietRegistry DEF LocalTypes, MapTypes, maps, Actors, Running
  <1> QED
    BY <1>1, <1>2, <1>4, <1>5

LEMMA RunLoadStep == ASSUME IInv, NEW w \in Workers, RunLoad(w) PROVE IInv'
  <1> USE NotAWorker DEF IInv, TypeOK
  <1>1. TableTypes' /\ MapTypes' /\ WorkerTypes' /\ BoundTypes'
    BY DEF RunLoad, TableTypes, MapTypes, WorkerTypes, BoundTypes, maps, worker, bounds
  <1> DEFINE r == store[job[w]]
             refused == Closed \/ r = NoRow \/ r.status = "completed"
  <1>2. ASSUME refused PROVE LocalTypes' /\ LocalsInv'
    <2>1. Rest(w) /\ UNCHANGED <<op, goal>>
      BY <1>2 DEF RunLoad, Rest, Goto, Hold, worker
    <2> QED
      BY <2>1, RestLocals DEF Actors
  <1>3. ASSUME ~refused PROVE LocalTypes' /\ LocalsInv'
    <2>1. r \in Row
      BY <1>3 DEF RunLoad, TableTypes, LocalsInv, Sound, Resting, Actors
    <2>2. Hold(w, r) /\ Goto(w, "register") /\ UNCHANGED <<job, op, goal>>
      BY <1>3 DEF RunLoad, Hold, Goto, worker
    <2> QED
      BY <2>1, <2>2, MoveLocals DEF RunLoad, Actors, Control, Resting, Forcing
  <1>4. RegistryInv' /\ RequestsInv'
    BY QuietRegistry DEF RunLoad, Rest, Goto, Hold, LocalTypes, MapTypes, maps, Actors, Running
  <1> QED
    BY <1>1, <1>2, <1>3, <1>4

LEMMA RegisterStep == ASSUME IInv, NEW w \in Workers, Register(w) PROVE IInv'
  <1> USE NotAWorker DEF IInv, TypeOK
  <1>1. job[w] \in Ids /\ row[w] \in Row
    BY DEF Register, LocalsInv, Sound, Resting, Copying, Actors
  <1>2. TableTypes' /\ BoundTypes'
    BY DEF Register, TableTypes, BoundTypes, bounds
  <1>3. MapTypes'
    BY DEF Register, MapTypes
  <1>4. WorkerTypes'
    BY <1>1 DEF Register, WorkerTypes, MapTypes
  <1>5. CASE Closed \/ cancels[job[w]] # NoWorker
    <2>1. Rest(w) /\ UNCHANGED <<cancels, deleting, restarting, op, goal>>
      BY <1>5 DEF Register
    <2>2. LocalTypes' /\ LocalsInv'
      BY <2>1, RestLocals DEF Actors
    <2>3. RegistryInv' /\ RequestsInv'
      BY <2>1, QuietRegistry
         DEF Register, Rest, Goto, Hold, LocalTypes, MapTypes, Actors, Running
    <2> QED
      BY <1>2, <1>3, <1>4, <2>2, <2>3
  <1>6. CASE ~Closed /\ cancels[job[w]] = NoWorker
    <2>1. PICK p \in {"active", "finish"} : Goto(w, p)
      BY <1>6 DEF Register
    <2>2. /\ cancels' = [cancels EXCEPT ![job[w]] = w]
          /\ UNCHANGED <<job, row, op, deleting, restarting>>
          /\ \A v \in Workers : v # w => goal'[v] = goal[v]
      BY <1>6 DEF Register, WorkerTypes
    <2>3. Hold(w, row[w])
      BY <2>2 DEF Hold, LocalTypes
    <2>4. LocalTypes' /\ LocalsInv'
      BY <1>1, <2>1, <2>2, <2>3, MoveLocals
         DEF Register, Actors, Control, Resting, Forcing
    <2>5. /\ \A v \in Workers : v # w => pc'[v] = pc[v]
          /\ pc'[w] \in Running
      BY <2>1 DEF Goto, LocalTypes, Actors, Running
    <2>6. RegistryInv'
      BY <1>1, <1>6, <2>2, <2>5
         DEF RegistryInv, MapTypes, LocalsInv, Sound, Resting, Running, Actors
    <2>7. RequestsInv'
      BY <1>1, <2>2 DEF RequestsInv, MapTypes
    <2> QED
      BY <1>2, <1>3, <1>4, <2>4, <2>6, <2>7
  <1> QED
    BY <1>5, <1>6

LEMMA PersistActiveStep == ASSUME IInv, NEW w \in Workers, PersistActive(w) PROVE IInv'
  <1> USE NotAWorker DEF IInv, TypeOK, PersistActive, Put, Goto, Hold
  <1>0. [row[w] EXCEPT !.status = "active"] \in Row /\ job[w] \in Ids
    BY RowUpdate, Statuses DEF LocalsInv, Sound, Copying, Resting, Actors
  <1>a. "run" \in Control
    BY DEF Control
  <1>1. TableTypes' /\ MapTypes' /\ BoundTypes'
    BY <1>0 DEF TableTypes, MapTypes, BoundTypes, maps, bounds
  <1>2. WorkerTypes'
    BY DEF WorkerTypes, worker
  <1>4. LocalTypes' /\ LocalsInv'
    BY <1>0, <1>a, MoveLocals DEF Actors, Resting, Forcing, worker
  <1>5. RegistryInv' /\ RequestsInv'
    BY QuietRegistry DEF LocalTypes, MapTypes, maps, Actors, Running
  <1> QED
    BY <1>1, <1>2, <1>4, <1>5

LEMMA RunAbortsStep == ASSUME IInv, NEW w \in Workers, RunAborts(w) PROVE IInv'
  <1> USE NotAWorker DEF IInv, TypeOK, RunAborts, EndRun, Goto, Hold
  <1>1. TableTypes' /\ MapTypes' /\ BoundTypes'
    BY BoundsAssumption, RowUpdate
       DEF TableTypes, MapTypes, BoundTypes, LocalTypes, WorkerTypes, maps, bounds, worker,
           LocalsInv, Sound, Resting, Copying, Actors, NoTicket
  <1>2. LocalTypes' /\ WorkerTypes'
    BY BoundsAssumption, RowUpdate
       DEF TableTypes, MapTypes, LocalTypes, WorkerTypes, worker, Control, Actors, NoTicket,
           LocalsInv, Sound, Resting, Copying, Forcing, Status
  <1>3. Sound(w)'
    BY RowUpdate
       DEF TableTypes, LocalTypes, WorkerTypes, worker, Actors, LocalsInv, Sound,
           Resting, Copying, Stops, Forcing, Settled, Status
  <1>4. LocalsInv'
    BY <1>3, OneActor DEF LocalTypes, WorkerTypes, worker, Actors
  <1>5. RegistryInv' /\ RequestsInv'
    BY QuietRegistry DEF LocalTypes, MapTypes, maps, Actors, Running
  <1> QED
    BY <1>1, <1>2, <1>4, <1>5

LEMMA PersistRunStep == ASSUME IInv, NEW w \in Workers, PersistRun(w) PROVE IInv'
  <1> USE NotAWorker DEF IInv, TypeOK, PersistRun, Put, Goto, Hold
  <1>1. TableTypes' /\ MapTypes' /\ BoundTypes'
    BY BoundsAssumption, RowUpdate
       DEF TableTypes, MapTypes, BoundTypes, LocalTypes, WorkerTypes, maps, bounds, worker,
           LocalsInv, Sound, Resting, Copying, Actors, NoTicket
  <1>2. LocalTypes' /\ WorkerTypes'
    BY BoundsAssumption, RowUpdate
       DEF TableTypes, MapTypes, LocalTypes, WorkerTypes, worker, Control, Actors, NoTicket,
           LocalsInv, Sound, Resting, Copying, Forcing, Status
  <1>3. Sound(w)'
    BY RowUpdate
       DEF TableTypes, LocalTypes, WorkerTypes, worker, Actors, LocalsInv, Sound,
           Resting, Copying, Stops, Forcing, Settled, Status
  <1>4. LocalsInv'
    BY <1>3, OneActor DEF LocalTypes, WorkerTypes, worker, Actors
  <1>5. RegistryInv' /\ RequestsInv'
    BY QuietRegistry DEF LocalTypes, MapTypes, maps, Actors, Running
  <1> QED
    BY <1>1, <1>2, <1>4, <1>5

LEMMA TransferFailsStep == ASSUME IInv, NEW w \in Workers, TransferFails(w) PROVE IInv'
  <1> USE NotAWorker DEF IInv, TypeOK, TransferFails, EndRun, Put, Goto, Hold
  <1>0. [row[w] EXCEPT !.status = "failed"] \in Row /\ job[w] \in Ids
    BY RowUpdate, Statuses DEF LocalsInv, Sound, Copying, Resting, Actors
  <1>1. TableTypes' /\ MapTypes' /\ BoundTypes'
    BY <1>0 DEF TableTypes, MapTypes, BoundTypes, maps, bounds
  <1>2. LocalTypes' /\ WorkerTypes'
    BY BoundsAssumption, RowUpdate
       DEF TableTypes, MapTypes, LocalTypes, WorkerTypes, worker, Control, Actors, NoTicket,
           LocalsInv, Sound, Resting, Copying, Forcing, Status
  <1>3. Sound(w)'
    BY RowUpdate
       DEF TableTypes, LocalTypes, WorkerTypes, worker, Actors, LocalsInv, Sound,
           Resting, Copying, Stops, Forcing, Settled, Status
  <1>4. LocalsInv'
    BY <1>3, OneActor DEF LocalTypes, WorkerTypes, worker, Actors
  <1>5. RegistryInv' /\ RequestsInv'
    BY QuietRegistry DEF LocalTypes, MapTypes, maps, Actors, Running
  <1> QED
    BY <1>1, <1>2, <1>4, <1>5

LEMMA TransferCompletesStep == ASSUME IInv, NEW w \in Workers, TransferCompletes(w) PROVE IInv'
  <1> USE NotAWorker DEF IInv, TypeOK, TransferCompletes, Goto, Hold
  <1>1. TableTypes' /\ MapTypes' /\ BoundTypes'
    BY BoundsAssumption, RowUpdate
       DEF TableTypes, MapTypes, BoundTypes, LocalTypes, WorkerTypes, maps, bounds, worker,
           LocalsInv, Sound, Resting, Copying, Actors, NoTicket
  <1>2. LocalTypes' /\ WorkerTypes'
    BY BoundsAssumption, RowUpdate
       DEF TableTypes, MapTypes, LocalTypes, WorkerTypes, worker, Control, Actors, NoTicket,
           LocalsInv, Sound, Resting, Copying, Forcing, Status
  <1>3. Sound(w)'
    BY RowUpdate
       DEF TableTypes, LocalTypes, WorkerTypes, worker, Actors, LocalsInv, Sound,
           Resting, Copying, Stops, Forcing, Settled, Status
  <1>4. LocalsInv'
    BY <1>3, OneActor DEF LocalTypes, WorkerTypes, worker, Actors
  <1>5. RegistryInv' /\ RequestsInv'
    BY QuietRegistry DEF LocalTypes, MapTypes, maps, Actors, Running
  <1> QED
    BY <1>1, <1>2, <1>4, <1>5

LEMMA PersistCompletedStep == ASSUME IInv, NEW w \in Workers, PersistCompleted(w) PROVE IInv'
  <1> USE NotAWorker DEF IInv, TypeOK, PersistCompleted, EndRun, Put, Goto, Hold
  <1>0. [row[w] EXCEPT !.status = "completed"] \in Row /\ job[w] \in Ids
    BY RowUpdate, Statuses DEF LocalsInv, Sound, Copying, Resting, Actors
  <1>1. TableTypes' /\ MapTypes' /\ BoundTypes'
    BY <1>0 DEF TableTypes, MapTypes, BoundTypes, maps, bounds
  <1>2. LocalTypes' /\ WorkerTypes'
    BY BoundsAssumption, RowUpdate
       DEF TableTypes, MapTypes, LocalTypes, WorkerTypes, worker, Control, Actors, NoTicket,
           LocalsInv, Sound, Resting, Copying, Forcing, Status
  <1>3. Sound(w)'
    BY RowUpdate
       DEF TableTypes, LocalTypes, WorkerTypes, worker, Actors, LocalsInv, Sound,
           Resting, Copying, Stops, Forcing, Settled, Status
  <1>4. LocalsInv'
    BY <1>3, OneActor DEF LocalTypes, WorkerTypes, worker, Actors
  <1>5. RegistryInv' /\ RequestsInv'
    BY QuietRegistry DEF LocalTypes, MapTypes, maps, Actors, Running
  <1> QED
    BY <1>1, <1>2, <1>4, <1>5

LEMMA CompletionLostStep == ASSUME IInv, NEW w \in Workers, CompletionLost(w) PROVE IInv'
  <1> USE NotAWorker DEF IInv, TypeOK, CompletionLost, EndRun, Goto, Hold
  <1>1. TableTypes' /\ MapTypes' /\ BoundTypes'
    BY BoundsAssumption, RowUpdate
       DEF TableTypes, MapTypes, BoundTypes, LocalTypes, WorkerTypes, maps, bounds, worker,
           LocalsInv, Sound, Resting, Copying, Actors, NoTicket
  <1>2. LocalTypes' /\ WorkerTypes'
    BY BoundsAssumption, RowUpdate
       DEF TableTypes, MapTypes, LocalTypes, WorkerTypes, worker, Control, Actors, NoTicket,
           LocalsInv, Sound, Resting, Copying, Forcing, Status
  <1>3. Sound(w)'
    BY RowUpdate
       DEF TableTypes, LocalTypes, WorkerTypes, worker, Actors, LocalsInv, Sound,
           Resting, Copying, Stops, Forcing, Settled, Status
  <1>4. LocalsInv'
    BY <1>3, OneActor DEF LocalTypes, WorkerTypes, worker, Actors
  <1>5. RegistryInv' /\ RequestsInv'
    BY QuietRegistry DEF LocalTypes, MapTypes, maps, Actors, Running
  <1> QED
    BY <1>1, <1>2, <1>4, <1>5

LEMMA RemoveRecordStep == ASSUME IInv, NEW w \in Workers, RemoveRecord(w) PROVE IInv'
  <1> USE NotAWorker DEF IInv, TypeOK, RemoveRecord, Put, Done, Rest, NoOp, Goto, Hold
  <1>1. TableTypes' /\ MapTypes' /\ BoundTypes'
    BY BoundsAssumption, RowUpdate
       DEF TableTypes, MapTypes, BoundTypes, LocalTypes, WorkerTypes, maps, bounds, worker,
           LocalsInv, Sound, Resting, Copying, Actors, NoTicket
  <1>2. LocalTypes' /\ WorkerTypes'
    BY BoundsAssumption, RowUpdate
       DEF TableTypes, MapTypes, LocalTypes, WorkerTypes, worker, Control, Actors, NoTicket,
           LocalsInv, Sound, Resting, Copying, Forcing, Status
  <1>3. Sound(w)'
    BY RowUpdate
       DEF TableTypes, LocalTypes, WorkerTypes, worker, Actors, LocalsInv, Sound,
           Resting, Copying, Stops, Forcing, Settled, Status
  <1>4. LocalsInv'
    BY <1>3, OneActor DEF LocalTypes, WorkerTypes, worker, Actors
  <1>5. RegistryInv' /\ RequestsInv'
    BY QuietRegistry DEF LocalTypes, MapTypes, maps, Actors, Running
  <1> QED
    BY <1>1, <1>2, <1>4, <1>5

LEMMA OverrideLoadStep == ASSUME IInv, NEW w \in Workers, OverrideLoad(w) PROVE IInv'
  <1> USE NotAWorker DEF IInv, TypeOK
  <1>1. TableTypes' /\ MapTypes' /\ BoundTypes'
    BY DEF OverrideLoad, TableTypes, MapTypes, BoundTypes, maps, bounds
  <1>2. WorkerTypes'
    BY BoundsAssumption DEF OverrideLoad, WorkerTypes
  <1>3. ASSUME store[job[w]] = NoRow PROVE LocalTypes' /\ LocalsInv'
    <2>1. Rest(w) /\ op' = op /\ goal' = [goal EXCEPT ![w] = "none"]
      BY <1>3 DEF OverrideLoad, Rest, Goto, Hold
    <2> QED
      BY <2>1, RestLocals DEF WorkerTypes, Actors
  <1>4. ASSUME store[job[w]] # NoRow PROVE LocalTypes' /\ LocalsInv'
    <2> DEFINE r == [store[job[w]] EXCEPT !.status = goal[w]]
    <2>1. store[job[w]] \in Row /\ goal[w] \in Status /\ goal[w] # "none"
      BY <1>4, Statuses
         DEF OverrideLoad, TableTypes, WorkerTypes, LocalsInv, Sound, Resting, Forcing, Actors
    <2>2. r \in Row
      BY <2>1, RowUpdate
    <2>3. Hold(w, r) /\ Goto(w, "force") /\ UNCHANGED <<job, op, goal>>
      BY <1>4 DEF OverrideLoad, Hold, Goto
    <2> QED
      BY <2>1, <2>2, <2>3, MoveLocals DEF OverrideLoad, Actors, Control, Resting
  <1>5. RegistryInv' /\ RequestsInv'
    BY QuietRegistry
       DEF OverrideLoad, Rest, Goto, Hold, LocalTypes, MapTypes, maps, Actors, Running
  <1> QED
    BY <1>1, <1>2, <1>3, <1>4, <1>5

LEMMA OverrideSaveStep == ASSUME IInv, NEW w \in Workers, OverrideSave(w) PROVE IInv'
  <1> USE NotAWorker DEF IInv, TypeOK, OverrideSave, Put, Rest, Goto, Hold
  <1>1. TableTypes' /\ MapTypes' /\ BoundTypes'
    BY BoundsAssumption, RowUpdate
       DEF TableTypes, MapTypes, BoundTypes, LocalTypes, WorkerTypes, maps, bounds, worker,
           LocalsInv, Sound, Resting, Copying, Actors, NoTicket
  <1>2. LocalTypes' /\ WorkerTypes'
    BY BoundsAssumption, RowUpdate
       DEF TableTypes, MapTypes, LocalTypes, WorkerTypes, worker, Control, Actors, NoTicket,
           LocalsInv, Sound, Resting, Copying, Forcing, Status
  <1>3. Sound(w)'
    BY RowUpdate
       DEF TableTypes, LocalTypes, WorkerTypes, worker, Actors, LocalsInv, Sound,
           Resting, Copying, Stops, Forcing, Settled, Status
  <1>4. LocalsInv'
    BY <1>3, OneActor DEF LocalTypes, WorkerTypes, worker, Actors
  <1>5. RegistryInv' /\ RequestsInv'
    BY QuietRegistry DEF LocalTypes, MapTypes, maps, Actors, Running
  <1> QED
    BY <1>1, <1>2, <1>4, <1>5

LEMMA RunLoadFailsStep == ASSUME IInv, NEW w \in Workers, RunLoadFails(w) PROVE IInv'
  <1> USE NotAWorker DEF IInv, TypeOK, RunLoadFails, Rest, Goto, Hold
  <1>1. TableTypes' /\ MapTypes' /\ BoundTypes'
    <2>1. BoundTypes'
      BY FaultCounted DEF BoundTypes
    <2>2. TableTypes' /\ MapTypes'
      BY DEF TableTypes, MapTypes, maps
    <2> QED
      BY <2>1, <2>2
  <1>2. LocalTypes' /\ WorkerTypes'
    BY BoundsAssumption, RowUpdate
       DEF TableTypes, MapTypes, LocalTypes, WorkerTypes, worker, Control, Actors, NoTicket,
           LocalsInv, Sound, Resting, Copying, Forcing, Status
  <1>3. Sound(w)'
    BY RowUpdate
       DEF TableTypes, LocalTypes, WorkerTypes, worker, Actors, LocalsInv, Sound,
           Resting, Copying, Stops, Forcing, Settled, Status
  <1>4. LocalsInv'
    BY <1>3, OneActor DEF LocalTypes, WorkerTypes, worker, Actors
  <1>5. RegistryInv' /\ RequestsInv'
    BY QuietRegistry DEF LocalTypes, MapTypes, maps, Actors, Running
  <1> QED
    BY <1>1, <1>2, <1>4, <1>5

LEMMA PersistActiveFailsStep == ASSUME IInv, NEW w \in Workers, PersistActiveFails(w) PROVE IInv'
  <1> USE NotAWorker DEF IInv, TypeOK, PersistActiveFails, Goto, Hold
  <1>1. TableTypes' /\ MapTypes' /\ BoundTypes'
    <2>1. BoundTypes'
      BY FaultCounted DEF BoundTypes
    <2>2. TableTypes' /\ MapTypes'
      BY DEF TableTypes, MapTypes, maps, WorkerTypes
    <2> QED
      BY <2>1, <2>2
  <1>2. LocalTypes' /\ WorkerTypes'
    BY BoundsAssumption, RowUpdate
       DEF TableTypes, MapTypes, LocalTypes, WorkerTypes, worker, Control, Actors, NoTicket,
           LocalsInv, Sound, Resting, Copying, Forcing, Status
  <1>3. Sound(w)'
    BY RowUpdate
       DEF TableTypes, LocalTypes, WorkerTypes, worker, Actors, LocalsInv, Sound,
           Resting, Copying, Stops, Forcing, Settled, Status
  <1>4. LocalsInv'
    BY <1>3, OneActor DEF LocalTypes, WorkerTypes, worker, Actors
  <1>5. RegistryInv' /\ RequestsInv'
    BY QuietRegistry DEF LocalTypes, MapTypes, maps, Actors, Running
  <1> QED
    BY <1>1, <1>2, <1>4, <1>5

LEMMA PersistCompletedFailsStep ==
  ASSUME IInv, NEW w \in Workers, PersistCompletedFails(w) PROVE IInv'
  <1> USE NotAWorker DEF IInv, TypeOK, PersistCompletedFails, EndRun, Goto, Hold
  <1>1. TableTypes' /\ MapTypes' /\ BoundTypes'
    <2>1. BoundTypes'
      BY FaultCounted DEF BoundTypes
    <2>2. TableTypes' /\ MapTypes'
      BY DEF TableTypes, MapTypes, maps
    <2> QED
      BY <2>1, <2>2
  <1>2. LocalTypes' /\ WorkerTypes'
    BY BoundsAssumption, RowUpdate
       DEF TableTypes, MapTypes, LocalTypes, WorkerTypes, worker, Control, Actors, NoTicket,
           LocalsInv, Sound, Resting, Copying, Forcing, Status
  <1>3. Sound(w)'
    BY RowUpdate
       DEF TableTypes, LocalTypes, WorkerTypes, worker, Actors, LocalsInv, Sound,
           Resting, Copying, Stops, Forcing, Settled, Status
  <1>4. LocalsInv'
    BY <1>3, OneActor DEF LocalTypes, WorkerTypes, worker, Actors
  <1>5. RegistryInv' /\ RequestsInv'
    BY QuietRegistry DEF LocalTypes, MapTypes, maps, Actors, Running
  <1> QED
    BY <1>1, <1>2, <1>4, <1>5

LEMMA SettleFailsStep == ASSUME IInv, NEW w \in Workers, SettleFails(w) PROVE IInv'
  <1> USE NotAWorker DEF IInv, TypeOK, SettleFails, Done, Rest, NoOp, Goto, Hold
  <1>1. TableTypes' /\ MapTypes' /\ BoundTypes'
    <2>1. BoundTypes'
      BY FaultCounted DEF BoundTypes
    <2>2. TableTypes' /\ MapTypes'
      BY DEF TableTypes, MapTypes, maps, WorkerTypes
    <2> QED
      BY <2>1, <2>2
  <1>2. LocalTypes' /\ WorkerTypes'
    BY BoundsAssumption, RowUpdate
       DEF TableTypes, MapTypes, LocalTypes, WorkerTypes, worker, Control, Actors, NoTicket,
           LocalsInv, Sound, Resting, Copying, Forcing, Status
  <1>3. Sound(w)'
    BY RowUpdate
       DEF TableTypes, LocalTypes, WorkerTypes, worker, Actors, LocalsInv, Sound,
           Resting, Copying, Stops, Forcing, Settled, Status
  <1>4. LocalsInv'
    BY <1>3, OneActor DEF LocalTypes, WorkerTypes, worker, Actors
  <1>5. RegistryInv' /\ RequestsInv'
    BY QuietRegistry DEF LocalTypes, MapTypes, maps, Actors, Running
  <1> QED
    BY <1>1, <1>2, <1>4, <1>5

LEMMA OverrideFailsStep == ASSUME IInv, NEW w \in Workers, OverrideFails(w) PROVE IInv'
  <1> USE NotAWorker DEF IInv, TypeOK
  <1>1. TableTypes' /\ MapTypes'
    BY DEF OverrideFails, TableTypes, MapTypes, maps
  <1>2. BoundTypes'
    BY FaultCounted DEF OverrideFails, BoundTypes
  <1>3. tries[w] + 1 = OverrideAttempts \/ tries[w] + 1 \in 0 .. OverrideAttempts - 1
    BY BoundsAssumption DEF WorkerTypes
  <1>4. WorkerTypes'
    BY BoundsAssumption, <1>3 DEF OverrideFails, WorkerTypes
  <1>5. ASSUME tries[w] + 1 = OverrideAttempts PROVE LocalTypes' /\ LocalsInv'
    <2>1. Rest(w) /\ op' = op /\ goal' = [goal EXCEPT ![w] = "none"]
      BY <1>5 DEF OverrideFails, Rest, Goto, Hold
    <2> QED
      BY <2>1, RestLocals DEF WorkerTypes, Actors
  <1>6. ASSUME tries[w] + 1 # OverrideAttempts PROVE LocalTypes' /\ LocalsInv'
    <2>1. Hold(w, NoRow) /\ Goto(w, "override") /\ UNCHANGED <<job, op, goal>>
      BY <1>6 DEF OverrideFails, Hold, Goto
    <2>2. goal[w] # "none"
      BY DEF OverrideFails, LocalsInv, Sound, Forcing, Actors
    <2> QED
      BY <2>1, <2>2, MoveLocals DEF OverrideFails, Actors, Control, Resting, Copying
  <1>7. RegistryInv' /\ RequestsInv'
    BY QuietRegistry
       DEF OverrideFails, Rest, Goto, Hold, LocalTypes, MapTypes, maps, Actors, Running
  <1> QED
    BY <1>1, <1>2, <1>4, <1>5, <1>6, <1>7

-----------------------------------------------------------------------------
(* The registry changes hands.                                                *)

\* The settle path takes the registration, and whatever waits for it, away.
LEMMA FinishJobStep == ASSUME IInv, NEW w \in Workers, FinishJob(w) PROVE IInv'
  <1> USE DEF IInv, TypeOK
  <1>1. TableTypes' /\ BoundTypes'
    BY DEF TableTypes, BoundTypes, FinishJob, bounds
  <1>2. /\ intents' = [intents EXCEPT ![job[w]] = "none"]
        /\ cancels' = [cancels EXCEPT ![job[w]] = NoWorker]
        /\ deleting' = [deleting EXCEPT ![job[w]] = NoTicket]
        /\ restarting' = [restarting EXCEPT ![job[w]] = NoTicket]
        /\ released' = released
    BY DEF FinishJob
  <1>3. MapTypes'
    <2>1. NoTicket \in 0 .. MaxCalls
      BY BoundsAssumption DEF NoTicket
    <2>2. intents' \in [Ids -> {"none", "paused", "canceled"}]
      BY <1>2 DEF MapTypes
    <2>3. cancels' \in [Ids -> Workers \cup {NoWorker}]
      BY <1>2 DEF MapTypes
    <2>4. deleting' \in [Ids -> 0 .. MaxCalls] /\ restarting' \in [Ids -> 0 .. MaxCalls]
      BY <1>2, <2>1 DEF MapTypes
    <2> QED
      BY <1>2, <2>2, <2>3, <2>4 DEF MapTypes
  <1>4. PICK status \in {"none", "paused", "canceled", "queued"} :
          Settle(w, deleting[job[w]], restarting[job[w]], status)
    BY DEF FinishJob, Endings, Override, MapTypes, WorkerTypes, LocalsInv, Sound, Resting,
           Actors
  <1>5. job[w] \in Ids
    BY DEF FinishJob, LocalsInv, Sound, Resting, Actors
  <1>6. LocalTypes'
    BY DEF LocalTypes, FinishJob, Settle, Rest, Goto, Hold, Control, Actors, NoTicket
  <1>7. WorkerTypes'
    <2>1. owes' \in [Workers -> SUBSET (1 .. MaxCalls)]
      <3>1. {deleting[job[w]], restarting[job[w]]} \ {NoTicket} \subseteq 1 .. MaxCalls
        BY <1>5, BoundsAssumption DEF MapTypes, NoTicket
      <3> QED
        BY <1>4, <3>1 DEF Settle, WorkerTypes
    <2>2. goal' \in [Workers -> {"none", "paused", "canceled", "queued"}]
      BY <1>4 DEF Settle, WorkerTypes
    <2>3. /\ hit' = [hit EXCEPT ![w] = FALSE] /\ outcome' = [outcome EXCEPT ![w] = "none"]
          /\ tries' = tries
      BY DEF FinishJob
    <2> QED
      BY <2>1, <2>2, <2>3 DEF WorkerTypes
  <1>8. Sound(w)'
    BY NotAWorker
       DEF FinishJob, Settle, Rest, Goto, Hold, Actors, NoTicket, Sound, Resting, Copying,
           Stops, Forcing, LocalsInv, LocalTypes, WorkerTypes
  <1>9. LocalsInv'
    BY <1>8, OneActor DEF FinishJob, Settle, Rest, Goto, Hold, Actors, LocalTypes, WorkerTypes
  <1>10. /\ \A v \in Workers : v # w => pc'[v] = pc[v] /\ job'[v] = job[v]
         /\ pc'[w] \notin Running
    BY <1>4 DEF Settle, Rest, Goto, Hold, LocalTypes, Actors, Running
  <1>11. RegistryInv'
    <2>1. pc[w] \in Running /\ cancels[job[w]] = w
      BY DEF FinishJob, Running, RegistryInv
    <2>2. ASSUME NEW v \in Workers, pc'[v] \in Running PROVE cancels'[job'[v]] = v
      <3>1. v # w /\ pc[v] \in Running /\ job'[v] = job[v]
        BY <1>10, <2>2
      <3>2. cancels[job[v]] = v
        BY <3>1 DEF RegistryInv
      <3>3. job[v] \in Ids
        BY <3>1 DEF LocalsInv, Sound, Resting, Running, Actors
      <3> QED
        BY <1>2, <2>1, <3>1, <3>2, <3>3 DEF MapTypes
    <2>3. ASSUME NEW i \in Ids, cancels'[i] # NoWorker
          PROVE  pc'[cancels'[i]] \in Running /\ job'[cancels'[i]] = i
      <3>1. i # job[w] /\ cancels'[i] = cancels[i]
        BY <1>2, <2>3 DEF MapTypes
      <3>2. pc[cancels[i]] \in Running /\ job[cancels[i]] = i /\ cancels[i] \in Workers
        BY <2>3, <3>1 DEF RegistryInv, MapTypes
      <3> QED
        BY <1>10, <3>1, <3>2
    <2> QED
      BY <2>2, <2>3 DEF RegistryInv
  <1>12. RequestsInv'
    BY <1>2, <1>5 DEF RequestsInv, MapTypes
  <1> QED
    BY <1>1, <1>3, <1>6, <1>7, <1>9, <1>11, <1>12

-----------------------------------------------------------------------------
(* The daemon.                                                                *)

LEMMA FunctionIsSeq ==
  ASSUME NEW S, NEW n \in Nat, NEW s \in [1 .. n -> S]
  PROVE  s \in Seq(S)
  BY SeqDef

LEMMA StartStep == ASSUME IInv, DownInv, Start PROVE IInv'
  <1> USE DEF IInv, TypeOK
  <1>1. pending' \in Seq([id : Ids, prio : Prios])
    <2> DEFINE due == {i \in Ids : store[i].status \in Recoverable}
    <2>1. Cardinality(due) \in Nat
      <3>1. IsFiniteSet(Ids)
        BY BoundsAssumption, FS_Interval DEF Ids
      <3>2. due \subseteq Ids
        OBVIOUS
      <3> HIDE DEF due
      <3> QED
        BY <3>1, <3>2, FS_Subset, FS_CardinalityType
    <2>2. PICK order \in [1 .. Cardinality(due) -> due] :
            pending' = [n \in DOMAIN order |-> [id |-> order[n], prio |-> store[order[n]].prio]]
      BY DEF Start
    <2>3. ASSUME NEW i \in due PROVE [id |-> i, prio |-> store[i].prio] \in [id : Ids, prio : Prios]
      <3>1. store[i] # NoRow
        BY <2>3 DEF Recoverable, NoRow
      <3> QED
        BY <2>3, <3>1, RowUpdate DEF TableTypes
    <2> HIDE DEF due
    <2>4. pending' \in [1 .. Cardinality(due) -> [id : Ids, prio : Prios]]
      <3>1. DOMAIN order = 1 .. Cardinality(due)
        BY <2>2
      <3>2. \A n \in DOMAIN order :
              [id |-> order[n], prio |-> store[order[n]].prio] \in [id : Ids, prio : Prios]
        BY <2>2, <2>3
      <3> DEFINE entry(n) == [id |-> order[n], prio |-> store[order[n]].prio]
      <3>3. pending' = [n \in 1 .. Cardinality(due) |-> entry(n)]
        BY <2>2, <3>1
      <3>4. \A n \in 1 .. Cardinality(due) : entry(n) \in [id : Ids, prio : Prios]
        BY <3>1, <3>2
      <3> HIDE DEF entry
      <3> QED
        BY <3>3, <3>4
    <2> QED
      BY <2>1, <2>4, FunctionIsSeq
  <1>2. TableTypes'
    BY <1>1 DEF Start, TableTypes
  <1>3. MapTypes' /\ WorkerTypes'
    BY DEF Start, MapTypes, WorkerTypes, maps, worker
  <1>4. BoundTypes'
    BY BoundsAssumption DEF Start, BoundTypes
  <1>5. LocalTypes'
    BY DEF Start, LocalTypes, Control
  <1>6. LocalsInv'
    BY DEF Start, LocalsInv, Sound, Resting, Copying, Forcing
  <1>7. RegistryInv' /\ RequestsInv'
    <2>1. \A i \in Ids : cancels[i] = NoWorker
      <3>1. \A w \in Workers : pc[w] = "exit"
        BY DEF Start, DownInv
      <3> QED
        BY <3>1 DEF RegistryInv, MapTypes, Running
    <2> QED
      BY <2>1 DEF Start, RegistryInv, RequestsInv, maps, Running, Actors
  <1> QED
    BY <1>2, <1>3, <1>4, <1>5, <1>6, <1>7

LEMMA ForgetStep == ASSUME IInv, Forget, crashes' \in 0 .. MaxCrashes PROVE IInv'
  <1> USE DEF IInv, TypeOK, Forget
  <1>1. TableTypes' /\ BoundTypes'
    BY EmptySeq DEF TableTypes, BoundTypes
  <1>2. MapTypes' /\ WorkerTypes'
    BY BoundsAssumption DEF MapTypes, WorkerTypes, NoTicket
  <1>3. LocalTypes'
    BY BoundsAssumption DEF LocalTypes, Control, NoOp
  <1>4. LocalsInv'
    BY NotAWorker DEF LocalsInv, Sound, Resting, Copying, Forcing, Actors
  <1>5. RegistryInv' /\ RequestsInv'
    BY DEF RegistryInv, RequestsInv, Running, Actors
  <1> QED
    BY <1>1, <1>2, <1>3, <1>4, <1>5

\* The signal and the shutdown touch the daemon's phase only.
LEMMA PhaseStep ==
  ASSUME IInv, phase' \in {"down", "serving", "stopping", "draining"},
         UNCHANGED <<store, created, pending, maps, released, pc, job, row, op,
                     worker, bounds, promise>>
  PROVE  IInv'
  BY DEF IInv, TypeOK, TableTypes, MapTypes, LocalTypes, WorkerTypes, BoundTypes, LocalsInv,
         Sound, RegistryInv, RequestsInv, maps, worker, bounds

LEMMA NextStep == IInv /\ DownInv /\ [Next]_vars => IInv'
  <1> SUFFICES ASSUME IInv, DownInv, [Next]_vars PROVE IInv'
    OBVIOUS
  <1>1. ASSUME NEW a \in Actors, Reset(a) PROVE IInv'
    BY <1>1, ResetLoadStep, ResetSaveStep, ResetQueueStep DEF Reset
  <1>2. ASSUME NEW c \in Clients, Serve(c) PROVE IInv'
    BY <1>2, LoadStep, StopMarkStep, IdleMarkStep, HandOverStep, ReleasedStep,
       ResumeClearStep, SaveStep, EnqueueStep, ReorderStep, RemoveIdleStep, CallAbortsStep
       DEF Serve
  <1>3. ASSUME NEW w \in Workers, Run(w) PROVE IInv'
    BY <1>3, PopStep, LeaveStep, RunLoadStep, RegisterStep, PersistActiveStep, RunAbortsStep,
       PersistRunStep, TransferFailsStep, TransferCompletesStep, PersistCompletedStep,
       CompletionLostStep
       DEF Run
  <1>4. ASSUME NEW w \in Workers, Finish(w) PROVE IInv'
    BY <1>4, FinishJobStep, RemoveRecordStep, OverrideLoadStep, OverrideSaveStep DEF Finish
  <1>5. ASSUME NEW w \in Workers, StoreError(w) PROVE IInv'
    BY <1>5, RunLoadFailsStep, PersistActiveFailsStep, PersistCompletedFailsStep,
       SettleFailsStep, OverrideFailsStep
       DEF StoreError
  <1>6. ASSUME NEW c \in Clients, Call(c) \/ Handle(c) \/ CallFails(c) PROVE IInv'
    BY <1>1, <1>2, <1>6, CallStep, CallFailsStep DEF Handle, Actors
  <1>7. ASSUME NEW w \in Workers, Work(w) \/ StoreError(w) PROVE IInv'
    BY <1>1, <1>3, <1>4, <1>5, <1>7 DEF Work, Actors
  <1>8. CASE Start
    BY <1>8, StartStep
  <1>9. CASE Signal \/ Shutdown
    BY <1>9, PhaseStep DEF Signal, Shutdown
  <1>10. CASE Exit
    <2>1. crashes' \in 0 .. MaxCrashes
      BY <1>10 DEF Exit, IInv, TypeOK, BoundTypes
    <2> QED
      BY <1>10, <2>1, ForgetStep DEF Exit
  <1>11. CASE Crash
    <2>1. crashes' \in 0 .. MaxCrashes
      BY <1>11, BoundsAssumption DEF Crash, IInv, TypeOK, BoundTypes
    <2> QED
      BY <1>11, <2>1, ForgetStep DEF Crash
  <1>12. CASE UNCHANGED vars
    BY <1>12, PhaseStep DEF vars, maps, worker, bounds, IInv, TypeOK, TableTypes
  <1> QED
    BY <1>6, <1>7, <1>8, <1>9, <1>10, <1>11, <1>12 DEF Next, Stopped

\* An actor's step leaves the phase as it is, and none is possible when the daemon is down.
LEMMA ActorsDown ==
  DownInv =>
    /\ \A c \in Clients : Call(c) \/ Serve(c) \/ CallFails(c) => phase # "down" /\ phase' = phase
    /\ \A w \in Workers : Run(w) \/ Finish(w) \/ StoreError(w) => phase # "down" /\ phase' = phase
    /\ \A a \in Actors : Reset(a) => phase # "down" /\ phase' = phase
  <1>1. ASSUME DownInv, NEW c \in Clients, Call(c) \/ Serve(c) \/ CallFails(c)
        PROVE  phase # "down" /\ phase' = phase
    BY <1>1 DEF DownInv, Call, Serve, CallFails, Serving, Load, StopMark, IdleMark, HandOver,
          Released, ResumeClear, Save, Enqueue, Reorder, RemoveIdle, CallAborts
  <1>2. ASSUME DownInv, NEW w \in Workers, Run(w)
        PROVE  phase # "down" /\ phase' = phase
    BY <1>2 DEF DownInv, Run, Pop, Leave, RunLoad, Register, PersistActive, RunAborts,
          PersistRun, TransferFails, TransferCompletes, PersistCompleted, CompletionLost
  <1>3. ASSUME DownInv, NEW w \in Workers, Finish(w) \/ StoreError(w)
        PROVE  phase # "down" /\ phase' = phase
    BY <1>3 DEF DownInv, Finish, StoreError, FinishJob, RemoveRecord, OverrideLoad,
          OverrideSave, RunLoadFails, PersistActiveFails, PersistCompletedFails, SettleFails,
          OverrideFails
  <1>4. ASSUME DownInv, NEW a \in Actors, Reset(a)
        PROVE  phase # "down" /\ phase' = phase
    BY <1>4 DEF DownInv, Reset, ResetLoad, ResetSave, ResetQueue, Actors
  <1> QED
    BY <1>1, <1>2, <1>3, <1>4

LEMMA DownStep == DownInv /\ [Next]_vars => DownInv'
  <1> SUFFICES ASSUME DownInv, [Next]_vars PROVE DownInv'
    OBVIOUS
  <1>1. ASSUME NEW c \in Clients, Call(c) \/ Handle(c) \/ CallFails(c) PROVE DownInv'
    BY <1>1, ActorsDown DEF Handle, DownInv, Actors
  <1>2. ASSUME NEW w \in Workers, Work(w) \/ StoreError(w) PROVE DownInv'
    BY <1>2, ActorsDown DEF Work, DownInv, Actors
  <1>3. CASE Start \/ Signal \/ Shutdown
    BY <1>3 DEF Start, Signal, Shutdown, DownInv
  <1>4. CASE Exit \/ Crash
    BY <1>4, NotAWorker DEF Exit, Crash, Forget, DownInv, Actors
  <1>5. CASE UNCHANGED vars
    BY <1>5 DEF vars, DownInv
  <1> QED
    BY <1>1, <1>2, <1>3, <1>4, <1>5 DEF Next, Stopped

LEMMA Invariance == Spec => []IInv
  <1>1. Init => DownInv
    BY NotAWorker DEF Init, DownInv, Actors
  <1> QED
    BY <1>1, InitIInv, NextStep, DownStep, PTL DEF Spec

-----------------------------------------------------------------------------
(* What the invariant says, for every pool, clients, calls, crashes and store *)
(* errors.                                                                    *)

\* Every variable of the Manager stays in its type: in particular a worker always
\* writes back a row it has loaded, and an override stops after its last attempt.
THEOREM TypeCorrect == Spec => []TypeOK
  BY Invariance, PTL DEF IInv

\* Two workers never run one download, however many entries of it are queued.
THEOREM SingleRun == Spec => []OneRunPerDownload
  <1>1. IInv => OneRunPerDownload
    BY DEF IInv, RegistryInv, OneRunPerDownload
  <1> QED
    BY <1>1, Invariance, PTL

\* A Delete or a Restart that waits has a registered worker whose settle path is
\* still to come.
THEOREM RequestsAreServed == Spec => []RequestsServed
  <1>1. IInv => RequestsServed
    BY DEF IInv, TypeOK, MapTypes, RegistryInv, RequestsInv, RequestsServed
  <1> QED
    BY <1>1, Invariance, PTL
=============================================================================

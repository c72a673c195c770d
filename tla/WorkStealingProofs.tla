------------------------- MODULE WorkStealingProofs -------------------------
(* Type correctness and steal safety of WorkStealing, for any pool of         *)
(* workers, file, plan, buffer and ceiling.                                   *)
EXTENDS WorkStealing, Counting

\* A worker between taking a slot from the coordinator and giving it up.
Owning == {"persist", "segment", "attempt"} \cup Streaming
Holding == {"scan", "split", "recheck"}

\* Slots have one owner, and the cursor is past every initial slot that has one.
OwnersInv ==
    /\ \A w \in Workers : pc[w] \in Owning =>
         slot[w] \in Active /\ (slot[w] < cursor \/ slot[w] >= NSegs)
    /\ \A v, w \in Workers :
         pc[v] \in Owning /\ pc[w] \in Owning /\ slot[v] = slot[w] => v = w

\* The lock is held exactly by the worker inside trySteal, which only runs while a
\* slot is free.
LockInv ==
    /\ \A w \in Workers : pc[w] \in Holding <=> mu = w
    /\ mu # NoWorker => active < MaxSlots /\ cursor = NSegs

\* What a thief remembers of its donor: a frontier the donor may have left behind,
\* and the remainder that went with it.
DonorInv ==
    /\ mu # NoWorker /\ pc[mu] = "scan" => thief.at \in Active
    /\ mu # NoWorker /\ thief.donor # NoSlot =>
         /\ thief.donor \in Active
         /\ thief.from >= starts[thief.donor]
         /\ thief.from <= Frontier(thief.donor)
         /\ thief.rem = RealEnd(thief.donor) - thief.from + 1
    /\ mu # NoWorker /\ pc[mu] = "recheck" =>
         /\ thief.donor # NoSlot
         /\ thief.rem >= 2 * StealFloor
         /\ thief.mid = thief.from + thief.rem \div 2 - 1
         /\ ends[thief.donor] = thief.mid
         /\ thief.oldEnd \in Bytes

\* A byte's writer owns the byte's slot range: it is behind the published frontier
\* or in the flush that is about to be published.
WritersInv ==
    \A b \in Bytes : \A s \in part[b] :
        /\ s \in Active /\ starts[s] <= b
        /\ \/ b < Frontier(s)
           \/ \E w \in Workers : pc[w] = "publish" /\ slot[w] = s /\ b < Frontier(s) + flush[w]

\* A flush in flight ends inside its slot, even if its End is being taken away.
FlushInv ==
    \A w \in Workers : pc[w] \in {"write", "publish"} =>
        Frontier(slot[w]) + flush[w] <= RealEnd(slot[w]) + 1

\* Written bytes of the flush about to be published.
PublishInv ==
    \A w \in Workers : pc[w] = "publish" =>
        \A b \in Bytes :
            b \in Frontier(slot[w]) .. Frontier(slot[w]) + flush[w] - 1 => slot[w] \in part[b]

\* A worker streams within its budget of attempts.
TriesInv ==
    \A w \in Workers : pc[w] \in Streaming => tries[w] <= MaxRetries

\* The part of the invariant that is about slots, locks and bytes.
SInv ==
    /\ OwnersInv /\ LockInv /\ DonorInv /\ SlotsTile
    /\ CountersBacked /\ WritersInv /\ FlushInv /\ PublishInv /\ CompleteIsWhole

IInv == TypeOK /\ TriesInv /\ SInv

-----------------------------------------------------------------------------
(* Arithmetic of the steal.                                                   *)

\* A steal is worth more than six bytes.
LEMMA FloorPositive == StealFloor \in Nat /\ StealFloor >= 3 /\ Margin = BufferSize
  BY SizesAssumption DEF StealFloor, Margin

\* The split point lies strictly inside what the thief saw unfetched.
LEMMA SplitInside ==
  ASSUME NEW from \in Int, NEW rem \in Int, rem >= 2 * StealFloor
  PROVE  LET mid == from + rem \div 2 - 1 IN
         /\ mid \in Int /\ from <= mid /\ mid < from + rem - 1
  BY FloorPositive

\* The numbers of a slot.
LEMMA SlotNumbers ==
  ASSUME TypeOK, NEW s \in Slots
  PROVE  /\ TotalSize \in Nat
         /\ starts[s] \in Int /\ 0 <= starts[s] /\ starts[s] < TotalSize
         /\ ends[s] \in Int /\ 0 <= ends[s] /\ ends[s] < TotalSize
         /\ completed[s] \in Int /\ 0 <= completed[s] /\ completed[s] <= TotalSize
         /\ Frontier(s) \in Int /\ Frontier(s) = starts[s] + completed[s]
         /\ Unfetched(s) \in Int /\ Unfetched(s) = ends[s] - Frontier(s) + 1
         /\ RealEnd(s) \in Int
  <1>1. starts[s] \in Bytes /\ ends[s] \in Bytes /\ completed[s] \in 0 .. TotalSize
    BY DEF TypeOK
  <1>2. thief.oldEnd \in Int
    BY DEF TypeOK, Thief
  <1> HIDE DEF TypeOK
  <1>3. /\ TotalSize \in Nat
        /\ starts[s] \in Int /\ 0 <= starts[s] /\ starts[s] < TotalSize
        /\ ends[s] \in Int /\ 0 <= ends[s] /\ ends[s] < TotalSize
        /\ completed[s] \in Int /\ 0 <= completed[s] /\ completed[s] <= TotalSize
    BY <1>1, SizesAssumption DEF Bytes
  <1>4. Frontier(s) = starts[s] + completed[s] /\ Frontier(s) \in Int
    BY <1>3 DEF Frontier
  <1>5. Unfetched(s) = ends[s] - Frontier(s) + 1 /\ Unfetched(s) \in Int
    BY <1>3, <1>4 DEF Unfetched
  <1>6. RealEnd(s) \in Int
    BY <1>2, <1>3 DEF RealEnd
  <1> QED
    BY <1>3, <1>4, <1>5, <1>6

\* The initial state satisfies the invariant.
LEMMA InitIInv == Init => IInv
  <1> SUFFICES ASSUME Init PROVE IInv
    OBVIOUS
  <1> USE SizesAssumption, WorkersAssumption
  <1>1. PICK L \in Layouts :
          /\ starts = [s \in Slots |-> IF s \in Initial THEN L[s].start ELSE 0]
          /\ ends = [s \in Slots |-> IF s \in Initial THEN L[s].end ELSE 0]
          /\ completed = [s \in Slots |-> IF s \in Initial THEN L[s].completed ELSE 0]
          /\ part = [b \in Bytes |->
                       {s \in Initial : b \in L[s].start .. L[s].start + L[s].completed - 1}]
    BY DEF Init
  <1>2. /\ L \in [Initial -> Segment]
        /\ \A i \in Initial : L[i].start <= L[i].end
        /\ \A i \in Initial : L[i].start + L[i].completed <= L[i].end + 1
        /\ \A i, j \in Initial : i # j => L[i].end < L[j].start \/ L[j].end < L[i].start
        /\ \A b \in Bytes : \E i \in Initial : b \in L[i].start .. L[i].end
    BY LayoutsAssumption
  <1>3. Initial \subseteq Slots /\ Active = Initial /\ 0 \in Bytes /\ 0 \in 0 .. TotalSize
    BY DEF Init, Initial, Slots, Active, Bytes
  <1>4. \A s \in Initial : /\ starts[s] = L[s].start /\ ends[s] = L[s].end
                           /\ completed[s] = L[s].completed
                           /\ L[s].start \in Bytes /\ L[s].end \in Bytes
                           /\ L[s].completed \in 0 .. TotalSize
    BY <1>1, <1>2, <1>3 DEF Segment
  <1>5. TypeOK
    <2>1. starts \in [Slots -> Bytes]
      BY <1>1, <1>3, <1>4
    <2>2. ends \in [Slots -> Bytes]
      BY <1>1, <1>3, <1>4
    <2>3. completed \in [Slots -> 0 .. TotalSize]
      BY <1>1, <1>3, <1>4
    <2>4. part \in [Bytes -> SUBSET Slots]
      BY <1>1, <1>3
    <2>5. thief \in Thief
      BY DEF Init, Thief, NoThief, NoSlot
    <2>6. cursor \in 0 .. NSegs /\ active \in NSegs .. MaxSlots
      BY DEF Init
    <2>7. tries \in [Workers -> 0 .. MaxRetries + 1]
      BY DEF Init
    <2>8. /\ chunk \in [Workers -> 0 .. BufferSize]
          /\ flush \in [Workers -> 0 .. BufferSize]
      BY DEF Init
    <2> QED
      BY <2>1, <2>2, <2>3, <2>4, <2>5, <2>6, <2>7, <2>8 DEF Init, TypeOK, Control
  <1>6. \A s \in Slots : RealEnd(s) = ends[s]
    BY DEF Init, RealEnd, Tentative
  <1>7. SlotsTile
    BY <1>2, <1>3, <1>4, <1>6 DEF SlotsTile, Frontier, Bytes
  <1>8. \A b \in Bytes : \A s :
          s \in part[b] <=> s \in Initial /\ b >= starts[s] /\ b < Frontier(s)
    <2> TAKE b \in Bytes
    <2> TAKE s
    <2>1. part[b] = {i \in Initial : b \in L[i].start .. L[i].start + L[i].completed - 1}
      BY <1>1
    <2>2. CASE s \in Initial
      <3>1. L[s].start \in Int /\ L[s].completed \in Int /\ b \in Int
        BY <1>4, <2>2 DEF Bytes
      <3>2. Frontier(s) = L[s].start + L[s].completed /\ starts[s] = L[s].start
        BY <1>4, <2>2 DEF Frontier
      <3> QED
        BY <2>1, <2>2, <3>1, <3>2
    <2>3. CASE s \notin Initial
      BY <2>1, <2>3
    <2> QED
      BY <2>2, <2>3
  <1>9. CountersBacked
    BY <1>3, <1>4, <1>8 DEF CountersBacked, Frontier, Bytes
  <1>10. WritersInv
    BY <1>3, <1>8 DEF WritersInv
  <1>11. OwnersInv /\ LockInv /\ DonorInv /\ FlushInv /\ PublishInv /\ CompleteIsWhole /\ TriesInv
    BY DEF Init, OwnersInv, LockInv, DonorInv, FlushInv, PublishInv, CompleteIsWhole,
           TriesInv, Owning, Holding, Streaming
  <1> QED
    BY <1>5, <1>7, <1>9, <1>10, <1>11 DEF IInv, SInv

-----------------------------------------------------------------------------
(* Steps that move one worker and touch neither plan, counters, file nor lock. *)

\* The run's state outside one worker's control.
Rest == <<starts, ends, completed, part, cursor, active, mu, thief, slot, flush>>

\* Ends are what they were, whoever holds the lock, when the holder does not move.
LEMMA SameEnds ==
  ASSUME UNCHANGED <<ends, mu, thief>>, mu # NoWorker => pc'[mu] = pc[mu]
  PROVE  \A s : RealEnd(s)' = RealEnd(s)
  BY DEF RealEnd, Tentative

LEMMA QuietStep ==
  ASSUME IInv, NEW w \in Workers, NEW p \in Control,
         pc[w] \notin Holding, p \notin Holding,
         p \notin {"write", "publish"}, pc[w] # "publish",
         p \in Owning => pc[w] \in Owning,
         pc' = [pc EXCEPT ![w] = p],
         UNCHANGED Rest, outcome' = outcome
  PROVE  SInv'
  <1> USE DEF IInv, SInv, Rest
  <1>1. \A v \in Workers : v # w => pc'[v] = pc[v]
    BY DEF TypeOK
  <1>2. pc'[w] = p
    BY DEF TypeOK
  <1>3. mu # NoWorker => mu \in Workers /\ mu # w /\ pc'[mu] = pc[mu]
    BY <1>1 DEF TypeOK, LockInv
  <1>4. \A s : RealEnd(s)' = RealEnd(s) /\ Frontier(s)' = Frontier(s)
    BY <1>3, SameEnds DEF Frontier
  <1>5. Active' = Active
    BY DEF Active
  <1>6. OwnersInv'
    BY <1>1, <1>2, <1>5 DEF OwnersInv
  <1>7. LockInv'
    BY <1>1, <1>2 DEF LockInv
  <1>8. DonorInv'
    BY <1>3, <1>4, <1>5 DEF DonorInv
  <1>9. SlotsTile'
    BY <1>4, <1>5 DEF SlotsTile
  <1>10. CountersBacked'
    BY <1>4, <1>5 DEF CountersBacked
  <1>11. WritersInv'
    BY <1>1, <1>2, <1>4, <1>5 DEF WritersInv
  <1>12. FlushInv'
    BY <1>1, <1>2, <1>4 DEF FlushInv
  <1>13. PublishInv'
    BY <1>1, <1>2, <1>4 DEF PublishInv
  <1>14. CompleteIsWhole'
    BY DEF CompleteIsWhole, Whole
  <1> QED
    BY <1>6, <1>7, <1>8, <1>9, <1>10, <1>11, <1>12, <1>13, <1>14

\* Steps of the environment and of the watchdog move no worker.
LEMMA IdleStep ==
  ASSUME IInv, UNCHANGED Rest, pc' = pc, outcome' = outcome
  PROVE  SInv'
  <1> USE DEF IInv, SInv, Rest
  <1>1. \A s : RealEnd(s)' = RealEnd(s) /\ Frontier(s)' = Frontier(s)
    BY SameEnds DEF Frontier
  <1>2. Active' = Active
    BY DEF Active
  <1>3. OwnersInv' /\ LockInv' /\ DonorInv'
    BY <1>1, <1>2 DEF OwnersInv, LockInv, DonorInv
  <1>4. SlotsTile' /\ CountersBacked' /\ WritersInv'
    BY <1>1, <1>2 DEF SlotsTile, CountersBacked, WritersInv
  <1>5. FlushInv' /\ PublishInv' /\ CompleteIsWhole'
    BY <1>1 DEF FlushInv, PublishInv, CompleteIsWhole, Whole
  <1> QED
    BY <1>3, <1>4, <1>5

-----------------------------------------------------------------------------
(* Dispatch and the steal.                                                    *)

\* The slot handed out is nobody's: owners hold earlier initial slots or stolen ones.
LEMMA HandOutStep == ASSUME IInv, NEW w \in Workers, HandOut(w) PROVE SInv'
  <1> USE DEF IInv, SInv, HandOut, Goto, plan, lock, run
  <1> USE SizesAssumption, WorkersAssumption
  <1>1. \A v \in Workers : v # w => pc'[v] = pc[v] /\ slot'[v] = slot[v]
    BY DEF TypeOK
  <1>2. pc'[w] = "segment" /\ slot'[w] = cursor
    BY DEF TypeOK
  <1>3. \A s : RealEnd(s)' = RealEnd(s) /\ Frontier(s)' = Frontier(s)
    BY DEF RealEnd, Tentative, Frontier
  <1>4. Active' = Active /\ cursor \in Active /\ cursor \in 0 .. NSegs - 1
    BY DEF Active, TypeOK
  <1>5. OwnersInv'
    <2>1. \A v \in Workers : v # w /\ pc[v] \in Owning => slot[v] # cursor
      BY <1>4 DEF OwnersInv
    <2>2. \A v \in Workers : pc'[v] \in Owning =>
            slot'[v] \in Active' /\ (slot'[v] < cursor' \/ slot'[v] >= NSegs)
      BY <1>1, <1>2, <1>4 DEF OwnersInv, Active, TypeOK
    <2> QED
      BY <1>1, <1>2, <2>1, <2>2 DEF OwnersInv
  <1>6. LockInv'
    BY <1>1, <1>2 DEF LockInv, Holding
  <1>7. DonorInv'
    BY DEF DonorInv
  <1>8. SlotsTile' /\ CountersBacked'
    BY <1>3, <1>4 DEF SlotsTile, CountersBacked
  <1>9. WritersInv'
    BY <1>1, <1>3, <1>4 DEF WritersInv
  <1>10. FlushInv' /\ PublishInv'
    BY <1>1, <1>2, <1>3 DEF FlushInv, PublishInv
  <1>11. CompleteIsWhole'
    BY DEF CompleteIsWhole, Whole
  <1> QED
    BY <1>5, <1>6, <1>7, <1>8, <1>9, <1>10, <1>11

\* What a step of the lock's holder leaves alone, when it changes no End.
LEMMA HolderStep ==
  ASSUME IInv, NEW w \in Workers, NEW p \in Holding \cup {"next", "exit"},
         pc[w] \in Holding \cup {"next"},
         pc' = [pc EXCEPT ![w] = p],
         \A s \in Active : RealEnd(s)' = RealEnd(s),
         UNCHANGED <<starts, completed, part, cursor, active, slot, flush, outcome>>
  PROVE  /\ OwnersInv' /\ SlotsTile' /\ CountersBacked' /\ WritersInv'
         /\ FlushInv' /\ PublishInv' /\ CompleteIsWhole'
  <1> USE DEF IInv, SInv
  <1>1. \A v \in Workers : v # w => pc'[v] = pc[v]
    BY DEF TypeOK
  <1>2. /\ pc'[w] \notin Owning /\ pc'[w] \notin {"write", "publish"}
        /\ pc[w] \notin Owning /\ pc[w] \notin {"write", "publish"}
    BY DEF TypeOK, Holding, Owning, Streaming
  <1>3. \A s : Frontier(s)' = Frontier(s)
    BY DEF Frontier
  <1>4. Active' = Active
    BY DEF Active
  <1>5. \A v \in Workers : pc[v] \in {"write", "publish"} => slot[v] \in Active
    BY DEF OwnersInv, Owning, Streaming
  <1>6. OwnersInv'
    BY <1>1, <1>2, <1>4 DEF OwnersInv
  <1>7. SlotsTile'
    BY <1>3, <1>4 DEF SlotsTile
  <1>8. CountersBacked'
    BY <1>3, <1>4 DEF CountersBacked
  <1>9. WritersInv'
    BY <1>1, <1>2, <1>3, <1>4 DEF WritersInv
  <1>10. FlushInv'
    BY <1>1, <1>2, <1>3, <1>5 DEF FlushInv
  <1>11. PublishInv'
    BY <1>1, <1>2, <1>3 DEF PublishInv
  <1>12. CompleteIsWhole'
    BY DEF CompleteIsWhole, Whole
  <1> QED
    BY <1>6, <1>7, <1>8, <1>9, <1>10, <1>11, <1>12

LEMMA BeginStealStep == ASSUME IInv, NEW w \in Workers, BeginSteal(w) PROVE SInv'
  <1> USE DEF IInv, SInv, BeginSteal, Goto, plan, run
  <1> USE SizesAssumption, WorkersAssumption
  <1>1. /\ \A v \in Workers : v # w => pc'[v] = pc[v]
        /\ pc'[w] = "scan"
    BY DEF TypeOK
  <1>2. \A s : RealEnd(s)' = RealEnd(s)
    BY <1>1 DEF RealEnd, Tentative
  <1>3. /\ OwnersInv' /\ SlotsTile' /\ CountersBacked' /\ WritersInv'
        /\ FlushInv' /\ PublishInv' /\ CompleteIsWhole'
    BY <1>2, HolderStep DEF Holding
  <1>4. LockInv'
    BY <1>1 DEF LockInv, Holding
  <1>5. DonorInv'
    BY <1>1 DEF DonorInv, NoThief, Active, TypeOK
  <1> QED
    BY <1>3, <1>4, <1>5

LEMMA ScanStep == ASSUME IInv, NEW w \in Workers, ScanSlot(w) PROVE SInv'
  <1> USE DEF IInv, SInv, ScanSlot, Goto, plan, run
  <1> USE SizesAssumption, WorkersAssumption
  <1> DEFINE s == thief.at
  <1>1. mu = w /\ w # NoWorker /\ s \in Active
    BY DEF LockInv, Holding, DonorInv
  <1>2. /\ \A v \in Workers : v # w => pc'[v] = pc[v]
        /\ pc'[w] = IF s + 1 = active THEN "split" ELSE "scan"
    BY DEF TypeOK
  <1>3. \A t : RealEnd(t)' = ends[t] /\ RealEnd(t) = ends[t] /\ Frontier(t)' = Frontier(t)
    BY <1>1, <1>2 DEF RealEnd, Tentative, Frontier
  <1>4. /\ OwnersInv' /\ SlotsTile' /\ CountersBacked' /\ WritersInv'
        /\ FlushInv' /\ PublishInv' /\ CompleteIsWhole'
    BY <1>3, HolderStep DEF Holding
  <1>5. LockInv'
    BY <1>1, <1>2 DEF LockInv, Holding
  <1>6. DonorInv'
    <2>1. s + 1 # active => s + 1 \in Active
      BY <1>1 DEF Active, TypeOK
    <2>2. /\ thief'.at = s + 1
          /\ \/ thief'.donor = thief.donor /\ thief'.from = thief.from /\ thief'.rem = thief.rem
             \/ thief'.donor = s /\ thief'.from = Frontier(s) /\ thief'.rem = Unfetched(s)
      BY DEF TypeOK, Thief
    <2>3. /\ starts[s] \in Nat /\ completed[s] \in Nat /\ ends[s] \in Nat
      BY <1>1 DEF TypeOK, Active, Slots, Bytes
    <2>4. Frontier(s) >= starts[s] /\ Unfetched(s) = ends[s] - Frontier(s) + 1
      BY <2>3 DEF Frontier, Unfetched
    <2>5. thief'.donor # NoSlot =>
            /\ thief'.donor \in Active
            /\ thief'.from >= starts[thief'.donor]
            /\ thief'.from <= Frontier(thief'.donor)
            /\ thief'.rem = ends[thief'.donor] - thief'.from + 1
      BY <1>1, <1>3, <2>2, <2>3, <2>4 DEF DonorInv, Frontier
    <2> QED
      BY <1>1, <1>2, <1>3, <2>1, <2>2, <2>5 DEF DonorInv, Active
  <1> QED
    BY <1>4, <1>5, <1>6

LEMMA NothingStep == ASSUME IInv, NEW w \in Workers, NothingToSteal(w) PROVE SInv'
  <1> USE DEF IInv, SInv, NothingToSteal, Goto, plan, run
  <1> USE SizesAssumption, WorkersAssumption
  <1>1. mu = w /\ w # NoWorker
    BY DEF LockInv, Holding
  <1>2. /\ \A v \in Workers : v # w => pc'[v] = pc[v]
        /\ pc'[w] = "exit"
    BY DEF TypeOK
  <1>3. \A t : RealEnd(t)' = RealEnd(t)
    BY <1>1, <1>2 DEF RealEnd, Tentative
  <1>4. /\ OwnersInv' /\ SlotsTile' /\ CountersBacked' /\ WritersInv'
        /\ FlushInv' /\ PublishInv' /\ CompleteIsWhole'
    BY <1>3, HolderStep DEF Holding
  <1>5. LockInv'
    BY <1>1, <1>2 DEF LockInv, Holding
  <1>6. DonorInv'
    BY DEF DonorInv
  <1> QED
    BY <1>4, <1>5, <1>6

\* The shrink is tentative: the donor's real End does not move.
LEMMA ShrinkStep == ASSUME IInv, NEW w \in Workers, Shrink(w) PROVE SInv'
  <1> USE DEF IInv, SInv, Shrink, Goto, run
  <1> USE SizesAssumption, WorkersAssumption
  <1> DEFINE d == thief.donor
             mid == thief.from + thief.rem \div 2 - 1
  <1>1. mu = w /\ w # NoWorker /\ d \in Active /\ d \in Slots /\ d # NoSlot
    BY DEF LockInv, Holding, DonorInv, Active, Slots, TypeOK
  <1>2. /\ \A v \in Workers : v # w => pc'[v] = pc[v]
        /\ pc'[w] = "recheck"
    BY DEF TypeOK
  <1>3. /\ thief'.donor = d /\ thief'.from = thief.from /\ thief'.rem = thief.rem
        /\ thief'.mid = mid /\ thief'.oldEnd = ends[d]
    BY DEF TypeOK, Thief
  <1>4. ends' = [ends EXCEPT ![d] = mid]
    OBVIOUS
  <1>5. \A t \in Active : RealEnd(t) = ends[t]
    BY <1>1 DEF RealEnd, Tentative
  <1>6. \A t \in Active : RealEnd(t)' = ends[t]
    <2>1. mu' = w /\ pc'[mu'] = "recheck"
      BY <1>1, <1>2
    <2>2. Active \subseteq Slots
      BY DEF Active, Slots, TypeOK
    <2>3. \A t \in Active : t # d => ends'[t] = ends[t]
      BY <1>4, <2>2 DEF TypeOK
    <2> HIDE DEF d, IInv, SInv, Shrink
    <2> QED
      BY <1>1, <1>3, <2>1, <2>3 DEF RealEnd, Tentative
  <1>7. \A t : Frontier(t)' = Frontier(t)
    BY DEF Frontier
  <1>8. /\ OwnersInv' /\ SlotsTile' /\ CountersBacked' /\ WritersInv'
        /\ FlushInv' /\ PublishInv' /\ CompleteIsWhole'
    BY <1>5, <1>6, HolderStep DEF Holding
  <1>9. LockInv'
    BY <1>1, <1>2 DEF LockInv, Holding
  <1>10. DonorInv'
    <2>1. ends'[d] = mid
      BY <1>1, <1>4 DEF TypeOK
    <2>2. Active' = Active
      BY DEF Active
    <2>3. thief'.oldEnd \in Bytes
      BY <1>1, <1>3 DEF TypeOK
    <2> QED
      BY <1>1, <1>2, <1>3, <1>5, <1>6, <1>7, <2>1, <2>2, <2>3 DEF DonorInv
  <1> QED
    BY <1>8, <1>9, <1>10

\* The donor is a buffer behind the split, and so is its flush in flight: the tail
\* is untouched, and the new slot takes it over from the donor's range.
LEMMA TailUntouched ==
  ASSUME IInv, NEW w \in Workers, Commit(w)
  PROVE  /\ mu = w /\ thief.donor \in Active /\ active \in Slots
         /\ thief.mid \in Bytes /\ thief.oldEnd \in Bytes
         /\ starts[thief.donor] <= thief.mid /\ thief.mid + 1 <= thief.oldEnd
         /\ RealEnd(thief.donor) = thief.oldEnd
         /\ Frontier(thief.donor) <= thief.mid - Margin
         /\ \A v \in Workers :
              pc[v] \in {"write", "publish"} /\ slot[v] = thief.donor =>
                Frontier(thief.donor) + flush[v] <= thief.mid
         /\ \A b \in thief.mid + 1 .. thief.oldEnd : part[b] = {}
  <1> USE DEF IInv, SInv, Commit
  <1> USE SizesAssumption, WorkersAssumption
  <1> DEFINE d == thief.donor
  <1>1. mu = w /\ w # NoWorker /\ pc[mu] = "recheck" /\ active < MaxSlots
    BY DEF LockInv, Holding
  <1>2. /\ d \in Active /\ d \in Slots /\ d # NoSlot
        /\ thief.from >= starts[d] /\ thief.from <= Frontier(d)
        /\ thief.rem = RealEnd(d) - thief.from + 1
        /\ thief.rem >= 2 * StealFloor
        /\ thief.mid = thief.from + thief.rem \div 2 - 1
    BY <1>1 DEF DonorInv, Active, Slots, TypeOK
  <1>3. active \in Slots
    BY <1>1 DEF Slots, TypeOK
  <1>4. RealEnd(d) = thief.oldEnd
    BY <1>1 DEF RealEnd, Tentative
  <1>5. thief.from \in Int /\ thief.rem \in Int /\ thief.mid \in Int /\ thief.oldEnd \in Int
    BY DEF TypeOK, Thief
  <1>6. /\ starts[d] \in Bytes /\ completed[d] \in 0 .. TotalSize
        /\ Frontier(d) \in Int /\ Frontier(d) >= starts[d]
    BY <1>2 DEF TypeOK, Frontier, Bytes
  <1>7. thief.from <= thief.mid /\ thief.mid < thief.from + thief.rem - 1
    BY <1>2, <1>5, SplitInside
  <1>8. starts[d] <= thief.mid /\ thief.mid + 1 <= thief.oldEnd
    BY <1>2, <1>4, <1>5, <1>6, <1>7 DEF Bytes
  <1>9. Frontier(d) <= thief.mid - Margin /\ Margin = BufferSize
    BY FloorPositive
  <1>10. \A v \in Workers :
           pc[v] \in {"write", "publish"} /\ slot[v] = d => Frontier(d) + flush[v] <= thief.mid
    BY <1>5, <1>6, <1>9 DEF TypeOK
  <1>11. Frontier(d) <= RealEnd(d) + 1
    BY <1>2 DEF SlotsTile
  <1>12. thief.oldEnd \in Bytes
    BY <1>1 DEF DonorInv
  <1>13. thief.mid \in Bytes
    BY <1>5, <1>6, <1>8, <1>12 DEF Bytes
  <1>14. ASSUME NEW b \in thief.mid + 1 .. thief.oldEnd, NEW s \in part[b]
         PROVE  FALSE
    <2>1. b \in Bytes /\ b \in Int /\ b > thief.mid /\ b <= thief.oldEnd
      BY <1>5, <1>12, <1>13 DEF Bytes
    <2>2. s \in Active /\ s \in Slots /\ starts[s] <= b /\ starts[s] \in Int
      BY <2>1 DEF WritersInv, Active, Slots, TypeOK, Bytes
    <2>3. Frontier(s) \in Int /\ RealEnd(s) \in Int
      BY <2>2, <1>5 DEF TypeOK, Frontier, Bytes, RealEnd
    <2>4. b <= RealEnd(s)
      <3>1. CASE b < Frontier(s)
        BY <3>1, <2>1, <2>2, <2>3 DEF SlotsTile
      <3>2. CASE \E v \in Workers : pc[v] = "publish" /\ slot[v] = s /\ b < Frontier(s) + flush[v]
        <4> PICK v \in Workers : pc[v] = "publish" /\ slot[v] = s /\ b < Frontier(s) + flush[v]
          BY <3>2
        <4>1. Frontier(s) + flush[v] <= RealEnd(s) + 1 /\ flush[v] \in Int
          BY DEF FlushInv, TypeOK
        <4> QED
          BY <4>1, <2>1, <2>3
      <3> QED
        BY <3>1, <3>2, <2>1 DEF WritersInv
    <2>5. s = d
      BY <1>2, <1>4, <1>5, <1>6, <1>8, <2>1, <2>2, <2>3, <2>4 DEF SlotsTile, Bytes
    <2>6. CASE b < Frontier(d)
      BY <2>6, <1>5, <1>6, <1>9, <2>1
    <2>7. CASE \E v \in Workers : pc[v] = "publish" /\ slot[v] = d /\ b < Frontier(d) + flush[v]
      <3> PICK v \in Workers : pc[v] = "publish" /\ slot[v] = d /\ b < Frontier(d) + flush[v]
        BY <2>7
      <3>1. Frontier(d) + flush[v] <= thief.mid /\ flush[v] \in Int
        BY <1>10 DEF TypeOK
      <3> QED
        BY <3>1, <1>5, <1>6, <2>1
    <2> QED
      BY <2>1, <2>5, <2>6, <2>7 DEF WritersInv
  <1>15. \A b \in thief.mid + 1 .. thief.oldEnd : part[b] = {}
    BY <1>14
  <1> HIDE DEF d, IInv, SInv, Commit
  <1> QED
    BY <1>1, <1>2, <1>3, <1>4, <1>8, <1>9, <1>10, <1>12, <1>13, <1>15 DEF d

\* The donor keeps its range up to the split and the new slot takes the rest.
LEMMA CommitStep == ASSUME IInv, NEW w \in Workers, Commit(w) PROVE SInv'
  <1> USE SizesAssumption, WorkersAssumption
  <1>0. PICK a, d : a = active /\ d = thief.donor
    OBVIOUS
  <1>1. /\ mu = w /\ d \in Active /\ a \in Slots
        /\ thief.mid \in Bytes /\ thief.oldEnd \in Bytes
        /\ starts[d] <= thief.mid /\ thief.mid + 1 <= thief.oldEnd
        /\ RealEnd(d) = thief.oldEnd
        /\ Frontier(d) <= thief.mid - Margin
        /\ \A v \in Workers :
             pc[v] \in {"write", "publish"} /\ slot[v] = d => Frontier(d) + flush[v] <= thief.mid
    BY <1>0, TailUntouched
  <1> USE DEF IInv, SInv, Commit, Goto, run
  <1> USE <1>0
  <1>2. pc[w] = "recheck" /\ w # NoWorker /\ cursor = NSegs /\ ends[d] = thief.mid
    BY <1>1 DEF LockInv, DonorInv
  <1>3. /\ \A v \in Workers : v # w => pc'[v] = pc[v] /\ slot'[v] = slot[v]
        /\ pc'[w] = "persist" /\ slot'[w] = a
    BY DEF TypeOK
  <1>4. /\ Active' = Active \cup {a} /\ a \notin Active /\ Active \subseteq Slots
        /\ a >= NSegs /\ a \in Int
    BY DEF Active, Slots, TypeOK
  <1>5. /\ starts'[a] = thief.mid + 1 /\ ends'[a] = thief.oldEnd /\ completed'[a] = 0
        /\ \A s \in Active : /\ starts'[s] = starts[s] /\ ends'[s] = ends[s]
                              /\ completed'[s] = completed[s]
    BY <1>1, <1>4 DEF TypeOK
  <1>6. /\ \A s : RealEnd(s)' = ends'[s]
        /\ \A s \in Active : s # d => RealEnd(s)' = RealEnd(s)
        /\ RealEnd(d)' = thief.mid
    BY <1>1, <1>2, <1>5 DEF RealEnd, Tentative
  <1>7. /\ \A s \in Active : Frontier(s)' = Frontier(s)
        /\ Frontier(a)' = thief.mid + 1
    BY <1>1, <1>5 DEF Frontier, Bytes
  <1>8. \A s \in Active : starts[s] \in Int /\ RealEnd(s) \in Int /\ Frontier(s) \in Int
    <2>1. \A s \in Active : starts[s] \in Int /\ ends[s] \in Int /\ completed[s] \in Int
      BY <1>4 DEF TypeOK, Bytes
    <2>2. thief.oldEnd \in Int
      BY <1>1 DEF Bytes
    <2> HIDE DEF IInv, SInv, Commit
    <2> QED
      BY <2>1, <2>2 DEF RealEnd, Frontier
  <1>9. Margin = BufferSize
    BY FloorPositive
  <1>10. OwnersInv'
    <2>1. \A v \in Workers : v # w /\ pc[v] \in Owning => slot[v] # a
      BY <1>4 DEF OwnersInv
    <2>2. \A v \in Workers : pc'[v] \in Owning =>
            slot'[v] \in Active' /\ (slot'[v] < cursor' \/ slot'[v] >= NSegs)
      BY <1>3, <1>4 DEF OwnersInv
    <2>3. \A u, v \in Workers :
            pc'[u] \in Owning /\ pc'[v] \in Owning /\ slot'[u] = slot'[v] => u = v
      BY <1>3, <2>1 DEF OwnersInv
    <2> QED
      BY <2>2, <2>3 DEF OwnersInv
  <1>11. LockInv'
    BY <1>1, <1>2, <1>3 DEF LockInv, Holding
  <1>12. DonorInv'
    BY DEF DonorInv
  <1>13. SlotsTile'
    <2> HIDE DEF IInv, SInv, Commit
    <2>1. SlotsTile /\ thief.mid \in Int /\ thief.oldEnd \in Int /\ BufferSize \in Int
          /\ BufferSize >= 0
      BY <1>1 DEF IInv, SInv, Bytes
    <2>2. \A b \in Bytes : \E s \in Active' : b \in starts'[s] .. RealEnd(s)'
      <3> TAKE b \in Bytes
      <3>1. PICK s \in Active : b \in starts[s] .. RealEnd(s)
        BY <2>1 DEF SlotsTile
      <3>2. CASE s # d
        BY <3>1, <3>2, <1>4, <1>5, <1>6
      <3>3. CASE s = d /\ b <= thief.mid
        BY <3>1, <3>3, <1>1, <1>4, <1>5, <1>6, <1>8, <2>1
      <3>4. CASE s = d /\ ~(b <= thief.mid)
        BY <3>1, <3>4, <1>1, <1>4, <1>5, <1>6, <1>8, <2>1 DEF Bytes
      <3> QED
        BY <3>2, <3>3, <3>4
    <2>3. \A s, t \in Active : s # t => RealEnd(s)' < starts'[t] \/ RealEnd(t)' < starts'[s]
      BY <1>1, <1>5, <1>6, <1>8, <2>1 DEF SlotsTile
    <2>4. \A s \in Active : RealEnd(s)' < starts'[a] \/ RealEnd(a)' < starts'[s]
      BY <1>1, <1>5, <1>6, <1>8, <2>1 DEF SlotsTile
    <2>5. \A s \in Active' : Frontier(s)' <= RealEnd(s)' + 1
      BY <1>1, <1>4, <1>5, <1>6, <1>7, <1>8, <1>9, <2>1 DEF SlotsTile
    <2> QED
      BY <1>4, <2>2, <2>3, <2>4, <2>5 DEF SlotsTile
  <1>14. CountersBacked'
    BY <1>1, <1>4, <1>5, <1>7 DEF CountersBacked, Bytes
  <1>15. WritersInv'
    BY <1>2, <1>3, <1>4, <1>5, <1>7 DEF WritersInv
  <1>16. \A v \in Workers : pc'[v] \in {"write", "publish"} =>
           pc[v] = pc'[v] /\ slot'[v] = slot[v] /\ slot[v] \in Active
    BY <1>3 DEF OwnersInv, Owning, Streaming
  <1>17. FlushInv'
    <2> SUFFICES ASSUME NEW v \in Workers, pc'[v] \in {"write", "publish"}
                 PROVE  (Frontier(slot[v]) + flush[v] <= RealEnd(slot[v]) + 1)'
      BY DEF FlushInv
    <2>1. flush'[v] = flush[v] /\ flush[v] \in Int
      BY DEF TypeOK
    <2>2. CASE slot[v] = d
      BY <2>1, <2>2, <1>1, <1>6, <1>7, <1>8, <1>16 DEF Bytes
    <2>3. CASE slot[v] # d
      BY <2>1, <2>3, <1>6, <1>7, <1>16 DEF FlushInv
    <2> QED
      BY <2>2, <2>3
  <1>18. PublishInv'
    BY <1>3, <1>7, <1>16 DEF PublishInv
  <1>19. CompleteIsWhole'
    BY DEF CompleteIsWhole, Whole
  <1> QED
    BY <1>10, <1>11, <1>12, <1>13, <1>14, <1>15, <1>17, <1>18, <1>19

\* An undo gives the donor its real End back.
LEMMA UndoStep == ASSUME IInv, NEW w \in Workers, Undo(w) PROVE SInv'
  <1> USE DEF IInv, SInv, Undo, Goto, run
  <1> USE SizesAssumption, WorkersAssumption
  <1> DEFINE d == thief.donor
  <1>1. /\ mu = w /\ w # NoWorker /\ d \in Active /\ d \in Slots /\ thief.oldEnd \in Bytes
    BY DEF LockInv, Holding, DonorInv, Active, Slots, TypeOK
  <1>2. /\ \A v \in Workers : v # w => pc'[v] = pc[v]
        /\ pc'[w] = "scan"
    BY DEF TypeOK
  <1>3. \A s \in Active : RealEnd(s)' = RealEnd(s)
    <2>1. Active \subseteq Slots
      BY DEF Active, Slots, TypeOK
    <2>2. ends'[d] = thief.oldEnd /\ \A s \in Active : s # d => ends'[s] = ends[s]
      BY <1>1, <2>1 DEF TypeOK
    <2>3. \A s : RealEnd(s)' = ends'[s]
      BY <1>1, <1>2 DEF RealEnd, Tentative
    <2> QED
      BY <1>1, <2>2, <2>3 DEF RealEnd, Tentative
  <1>4. /\ OwnersInv' /\ SlotsTile' /\ CountersBacked' /\ WritersInv'
        /\ FlushInv' /\ PublishInv' /\ CompleteIsWhole'
    BY <1>3, HolderStep DEF Holding
  <1>5. LockInv'
    BY <1>1, <1>2 DEF LockInv, Holding
  <1>6. DonorInv'
    BY <1>1, <1>2 DEF DonorInv, NoThief, Active, TypeOK
  <1> QED
    BY <1>4, <1>5, <1>6

-----------------------------------------------------------------------------
(* The transfer of a slot.                                                    *)

\* The clip reads an End that a steal may have lowered, never one it has raised.
LEMMA ClipStep == ASSUME IInv, NEW w \in Workers, Clip(w) PROVE SInv'
  <1> USE DEF IInv, SInv, Clip, Goto, plan, lock, run
  <1> USE SizesAssumption, WorkersAssumption
  <1> DEFINE s == slot[w]
             p == IF Room(s) <= 0 THEN "flush" ELSE "write"
  <1>1. /\ \A v \in Workers : v # w => pc'[v] = pc[v] /\ flush'[v] = flush[v]
        /\ pc'[w] = p
        /\ flush'[w] = IF Room(s) <= 0 THEN 0 ELSE IF chunk[w] >= Room(s) THEN Room(s) ELSE chunk[w]
    BY DEF TypeOK
  <1>2. s \in Active /\ s \in Slots
    BY DEF OwnersInv, Owning, Streaming, Active, Slots, TypeOK
  <1>3. mu # NoWorker => mu \in Workers /\ mu # w /\ pc'[mu] = pc[mu]
    BY <1>1 DEF TypeOK, LockInv, Holding
  <1>4. \A t : RealEnd(t)' = RealEnd(t) /\ Frontier(t)' = Frontier(t)
    BY <1>3, SameEnds DEF Frontier
  <1>5. Active' = Active
    BY DEF Active
  <1>6. OwnersInv'
    BY <1>1, <1>5 DEF OwnersInv, Owning, Streaming
  <1>7. LockInv'
    BY <1>1 DEF LockInv, Holding
  <1>8. DonorInv'
    BY <1>3, <1>4, <1>5 DEF DonorInv
  <1>9. SlotsTile' /\ CountersBacked'
    BY <1>4, <1>5 DEF SlotsTile, CountersBacked
  <1>10. WritersInv'
    BY <1>1, <1>4, <1>5 DEF WritersInv
  <1>11. ends[s] <= RealEnd(s)
    <2>1. CASE Tentative(s)
      <3>1. mu # NoWorker /\ pc[mu] = "recheck" /\ thief.donor = s
        BY <2>1 DEF Tentative
      <3>2. /\ thief.from \in Int /\ thief.rem \in Int /\ thief.mid \in Int /\ thief.oldEnd \in Int
        BY DEF TypeOK, Thief
      <3>3. /\ RealEnd(s) = thief.oldEnd /\ ends[s] = thief.mid
            /\ thief.rem >= 2 * StealFloor
            /\ thief.mid = thief.from + thief.rem \div 2 - 1
            /\ thief.rem = thief.oldEnd - thief.from + 1
        BY <2>1, <3>1 DEF DonorInv, RealEnd
      <3> QED
        BY <3>2, <3>3, SplitInside
    <2>2. CASE ~Tentative(s)
      BY <2>2, <1>2 DEF RealEnd, TypeOK, Bytes
    <2> QED
      BY <2>1, <2>2
  <1>12. FlushInv'
    <2>1. pc'[w] \in {"write", "publish"} => Frontier(s) + flush'[w] <= RealEnd(s) + 1
      <3>1. /\ starts[s] \in Int /\ ends[s] \in Int /\ completed[s] \in Int
            /\ chunk[w] \in Int /\ RealEnd(s) \in Int
        BY <1>2 DEF TypeOK, Bytes, RealEnd, Thief
      <3>2. Frontier(s) = starts[s] + completed[s] /\ Room(s) = ends[s] - starts[s] + 1 - completed[s]
        <4> HIDE DEF s, IInv, SInv, Clip
        <4>1. Size(s) = ends[s] - starts[s] + 1
          BY DEF Size
        <4> QED
          BY <4>1, <3>1 DEF Frontier, Room
      <3> HIDE DEF IInv, SInv, Clip, s
      <3> QED
        BY <1>1, <1>11, <3>1, <3>2
    <2>2. \A v \in Workers : v # w /\ pc'[v] \in {"write", "publish"} =>
            Frontier(slot[v]) + flush'[v] <= RealEnd(slot[v]) + 1
      BY <1>1 DEF FlushInv
    <2> QED
      BY <1>4, <2>1, <2>2 DEF FlushInv
  <1>13. PublishInv'
    BY <1>1, <1>4 DEF PublishInv
  <1>14. CompleteIsWhole'
    BY DEF CompleteIsWhole, Whole
  <1> QED
    BY <1>6, <1>7, <1>8, <1>9, <1>10, <1>12, <1>13, <1>14

\* The bytes written are the slot's own, and are published by nobody else.
LEMMA WriteStep == ASSUME IInv, NEW w \in Workers, Write(w) PROVE SInv'
  <1> USE DEF IInv, SInv, Write, Goto, plan, lock, run
  <1> USE SizesAssumption, WorkersAssumption
  <1>0. PICK s : s = slot[w]
    OBVIOUS
  <1>1. PICK n \in 0 .. flush[w] :
          /\ part' = [b \in Bytes |-> IF b \in Frontier(s) .. Frontier(s) + n - 1
                                    THEN part[b] \cup {s} ELSE part[b]]
          /\ flush' = [flush EXCEPT ![w] = n]
    BY <1>0
  <1>2. /\ \A v \in Workers : v # w => pc'[v] = pc[v] /\ flush'[v] = flush[v]
        /\ pc'[w] = "publish" /\ flush'[w] = n /\ n \in Int /\ n <= flush[w]
    BY <1>1 DEF TypeOK
  <1>3. s \in Active /\ s \in Slots /\ starts[s] \in Int /\ Frontier(s) \in Int
        /\ starts[s] <= Frontier(s)
    <2>1. s \in Active /\ s \in Slots
      BY <1>0 DEF OwnersInv, Owning, Streaming, Active, Slots, TypeOK
    <2>2. starts[s] \in Int /\ completed[s] \in Nat
      BY <2>1 DEF TypeOK, Bytes
    <2> QED
      BY <2>1, <2>2 DEF Frontier
  <1>4. mu # NoWorker => mu \in Workers /\ mu # w /\ pc'[mu] = pc[mu]
    BY <1>2 DEF TypeOK, LockInv, Holding
  <1>5. \A t : RealEnd(t)' = RealEnd(t) /\ Frontier(t)' = Frontier(t)
    BY <1>4, SameEnds DEF Frontier
  <1>6. Active' = Active
    BY DEF Active
  <1>7. \A b \in Bytes :
          /\ part[b] \subseteq part'[b]
          /\ \A t \in part'[b] : t \in part[b] \/ (t = s /\ b \in Frontier(s) .. Frontier(s) + n - 1)
          /\ b \in Frontier(s) .. Frontier(s) + n - 1 => s \in part'[b]
    BY <1>1
  <1>8. OwnersInv' /\ LockInv'
    BY <1>2, <1>6 DEF OwnersInv, LockInv, Owning, Streaming, Holding
  <1>9. DonorInv'
    BY <1>4, <1>5, <1>6 DEF DonorInv
  <1>10. SlotsTile'
    BY <1>5, <1>6 DEF SlotsTile
  <1>11. CountersBacked'
    BY <1>5, <1>6, <1>7 DEF CountersBacked
  <1>12. WritersInv'
    <2> SUFFICES ASSUME NEW b \in Bytes, NEW t \in part'[b]
                 PROVE  /\ t \in Active /\ starts[t] <= b
                        /\ \/ b < Frontier(t)
                           \/ \E v \in Workers : /\ pc'[v] = "publish" /\ slot[v] = t
                                                 /\ b < Frontier(t) + flush'[v]
      BY <1>5, <1>6 DEF WritersInv
    <2>1. CASE t \in part[b]
      BY <2>1, <1>2 DEF WritersInv
    <2>2. CASE t = s /\ b \in Frontier(s) .. Frontier(s) + n - 1
      <3>1. starts[s] <= b /\ b < Frontier(s) + n
        BY <2>2, <1>2, <1>3
      <3> QED
        BY <3>1, <2>2, <1>0, <1>2, <1>3
    <2> QED
      BY <2>1, <2>2, <1>7
  <1>13. FlushInv'
    <2>1. Frontier(s) + n <= RealEnd(s) + 1
      <3>1. Frontier(s) + flush[w] <= RealEnd(s) + 1 /\ flush[w] \in Int
        BY <1>0 DEF FlushInv, TypeOK
      <3>2. RealEnd(s) \in Int
        BY <1>3 DEF TypeOK, Bytes, RealEnd, Thief
      <3> QED
        BY <3>1, <3>2, <1>2, <1>3
    <2> QED
      BY <2>1, <1>0, <1>2, <1>5 DEF FlushInv
  <1>14. PublishInv'
    <2> SUFFICES ASSUME NEW v \in Workers, pc'[v] = "publish", NEW b \in Bytes,
                        b \in Frontier(slot[v]) .. Frontier(slot[v]) + flush'[v] - 1
                 PROVE  slot[v] \in part'[b]
      BY <1>5 DEF PublishInv
    <2>1. CASE v = w
      BY <2>1, <1>0, <1>2, <1>7
    <2>2. CASE v # w
      BY <2>2, <1>2, <1>7 DEF PublishInv
    <2> QED
      BY <2>1, <2>2
  <1>15. CompleteIsWhole'
    BY <1>7 DEF CompleteIsWhole, Whole
  <1> QED
    BY <1>8, <1>9, <1>10, <1>11, <1>12, <1>13, <1>14, <1>15

\* What is published is in the file, and no other worker transfers the slot.
LEMMA PublishStep == ASSUME IInv, NEW w \in Workers, Publish(w) PROVE SInv'
  <1> USE DEF IInv, SInv, Publish, Goto, plan, lock, run
  <1> USE SizesAssumption, WorkersAssumption
  <1>0. PICK s, n : s = slot[w] /\ n = flush[w]
    OBVIOUS
  <1>1. /\ \A v \in Workers : v # w => pc'[v] = pc[v] /\ flush'[v] = flush[v]
        /\ pc'[w] \in {"read", "flush"} /\ n \in Int /\ n >= 0
    BY <1>0 DEF TypeOK
  <1>2. s \in Active /\ s \in Slots /\ completed[s] \in Int /\ starts[s] \in Int
    BY <1>0 DEF OwnersInv, Owning, Streaming, Active, Slots, TypeOK, Bytes
  <1>3. completed'[s] = completed[s] + n /\ \A t \in Slots : t # s => completed'[t] = completed[t]
    BY <1>0, <1>2 DEF TypeOK
  <1>4. Active' = Active /\ Active \subseteq Slots
    BY DEF Active, Slots, TypeOK
  <1>5. /\ Frontier(s)' = Frontier(s) + n /\ Frontier(s) \in Int
        /\ \A t \in Active : t # s => Frontier(t)' = Frontier(t)
    <2> starts' = starts
      OBVIOUS
    <2> HIDE DEF IInv, SInv, Publish
    <2> QED
      BY <1>1, <1>2, <1>3, <1>4 DEF Frontier
  <1>6. mu # NoWorker => mu \in Workers /\ mu # w /\ pc'[mu] = pc[mu]
    BY <1>1 DEF TypeOK, LockInv, Holding
  <1>7. \A t : RealEnd(t)' = RealEnd(t)
    BY <1>6, SameEnds
  <1>8. Frontier(s) + n <= RealEnd(s) + 1
    BY <1>0 DEF FlushInv
  <1>9. \A v \in Workers : v # w /\ pc[v] \in {"write", "publish"} => slot[v] # s /\ slot[v] \in Active
    BY <1>0 DEF OwnersInv, Owning, Streaming
  <1>10. OwnersInv' /\ LockInv'
    BY <1>1, <1>4 DEF OwnersInv, LockInv, Owning, Streaming, Holding
  <1>11. DonorInv'
    <2>1. mu # NoWorker /\ thief.donor # NoSlot =>
            thief.from \in Int /\ thief.donor \in Active /\ thief.from <= Frontier(thief.donor)
      BY DEF DonorInv, TypeOK, Thief
    <2>2. mu # NoWorker /\ thief.donor # NoSlot => thief.from <= Frontier(thief.donor)'
      BY <2>1, <1>1, <1>5
    <2> QED
      BY <2>2, <1>4, <1>6, <1>7 DEF DonorInv
  <1>12. SlotsTile'
    BY <1>4, <1>5, <1>7, <1>8 DEF SlotsTile
  <1>13. CountersBacked'
    <2> SUFFICES ASSUME NEW t \in Active, NEW b \in Bytes, b \in starts[t] .. Frontier(t)' - 1
                 PROVE  t \in part[b]
      BY <1>4 DEF CountersBacked
    <2>1. CASE t # s
      BY <2>1, <1>5 DEF CountersBacked
    <2>2. CASE t = s /\ b < Frontier(s)
      BY <2>2, <1>2, <1>5 DEF CountersBacked, Bytes
    <2>3. CASE t = s /\ ~(b < Frontier(s))
      BY <2>3, <1>0, <1>1, <1>2, <1>5 DEF PublishInv, Bytes
    <2> QED
      BY <2>1, <2>2, <2>3
  <1>14. WritersInv'
    <2> SUFFICES ASSUME NEW b \in Bytes, NEW t \in part[b]
                 PROVE  /\ t \in Active /\ starts[t] <= b
                        /\ \/ b < Frontier(t)'
                           \/ \E v \in Workers : /\ pc'[v] = "publish" /\ slot[v] = t
                                                 /\ b < Frontier(t)' + flush'[v]
      BY <1>4 DEF WritersInv
    <2>1. CASE t # s
      BY <2>1, <1>0, <1>1, <1>5 DEF WritersInv
    <2>2. CASE t = s
      <3>1. b < Frontier(s) + n
        <4>1. \A v \in Workers : pc[v] = "publish" /\ slot[v] = s => v = w
          BY <1>9
        <4>2. b \in Int
          BY DEF Bytes
        <4> QED
          BY <2>2, <4>1, <4>2, <1>0, <1>1, <1>5 DEF WritersInv
      <3> QED
        BY <2>2, <3>1, <1>5 DEF WritersInv
    <2> QED
      BY <2>1, <2>2
  <1>15. FlushInv'
    BY <1>1, <1>5, <1>7, <1>9 DEF FlushInv
  <1>16. PublishInv'
    BY <1>1, <1>5, <1>9 DEF PublishInv
  <1>17. CompleteIsWhole'
    BY DEF CompleteIsWhole, Whole
  <1> QED
    BY <1>10, <1>11, <1>12, <1>13, <1>14, <1>15, <1>16, <1>17

-----------------------------------------------------------------------------
(* The end of the run.                                                        *)

\* Nobody holds the lock any more, so every End is real; a tiling whose slots are
\* all done, with counters the file backs, has no hole.
LEMMA FinishStep == ASSUME IInv, Finish PROVE SInv'
  <1> USE DEF IInv, SInv, Finish, plan, lock, local
  <1> USE SizesAssumption, WorkersAssumption
  <1>1. mu = NoWorker
    BY DEF LockInv, Holding, TypeOK
  <1>2. VerifyComplete => Whole
    <2> SUFFICES ASSUME \A s \in Active : IsDone(s), NEW b \in Bytes
                 PROVE  part[b] # {}
      BY DEF VerifyComplete, Active, Whole
    <2>1. PICK s \in Active : b \in starts[s] .. RealEnd(s)
      BY DEF SlotsTile
    <2>2. RealEnd(s) = ends[s]
      BY <1>1 DEF RealEnd, Tentative
    <2>3. s \in Slots /\ starts[s] \in Int /\ ends[s] \in Int /\ completed[s] \in Int /\ b \in Int
      BY DEF TypeOK, Active, Slots, Bytes
    <2>4. b \in starts[s] .. Frontier(s) - 1
      BY <2>1, <2>2, <2>3 DEF IsDone, Size, Frontier
    <2> QED
      BY <2>4 DEF CountersBacked
  <1>3. CompleteIsWhole'
    BY <1>2 DEF CompleteIsWhole, Whole
  <1>4. \A s : RealEnd(s)' = RealEnd(s) /\ Frontier(s)' = Frontier(s)
    BY SameEnds DEF Frontier
  <1>5. Active' = Active
    BY DEF Active
  <1>6. OwnersInv' /\ LockInv' /\ DonorInv'
    BY <1>4, <1>5 DEF OwnersInv, LockInv, DonorInv
  <1>7. SlotsTile' /\ CountersBacked' /\ WritersInv'
    BY <1>4, <1>5 DEF SlotsTile, CountersBacked, WritersInv
  <1>8. FlushInv' /\ PublishInv'
    BY <1>4 DEF FlushInv, PublishInv
  <1> QED
    BY <1>3, <1>6, <1>7, <1>8

-----------------------------------------------------------------------------
(* The invariant is inductive.                                                *)

\* One step of a worker.
LEMMA WorkStep == ASSUME IInv, NEW w \in Workers, Work(w) PROVE SInv'
  <1> USE DEF Goto, Rest, Control, Owning, Holding, Streaming, plan, lock, run
  <1>1. CASE LeavePool(w)
    BY <1>1, QuietStep DEF LeavePool
  <1>2. CASE HandOut(w)
    BY <1>2, HandOutStep
  <1>3. CASE PlanFull(w)
    BY <1>3, QuietStep DEF PlanFull
  <1>4. CASE BeginSteal(w)
    BY <1>4, BeginStealStep
  <1>5. CASE ScanSlot(w)
    BY <1>5, ScanStep
  <1>6. CASE NothingToSteal(w)
    BY <1>6, NothingStep
  <1>7. CASE Shrink(w)
    BY <1>7, ShrinkStep
  <1>8. CASE Commit(w)
    BY <1>8, CommitStep
  <1>9. CASE Undo(w)
    BY <1>9, UndoStep
  <1>10. CASE PersistSplit(w)
    BY <1>10, QuietStep DEF PersistSplit
  <1>11. CASE StartSegment(w)
    BY <1>11, QuietStep DEF StartSegment
  <1>12. CASE AttemptCancelled(w)
    BY <1>12, QuietStep DEF AttemptCancelled, Fail
  <1>13. CASE GiveUp(w)
    BY <1>13, QuietStep DEF GiveUp, Fail
  <1>14. CASE ConnectFails(w)
    BY <1>14, QuietStep DEF ConnectFails, CanAttempt, Retry
  <1>15. CASE Connect(w)
    BY <1>15, QuietStep DEF Connect, CanAttempt
  <1>16. CASE ReadChunk(w)
    BY <1>16, QuietStep DEF ReadChunk
  <1>17. CASE ReadEnds(w)
    BY <1>17, QuietStep DEF ReadEnds
  <1>18. CASE ThrottleAborts(w)
    BY <1>18, QuietStep DEF ThrottleAborts
  <1>19. CASE Clip(w)
    BY <1>19, ClipStep
  <1>20. CASE Write(w)
    BY <1>20, WriteStep
  <1>21. CASE Publish(w)
    BY <1>21, PublishStep
  <1>22. CASE FlushFinal(w)
    BY <1>22, QuietStep DEF FlushFinal
  <1>23. CASE StreamCancelled(w)
    BY <1>23, QuietStep DEF StreamCancelled, Fail, CloseStream
  <1>24. CASE Settle(w)
    BY <1>24, QuietStep DEF Settle, CloseStream
  <1>25. CASE EofComplete(w)
    BY <1>25, QuietStep DEF EofComplete, CloseStream
  <1>26. CASE StreamFails(w)
    BY <1>26, QuietStep DEF StreamFails, Retry, CloseStream
  <1> QED
    BY <1>1, <1>2, <1>3, <1>4, <1>5, <1>6, <1>7, <1>8, <1>9, <1>10, <1>11, <1>12, <1>13,
       <1>14, <1>15, <1>16, <1>17, <1>18, <1>19, <1>20, <1>21, <1>22, <1>23, <1>24, <1>25, <1>26
       DEF Work, Dispatch, Steal, Attempt, Stream, Settling

\* The types of one worker's step, and its attempts.
LEMMA WorkTypes == ASSUME IInv, NEW w \in Workers, Work(w) PROVE TypeOK' /\ TriesInv'
  <1> USE DEF IInv, TypeOK, TriesInv, Goto, Control, Streaming, plan, lock, run
  <1> USE SizesAssumption, WorkersAssumption
  <1>0. NoThief \in Thief /\ \A E \in SUBSET Slots : [NoThief EXCEPT !.excluded = E] \in Thief
    BY DEF Thief, NoThief, NoSlot
  <1>1. CASE LeavePool(w)
    BY <1>1 DEF LeavePool
  <1>2. CASE HandOut(w)
    <2>1. cursor \in Slots /\ cursor + 1 \in 0 .. NSegs
      BY <1>2 DEF HandOut, Slots
    <2> QED
      BY <1>2, <2>1 DEF HandOut
  <1>3. CASE PlanFull(w)
    BY <1>3 DEF PlanFull
  <1>4. CASE BeginSteal(w)
    BY <1>0, <1>4 DEF BeginSteal
  <1>5. CASE ScanSlot(w)
    <2>1. mu = w /\ thief.at \in Active /\ active \in NSegs .. MaxSlots
      BY <1>5 DEF ScanSlot, SInv, LockInv, Holding, DonorInv
    <2>2. thief.at \in Slots /\ thief.at + 1 \in 0 .. MaxSlots
      <3>1. MaxSlots \in Nat /\ NSegs \in Nat
        OBVIOUS
      <3> HIDE DEF IInv, TypeOK
      <3> QED
        BY ONLY <2>1, <3>1 DEF Active, Slots
    <2>3. Frontier(thief.at) \in Int /\ Unfetched(thief.at) \in Int
      BY <2>2, SlotNumbers
    <2>4. thief' \in Thief
      BY <1>5, <2>2, <2>3 DEF ScanSlot, Thief
    <2> QED
      BY <1>5, <2>4 DEF ScanSlot
  <1>6. CASE NothingToSteal(w)
    BY <1>0, <1>6 DEF NothingToSteal
  <1>7. CASE Shrink(w)
    <2> DEFINE mid == thief.from + thief.rem \div 2 - 1
    <2>1. mu = w /\ thief.donor \in Slots /\ thief.donor \in Active
      BY <1>7 DEF Shrink, SInv, LockInv, Holding, DonorInv, Active, Slots
    <2>2. /\ thief.from \in Int /\ thief.rem \in Int /\ thief.from >= starts[thief.donor]
          /\ thief.rem = ends[thief.donor] - thief.from + 1 /\ thief.rem >= 2 * StealFloor
      BY <1>7, <2>1 DEF Shrink, SInv, DonorInv, RealEnd, Tentative, Thief
    <2>3. mid \in Int /\ thief.from <= mid /\ mid < thief.from + thief.rem - 1
      BY <2>2, SplitInside
    <2>4. starts[thief.donor] \in Bytes /\ ends[thief.donor] \in Bytes
      BY <2>1
    <2>5. mid \in Bytes
      <3>1. TotalSize \in Int /\ 0 <= starts[thief.donor] /\ ends[thief.donor] < TotalSize
            /\ starts[thief.donor] \in Int /\ ends[thief.donor] \in Int
        BY <2>1, SlotNumbers
      <3> HIDE DEF mid, IInv, TypeOK
      <3> QED
        BY <2>2, <2>3, <3>1 DEF Bytes
    <2>6. ends' \in [Slots -> Bytes]
      BY <1>7, <2>5 DEF Shrink
    <2>7. thief' \in Thief
      <3>1. thief' = [thief EXCEPT !.mid = mid, !.oldEnd = ends[thief.donor]]
        BY <1>7 DEF Shrink
      <3>2. ends[thief.donor] \in Int
        BY <2>1, SlotNumbers
      <3> HIDE DEF mid
      <3> QED
        BY <2>3, <3>1, <3>2 DEF Thief
    <2> QED
      BY <1>7, <2>6, <2>7 DEF Shrink
  <1>8. CASE Commit(w)
    <2>1. /\ thief.mid + 1 \in Bytes /\ thief.oldEnd \in Bytes
          /\ active \in Slots /\ active + 1 \in NSegs .. MaxSlots
      <3>1. /\ thief.mid \in Bytes /\ thief.oldEnd \in Bytes
            /\ active \in Slots /\ thief.mid + 1 <= thief.oldEnd
        BY <1>8, TailUntouched
      <3>2. active \in NSegs .. MaxSlots
        OBVIOUS
      <3> HIDE DEF IInv, TypeOK
      <3> QED
        BY <3>1, <3>2 DEF Bytes, Slots
    <2>2. starts' \in [Slots -> Bytes] /\ ends' \in [Slots -> Bytes]
      BY <1>8, <2>1 DEF Commit
    <2>3. completed' \in [Slots -> 0 .. TotalSize] /\ slot' \in [Workers -> Slots \cup {NoSlot}]
      BY <1>8, <2>1 DEF Commit
    <2> QED
      BY <1>0, <1>8, <2>1, <2>2, <2>3 DEF Commit
  <1>9. CASE Undo(w)
    <2>1. mu = w /\ thief.donor \in Slots /\ thief.oldEnd \in Bytes
      BY <1>9 DEF Undo, SInv, LockInv, Holding, DonorInv, Active, Slots
    <2>2. thief.excluded \cup {thief.donor} \in SUBSET Slots
      BY <2>1 DEF Thief
    <2>3. thief' \in Thief
      BY <1>0, <1>9, <2>2 DEF Undo
    <2>4. ends' \in [Slots -> Bytes]
      BY <1>9, <2>1 DEF Undo
    <2> QED
      BY <1>9, <2>3, <2>4 DEF Undo
  <1>10. CASE PersistSplit(w)
    BY <1>10 DEF PersistSplit
  <1>11. CASE StartSegment(w)
    BY <1>11 DEF StartSegment
  <1>12. CASE AttemptCancelled(w)
    BY <1>12 DEF AttemptCancelled, Fail
  <1>13. CASE GiveUp(w)
    BY <1>13 DEF GiveUp, Fail
  <1>14. CASE ConnectFails(w)
    BY <1>14 DEF ConnectFails, CanAttempt, Retry
  <1>15. CASE Connect(w)
    BY <1>15 DEF Connect, CanAttempt
  <1>16. CASE ReadChunk(w)
    BY <1>16 DEF ReadChunk
  <1>17. CASE ReadEnds(w)
    BY <1>17 DEF ReadEnds
  <1>18. CASE ThrottleAborts(w)
    BY <1>18 DEF ThrottleAborts
  <1>19. CASE Clip(w)
    <2>1. slot[w] \in Slots
      BY <1>19 DEF Clip, SInv, OwnersInv, Owning, Active, Slots
    <2>2. Room(slot[w]) \in Int
      BY <2>1 DEF Room, Size, Bytes
    <2>3. flush' \in [Workers -> 0 .. BufferSize]
      BY <1>19, <2>2 DEF Clip
    <2> QED
      BY <1>19, <2>3 DEF Clip
  <1>20. CASE Write(w)
    <2>1. slot[w] \in Slots
      BY <1>20 DEF Write, SInv, OwnersInv, Owning, Active, Slots
    <2>2. part' \in [Bytes -> SUBSET Slots]
      BY <1>20, <2>1 DEF Write
    <2>3. flush' \in [Workers -> 0 .. BufferSize]
      BY <1>20 DEF Write
    <2> QED
      BY <1>20, <2>2, <2>3 DEF Write
  <1>21. CASE Publish(w)
    <2> DEFINE s == slot[w]
    <2>1. s \in Slots /\ Frontier(s) + flush[w] <= RealEnd(s) + 1
      BY <1>21 DEF Publish, SInv, OwnersInv, FlushInv, Owning, Active, Slots
    <2>2. RealEnd(s) \in Bytes
      <3>1. Tentative(s) => thief.oldEnd \in Bytes
        BY DEF Tentative, SInv, DonorInv
      <3> QED
        BY <2>1, <3>1 DEF RealEnd
    <2>3. completed[s] + flush[w] \in 0 .. TotalSize
      <3>1. /\ TotalSize \in Int /\ starts[s] \in Int /\ 0 <= starts[s]
            /\ completed[s] \in Int /\ 0 <= completed[s] /\ Frontier(s) = starts[s] + completed[s]
        BY <2>1, SlotNumbers
      <3>2. flush[w] \in Int /\ 0 <= flush[w]
        OBVIOUS
      <3> HIDE DEF s, IInv, TypeOK
      <3> QED
        BY <2>1, <2>2, <3>1, <3>2 DEF Bytes
    <2>4. completed' \in [Slots -> 0 .. TotalSize]
      BY <1>21, <2>3 DEF Publish
    <2> QED
      BY <1>21, <2>4 DEF Publish
  <1>22. CASE FlushFinal(w)
    BY <1>22 DEF FlushFinal
  <1>23. CASE StreamCancelled(w)
    BY <1>23 DEF StreamCancelled, Fail, CloseStream
  <1>24. CASE Settle(w)
    BY <1>24 DEF Settle, CloseStream
  <1>25. CASE EofComplete(w)
    BY <1>25 DEF EofComplete, CloseStream
  <1>26. CASE StreamFails(w)
    BY <1>26 DEF StreamFails, Retry, CloseStream
  <1> QED
    BY <1>1, <1>2, <1>3, <1>4, <1>5, <1>6, <1>7, <1>8, <1>9, <1>10, <1>11, <1>12, <1>13,
       <1>14, <1>15, <1>16, <1>17, <1>18, <1>19, <1>20, <1>21, <1>22, <1>23, <1>24, <1>25, <1>26
       DEF Work, Dispatch, Steal, Attempt, Stream, Settling

\* No step of the run breaks the invariant.
LEMMA NextStep == IInv /\ [Next]_vars => IInv'
  <1> SUFFICES ASSUME IInv, [Next]_vars PROVE IInv'
    OBVIOUS
  <1>1. ASSUME NEW w \in Workers, Work(w) PROVE IInv'
    BY <1>1, WorkStep, WorkTypes DEF IInv
  <1>2. ASSUME NEW w \in Workers, StallFires(w) PROVE IInv'
    <2>1. SInv'
      BY <1>2, IdleStep DEF StallFires, Rest, plan, lock, run
    <2> QED
      BY <1>2, <2>1 DEF StallFires, IInv, TypeOK, TriesInv, plan, lock, run
  <1>3. CASE Cancel
    <2>1. SInv'
      BY <1>3, IdleStep DEF Cancel, Rest, plan, lock, local
    <2> QED
      BY <1>3, <2>1 DEF Cancel, IInv, TypeOK, TriesInv, plan, lock, local
  <1>4. CASE Finish
    BY <1>4, FinishStep DEF Finish, IInv, TypeOK, TriesInv, plan, lock, local
  <1>5. CASE Returned \/ UNCHANGED vars
    <2>1. SInv'
      BY <1>5, IdleStep DEF Returned, Rest, vars
    <2> QED
      BY <1>5, <2>1 DEF Returned, IInv, TypeOK, TriesInv, vars
  <1> QED
    BY <1>1, <1>2, <1>3, <1>4, <1>5 DEF Next

LEMMA Invariance == Spec => []IInv
  BY InitIInv, NextStep, PTL DEF Spec

-----------------------------------------------------------------------------
(* What the invariant says, for every pool, file, plan and buffer.            *)

\* Every variable of the run stays in its type: in particular no counter passes the
\* file's size and no worker spends more than its budget of attempts.
THEOREM TypeCorrect == Spec => []TypeOK
  BY Invariance, PTL DEF IInv

\* Slots in use tile the file, whatever is stolen, undone or retried.
THEOREM Tiling == Spec => []SlotsTile
  BY Invariance, PTL DEF IInv, SInv

\* A published counter never claims a byte its worker has not written.
THEOREM CountersAreBacked == Spec => []CountersBacked
  BY Invariance, PTL DEF IInv, SInv

\* The rename gate lets only whole files through.
THEOREM CompletionIsWhole == Spec => []CompleteIsWhole
  BY Invariance, PTL DEF IInv, SInv

\* Two writers of one byte would own overlapping ranges of the tiling.
LEMMA WritersDisjoint == IInv => OneWriterPerByte
  <1> SUFFICES ASSUME IInv PROVE OneWriterPerByte
    OBVIOUS
  <1> USE DEF IInv, SInv
  <1>1. ASSUME NEW b \in Bytes, NEW s \in part[b]
        PROVE  s \in Active /\ starts[s] <= b /\ b <= RealEnd(s)
               /\ starts[s] \in Int /\ RealEnd(s) \in Int
    <2>1. s \in Active /\ starts[s] <= b
      BY DEF WritersInv
    <2>2. s \in Slots /\ TypeOK
      BY <2>1 DEF Active, Slots, TypeOK
    <2>3. starts[s] \in Int /\ Frontier(s) \in Int /\ RealEnd(s) \in Int /\ b \in Int
      <3>1. b \in Int
        BY DEF Bytes
      <3> QED
        BY <2>2, <3>1, SlotNumbers
    <2>4. CASE b < Frontier(s)
      BY <2>1, <2>3, <2>4 DEF SlotsTile
    <2>5. CASE \E v \in Workers : pc[v] = "publish" /\ slot[v] = s /\ b < Frontier(s) + flush[v]
      <3> PICK v \in Workers : pc[v] = "publish" /\ slot[v] = s /\ b < Frontier(s) + flush[v]
        BY <2>5
      <3>1. Frontier(s) + flush[v] <= RealEnd(s) + 1 /\ flush[v] \in Int
        BY DEF FlushInv, TypeOK
      <3> QED
        BY <3>1, <2>1, <2>3
    <2> QED
      BY <2>1, <2>4, <2>5 DEF WritersInv
  <1>2. ASSUME NEW b \in Bytes, NEW s \in part[b], NEW t \in part[b], s # t PROVE FALSE
    <2>1. RealEnd(s) < starts[t] \/ RealEnd(t) < starts[s]
      BY <1>1, <1>2 DEF SlotsTile
    <2>2. b \in Int
      BY DEF Bytes
    <2>3. /\ starts[s] <= b /\ b <= RealEnd(s) /\ starts[s] \in Int /\ RealEnd(s) \in Int
          /\ starts[t] <= b /\ b <= RealEnd(t) /\ starts[t] \in Int /\ RealEnd(t) \in Int
      BY <1>1, <1>2
    <2> HIDE DEF IInv
    <2> QED
      BY <2>1, <2>2, <2>3
  <1> QED
    BY <1>2 DEF OneWriterPerByte

\* Steal safety: no byte of the file is written on behalf of two slots.
THEOREM NoDoubleWrite == Spec => []OneWriterPerByte
  BY Invariance, WritersDisjoint, PTL

\* Steal safety at the commit: the tail that changes hands is empty, and stays out of
\* reach of every flush in flight.
THEOREM StolenTailsAreClean == Spec => StolenTailUntouched
  <1> DEFINE Clean == active' > active =>
               LET tail == starts'[active] .. ends'[active] IN
               /\ tail # {} /\ \A b \in tail : part[b] = {}
               /\ \A w \in Workers :
                    pc[w] = "write" =>
                      tail \cap (Frontier(slot[w]) .. Frontier(slot[w]) + flush[w] - 1) = {}
  <1>1. IInv /\ [Next]_vars => [Clean]_vars
    <2> SUFFICES ASSUME IInv, Next, active' > active PROVE Clean
      OBVIOUS
    <2>1. active \in Int
      BY SizesAssumption DEF IInv, TypeOK
    <2>2. PICK w \in Workers : Commit(w)
      <3>1. active' # active
        BY <2>1
      <3> QED
        BY <3>1 DEF Next, Work, Dispatch, Steal, Attempt, Stream, Settling, LeavePool, HandOut,
           PlanFull, BeginSteal, ScanSlot, NothingToSteal, Shrink, Undo, PersistSplit,
           StartSegment, AttemptCancelled, GiveUp, ConnectFails, Connect, ReadChunk, ReadEnds,
           ThrottleAborts, Clip, Write, Publish, FlushFinal, StreamCancelled, Settle,
           EofComplete, StreamFails, StallFires, Cancel, Finish, Returned, vars, plan
    <2>3. /\ thief.donor \in Active /\ active \in Slots
          /\ thief.mid \in Bytes /\ thief.oldEnd \in Bytes
          /\ thief.mid + 1 <= thief.oldEnd /\ RealEnd(thief.donor) = thief.oldEnd
          /\ \A v \in Workers :
               pc[v] \in {"write", "publish"} /\ slot[v] = thief.donor =>
                 Frontier(thief.donor) + flush[v] <= thief.mid
          /\ \A b \in thief.mid + 1 .. thief.oldEnd : part[b] = {}
      BY <2>2, TailUntouched
    <2>4. starts'[active] = thief.mid + 1 /\ ends'[active] = thief.oldEnd
      BY <2>2, <2>3 DEF Commit, IInv, TypeOK
    <2>5. ASSUME NEW v \in Workers, pc[v] = "write",
                 NEW b \in thief.mid + 1 .. thief.oldEnd,
                 b \in Frontier(slot[v]) .. Frontier(slot[v]) + flush[v] - 1
          PROVE  FALSE
      <3>1. PICK s, d : s = slot[v] /\ d = thief.donor
        OBVIOUS
      <3>2. s \in Active /\ Frontier(s) + flush[v] <= RealEnd(s) + 1 /\ flush[v] \in Int
        BY <2>5, <3>1 DEF IInv, SInv, OwnersInv, Owning, Streaming, FlushInv, TypeOK
      <3>3. s \in Slots /\ d \in Slots /\ TypeOK
        <4>1. TypeOK /\ active \in NSegs .. MaxSlots
          BY DEF IInv, TypeOK
        <4>2. Active \subseteq Slots
          BY <4>1, SizesAssumption DEF Active, Slots
        <4> QED
          BY <2>3, <3>1, <3>2, <4>1, <4>2
      <3>4. /\ starts[s] \in Int /\ Frontier(s) \in Int /\ RealEnd(s) \in Int
            /\ starts[s] <= Frontier(s)
            /\ starts[d] \in Int /\ Frontier(d) \in Int /\ RealEnd(d) \in Int
        <4>1. /\ starts[s] \in Int /\ Frontier(s) \in Int /\ RealEnd(s) \in Int
              /\ completed[s] \in Int /\ completed[s] >= 0 /\ Frontier(s) = starts[s] + completed[s]
          BY <3>3, SlotNumbers
        <4>2. starts[d] \in Int /\ Frontier(d) \in Int /\ RealEnd(d) \in Int
          BY <3>3, SlotNumbers
        <4> QED
          BY <4>1, <4>2
      <3>5. b \in Int /\ thief.mid \in Int /\ thief.oldEnd \in Int
        BY <2>3 DEF Bytes
      <3>6. CASE s = d
        <4>1. Frontier(d) + flush[v] <= thief.mid
          BY <2>3, <2>5, <3>1, <3>6
        <4>2. b > thief.mid /\ b <= Frontier(d) + flush[v] - 1
          BY <2>5, <3>1, <3>2, <3>4, <3>5, <3>6
        <4> QED
          BY <3>2, <3>4, <3>5, <4>1, <4>2
      <3>7. CASE s # d
        <4>1. RealEnd(s) < starts[d] \/ RealEnd(d) < starts[s]
          <5>1. SlotsTile /\ d \in Active
            BY <2>3, <3>1 DEF IInv, SInv
          <5> HIDE DEF IInv
          <5> QED
            BY <3>2, <3>7, <5>1 DEF SlotsTile
        <4>2. starts[d] <= thief.mid
          BY <2>2, <3>1, TailUntouched
        <4> QED
          BY <2>3, <2>5, <3>1, <3>2, <3>4, <3>5, <4>1, <4>2
      <3> QED
        BY <3>6, <3>7
    <2> QED
      BY <2>3, <2>4, <2>5 DEF Bytes
  <1> QED
    BY <1>1, Invariance, PTL DEF Spec, StolenTailUntouched

-----------------------------------------------------------------------------
(* The gate refuses nothing but holes.  The tiling makes the counters of the  *)
(* slots an exact cover of the file: SumCounts turns that into their sum.     *)

Resting == \A w \in Workers : pc[w] \in {"exit", "failed"}

\* A run that has returned has no worker left.
GateInv == (outcome # "running" => Resting) /\ GateRefusesOnlyHoles

\* Bytes a slot has published.
Published == [s \in Active |-> starts[s] .. Frontier(s) - 1]

\* With every worker at rest, a whole file is published to the last byte, each byte
\* by the one slot that tiles it.
LEMMA WholeIsPublished ==
  ASSUME IInv, Resting, Whole
  PROVE  /\ mu = NoWorker
         /\ \A b \in Bytes : \E s \in Active : b \in Published[s]
         /\ \A s \in Active : Published[s] \subseteq Bytes
         /\ \A s, t \in Active : s # t => Published[s] \cap Published[t] = {}
  <1> USE SizesAssumption, WorkersAssumption
  <1>t. /\ Active \subseteq Slots
        /\ \A s \in Active : starts[s] \in Bytes /\ ends[s] \in Bytes /\ completed[s] \in Nat
    BY DEF IInv, TypeOK, Active, Slots, Bytes
  <1>1. mu = NoWorker
    BY DEF IInv, SInv, LockInv, Holding, TypeOK, Resting
  <1>2. \A s : RealEnd(s) = ends[s]
    BY <1>1 DEF RealEnd, Tentative
  <1>3. ASSUME NEW b \in Bytes PROVE \E s \in Active : b \in Published[s]
    <2>1. PICK s \in part[b] : TRUE
      BY DEF Whole
    <2>2. s \in Active /\ starts[s] <= b /\ b < Frontier(s)
      BY DEF IInv, SInv, WritersInv, Resting
    <2>3. b \in Int /\ starts[s] \in Int /\ Frontier(s) \in Int
      BY <1>t, <2>2 DEF Bytes, Frontier
    <2> QED
      BY <2>2, <2>3 DEF Published
  <1>4. \A s \in Active : Frontier(s) <= ends[s] + 1
    BY <1>2 DEF IInv, SInv, SlotsTile
  <1>5. ASSUME NEW s \in Active PROVE Published[s] \subseteq Bytes
    BY <1>t, <1>4 DEF Published, Bytes, Frontier
  <1>6. ASSUME NEW s \in Active, NEW t \in Active, s # t
        PROVE  Published[s] \cap Published[t] = {}
    <2>1. ends[s] < starts[t] \/ ends[t] < starts[s]
      BY <1>2, <1>6 DEF IInv, SInv, SlotsTile
    <2> QED
      BY <1>t, <1>4, <2>1 DEF Published, Bytes, Frontier
  <1> QED
    BY <1>1, <1>3, <1>5, <1>6

\* Then every slot is done and the counters add up to the size.
LEMMA WholePassesGate == ASSUME IInv, Resting, Whole PROVE VerifyComplete
  <1> USE SizesAssumption
  <1>t. /\ Active = 0 .. active - 1 /\ active \in Nat /\ Active \subseteq Slots
        /\ completed \in [Slots -> 0 .. TotalSize]
        /\ \A s \in Active : starts[s] \in Bytes /\ ends[s] \in Bytes /\ completed[s] \in Nat
    BY DEF IInv, TypeOK, Active, Slots, Bytes
  <1>1. \A s : RealEnd(s) = ends[s]
    BY WholeIsPublished DEF RealEnd, Tentative
  <1>2. ASSUME NEW s \in Active PROVE IsDone(s)
    <2>1. CASE starts[s] <= ends[s]
      <3>1. PICK t \in Active : ends[s] \in Published[t]
        <4>1. ends[s] \in Bytes
          BY <1>t
        <4>2. \A b \in Bytes : \E t \in Active : b \in Published[t]
          BY WholeIsPublished
        <4> QED
          BY ONLY <4>1, <4>2
      <3>2. starts[t] <= ends[s] /\ ends[s] < Frontier(t) /\ Frontier(t) <= ends[t] + 1
        <4>1. ends[s] \in starts[t] .. Frontier(t) - 1
          BY <3>1 DEF Published
        <4>2. Frontier(t) <= ends[t] + 1
          BY <1>1 DEF IInv, SInv, SlotsTile
        <4>3. starts[t] \in Int /\ Frontier(t) \in Int /\ ends[s] \in Int
          BY <1>t DEF Bytes, Frontier
        <4> QED
          BY ONLY <4>1, <4>2, <4>3
      <3>3. t = s
        <4> SUFFICES ASSUME t # s PROVE FALSE
          OBVIOUS
        <4>1. ends[s] < starts[t] \/ ends[t] < starts[s]
          BY <1>1 DEF IInv, SInv, SlotsTile
        <4> QED
          BY <1>t, <2>1, <3>2, <4>1 DEF Bytes, Frontier
      <3> QED
        BY <1>t, <3>2, <3>3 DEF IsDone, Size, Frontier, Bytes
    <2>2. CASE starts[s] > ends[s]
      BY <1>t, <2>2 DEF IsDone, Size, Bytes
    <2> QED
      BY <1>t, <2>1, <2>2 DEF Bytes
  <1>3. \A s \in Active : IsFiniteSet(Published[s]) /\ Cardinality(Published[s]) = completed[s]
    <2> SUFFICES ASSUME NEW s \in Active
                 PROVE  IsFiniteSet(Published[s]) /\ Cardinality(Published[s]) = completed[s]
      OBVIOUS
    <2>1. starts[s] \in Int /\ Frontier(s) - 1 \in Int /\ completed[s] \in Nat
      BY <1>t DEF Bytes, Frontier
    <2>2. /\ IsFiniteSet(starts[s] .. Frontier(s) - 1)
          /\ Cardinality(starts[s] .. Frontier(s) - 1)
               = IF starts[s] > Frontier(s) - 1 THEN 0 ELSE Frontier(s) - 1 - starts[s] + 1
      BY <2>1, FS_Interval
    <2>3. (IF starts[s] > Frontier(s) - 1 THEN 0 ELSE Frontier(s) - 1 - starts[s] + 1)
            = completed[s]
      BY <2>1 DEF Frontier
    <2> QED
      BY <2>2, <2>3 DEF Published
  <1>4. IsFiniteSet(Active)
    BY <1>t, FS_Interval
  <1>5. Cardinality(UNION {Published[s] : s \in Active}) = SumFunctionOnSet(completed, Active)
    <2>1. \A s, t \in Active : s # t => Published[s] \cap Published[t] = {}
      BY WholeIsPublished
    <2> HIDE DEF Published
    <2> QED
      BY <1>3, <1>4, <2>1, SumCounts
  <1>6. UNION {Published[s] : s \in Active} = Bytes
    BY WholeIsPublished
  <1>7. Cardinality(Bytes) = TotalSize
    <2>1. 0 \in Int /\ TotalSize - 1 \in Int
      OBVIOUS
    <2> QED
      BY <2>1, FS_Interval DEF Bytes
  <1> QED
    BY <1>t, <1>2, <1>5, <1>6, <1>7 DEF VerifyComplete

\* A worker that steps is not at rest, and does not return the run.
LEMMA WorkGoesOn ==
  ASSUME IInv, NEW w \in Workers, Work(w)
  PROVE  pc[w] \notin {"exit", "failed"} /\ outcome' = outcome
  <1> USE DEF Goto, Streaming, run
  <1>1. CASE Dispatch(w)
    BY <1>1 DEF Dispatch, LeavePool, HandOut, PlanFull, BeginSteal
  <1>2. CASE Steal(w)
    BY <1>2 DEF Steal, ScanSlot, NothingToSteal, Shrink, Commit, Undo, PersistSplit
  <1>3. CASE Attempt(w)
    BY <1>3 DEF Attempt, StartSegment, AttemptCancelled, GiveUp, ConnectFails, Connect,
                CanAttempt, Fail, Retry
  <1>4. CASE Stream(w)
    BY <1>4 DEF Stream, ReadChunk, ReadEnds, ThrottleAborts, Clip, Write, Publish, FlushFinal
  <1>5. CASE Settling(w)
    BY <1>5 DEF Settling, StreamCancelled, Settle, EofComplete, StreamFails, Fail, Retry,
                CloseStream
  <1> QED
    BY <1>1, <1>2, <1>3, <1>4, <1>5 DEF Work

\* No step lets the gate refuse a whole file.
LEMMA GateStep == ASSUME IInv, GateInv, [Next]_vars PROVE GateInv'
  <1>1. CASE \E w \in Workers : Work(w)
    <2>1. outcome' = outcome /\ outcome = "running"
      BY <1>1, WorkGoesOn DEF GateInv, Resting
    <2> QED
      BY <2>1 DEF GateInv, GateRefusesOnlyHoles
  <1>2. CASE \E w \in Workers : StallFires(w)
    BY <1>2 DEF StallFires, GateInv, GateRefusesOnlyHoles, Resting, Whole, run
  <1>3. CASE Cancel
    BY <1>3 DEF Cancel, GateInv, GateRefusesOnlyHoles
  <1>4. CASE Finish
    <2>1. Resting /\ Resting'
      BY <1>4 DEF Finish, Resting, local
    <2>2. /\ outcome' = IF ~first /\ ~cancelled /\ VerifyComplete THEN "complete" ELSE "failed"
          /\ UNCHANGED <<part, first, cancelled>>
      BY <1>4 DEF Finish
    <2>3. GateRefusesOnlyHoles'
      <3> SUFFICES ASSUME outcome' = "failed", ~first', ~cancelled', Whole' PROVE FALSE
        BY DEF GateRefusesOnlyHoles
      <3>1. ~first /\ ~cancelled /\ Whole
        BY <2>2 DEF Whole
      <3>2. VerifyComplete
        BY <2>1, <3>1, WholePassesGate
      <3> QED
        BY <2>2, <3>1, <3>2
    <2> QED
      BY <2>1, <2>3 DEF GateInv
  <1>5. CASE Returned \/ UNCHANGED vars
    BY <1>5 DEF Returned, vars, GateInv, GateRefusesOnlyHoles, Resting, Whole
  <1> QED
    BY <1>1, <1>2, <1>3, <1>4, <1>5 DEF Next

\* A run that ends without an error or a cancel and is refused all the same has a
\* hole: the counters and their sum never misjudge a layout, however it was split.
THEOREM GateRefuses == Spec => []GateRefusesOnlyHoles
  <1>1. Init => GateInv
    BY DEF Init, GateInv, GateRefusesOnlyHoles
  <1>2. IInv /\ GateInv /\ [Next]_vars => GateInv'
    BY GateStep
  <1>3. GateInv => GateRefusesOnlyHoles
    BY DEF GateInv
  <1> QED
    BY <1>1, <1>2, <1>3, Invariance, PTL DEF Spec
=============================================================================

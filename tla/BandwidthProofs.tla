--------------------------- MODULE BandwidthProofs ---------------------------
(***************************************************************************)
(* No bucket admits more than its capacity and what accrues, and a         *)
(* replaced one at most one more flush per worker: for any workers,        *)
(* downloads, rates, capacities and flush sizes.                           *)
(***************************************************************************)
EXTENDS Bandwidth, TLAPS

\* A bucket that somebody may wait on was made, and has room for a buffer.
Sound(b) == b <= made /\ burst[b] >= BufferSize
MadeInv ==
    /\ \A h \in Holders : holder[h] # None => Sound(holder[h])
    /\ \A w \in Workers, s \in Stages : use[w][s] # None => Sound(use[w][s])

\* The window has room for everything that could be taken from its bucket now.
RoomInv == watch.bucket # None => watch.bucket <= made /\ Level(watch.bucket) <= watch.room

\* A worker that has yet to pass a replaced bucket has not passed one since the replacement.
Ahead(w, s) == pc[w] = "own" \/ (pc[w] = "global" /\ s = "global")
LateInv ==
    \A w \in Workers, s \in Stages :
        Ahead(w, s) /\ use[w][s] # None /\ use[w][s] # holder[HolderFor(w, s)] =>
            late[HolderFor(w, s)][w] = 0

IInv == TypeOK /\ MadeInv /\ RoomInv /\ LateInv /\ SwapHeard

USE SizesAssumption, NamesAssumption DEF None, Buckets, Stages, Holders

\* A capacity has room for a buffer (rateBurst's floor).
LEMMA BurstFits == ASSUME NEW r \in Nat PROVE RateBurst(r) \in Nat /\ RateBurst(r) >= BufferSize
<1>1. (r * TicksPerSecond) \in Nat
  OBVIOUS
<1>2. \A x \in Nat : x \div 10 \in Nat
  OBVIOUS
<1> QED BY <1>1, <1>2 DEF RateBurst, Greatest

\* What a refill finds lies between what is there and the capacity.
LEMMA LevelInRange ==
    ASSUME TypeOK, NEW b \in Buckets
    PROVE Level(b) \in Nat /\ Level(b) <= burst[b] /\ tokens[b] <= Level(b)
<1>1. rate[b] \in Nat /\ age[b] \in Nat /\ tokens[b] \in Nat /\ burst[b] \in Nat
    /\ tokens[b] <= burst[b]
  BY DEF TypeOK, BucketTypes, RunTypes, FlushTypes, WatchType, LateType
<1>2. rate[b] * age[b] \in Nat
  BY <1>1
<1> QED BY <1>1, <1>2 DEF Level, Least

LEMMA InitIInv == Init => IInv
<1> SUFFICES ASSUME Init PROVE IInv
  OBVIOUS
<1>1. PICK r \in Rates :
        /\ rate = [b \in Buckets |-> IF b = 1 THEN r ELSE 0]
        /\ burst = [b \in Buckets |-> IF b = 1 /\ r > 0 THEN RateBurst(r) ELSE 0]
        /\ holder = [h \in Holders |-> IF h = Global /\ r > 0 THEN 1 ELSE None]
  BY DEF Init
<1>2. r \in Nat /\ RateBurst(r) \in Nat /\ RateBurst(r) >= BufferSize
  BY BurstFits
<1>3. TypeOK
  BY <1>1, <1>2 DEF Init, TypeOK, BucketTypes, RunTypes, FlushTypes, WatchType, LateType,
      NoBucket, NoWatch
<1>4. MadeInv
  BY <1>1, <1>2 DEF Init, MadeInv, Sound, NoBucket
<1>5. RoomInv /\ LateInv /\ SwapHeard
  BY <1>3 DEF Init, RoomInv, LateInv, Ahead, SwapHeard, NoBucket, NoWatch, TypeOK, BucketTypes,
      RunTypes, FlushTypes, WatchType, LateType, HolderFor
<1> QED BY <1>3, <1>4, <1>5 DEF IInv
-----------------------------------------------------------------------------
(* One lemma per kind of step.                                             *)

\* A change of limits fills a bucket that nobody could have loaded.
LEMMA InstallStep ==
    ASSUME IInv, NEW h \in Holders, NEW r \in Rates, Install(h, r),
           UNCHANGED <<age, size, use, sleep, todo, watch>>,
           running' \subseteq Downloads, cancelled' \subseteq running',
           pc' \in [Workers -> {"ended", "read", "own", "global", "write"}],
           \A w \in Workers : pc'[w] # pc[w] => pc'[w] = "read"
    PROVE IInv'
<1>1. TypeOK /\ MadeInv /\ RoomInv /\ LateInv /\ SwapHeard
  BY DEF IInv
<1>2. r \in Nat /\ RateBurst(r) \in Nat /\ RateBurst(r) >= BufferSize
  BY BurstFits
<1> DEFINE m == made + 1
           B == RateBurst(r)
           bucket == IF r = 0 THEN None ELSE m
<1> HIDE DEF B
<1>3. m \in Buckets /\ made' = m /\ B \in Nat /\ B >= BufferSize /\ bucket \in Buckets \cup {None}
  BY <1>1, <1>2 DEF Install, TypeOK, BucketTypes, RunTypes, FlushTypes, WatchType, LateType, B
<1>5. /\ holder' = [holder EXCEPT ![h] = bucket]
      /\ rate' = [rate EXCEPT ![m] = r]
      /\ burst' = IF r = 0 THEN burst ELSE [burst EXCEPT ![m] = B]
      /\ tokens' = IF r = 0 THEN tokens ELSE [tokens EXCEPT ![m] = B]
      /\ late' = [late EXCEPT ![h] = [w \in Workers |-> 0]]
  BY <1>2, <1>3 DEF Install, B
<1>4. TypeOK'
  <2>1. made' \in 0 .. MaxChanges /\ rate' \in [Buckets -> Rates]
    BY <1>1, <1>3, <1>5 DEF TypeOK, BucketTypes, RunTypes, FlushTypes, WatchType, LateType
  <2>2. holder' \in [Holders -> Buckets \cup {None}]
    BY <1>1, <1>3, <1>5 DEF TypeOK, BucketTypes, RunTypes, FlushTypes, WatchType, LateType
  <2>3. late' \in [Holders -> [Workers -> Nat]]
    BY <1>1, <1>5 DEF TypeOK, BucketTypes, RunTypes, FlushTypes, WatchType, LateType
  <2>4. burst' \in [Buckets -> Nat] /\ tokens' \in [Buckets -> Nat]
    BY <1>1, <1>3, <1>5 DEF TypeOK, BucketTypes, RunTypes, FlushTypes, WatchType, LateType
  <2>5. \A b \in Buckets : tokens'[b] <= burst'[b]
    BY <1>1, <1>3, <1>5 DEF TypeOK, BucketTypes, RunTypes, FlushTypes, WatchType, LateType
  <2> QED BY <1>1, <2>1, <2>2, <2>3, <2>4, <2>5
      DEF TypeOK, BucketTypes, RunTypes, FlushTypes, WatchType, LateType
<1>6. MadeInv'
  <2>1. \A b \in Buckets : Sound(b) => Sound(b)'
    BY <1>1, <1>3, <1>5 DEF Sound, TypeOK, BucketTypes, RunTypes, FlushTypes, WatchType, LateType
  <2>2. bucket # None => bucket <= made' /\ burst'[bucket] >= BufferSize
    BY <1>1, <1>3, <1>5 DEF TypeOK, BucketTypes, RunTypes, FlushTypes, WatchType, LateType
  <2>3. ASSUME NEW g \in Holders, holder'[g] # None PROVE Sound(holder[g])'
    <3>1. CASE g = h
      <4>1. holder'[g] = bucket
        BY <3>1, <1>1, <1>5 DEF TypeOK, BucketTypes, RunTypes, FlushTypes, WatchType, LateType
      <4> QED BY <4>1, <2>2, <2>3 DEF Sound
    <3>2. CASE g # h
      <4>1. holder'[g] = holder[g] /\ holder[g] \in Buckets
        BY <3>2, <2>3, <1>1, <1>5 DEF TypeOK, BucketTypes, RunTypes, FlushTypes, WatchType, LateType
      <4>2. Sound(holder[g])
        BY <4>1, <2>3, <1>1 DEF MadeInv
      <4> QED BY <4>1, <4>2, <2>1 DEF Sound
    <3> QED BY <3>1, <3>2
  <2>4. ASSUME NEW w \in Workers, NEW s \in Stages, use'[w][s] # None PROVE Sound(use[w][s])'
    <3>1. use'[w][s] = use[w][s] /\ use[w][s] \in Buckets
      BY <2>4, <1>1 DEF TypeOK, BucketTypes, RunTypes, FlushTypes, WatchType, LateType
    <3>2. Sound(use[w][s])
      BY <3>1, <2>4, <1>1 DEF MadeInv
    <3> QED BY <3>1, <3>2, <2>1 DEF Sound
  <2> QED BY <2>3, <2>4 DEF MadeInv
<1>7. RoomInv'
  <2> SUFFICES ASSUME watch.bucket # None
               PROVE watch.bucket <= made' /\ Level(watch.bucket)' <= watch.room
    BY DEF RoomInv
  <2>1. watch.bucket \in Buckets /\ watch.bucket <= made /\ watch.bucket # m
    BY <1>1 DEF RoomInv, TypeOK, BucketTypes, RunTypes, FlushTypes, WatchType, LateType
  <2>2. Level(watch.bucket)' = Level(watch.bucket)
    BY <2>1, <1>1, <1>5 DEF Level, TypeOK, BucketTypes, RunTypes, FlushTypes, WatchType, LateType
  <2> QED BY <2>1, <2>2, <1>1, <1>3 DEF RoomInv, TypeOK, BucketTypes, RunTypes, FlushTypes,
      WatchType, LateType
<1>8. SwapHeard'
  BY <1>1, <1>5 DEF SwapHeard, TypeOK, BucketTypes, RunTypes, FlushTypes, WatchType, LateType
<1>9. LateInv'
  <2> SUFFICES ASSUME NEW w \in Workers, NEW s \in Stages, Ahead(w, s)', use'[w][s] # None,
                      use'[w][s] # holder'[HolderFor(w, s)]
               PROVE late'[HolderFor(w, s)][w] = 0
    BY DEF LateInv, HolderFor
  <2>1. HolderFor(w, s) \in Holders /\ use'[w][s] = use[w][s]
    BY DEF HolderFor
  <2>2. Ahead(w, s)
    BY DEF Ahead
  <2>3. CASE HolderFor(w, s) = h
    BY <2>3, <1>1, <1>5 DEF TypeOK, BucketTypes, RunTypes, FlushTypes, WatchType, LateType
  <2>4. CASE HolderFor(w, s) # h
    <3>1. holder'[HolderFor(w, s)] = holder[HolderFor(w, s)]
          /\ late'[HolderFor(w, s)] = late[HolderFor(w, s)]
      BY <2>1, <2>4, <1>1, <1>5 DEF TypeOK, BucketTypes, RunTypes, FlushTypes, WatchType, LateType
    <3> QED BY <3>1, <2>1, <2>2, <1>1 DEF LateInv
  <2> QED BY <2>3, <2>4
<1> QED BY <1>4, <1>6, <1>7, <1>8, <1>9 DEF IInv

\* A step that leaves the buckets alone and takes no worker closer to one it did not just load.
LEMMA QuietStep ==
    ASSUME IInv, TypeOK', UNCHANGED <<bucketVars, late>>,
           watch' = watch \/ watch' = NoWatch,
           \A h \in Holders : holder'[h] \in {holder[h], None},
           \A w \in Workers, s \in Stages :
               use'[w][s] # None => use'[w][s] = use[w][s] \/ use'[w][s] = holder[HolderFor(w, s)],
           \A w \in Workers, s \in Stages :
               Ahead(w, s)' =>
                   \/ Ahead(w, s) /\ use'[w][s] = use[w][s]
                       /\ holder'[HolderFor(w, s)] = holder[HolderFor(w, s)]
                   \/ use'[w][s] = holder'[HolderFor(w, s)]
    PROVE IInv'
<1>1. TypeOK /\ MadeInv /\ RoomInv /\ LateInv /\ SwapHeard
  BY DEF IInv
<1>2. \A b : Sound(b) <=> Sound(b)'
  BY DEF Sound, bucketVars
<1>3. \A w \in Workers, s \in Stages : HolderFor(w, s) \in Holders
  BY DEF HolderFor
<1>4. MadeInv'
  BY <1>1, <1>2, <1>3 DEF MadeInv, Sound
<1>5. RoomInv'
  BY <1>1 DEF RoomInv, NoWatch, Level, bucketVars
<1>6. LateInv' /\ SwapHeard'
  BY <1>1, <1>3 DEF LateInv, SwapHeard, HolderFor
<1> QED BY <1>4, <1>5, <1>6 DEF IInv

\* A refill, and the tokens a flush takes.
LEMMA AdmitStep ==
    ASSUME IInv, NEW w \in Workers, Admit(w)
    PROVE IInv'
<1>1. TypeOK /\ MadeInv /\ RoomInv /\ LateInv /\ SwapHeard
  BY DEF IInv
<1>a. PICK b : b = Held(w)
  OBVIOUS
<1>b. PICK n : n = size[w]
  OBVIOUS
<1>h. PICK h : h = HolderOf(w)
  OBVIOUS
<1>2. b \in Buckets /\ Sound(b) /\ pc[w] \in Stages /\ use[w][pc[w]] = b
  <2>1. pc[w] \in Stages /\ b # None /\ b = use[w][pc[w]]
    BY <1>a DEF Admit, Held
  <2>2. b \in Buckets
    BY <2>1, <1>1 DEF TypeOK, FlushTypes
  <2> QED BY <2>1, <2>2, <1>1 DEF MadeInv
<1>3. n \in Nat /\ n <= BufferSize /\ Need(b, n) = n
  BY <1>1, <1>2, <1>b DEF TypeOK, FlushTypes, BucketTypes, Sound, Need, Least
<1>4. Level(b) \in Nat /\ Level(b) <= burst[b] /\ n <= Level(b) /\ Level(b) - n \in Nat
  BY <1>1, <1>2, <1>3, <1>a, <1>b, LevelInRange DEF Admit
<1>5. /\ tokens' = [tokens EXCEPT ![b] = Level(b) - n]
      /\ age' = [age EXCEPT ![b] = 0]
      /\ pc' = [pc EXCEPT ![w] = Passed(w)]
      /\ watch' = IF watch.bucket = b THEN [watch EXCEPT !.room = @ - n] ELSE watch
      /\ UNCHANGED <<made, rate, burst, holder, running, cancelled, size, use, sleep, todo>>
  BY <1>3, <1>a, <1>b DEF Admit
<1>6. h \in Holders /\ h = HolderFor(w, pc[w])
  BY <1>h DEF HolderOf, HolderFor
<1>7. late' = IF holder[h] = b THEN late ELSE [late EXCEPT ![h][w] = @ + 1]
  BY <1>a, <1>h DEF Admit
<1>8. holder[h] # b => late[h][w] = 0
  BY <1>1, <1>2, <1>6 DEF LateInv, Ahead
<1>9. TypeOK'
  <2>1. BucketTypes'
    <3>1. tokens' \in [Buckets -> Nat] /\ age' \in [Buckets -> Nat]
      BY <1>1, <1>2, <1>4, <1>5 DEF TypeOK, BucketTypes
    <3>2. ASSUME NEW c \in Buckets PROVE tokens'[c] <= burst'[c]
      <4>1. CASE c = b
        <5>1. tokens'[c] = Level(b) - n /\ burst'[c] = burst[b] /\ burst[b] \in Nat
          BY <4>1, <1>1, <1>2, <1>5 DEF TypeOK, BucketTypes
        <5> QED BY <5>1, <1>3, <1>4
      <4>2. CASE c # b
        BY <4>2, <1>1, <1>5 DEF TypeOK, BucketTypes
      <4> QED BY <4>1, <4>2
    <3> QED BY <3>1, <3>2, <1>1, <1>5 DEF TypeOK, BucketTypes
  <2>2. pc' \in [Workers -> {"ended", "read", "own", "global", "write"}]
    BY <1>1, <1>5 DEF TypeOK, FlushTypes, Passed
  <2>3. WatchType'
    BY <1>1, <1>3, <1>5 DEF TypeOK, WatchType
  <2>4. LateType'
    BY <1>1, <1>6, <1>7 DEF TypeOK, LateType
  <2> QED BY <1>1, <1>5, <2>1, <2>2, <2>3, <2>4 DEF TypeOK, BucketTypes, RunTypes, FlushTypes
<1>10. MadeInv'
  BY <1>1, <1>5 DEF MadeInv, Sound
<1>11. RoomInv'
  <2>1. PICK c : c = watch.bucket
    OBVIOUS
  <2>2. watch'.bucket = c
    BY <2>1, <1>1, <1>5 DEF TypeOK, BucketTypes, RunTypes, FlushTypes, WatchType, LateType
  <2> SUFFICES ASSUME c # None PROVE c <= made' /\ Level(c)' <= watch'.room
    BY <2>2 DEF RoomInv, Level
  <2>3. c \in Buckets /\ c <= made /\ Level(c) <= watch.room /\ watch.room \in Int
    BY <2>1, <1>1 DEF RoomInv, TypeOK, BucketTypes, RunTypes, FlushTypes, WatchType, LateType
  <2>4. CASE c = b
    <3>1. tokens'[b] = Level(b) - n /\ age'[b] = 0 /\ rate'[b] = rate[b] /\ burst'[b] = burst[b]
      BY <1>1, <1>2, <1>5 DEF TypeOK, BucketTypes, RunTypes, FlushTypes, WatchType, LateType
    <3>2. rate[b] \in Nat /\ rate[b] * 0 = 0 /\ burst[b] \in Nat
      <4>1. rate[b] \in Nat /\ burst[b] \in Nat
        BY <1>1, <1>2 DEF TypeOK, BucketTypes
      <4> QED BY <4>1
    <3>3. Level(b)' = Level(b) - n
      <4>1. Level(b)' = Least(burst'[b], tokens'[b] + rate'[b] * age'[b])
        BY DEF Level, Least
      <4>2. tokens'[b] + rate'[b] * age'[b] = Level(b) - n
        BY <3>1, <3>2, <1>4
      <4> QED BY <4>1, <4>2, <3>1, <3>2, <1>3, <1>4 DEF Least
    <3>4. watch'.room = watch.room - n
      BY <2>1, <2>4, <1>1, <1>5 DEF TypeOK, BucketTypes, RunTypes, FlushTypes, WatchType, LateType
    <3> QED BY <2>3, <2>4, <3>3, <3>4, <1>3, <1>4, <1>5
  <2>5. CASE c # b
    <3>1. Level(c)' = Level(c)
      BY <2>3, <2>5, <1>1, <1>5 DEF Level, TypeOK, BucketTypes, RunTypes, FlushTypes, WatchType,
          LateType
    <3> QED BY <2>1, <2>3, <2>5, <3>1, <1>5
  <2> QED BY <2>4, <2>5
<1>12. SwapHeard'
  <2> SUFFICES ASSUME NEW g \in Holders, NEW v \in Workers PROVE late'[g][v] <= 1
    BY DEF SwapHeard
  <2>1. late[g][v] <= 1
    BY <1>1 DEF SwapHeard
  <2>2. CASE holder[h] = b
    BY <2>1, <2>2, <1>7
  <2>3. CASE holder[h] # b
    <3>1. late'[g][v] = IF g = h /\ v = w THEN late[h][w] + 1 ELSE late[g][v]
      BY <2>3, <1>1, <1>6, <1>7 DEF TypeOK, LateType
    <3> QED BY <3>1, <2>1, <2>3, <1>8
  <2> QED BY <2>2, <2>3
<1>13. LateInv'
  <2> SUFFICES ASSUME NEW v \in Workers, NEW s \in Stages, Ahead(v, s)', use'[v][s] # None,
                      use'[v][s] # holder'[HolderFor(v, s)]
               PROVE late'[HolderFor(v, s)][v] = 0
    BY DEF LateInv, HolderFor
  <2>1. HolderFor(v, s) \in Holders
    BY DEF HolderFor
  <2>2. Ahead(v, s)
    BY <1>1, <1>2, <1>5 DEF Ahead, Passed, TypeOK, BucketTypes, RunTypes, FlushTypes, WatchType,
        LateType
  <2>3. late[HolderFor(v, s)][v] = 0
    BY <1>1, <1>5, <2>2 DEF LateInv
  <2>4. CASE v # w
    BY <2>1, <2>3, <2>4, <1>1, <1>6, <1>7
        DEF TypeOK, BucketTypes, RunTypes, FlushTypes, WatchType, LateType
  <2>5. CASE v = w
    <3>1. pc[w] = "own" /\ s = "global"
      BY <2>5, <1>1, <1>2, <1>5 DEF Ahead, Passed, TypeOK, BucketTypes, RunTypes, FlushTypes,
          WatchType, LateType
    <3>2. h \in Downloads /\ HolderFor(v, s) = Global
      BY <3>1, <1>6 DEF HolderFor
    <3> QED BY <3>2, <2>1, <2>3, <1>1, <1>7
        DEF TypeOK, BucketTypes, RunTypes, FlushTypes, WatchType, LateType
  <2> QED BY <2>4, <2>5
<1> QED BY <1>9, <1>10, <1>11, <1>12, <1>13 DEF IInv

\* A refill without a grant.
LEMMA ThrottleStep ==
    ASSUME IInv, NEW w \in Workers, Throttle(w)
    PROVE IInv'
<1>1. TypeOK /\ MadeInv /\ RoomInv /\ LateInv /\ SwapHeard
  BY DEF IInv
<1>a. PICK b : b = Held(w)
  OBVIOUS
<1>2. b \in Buckets
  BY <1>1, <1>a DEF Throttle, Held, TypeOK, FlushTypes
<1>3. Level(b) \in Nat /\ Level(b) <= burst[b]
  BY <1>1, <1>2, LevelInRange
<1>4. /\ tokens' = [tokens EXCEPT ![b] = Level(b)]
      /\ age' = [age EXCEPT ![b] = 0]
      /\ UNCHANGED <<made, rate, burst, holder, running, cancelled, pc, size, use, todo, watch,
          late>>
  BY <1>a DEF Throttle
<1>5. TypeOK'
  <2>1. tokens' \in [Buckets -> Nat] /\ age' \in [Buckets -> Nat]
    BY <1>1, <1>2, <1>3, <1>4 DEF TypeOK, BucketTypes
  <2>2. ASSUME NEW c \in Buckets PROVE tokens'[c] <= burst'[c]
    <3>1. CASE c = b
      BY <3>1, <1>1, <1>2, <1>3, <1>4 DEF TypeOK, BucketTypes
    <3>2. CASE c # b
      BY <3>2, <1>1, <1>4 DEF TypeOK, BucketTypes
    <3> QED BY <3>1, <3>2
  <2>3. sleep' \in [Workers -> 0 .. BufferSize]
    BY <1>1 DEF Throttle, TypeOK, FlushTypes
  <2> QED BY <2>1, <2>2, <2>3, <1>1, <1>4
          DEF TypeOK, BucketTypes, RunTypes, FlushTypes, WatchType, LateType
<1>6. MadeInv' /\ LateInv' /\ SwapHeard'
  BY <1>1, <1>4 DEF MadeInv, LateInv, SwapHeard, Sound, Ahead
<1>7. RoomInv'
  <2>1. PICK c : c = watch.bucket
    OBVIOUS
  <2> SUFFICES ASSUME c # None PROVE c <= made' /\ Level(c)' <= watch.room
    BY <2>1, <1>4 DEF RoomInv, Level
  <2>2. c \in Buckets /\ c <= made /\ Level(c) <= watch.room
    BY <2>1, <1>1 DEF RoomInv, TypeOK, WatchType
  <2>3. Level(c)' = Level(c)
    <3>1. CASE c = b
      <4>1. tokens'[b] = Level(b) /\ age'[b] = 0 /\ rate'[b] = rate[b] /\ burst'[b] = burst[b]
        BY <1>1, <1>2, <1>4 DEF TypeOK, BucketTypes
      <4>2. rate[b] \in Nat /\ burst[b] \in Nat
        BY <1>1, <1>2 DEF TypeOK, BucketTypes
      <4>3. tokens'[b] + rate'[b] * age'[b] = Level(b)
        BY <4>1, <4>2, <1>3
      <4>4. Level(b)' = Least(burst'[b], tokens'[b] + rate'[b] * age'[b])
        BY DEF Level, Least
      <4> QED BY <3>1, <4>1, <4>2, <4>3, <4>4, <1>3 DEF Least
    <3>2. CASE c # b
      BY <2>2, <3>2, <1>1, <1>4 DEF Level, TypeOK, BucketTypes
    <3> QED BY <3>1, <3>2
  <2> QED BY <2>2, <2>3, <1>4
<1> QED BY <1>5, <1>6, <1>7 DEF IInv

\* A tick adds to a bucket no more than to the window over it.
LEMMA TickStep == ASSUME IInv, Tick PROVE IInv'
<1>1. TypeOK /\ MadeInv /\ RoomInv /\ LateInv /\ SwapHeard
  BY DEF IInv
<1>2. UNCHANGED <<made, rate, burst, tokens, holder, running, cancelled, pc, size, use, todo, late>>
  BY DEF Tick
<1>3. \A b \in Buckets : age'[b] \in Nat /\ age'[b] <= age[b] + 1
  BY <1>1 DEF Tick, TypeOK, BucketTypes, Least
<1>4. TypeOK'
  <2>1. BucketTypes'
    BY <1>1, <1>2, <1>3 DEF TypeOK, BucketTypes, Tick
  <2>2. FlushTypes'
    BY <1>1, <1>2 DEF TypeOK, FlushTypes, Tick, Greatest
  <2>3. WatchType'
    <3>1. /\ watch \in [bucket : Buckets \cup {None}, room : Int, span : 0 .. MaxSpan]
          /\ rate \in [Buckets -> Nat]
      BY <1>1 DEF TypeOK, WatchType, BucketTypes
    <3>2. watch.bucket # None => watch.room + rate[watch.bucket] \in Int
      BY <3>1
    <3>3. watch.span # MaxSpan => watch.span + 1 \in 0 .. MaxSpan
      BY <3>1
    <3>4. NoWatch \in [bucket : Buckets \cup {None}, room : Int, span : 0 .. MaxSpan]
      BY DEF NoWatch
    <3> QED BY <3>1, <3>2, <3>3, <3>4 DEF WatchType, Tick
  <2> QED BY <2>1, <2>2, <2>3, <1>1, <1>2 DEF TypeOK, RunTypes, LateType
<1>5. MadeInv' /\ LateInv' /\ SwapHeard'
  BY <1>1, <1>2 DEF MadeInv, LateInv, SwapHeard, Sound, Ahead
<1>6. RoomInv'
  <2>1. PICK c : c = watch.bucket
    OBVIOUS
  <2>2. CASE watch' = watch /\ c = None
    BY <2>1, <2>2 DEF RoomInv
  <2>3. CASE watch' = NoWatch
    BY <2>3 DEF RoomInv, NoWatch
  <2>4. CASE c # None /\ watch' = [watch EXCEPT !.room = @ + rate[c], !.span = @ + 1]
    <3>1. c \in Buckets /\ c <= made /\ Level(c) <= watch.room /\ watch.room \in Int
      BY <2>1, <2>4, <1>1 DEF RoomInv, TypeOK, WatchType
    <3>2. watch'.bucket = c /\ watch'.room = watch.room + rate[c]
      BY <2>1, <2>4, <1>1 DEF TypeOK, WatchType
    <3>3. /\ tokens[c] \in Nat /\ rate[c] \in Nat /\ age[c] \in Nat /\ burst[c] \in Nat
          /\ age'[c] \in Nat /\ age'[c] <= age[c] + 1
      BY <3>1, <1>1, <1>3 DEF TypeOK, BucketTypes
    <3>4. rate[c] * age'[c] <= rate[c] * age[c] + rate[c]
      <4>1. \A r, m, n \in Nat : m <= n + 1 => r * m <= r * n + r
        <5>1. ASSUME NEW r \in Nat, NEW m \in Nat, NEW n \in Nat, m <= n + 1
              PROVE r * m <= r * n + r
          <6>1. PICK k \in Nat : n + 1 = m + k
            <7>1. n + 1 - m \in Nat /\ n + 1 = m + (n + 1 - m)
              BY <5>1
            <7> QED BY <7>1
          <6>2. r * (n + 1) = r * m + r * k /\ r * (n + 1) = r * n + r /\ r * k \in Nat
            BY <6>1
          <6> QED BY <6>2
        <5> QED BY <5>1
      <4> QED BY <4>1, <3>3
    <3>5. Level(c)' <= Level(c) + rate[c]
      <4>1. rate[c] * age[c] \in Nat /\ rate[c] * age'[c] \in Nat
        BY <3>3
      <4>2. Level(c)' = Least(burst[c], tokens[c] + rate[c] * age'[c])
        BY <1>2 DEF Level, Least
      <4> QED BY <4>1, <4>2, <3>3, <3>4 DEF Level, Least
    <3>6. Level(c)' \in Int /\ Level(c) \in Int
      <4>1. rate[c] * age'[c] \in Nat /\ Level(c)' = Least(burst[c], tokens[c] + rate[c] * age'[c])
        BY <3>3, <1>2 DEF Level, Least
      <4>2. Level(c)' \in Nat
        BY <4>1, <3>3 DEF Least
      <4> QED BY <3>1, <1>1, <4>2, LevelInRange
    <3> QED BY <3>1, <3>2, <3>3, <3>5, <3>6, <1>2 DEF RoomInv, Level
  <2> QED BY <2>1, <2>2, <2>3, <2>4 DEF Tick
<1> QED BY <1>4, <1>5, <1>6 DEF IInv
-----------------------------------------------------------------------------
(* Every step.                                                             *)

LEMMA WatchStep == ASSUME IInv, Watch PROVE IInv'
<1>1. TypeOK /\ MadeInv /\ RoomInv /\ LateInv /\ SwapHeard
  BY DEF IInv
<1>2. PICK b \in 1 .. made : watch' = [bucket |-> b, room |-> burst[b], span |-> 0]
  BY DEF Watch
<1>3. b \in Buckets /\ burst[b] \in Nat /\ Level(b) <= burst[b]
  <2>1. made \in 0 .. MaxChanges /\ burst \in [Buckets -> Nat]
    BY <1>1 DEF TypeOK, BucketTypes
  <2>2. b \in Buckets /\ burst[b] \in Nat
    BY <2>1
  <2> QED BY <2>2, <1>1, LevelInRange
<1>4. UNCHANGED <<bucketVars, holder, running, cancelled, flushVars, late>>
  BY DEF Watch
<1>5. TypeOK'
  <2>1. WatchType'
    BY <1>2, <1>3 DEF WatchType
  <2> QED BY <2>1, <1>1, <1>4
          DEF TypeOK, BucketTypes, RunTypes, FlushTypes, LateType, bucketVars, flushVars
<1>6. MadeInv' /\ LateInv' /\ SwapHeard'
  BY <1>1, <1>4 DEF MadeInv, LateInv, SwapHeard, Sound, Ahead, bucketVars, flushVars
<1>7. RoomInv'
  BY <1>2, <1>3, <1>4 DEF RoomInv, Level, bucketVars
<1> QED BY <1>5, <1>6, <1>7 DEF IInv

LEMMA LifeStep == ASSUME IInv, Life PROVE IInv'
<1>1. TypeOK
  BY DEF IInv
<1>2. CASE \E d \in Downloads : Cancel(d)
  <2>1. TypeOK'
    BY <1>1, <1>2
       DEF Cancel, TypeOK, BucketTypes, RunTypes, FlushTypes, WatchType, LateType, bucketVars,
           flushVars
  <2> QED BY <2>1, <1>2, QuietStep DEF Cancel, bucketVars, flushVars, Ahead
<1>3. CASE \E d \in Downloads : EndRun(d)
  <2>1. PICK d \in Downloads : EndRun(d)
    BY <1>3
  <2>2. holder' = [holder EXCEPT ![d] = None]
        /\ UNCHANGED <<bucketVars, flushVars, watch, late>>
    BY <2>1 DEF EndRun
  <2>3. TypeOK'
    BY <1>1, <2>1, <2>2
       DEF EndRun, TypeOK, BucketTypes, RunTypes, FlushTypes, WatchType, LateType, bucketVars,
           flushVars
  <2>4. \A h \in Holders : holder'[h] \in {holder[h], None}
    BY <1>1, <2>2 DEF TypeOK, RunTypes
  <2>5. ASSUME NEW w \in Workers, NEW s \in Stages, Ahead(w, s)'
        PROVE Ahead(w, s) /\ use'[w][s] = use[w][s]
              /\ holder'[HolderFor(w, s)] = holder[HolderFor(w, s)]
    <3>1. Ahead(w, s) /\ use'[w][s] = use[w][s]
      BY <2>2, <2>5 DEF Ahead, flushVars
    <3>2. HolderFor(w, s) # d
      BY <2>1, <3>1 DEF EndRun, HolderFor, Ahead
    <3> QED BY <3>1, <3>2, <2>2, <1>1 DEF TypeOK, RunTypes, HolderFor
  <2> QED BY <2>2, <2>3, <2>4, <2>5, QuietStep DEF flushVars
<1> QED BY <1>2, <1>3 DEF Life

LEMMA ChangeStep == ASSUME IInv, Change PROVE IInv'
<1>1. TypeOK
  BY DEF IInv
<1>2. running \subseteq Downloads /\ cancelled \subseteq running
      /\ pc \in [Workers -> {"ended", "read", "own", "global", "write"}]
  BY <1>1 DEF TypeOK, RunTypes, FlushTypes
<1>3. ASSUME NEW r \in Rates, SetGlobalRate(r) PROVE IInv'
  BY <1>2, <1>3, InstallStep DEF SetGlobalRate, flushVars
<1>4. ASSUME NEW r \in Rates, NEW d \in Downloads, SetDownloadRate(d, r) PROVE IInv'
  BY <1>2, <1>4, InstallStep DEF SetDownloadRate, flushVars
<1>5. ASSUME NEW r \in Rates, NEW d \in Downloads, StartRun(d, r) PROVE IInv'
  <2>1. pc' \in [Workers -> {"ended", "read", "own", "global", "write"}]
        /\ \A w \in Workers : pc'[w] # pc[w] => pc'[w] = "read"
    BY <1>2, <1>5 DEF StartRun
  <2> QED BY <2>1, <1>2, <1>5, InstallStep DEF StartRun
<1> QED BY <1>3, <1>4, <1>5 DEF Change

LEMMA WorkerStep ==
    ASSUME IInv, NEW w \in Workers, Flush(w) \/ Stall(w) \/ EndStream(w)
    PROVE IInv'
<1>1. TypeOK
  BY DEF IInv
<1>2. CASE BeginFlush(w)
  <2>1. PICK n \in 1 .. BufferSize : size' = [size EXCEPT ![w] = n]
    BY <1>2 DEF BeginFlush
  <2>2. use' = [use EXCEPT ![w] = [s \in Stages |-> holder[HolderFor(w, s)]]]
        /\ pc' = [pc EXCEPT ![w] = "own"] /\ todo' = [todo EXCEPT ![w] = @ - 1]
        /\ todo[w] > 0 /\ UNCHANGED <<bucketVars, holder, running, cancelled, sleep, watch, late>>
    BY <1>2 DEF BeginFlush
  <2>3. \A s \in Stages : holder[HolderFor(w, s)] \in Buckets \cup {None}
    BY <1>1 DEF TypeOK, RunTypes, HolderFor
  <2>4. FlushTypes'
    BY <1>1, <2>1, <2>2, <2>3 DEF TypeOK, FlushTypes
  <2>5. TypeOK'
    BY <1>1, <2>2, <2>4 DEF TypeOK, BucketTypes, RunTypes, WatchType, LateType, bucketVars
  <2>6. \A v \in Workers, s \in Stages :
            IF v = w THEN use'[v][s] = holder[HolderFor(v, s)]
                     ELSE use'[v][s] = use[v][s] /\ pc'[v] = pc[v]
    BY <1>1, <2>2 DEF TypeOK, FlushTypes
  <2> QED BY <2>2, <2>5, <2>6, QuietStep DEF Ahead
<1>3. CASE Unlimited(w)
  <2>1. pc' = [pc EXCEPT ![w] = Passed(w)] /\ pc[w] \in Stages
        /\ UNCHANGED <<bucketVars, holder, running, cancelled, size, use, sleep, todo, watch, late>>
    BY <1>3 DEF Unlimited
  <2>2. TypeOK'
    BY <1>1, <2>1
       DEF TypeOK, BucketTypes, RunTypes, FlushTypes, WatchType, LateType, bucketVars, Passed
  <2>3. \A v \in Workers, s \in Stages : Ahead(v, s)' => Ahead(v, s)
    BY <1>1, <2>1 DEF Ahead, Passed, TypeOK, FlushTypes
  <2> QED BY <2>1, <2>2, <2>3, QuietStep DEF bucketVars
<1>4. CASE Abort(w) \/ Stall(w) \/ Write(w) \/ EndStream(w)
  <2>1. /\ pc' \in {[pc EXCEPT ![w] = "read"], [pc EXCEPT ![w] = "ended"]}
        /\ sleep' \in {sleep, [sleep EXCEPT ![w] = 0]}
        /\ use' \in {use, [use EXCEPT ![w] = NoBucket]}
        /\ UNCHANGED <<bucketVars, holder, running, cancelled, size, todo, watch, late>>
    BY <1>4 DEF Abort, Stall, Write, EndStream
  <2>2. FlushTypes'
    <3>1. pc' \in [Workers -> {"ended", "read", "own", "global", "write"}]
      BY <1>1, <2>1 DEF TypeOK, FlushTypes
    <3>2. sleep' \in [Workers -> 0 .. BufferSize]
      BY <1>1, <2>1 DEF TypeOK, FlushTypes
    <3>3. use' \in [Workers -> [Stages -> Buckets \cup {None}]]
      <4>1. NoBucket \in [Stages -> Buckets \cup {None}]
        BY DEF NoBucket
      <4> QED BY <4>1, <1>1, <2>1 DEF TypeOK, FlushTypes
    <3> QED BY <3>1, <3>2, <3>3, <1>1, <2>1 DEF TypeOK, FlushTypes
  <2>3. TypeOK'
    BY <1>1, <2>1, <2>2 DEF TypeOK, BucketTypes, RunTypes, WatchType, LateType, bucketVars
  <2>4. \A v \in Workers, s \in Stages : use'[v][s] # None => use'[v][s] = use[v][s]
    BY <1>1, <2>1 DEF TypeOK, FlushTypes, NoBucket
  <2>5. \A v \in Workers, s \in Stages : Ahead(v, s)' => Ahead(v, s) /\ use'[v][s] = use[v][s]
    BY <1>1, <2>1 DEF TypeOK, FlushTypes, Ahead
  <2> QED BY <2>1, <2>3, <2>4, <2>5, QuietStep DEF bucketVars
<1>5. CASE Admit(w)
  BY <1>5, AdmitStep
<1>6. CASE Throttle(w)
  BY <1>6, ThrottleStep
<1> QED BY <1>2, <1>3, <1>4, <1>5, <1>6 DEF Flush

LEMMA StutterStep == ASSUME IInv, UNCHANGED vars PROVE IInv'
BY DEF vars, IInv, TypeOK, BucketTypes, RunTypes, FlushTypes, WatchType, LateType,
       MadeInv, Sound, RoomInv, Level, LateInv, Ahead, SwapHeard

LEMMA NextStep == IInv /\ [Next]_vars => IInv'
BY TickStep, WatchStep, ChangeStep, LifeStep, WorkerStep, StutterStep DEF Next

LEMMA Invariance == Spec => []IInv
BY InitIInv, NextStep, PTL DEF Spec

\* Every value of the limiter's state stays in its type: a bucket never holds more than its
\* capacity nor less than nothing, and no sleep is longer than a buffer takes (WaitN).
THEOREM TypeCorrect == Spec => []TypeOK
<1>1. IInv => TypeOK
  BY DEF IInv
<1> QED BY <1>1, Invariance, PTL

\* However many callers race for a bucket, sleep on stale estimates and abort, no window of
\* time admits more than its capacity and what accrues (WaitN's "never an over-grant").
THEOREM NeverOverGranted == Spec => []CapHolds
<1>1. IInv => CapHolds
  <2> SUFFICES ASSUME IInv, watch.bucket # None PROVE watch.room >= 0
    BY DEF CapHolds
  <2>1. TypeOK /\ watch.bucket \in Buckets /\ watch.room \in Int
        /\ Level(watch.bucket) <= watch.room
    BY DEF IInv, TypeOK, WatchType, RoomInv
  <2> QED BY <2>1, LevelInRange
<1> QED BY <1>1, Invariance, PTL

\* After a replacement no worker is admitted by an old bucket more than once.
THEOREM SwapsAreHeard == Spec => []SwapHeard
<1>1. IInv => SwapHeard
  BY DEF IInv
<1> QED BY <1>1, Invariance, PTL
=============================================================================

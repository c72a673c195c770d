------------------------------ MODULE Bandwidth ------------------------------
(***************************************************************************)
(* The bandwidth limits (internal/engine/ratelimit.go): every flush of a   *)
(* transfer passes its download's token bucket and then the engine's,      *)
(* while clients replace either bucket and runs start, are cancelled and   *)
(* end.                                                                    *)
(*                                                                         *)
(* A bucket is filled lazily: it remembers when it was last looked at, and *)
(* the next WaitN adds what has accrued since, under the bucket's lock.    *)
(* Time passes in ticks, and rates are bytes per tick.                     *)
(***************************************************************************)
EXTENDS Integers

CONSTANTS
    Workers,        \* goroutines that flush, one per connection
    Downloads,
    Owner,          \* the download of each worker
    Global,         \* the holder of the engine's bucket, beside one per download
    BufferSize,     \* the largest flush
    Rates,          \* 0 is unlimited
    CfgBurst,       \* the configured capacity; 0 is the default
    TicksPerSecond,
    Flushes,        \* flushes of each worker (bound)
    MaxChanges,     \* buckets ever made or taken away (bound)
    Watched,        \* the buckets over which windows are observed (bound)
    MaxSpan         \* ticks of an observed window (bound)

ASSUME SizesAssumption ==
    /\ BufferSize \in Nat \ {0} /\ CfgBurst \in Nat /\ TicksPerSecond \in Nat
    /\ Rates \subseteq Nat /\ 0 \in Rates
    /\ Flushes \in [Workers -> Nat] /\ MaxChanges \in Nat \ {0} /\ MaxSpan \in Nat
ASSUME NamesAssumption ==
    Global \notin Downloads /\ Owner \in [Workers -> Downloads]

Buckets == 1 .. MaxChanges
None == 0           \* no bucket: unlimited

VARIABLES
    made,                   \* changes so far; a new bucket is numbered by its change
    rate, burst, tokens,    \* of each bucket
    age,                    \* ticks since it was last refilled, up to what fills it
    holder,                 \* the bucket of each download and of the engine
    running, cancelled,     \* downloads in transfer, and those of them that were cancelled
    pc, size, use,          \* per worker: control point, its flush and the buckets it loaded
    sleep,                  \* ticks that WaitN still sleeps
    todo,                   \* flushes left to the worker
    watch,                  \* history: a window of time over one bucket, and its room: what
                            \* may still be granted in it
    late                    \* history: grants a worker took from a replaced bucket since the
                            \* last replacement

bucketVars == <<made, rate, burst, tokens, age>>
flushVars == <<pc, size, use, sleep, todo>>
vars == <<made, rate, burst, tokens, age, holder, running, cancelled,
          pc, size, use, sleep, todo, watch, late>>

Holders == Downloads \cup {Global}
Stages == {"own", "global"}
NoBucket == [s \in Stages |-> None]
NoWatch == [bucket |-> None, room |-> 0, span |-> 0]

Least(a, b) == IF a <= b THEN a ELSE b
Greatest(a, b) == IF a >= b THEN a ELSE b

\* rateBurst: a tenth of a second's bytes, and room for two buffers.
RateBurst(r) ==
    Greatest(2 * BufferSize, IF CfgBurst > 0 THEN CfgBurst ELSE (r * TicksPerSecond) \div 10)

\* Defect: what accrues is not clamped to the capacity.
Level_Unclamped(b) == tokens[b] + rate[b] * age[b]
\* What a refill finds in the bucket.
Level(b) == Least(burst[b], tokens[b] + rate[b] * age[b])

\* WaitN's "belt and suspenders" clamp.
Need(b, n) == Least(n, burst[b])

\* The engine is built with the configured limit.
Init ==
    /\ made = 1
    /\ \E r \in Rates :
        /\ rate = [b \in Buckets |-> IF b = 1 THEN r ELSE 0]
        /\ burst = [b \in Buckets |-> IF b = 1 /\ r > 0 THEN RateBurst(r) ELSE 0]
        /\ holder = [h \in Holders |-> IF h = Global /\ r > 0 THEN 1 ELSE None]
    /\ tokens = burst /\ age = [b \in Buckets |-> 0]
    /\ running = {} /\ cancelled = {}
    /\ pc = [w \in Workers |-> "ended"] /\ size = [w \in Workers |-> 0]
    /\ use = [w \in Workers |-> NoBucket] /\ sleep = [w \in Workers |-> 0]
    /\ todo = Flushes
    /\ watch = NoWatch /\ late = [h \in Holders |-> [w \in Workers |-> 0]]
-----------------------------------------------------------------------------
(* Buckets are made and replaced; whoever loaded the old one goes on with it. *)

\* Defect: a rate of 0 makes a bucket that never fills.
Install_ZeroRate(h, r) ==
    /\ made < MaxChanges /\ made' = made + 1
    /\ rate' = [rate EXCEPT ![made'] = r]
    /\ burst' = [burst EXCEPT ![made'] = RateBurst(r)]
    /\ tokens' = [tokens EXCEPT ![made'] = RateBurst(r)]
    /\ holder' = [holder EXCEPT ![h] = made']
    /\ late' = [late EXCEPT ![h] = [w \in Workers |-> 0]]

\* A new bucket is full; a rate of 0 takes the limit away.
Install(h, r) ==
    /\ made < MaxChanges /\ made' = made + 1
    /\ rate' = [rate EXCEPT ![made'] = r]
    /\ IF r = 0
       THEN holder' = [holder EXCEPT ![h] = None] /\ UNCHANGED <<burst, tokens>>
       ELSE /\ holder' = [holder EXCEPT ![h] = made']
            /\ burst' = [burst EXCEPT ![made'] = RateBurst(r)]
            /\ tokens' = [tokens EXCEPT ![made'] = RateBurst(r)]
    /\ late' = [late EXCEPT ![h] = [w \in Workers |-> 0]]

SetGlobalRate(r) ==
    /\ Install(Global, r)
    /\ UNCHANGED <<age, running, cancelled, flushVars, watch>>

\* Of a download that is not running it changes nothing here.
SetDownloadRate(d, r) ==
    /\ d \in running
    /\ Install(d, r)
    /\ UNCHANGED <<age, running, cancelled, flushVars, watch>>

\* transfer registers the download's bucket, at the effective rate, and starts the workers.
StartRun(d, r) ==
    /\ d \notin running
    /\ Install(d, r)
    /\ running' = running \cup {d}
    /\ pc' = [w \in Workers |-> IF Owner[w] = d THEN "read" ELSE pc[w]]
    /\ UNCHANGED <<age, cancelled, size, use, sleep, todo, watch>>

Cancel(d) ==
    /\ d \in running \ cancelled
    /\ cancelled' = cancelled \cup {d}
    /\ UNCHANGED <<bucketVars, holder, running, flushVars, watch, late>>

\* Once every worker has ended, nobody can find the download's bucket.
EndRun(d) ==
    /\ d \in running /\ \A w \in Workers : Owner[w] = d => pc[w] = "ended"
    /\ running' = running \ {d} /\ cancelled' = cancelled \ {d}
    /\ holder' = [holder EXCEPT ![d] = None]
    /\ UNCHANGED <<bucketVars, flushVars, watch, late>>
-----------------------------------------------------------------------------
(* A flush: progressWriter.Write up to the write itself.                   *)

HolderFor(w, s) == IF s = "own" THEN Owner[w] ELSE Global
Held(w) == use[w][pc[w]]
HolderOf(w) == HolderFor(w, pc[w])
Passed(w) == IF pc[w] = "own" THEN "global" ELSE "write"

\* A buffer was read; both pointers are loaded, once per flush.
BeginFlush(w) ==
    /\ pc[w] = "read" /\ todo[w] > 0
    /\ \E n \in 1 .. BufferSize : size' = [size EXCEPT ![w] = n]
    /\ use' = [use EXCEPT ![w] = [s \in Stages |-> holder[HolderFor(w, s)]]]
    /\ pc' = [pc EXCEPT ![w] = "own"] /\ todo' = [todo EXCEPT ![w] = @ - 1]
    /\ UNCHANGED <<bucketVars, holder, running, cancelled, sleep, watch, late>>

Unlimited(w) ==
    /\ pc[w] \in Stages /\ Held(w) = None
    /\ pc' = [pc EXCEPT ![w] = Passed(w)]
    /\ UNCHANGED <<bucketVars, holder, running, cancelled, size, use, sleep, todo, watch, late>>

\* Defect: after a sleep the tokens are taken without another look at the bucket.
Admit_NoRecheck(w) ==
    LET b == Held(w) IN
    /\ pc[w] \in Stages /\ b # None /\ sleep[w] = 0
    /\ tokens' = [tokens EXCEPT ![b] = Greatest(0, Level(b) - Need(b, size[w]))]
    /\ age' = [age EXCEPT ![b] = 0]
    /\ pc' = [pc EXCEPT ![w] = Passed(w)]
    /\ watch' = IF watch.bucket = b THEN [watch EXCEPT !.room = @ - size[w]] ELSE watch
    /\ UNCHANGED <<made, rate, burst, holder, running, cancelled, size, use, sleep, todo, late>>

\* WaitN's fast path, which does not look at the context.
Admit(w) ==
    LET b == Held(w) IN
    /\ pc[w] \in Stages /\ b # None /\ sleep[w] = 0
    /\ Level(b) >= Need(b, size[w])
    /\ tokens' = [tokens EXCEPT ![b] = Level(b) - Need(b, size[w])]
    /\ age' = [age EXCEPT ![b] = 0]
    /\ pc' = [pc EXCEPT ![w] = Passed(w)]
    /\ watch' = IF watch.bucket = b THEN [watch EXCEPT !.room = @ - size[w]] ELSE watch
    /\ late' = IF holder[HolderOf(w)] = b THEN late
                                          ELSE [late EXCEPT ![HolderOf(w)][w] = @ + 1]
    /\ UNCHANGED <<made, rate, burst, holder, running, cancelled, size, use, sleep, todo>>

\* Too few tokens: WaitN sleeps, without the lock, for as long as the deficit takes to accrue.
Throttle(w) ==
    LET b == Held(w) IN
    /\ pc[w] \in Stages /\ b # None /\ sleep[w] = 0
    /\ Level(b) < Need(b, size[w])
    /\ \E k \in 1 .. BufferSize :
        /\ rate[b] * k >= Need(b, size[w]) - Level(b)
        /\ rate[b] * (k - 1) < Need(b, size[w]) - Level(b)
        /\ sleep' = [sleep EXCEPT ![w] = k]
    /\ tokens' = [tokens EXCEPT ![b] = Level(b)]
    /\ age' = [age EXCEPT ![b] = 0]
    /\ UNCHANGED <<made, rate, burst, holder, running, cancelled, pc, size, use, todo, watch, late>>

\* The sleep ends with the run's context. What the first bucket gave is not returned to it.
Abort(w) ==
    /\ pc[w] \in Stages /\ sleep[w] > 0 /\ Owner[w] \in cancelled
    /\ pc' = [pc EXCEPT ![w] = "ended"] /\ sleep' = [sleep EXCEPT ![w] = 0]
    /\ use' = [use EXCEPT ![w] = NoBucket]
    /\ UNCHANGED <<bucketVars, holder, running, cancelled, size, todo, watch, late>>

\* Defect: a stream keeps the buckets of its first flush.
Write_LoadsOnce(w) ==
    /\ pc[w] = "write" /\ todo[w] > 0
    /\ pc' = [pc EXCEPT ![w] = "own"] /\ todo' = [todo EXCEPT ![w] = @ - 1]
    /\ UNCHANGED <<bucketVars, holder, running, cancelled, size, use, sleep, watch, late>>

\* The stall watchdog, to which a wait for bandwidth is silence: the attempt is made again.
Stall(w) ==
    /\ pc[w] \in Stages /\ sleep[w] > 0
    /\ pc' = [pc EXCEPT ![w] = "read"] /\ sleep' = [sleep EXCEPT ![w] = 0]
    /\ use' = [use EXCEPT ![w] = NoBucket]
    /\ UNCHANGED <<bucketVars, holder, running, cancelled, size, todo, watch, late>>

Write(w) ==
    /\ pc[w] = "write"
    /\ pc' = [pc EXCEPT ![w] = "read"]
    /\ use' = [use EXCEPT ![w] = NoBucket]
    /\ UNCHANGED <<bucketVars, holder, running, cancelled, size, sleep, todo, watch, late>>

\* The body ends, or the context closes it.
EndStream(w) ==
    /\ pc[w] = "read"
    /\ pc' = [pc EXCEPT ![w] = "ended"]
    /\ UNCHANGED <<bucketVars, holder, running, cancelled, size, use, sleep, todo, watch, late>>
-----------------------------------------------------------------------------
Tick ==
    /\ age' = [b \in Buckets |-> Least(age[b] + 1, burst[b] - tokens[b])]
    /\ sleep' = [w \in Workers |-> Greatest(sleep[w] - 1, 0)]
    /\ watch' = IF watch.bucket = None THEN watch
                ELSE IF watch.span = MaxSpan THEN NoWatch
                ELSE [watch EXCEPT !.room = @ + rate[watch.bucket], !.span = @ + 1]
    /\ UNCHANGED <<made, rate, burst, tokens, holder, running, cancelled, pc, size, use, todo,
                   late>>

\* A window may open at any moment.
Watch ==
    /\ watch = NoWatch
    /\ \E b \in Watched \cap 1 .. made : watch' = [bucket |-> b, room |-> burst[b], span |-> 0]
    /\ UNCHANGED <<bucketVars, holder, running, cancelled, flushVars, late>>

Flush(w) == BeginFlush(w) \/ Unlimited(w) \/ Admit(w) \/ Throttle(w) \/ Abort(w) \/ Write(w)
Change == \E r \in Rates :
    SetGlobalRate(r) \/ \E d \in Downloads : SetDownloadRate(d, r) \/ StartRun(d, r)
Life == \E d \in Downloads : Cancel(d) \/ EndRun(d)

Next == Tick \/ Watch \/ Change \/ Life \/ \E w \in Workers : Flush(w) \/ Stall(w) \/ EndStream(w)

Spec == Init /\ [][Next]_vars

(* Time passes and goroutines are scheduled; nobody has to change a rate.  *)
FairSpec == Spec /\ WF_vars(Tick) /\ \A w \in Workers : WF_vars(Flush(w))
-----------------------------------------------------------------------------
BucketTypes ==
    /\ made \in 0 .. MaxChanges
    /\ rate \in [Buckets -> Rates] /\ burst \in [Buckets -> Nat]
    /\ tokens \in [Buckets -> Nat] /\ age \in [Buckets -> Nat]
    /\ \A b \in Buckets : tokens[b] <= burst[b]
RunTypes ==
    /\ holder \in [Holders -> Buckets \cup {None}]
    /\ running \subseteq Downloads /\ cancelled \subseteq running
FlushTypes ==
    /\ pc \in [Workers -> {"ended", "read", "own", "global", "write"}]
    /\ size \in [Workers -> 0 .. BufferSize]
    /\ use \in [Workers -> [Stages -> Buckets \cup {None}]]
    /\ sleep \in [Workers -> 0 .. BufferSize] /\ todo \in [Workers -> Nat]
WatchType == watch \in [bucket : Buckets \cup {None}, room : Int, span : 0 .. MaxSpan]
LateType == late \in [Holders -> [Workers -> Nat]]

\* What the limiter's state can hold: tokens never exceed the capacity, and a sleep is never
\* longer than a buffer takes.
TypeOK == BucketTypes /\ RunTypes /\ FlushTypes /\ WatchType /\ LateType

(***************************************************************************)
(* A stale wait estimate is "never an over-grant": however its callers     *)
(* race, sleep and abort, in no window of time does a bucket admit more    *)
(* bytes than its capacity and what accrues in the window (WaitN).         *)
(***************************************************************************)
CapHolds == watch.bucket # None => watch.room >= 0

(***************************************************************************)
(* Transfers "pick up the new bucket on their next flush": after a         *)
(* replacement a worker is admitted by an old bucket for the flush it was  *)
(* in, and never again (SetGlobalRate, SetDownloadRate).                   *)
(***************************************************************************)
SwapHeard == \A h \in Holders, w \in Workers : late[h][w] <= 1

(***************************************************************************)
(* "WaitN can always eventually succeed and never deadlocks": a flush      *)
(* leaves each bucket in the end, whoever else draws on it and whatever    *)
(* becomes of the limits. A body is finite, so a rival flushes finitely    *)
(* often.                                                                  *)
(***************************************************************************)
WaitEnds == \A w \in Workers : pc[w] \in Stages ~> pc[w] \notin Stages
=============================================================================

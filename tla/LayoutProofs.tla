---------------------------- MODULE LayoutProofs ----------------------------
(***************************************************************************)
(* What the layout operators of SegmentLayout return, for every size,      *)
(* every number of segments and every set of rows: a plan and a repaired   *)
(* layout divide the file, a clamp keeps a layout, and counters that add   *)
(* up to the file's size cover it (plan.go, and repairLayout, clampDone    *)
(* and verifyComplete of download_run.go).                                 *)
(***************************************************************************)
EXTENDS SegmentLayout, Counting

\* The segments, an open-ended one included.
Seg == [start : Nat, end : Int, done : Nat]

\* Rows of ranges inside a file of this size: none starts beyond the file or counts more
\* than it holds, and slot 1 is the one at the start.
Ranged(segs, size) ==
    \A i \in DOMAIN segs :
        /\ segs[i] \in Seg
        /\ segs[i].end \in 0..(size - 1)
        /\ segs[i].start < size
        /\ segs[i].done <= SegSize(segs[i])
        /\ segs[i].start = 0 <=> i = 1

\* No two segments share a byte.
Apart(segs) ==
    \A i, j \in DOMAIN segs :
        i # j => segs[i].end < segs[j].start \/ segs[j].end < segs[i].start

\* Every byte of the file belongs to a segment.
Covers(segs, size) ==
    \A k \in 0..(size - 1) : \E i \in DOMAIN segs : k \in segs[i].start .. segs[i].end

\* The maximum of two integers.
LEMMA TwoMax ==
    ASSUME NEW a \in Int, NEW b \in Int
    PROVE  Max({a, b}) = IF a >= b THEN a ELSE b
<1> DEFINE m == IF a >= b THEN a ELSE b
<1>1. m \in {a, b} /\ \A y \in {a, b} : m >= y
  OBVIOUS
<1>2. \A x \in {a, b} : (\A y \in {a, b} : x >= y) => x = m
  OBVIOUS
<1> HIDE DEF m
<1>3. Max({a, b}) = m
  BY <1>1, <1>2 DEF Max
<1> QED BY <1>3 DEF m

\* The minimum of two integers.
LEMMA TwoMin ==
    ASSUME NEW a \in Int, NEW b \in Int
    PROVE  Min({a, b}) = IF a <= b THEN a ELSE b
<1> DEFINE m == IF a <= b THEN a ELSE b
<1>1. m \in {a, b} /\ \A y \in {a, b} : m <= y
  OBVIOUS
<1>2. \A x \in {a, b} : (\A y \in {a, b} : x <= y) => x = m
  OBVIOUS
<1> HIDE DEF m
<1>3. Min({a, b}) = m
  BY <1>1, <1>2 DEF Min
<1> QED BY <1>3 DEF m

\* The minimum of a set of naturals is one of them.
LEMMA MinIsIn ==
    ASSUME NEW T, T \subseteq Nat, T # {}
    PROVE  Min(T) \in T
BY Least DEF Min

\* Multiplication by a natural is monotone.
LEMMA Times ==
    ASSUME NEW a \in Nat, NEW b \in Nat, NEW c \in Nat, a <= b
    PROVE  a * c <= b * c /\ a * c \in Nat
<1>1. b * c = a * c + (b - a) * c
  OBVIOUS
<1>2. (b - a) * c \in Nat /\ a * c \in Nat
  OBVIOUS
<1> QED BY <1>1, <1>2

\* What the quotient of a division is.
LEMMA Quotient ==
    ASSUME NEW a \in Nat, NEW b \in Nat \ {0}
    PROVE  /\ a \div b \in Nat
           /\ (a \div b) * b <= a
           /\ a < (a \div b + 1) * b
OBVIOUS

(***************************************************************************)
(* A plan divides the file among at most n segments that are apart, cover  *)
(* it and count nothing; it has two or more when the file has room for two *)
(* (PlanSegments).                                                         *)
(***************************************************************************)
LEMMA PlanIsLayout ==
    ASSUME NEW size \in Nat \ {0}, NEW n \in Nat \ {0}, NEW floor \in Nat \ {0}
    PROVE  LET plan == PlanSegments(size, n, floor)
           IN  /\ plan \in Seq(Seg) /\ Len(plan) \in 1..n
               /\ Ranged(plan, size) /\ Apart(plan) /\ Covers(plan, size)
               /\ \A i \in DOMAIN plan : plan[i].done = 0
               /\ n >= 2 /\ size \div floor >= 2 => Len(plan) >= 2
<1> DEFINE count == Max({1, Min({n, size \div floor})})
           base  == size \div count
           plan  == PlanSegments(size, n, floor)
<1>1. /\ count \in 1..n /\ count <= size
      /\ n >= 2 /\ size \div floor >= 2 => count >= 2
  <2> DEFINE q == size \div floor
  <2>1. q \in Nat /\ q <= size
    <3>1. q \in Nat /\ q * floor <= size
      BY Quotient
    <3>2. q * 1 <= floor * q
      <4> HIDE DEF q
      <4> QED BY <3>1, Times
    <3>3. q * 1 = q /\ floor * q = q * floor
      <4> HIDE DEF q
      <4> QED BY <3>1
    <3> HIDE DEF q
    <3> QED BY <3>1, <3>2, <3>3
  <2> HIDE DEF q
  <2>2. Min({n, q}) = IF n <= q THEN n ELSE q
    BY <2>1, TwoMin
  <2>3. count = IF 1 >= Min({n, q}) THEN 1 ELSE Min({n, q})
    BY <2>1, <2>2, TwoMax DEF q
  <2> HIDE DEF count
  <2> QED BY <2>1, <2>2, <2>3 DEF q
<1> HIDE DEF count
<1>2. base \in Nat \ {0} /\ count * base <= size /\ size < (base + 1) * count
  <2>1. base \in Nat /\ base * count <= size /\ size < (base + 1) * count
    BY <1>1, Quotient
  <2> HIDE DEF base
  <2>2. base * count = count * base
    BY <2>1, <1>1
  <2>3. base # 0
    <3> SUFFICES ASSUME base = 0 PROVE FALSE
      OBVIOUS
    <3>1. (base + 1) * count = count
      BY <1>1
    <3> QED BY <2>1, <3>1, <1>1
  <2> QED BY <2>1, <2>2, <2>3
<1> HIDE DEF base
<1>3. plan = [i \in 1..count |->
                Segment((i - 1) * base, IF i = count THEN size - 1 ELSE i * base - 1)]
  BY DEF PlanSegments, count, base
<1> HIDE DEF plan
<1>4. ASSUME NEW i \in 1..count, NEW j \in 1..count, i < j
      PROVE  (i - 1) * base + base = i * base /\ i * base <= (j - 1) * base /\ i * base \in Nat
             /\ (j - 1) * base \in Nat
  <2>1. (i - 1) * base + base = i * base
    BY <1>2
  <2>2. i \in Nat /\ j - 1 \in Nat /\ i <= j - 1 /\ base \in Nat
    BY <1>1, <1>2, <1>4
  <2> QED BY <2>1, <2>2, Times
<1>5. ASSUME NEW i \in 1..count
      PROVE  /\ (i - 1) * base \in Nat /\ i * base \in Nat /\ i * base <= size
             /\ i * base = (i - 1) * base + base /\ ((i - 1) * base = 0 <=> i = 1)
  <2>1. i \in Nat /\ count \in Nat /\ i <= count /\ i - 1 \in Nat /\ base \in Nat
    BY <1>1, <1>2
  <2>2. i * base <= count * base /\ i * base \in Nat /\ (i - 1) * base \in Nat
        /\ count * base \in Nat
    BY <2>1, Times
  <2>3. i * base = (i - 1) * base + base
    BY <2>1
  <2>4. i # 1 => (i - 1) * base >= 1 * base
    BY <2>1, Times
  <2>5. i = 1 => (i - 1) * base = 0
    BY <2>1
  <2>6. 1 * base = base
    BY <1>2
  <2> QED BY <2>2, <2>3, <2>4, <2>5, <2>6, <1>2, <1>1
<1> DEFINE lo(i) == (i - 1) * base
           hi(i) == IF i = count THEN size - 1 ELSE i * base - 1
<1>6. /\ DOMAIN plan = 1..count
      /\ \A i \in 1..count : plan[i] = [start |-> lo(i), end |-> hi(i), done |-> 0]
  BY <1>3 DEF Segment
<1>7. \A i \in 1..count :
        lo(i) \in Nat /\ hi(i) \in 0..(size - 1) /\ lo(i) <= hi(i) /\ (lo(i) = 0 <=> i = 1)
  <2> SUFFICES ASSUME NEW i \in 1..count
               PROVE  lo(i) \in Nat /\ hi(i) \in 0..(size - 1) /\ lo(i) <= hi(i)
                      /\ (lo(i) = 0 <=> i = 1)
    OBVIOUS
  <2> DEFINE a == (i - 1) * base
             b == i * base
  <2>1. a \in Nat /\ b \in Nat /\ b <= size /\ b = a + base /\ (a = 0 <=> i = 1)
    BY <1>5
  <2>2. lo(i) = a /\ hi(i) = (IF i = count THEN size - 1 ELSE b - 1)
    OBVIOUS
  <2> HIDE DEF a, b, lo, hi
  <2> QED BY <1>2, <2>1, <2>2
<1> HIDE DEF lo, hi
<1>8. \A i \in 1..count : /\ plan[i] \in Seg /\ plan[i].end \in 0..(size - 1)
                          /\ plan[i].start < size /\ plan[i].done <= SegSize(plan[i])
                          /\ plan[i].start = 0 <=> i = 1
  BY <1>6, <1>7 DEF Seg, SegSize
<1>9. plan \in Seq(Seg) /\ Len(plan) = count
  <2>1. plan = [i \in 1..count |-> plan[i]]
    BY <1>3
  <2>2. \A i \in 1..count : plan[i] \in Seg
    BY <1>8
  <2>3. count \in Nat
    BY <1>1
  <2> QED BY <2>1, <2>2, <2>3
<1>10. Ranged(plan, size)
  BY <1>6, <1>8 DEF Ranged
<1>11. Apart(plan)
  <2> SUFFICES ASSUME NEW i \in 1..count, NEW j \in 1..count, i < j
               PROVE  plan[i].end < plan[j].start
    <3>1. \A i, j \in 1..count : i < j \/ i = j \/ j < i
      BY <1>1
    <3> QED BY <1>6, <3>1 DEF Apart
  <2>1. plan[i].end = hi(i) /\ plan[j].start = lo(j)
    BY <1>6
  <2>2. i # count
    BY <1>1
  <2>3. hi(i) = i * base - 1 /\ lo(j) = (j - 1) * base
    BY <2>2 DEF lo, hi
  <2> QED BY <2>1, <2>3, <1>4
<1>12. Covers(plan, size)
  <2> SUFFICES ASSUME NEW k \in 0..(size - 1)
               PROVE  \E i \in 1..count : k \in plan[i].start .. plan[i].end
    BY <1>6 DEF Covers
  <2> DEFINE d == k \div base
  <2>1. d \in Nat /\ d * base <= k /\ k < (d + 1) * base
    BY <1>2, Quotient
  <2> HIDE DEF d
  <2>2. CASE d + 1 < count
    <3>a. d + 1 \in 1..count /\ d + 1 # count /\ (d + 1) - 1 = d
      BY <2>1, <2>2, <1>1
    <3>b. plan[d + 1].start = lo(d + 1) /\ plan[d + 1].end = hi(d + 1)
      BY <3>a, <1>6
    <3>c. lo(d + 1) = d * base /\ hi(d + 1) = (d + 1) * base - 1
      BY <3>a DEF lo, hi
    <3>1. d + 1 \in 1..count /\ plan[d + 1].start = d * base
          /\ plan[d + 1].end = (d + 1) * base - 1
      BY <3>a, <3>b, <3>c
    <3> QED BY <3>1, <2>1, <1>2
  <2>3. CASE d + 1 >= count
    <3>a. count \in 1..count
      BY <1>1
    <3>b. plan[count].start = lo(count) /\ plan[count].end = hi(count)
      BY <3>a, <1>6
    <3>c. lo(count) = (count - 1) * base /\ hi(count) = size - 1
      BY DEF lo, hi
    <3>1. count \in 1..count /\ plan[count].start = (count - 1) * base
          /\ plan[count].end = size - 1
      BY <3>a, <3>b, <3>c
    <3>2. (count - 1) * base <= d * base /\ d * base \in Nat /\ (count - 1) * base \in Nat
      BY <2>3, <2>1, <1>1, <1>2, Times
    <3> QED BY <3>1, <3>2, <2>1
  <2> QED BY <2>2, <2>3, <2>1, <1>1
<1> QED BY <1>1, <1>6, <1>9, <1>10, <1>11, <1>12 DEF plan

-----------------------------------------------------------------------------
(* Repaired and clamped layouts (download_run.go).                           *)

\* An order that sort.Slice leaves the rows in has all of them, and slot 1 first.
LEMMA OrderReachesAll ==
    ASSUME NEW rows, IsFiniteSet(DOMAIN rows), NEW p \in ByStart(rows)
    PROVE  /\ Cardinality(DOMAIN rows) \in Nat
           /\ p \in [1..Cardinality(DOMAIN rows) -> DOMAIN rows]
           /\ \A x \in DOMAIN rows : \E i \in DOMAIN p : p[i] = x
           /\ \A i, j \in DOMAIN p : i # j => p[i] # p[j]
           /\ \A i, j \in DOMAIN p : i < j => rows[p[i]].start <= rows[p[j]].start
<1> DEFINE D == DOMAIN rows
           n == Cardinality(D)
<1>1. n \in Nat
  BY FS_CardinalityType
<1>2. p \in [1..n -> D] /\ IsInjective(p)
      /\ \A i, j \in DOMAIN p : i < j => rows[p[i]].start <= rows[p[j]].start
  BY DEF ByStart
<1>3. p \in Injection(1..n, D)
  BY <1>2 DEF Injection
<1>4. Cardinality(1..n) = n /\ IsFiniteSet(1..n)
  <2> HIDE DEF n
  <2> QED BY <1>1, FS_Interval
<1>5. p \in Surjection(1..n, D)
  <2> HIDE DEF n
  <2>1. Cardinality(1..n) = Cardinality(D)
    BY <1>4 DEF n
  <2> QED BY <1>3, <2>1, FS_Injection
<1>6. \A x \in D : \E i \in 1..n : p[i] = x
  BY <1>5 DEF Surjection
<1> QED BY <1>1, <1>2, <1>6 DEF IsInjective

(***************************************************************************)
(* Whatever rows a resume reads, torn or stale, the repaired layout has as *)
(* many segments, apart, and two or more of them cover the file. A lone    *)
(* row is left as it is (repairLayout).                                    *)
(***************************************************************************)
LEMMA RepairIsLayout ==
    ASSUME NEW size \in Nat \ {0}, NEW rows, IsFiniteSet(DOMAIN rows), 1 \in DOMAIN rows,
           Ranged(rows, size), NEW healed \in RepairLayout(rows, size)
    PROVE  /\ healed \in Seq(Seg) /\ Len(healed) = Cardinality(DOMAIN rows)
           /\ Ranged(healed, size) /\ Apart(healed)
           /\ Len(healed) >= 2 => Covers(healed, size)
           /\ Len(healed) = 1 => healed[1] = rows[1]
<1> DEFINE D == DOMAIN rows
           n == Cardinality(D)
<1>1. n \in Nat /\ n >= 1
  BY FS_CardinalityType, FS_EmptySet
<1>2. PICK p \in ByStart(rows) :
        LET segs == [i \in DOMAIN p |-> rows[p[i]]]
        IN  healed = IF n < 2 THEN segs ELSE Retiled(segs, size)
  <2> DEFINE ordered == {[i \in DOMAIN p |-> rows[p[i]]] : p \in ByStart(rows)}
  <2>1. size > 0 /\ ~ \E i \in D : rows[i].end < 0
    BY DEF Ranged
  <2>2. healed \in IF n < 2 THEN ordered ELSE {Retiled(segs, size) : segs \in ordered}
    BY <2>1 DEF RepairLayout
  <2>3. PICK segs \in ordered : healed = IF n < 2 THEN segs ELSE Retiled(segs, size)
    <3> HIDE DEF ordered, n
    <3> QED BY <2>2
  <2>4. PICK p \in ByStart(rows) : segs = [i \in DOMAIN p |-> rows[p[i]]]
    OBVIOUS
  <2> HIDE DEF n
  <2> QED BY <2>3, <2>4
<1>3. /\ p \in [1..n -> D]
      /\ \A x \in D : \E i \in 1..n : p[i] = x
      /\ \A i, j \in 1..n : i # j => p[i] # p[j]
      /\ \A i, j \in 1..n : i < j => rows[p[i]].start <= rows[p[j]].start
  BY OrderReachesAll
<1> DEFINE segs == [i \in 1..n |-> rows[p[i]]]
<1>4. healed = IF n < 2 THEN segs ELSE Retiled(segs, size)
  BY <1>2, <1>3
<1> HIDE DEF n
<1>5. p[1] = 1
  <2>1. PICK j \in 1..n : p[j] = 1
    BY <1>3
  <2>2. rows[1].start = 0 /\ rows[p[1]].start \in Nat
    BY <1>3, <1>1 DEF Ranged, Seg
  <2>3. j # 1 => rows[p[1]].start <= rows[p[j]].start
    BY <1>3, <1>1
  <2>4. rows[p[1]].start = 0
    BY <2>1, <2>2, <2>3
  <2> QED BY <2>4, <1>3, <1>1 DEF Ranged
<1>6. \A i \in 1..n : /\ segs[i] \in Seg /\ segs[i].end \in 0..(size - 1)
                      /\ segs[i].start < size /\ segs[i].done <= SegSize(segs[i])
                      /\ segs[i].start = 0 <=> i = 1
  BY <1>3, <1>5, <1>1 DEF Ranged
<1>7. \A i, j \in 1..n : i < j => segs[i].start <= segs[j].start
  BY <1>3
<1>8. segs \in Seq(Seg) /\ Len(segs) = n
  BY <1>1, <1>6
<1>9. CASE n < 2
  <2>1. n = 1 /\ healed = segs
    BY <1>9, <1>4, <1>1
  <2>2. Ranged(healed, size)
    BY <2>1, <1>6 DEF Ranged
  <2>3. Apart(healed)
    BY <2>1 DEF Apart
  <2>4. healed[1] = rows[1]
    BY <2>1, <1>5
  <2> QED BY <2>1, <2>2, <2>3, <2>4, <1>8 DEF n
<1>10. CASE n >= 2
  <2> DEFINE stop(i) == IF i < n THEN segs[i + 1].start - 1 ELSE size - 1
             cut(i)  == Min({segs[i].done, stop(i) - segs[i].start + 1})
  <2>1. \A i \in 1..n : /\ stop(i) \in 0..(size - 1) /\ segs[i].start <= stop(i) + 1
                        /\ cut(i) \in Nat /\ cut(i) <= stop(i) - segs[i].start + 1
    <3> SUFFICES ASSUME NEW i \in 1..n
                 PROVE  /\ stop(i) \in 0..(size - 1) /\ segs[i].start <= stop(i) + 1
                        /\ cut(i) \in Nat /\ cut(i) <= stop(i) - segs[i].start + 1
      OBVIOUS
    <3>1. segs[i].start \in Nat /\ segs[i].start < size /\ segs[i].done \in Nat
      BY <1>6 DEF Seg
    <3>2. i < n => /\ i + 1 \in 1..n /\ segs[i + 1].start \in Nat /\ segs[i + 1].start # 0
                   /\ segs[i + 1].start < size /\ segs[i].start <= segs[i + 1].start
      <4> SUFFICES ASSUME i < n
                   PROVE /\ i + 1 \in 1..n /\ segs[i + 1].start \in Nat /\ segs[i + 1].start # 0
                         /\ segs[i + 1].start < size /\ segs[i].start <= segs[i + 1].start
        OBVIOUS
      <4>1. i + 1 \in 1..n /\ i + 1 # 1 /\ i < i + 1
        BY <1>1
      <4>2. segs[i + 1] \in Seg /\ segs[i + 1].start # 0 /\ segs[i + 1].start < size
        BY <4>1, <1>6
      <4>3. segs[i].start <= segs[i + 1].start
        BY <4>1, <1>7
      <4> QED BY <4>1, <4>2, <4>3 DEF Seg
    <3> HIDE DEF segs
    <3>3. stop(i) \in 0..(size - 1) /\ segs[i].start <= stop(i) + 1
      BY <3>1, <3>2, <1>1
    <3> HIDE DEF stop
    <3>4. cut(i) = IF segs[i].done <= stop(i) - segs[i].start + 1
                     THEN segs[i].done ELSE stop(i) - segs[i].start + 1
      BY <3>1, <3>3, TwoMin
    <3> HIDE DEF cut
    <3> QED BY <3>1, <3>3, <3>4
  <2>2. healed = [i \in 1..n |-> [segs[i] EXCEPT !.end = stop(i), !.done = cut(i)]]
    <3> healed = Retiled(segs, size)
      BY <1>4, <1>10, <1>1
    <3> DOMAIN segs = 1..n
      OBVIOUS
    <3> HIDE DEF segs
    <3> QED BY <1>8 DEF Retiled
  <2> HIDE DEF stop, cut
  <2>3. \A i \in 1..n : healed[i] = [start |-> segs[i].start, end |-> stop(i), done |-> cut(i)]
    <3> HIDE DEF segs
    <3> QED BY <2>2, <1>6 DEF Seg
  <2>a. \A i \in 1..n : healed[i].start = segs[i].start /\ healed[i].end = stop(i)
    <3> HIDE DEF segs
    <3> SUFFICES ASSUME NEW i \in 1..n
                 PROVE  healed[i].start = segs[i].start /\ healed[i].end = stop(i)
      OBVIOUS
    <3>1. healed[i] = [start |-> segs[i].start, end |-> stop(i), done |-> cut(i)]
      BY <2>3
    <3> QED BY <3>1
  <2>4. \A i \in 1..n : /\ healed[i] \in Seg /\ healed[i].end \in 0..(size - 1)
                        /\ healed[i].start < size /\ healed[i].done <= SegSize(healed[i])
                        /\ healed[i].start = 0 <=> i = 1
    <3> HIDE DEF segs
    <3> SUFFICES ASSUME NEW i \in 1..n
                 PROVE  /\ healed[i] \in Seg /\ healed[i].end \in 0..(size - 1)
                        /\ healed[i].start < size /\ healed[i].done <= SegSize(healed[i])
                        /\ healed[i].start = 0 <=> i = 1
      OBVIOUS
    <3>1. segs[i].start \in Nat /\ segs[i].start < size /\ (segs[i].start = 0 <=> i = 1)
      BY <1>6 DEF Seg
    <3>2. healed[i] = [start |-> segs[i].start, end |-> stop(i), done |-> cut(i)]
      BY <2>3
    <3>3. /\ stop(i) \in 0..(size - 1) /\ cut(i) \in Nat
          /\ cut(i) <= stop(i) - segs[i].start + 1
      BY <2>1
    <3> QED BY <3>1, <3>2, <3>3 DEF Seg, SegSize
  <2>5. healed \in Seq(Seg) /\ Len(healed) = n
    <3>1. \A i \in 1..n : healed[i] \in Seg
      BY <2>4
    <3>2. healed = [i \in 1..n |-> healed[i]]
      BY <2>2
    <3> QED BY <3>1, <3>2, <1>1
  <2>6. DOMAIN healed = 1..n
    BY <2>2
  <2>7. Ranged(healed, size)
    BY <2>4, <2>6 DEF Ranged
  <2>8. Apart(healed)
    <3> SUFFICES ASSUME NEW i \in 1..n, NEW j \in 1..n, i < j
                 PROVE  healed[i].end < healed[j].start
      <4>1. \A i, j \in 1..n : i < j \/ i = j \/ j < i
        BY <1>1
      <4> QED BY <4>1, <2>6 DEF Apart
    <3>1. i < n /\ i + 1 \in 1..n /\ (i + 1 = j \/ i + 1 < j)
      BY <1>1
    <3>2. healed[i].end = segs[i + 1].start - 1 /\ healed[j].start = segs[j].start
      <4> HIDE DEF segs
      <4> QED BY <2>a, <3>1 DEF stop
    <3>3. segs[i + 1].start <= segs[j].start /\ segs[i + 1].start \in Nat /\ segs[j].start \in Nat
      BY <3>1, <1>6, <1>7 DEF Seg
    <3> HIDE DEF segs
    <3> QED BY <3>2, <3>3
  <2>9. Covers(healed, size)
    <3> SUFFICES ASSUME NEW k \in 0..(size - 1)
                 PROVE  \E i \in 1..n : k \in healed[i].start .. healed[i].end
      BY <2>6 DEF Covers
    <3> DEFINE T == {j \in 1..n : segs[j].start > k}
    <3> HIDE DEF segs
    <3>a. \A i \in 1..n : segs[i].start \in Nat /\ healed[i].start = segs[i].start
                          /\ healed[i].end = stop(i)
      <4>1. \A i \in 1..n : segs[i].start \in Nat
        BY <1>6 DEF Seg
      <4>2. \A i \in 1..n : healed[i].start = segs[i].start /\ healed[i].end = stop(i)
        BY <2>a
      <4> QED BY <4>1, <4>2
    <3>1. CASE T = {}
      <4>1. n \in 1..n /\ segs[n].start <= k /\ stop(n) = size - 1
        BY <3>1, <1>1, <3>a DEF stop
      <4> QED BY <4>1, <3>a
    <3>2. CASE T # {}
      <4>1. PICK j \in T : \A m \in T : j <= m
        <5> T \subseteq Nat OBVIOUS
        <5> HIDE DEF T
        <5> QED BY <3>2, Least
      <4>2. j \in 1..n /\ segs[j].start > k /\ j # 1
        BY <4>1, <1>6
      <4>3. j - 1 \in 1..n /\ j - 1 < n /\ (j - 1) + 1 = j /\ j - 1 \notin T
        BY <4>1, <4>2, <1>1
      <4>4. segs[j - 1].start <= k
        BY <4>3, <3>a
      <4>5. stop(j - 1) = segs[j].start - 1
        BY <4>3 DEF stop
      <4> QED BY <4>2, <4>3, <4>4, <4>5, <3>a
    <3> QED BY <3>1, <3>2
  <2> QED BY <1>10, <2>5, <2>7, <2>8, <2>9 DEF n
<1> QED BY <1>9, <1>10, <1>1

(***************************************************************************)
(* The cap by the bytes on the disk changes counters only, and never       *)
(* raises one.                                                             *)
(***************************************************************************)
LEMMA ClampedIsLayout ==
    ASSUME NEW segs \in Seq(Seg), NEW onDisk \in Nat
    PROVE  LET capped == Clamped(segs, onDisk)
           IN  /\ capped \in Seq(Seg) /\ Len(capped) = Len(segs)
               /\ \A i \in DOMAIN segs : /\ capped[i].start = segs[i].start
                                         /\ capped[i].end = segs[i].end
                                         /\ capped[i].done <= segs[i].done
                                         /\ segs[i].end < 0 => capped[i].done = 0
               /\ \A size : Ranged(segs, size) => Ranged(capped, size)
               /\ Apart(segs) => Apart(capped)
               /\ \A size : Covers(segs, size) => Covers(capped, size)
<1> DEFINE n == Len(segs)
           cut(i) == IF segs[i].end < 0 THEN 0
                     ELSE Min({segs[i].done, Max({0, onDisk - segs[i].start})})
           capped == Clamped(segs, onDisk)
<1>1. n \in Nat /\ DOMAIN segs = 1..n
  OBVIOUS
<1>2. \A i \in 1..n : segs[i] \in Seg
  BY <1>1
<1>3. \A i \in 1..n : cut(i) \in Nat /\ cut(i) <= segs[i].done
                      /\ (segs[i].end < 0 => cut(i) = 0)
  <2> SUFFICES ASSUME NEW i \in 1..n
               PROVE  cut(i) \in Nat /\ cut(i) <= segs[i].done
                      /\ (segs[i].end < 0 => cut(i) = 0)
    OBVIOUS
  <2> DEFINE d == segs[i].done
             m == Max({0, onDisk - segs[i].start})
  <2>1. d \in Nat /\ segs[i].start \in Nat /\ segs[i].end \in Int
    BY <1>2 DEF Seg
  <2>2. m \in Nat
    BY <2>1, TwoMax
  <2>3. cut(i) = IF segs[i].end < 0 THEN 0 ELSE Min({d, m})
    OBVIOUS
  <2> HIDE DEF d, m, cut
  <2>4. Min({d, m}) = IF d <= m THEN d ELSE m
    BY <2>1, <2>2, TwoMin
  <2>5. cut(i) \in Nat /\ cut(i) <= d /\ (segs[i].end < 0 => cut(i) = 0)
    BY <2>1, <2>2, <2>3, <2>4
  <2> QED BY <2>5 DEF d
<1>4. capped = [i \in 1..n |-> [segs[i] EXCEPT !.done = cut(i)]]
  BY <1>1 DEF Clamped
<1> HIDE DEF n, cut, capped
<1>5. \A i \in 1..n : capped[i] = [start |-> segs[i].start, end |-> segs[i].end, done |-> cut(i)]
  BY <1>4, <1>2 DEF Seg
<1>6. ASSUME NEW i \in 1..n
      PROVE  /\ capped[i].start = segs[i].start /\ capped[i].end = segs[i].end
             /\ capped[i].done = cut(i) /\ capped[i] \in Seg
  <2>1. capped[i] = [start |-> segs[i].start, end |-> segs[i].end, done |-> cut(i)]
    BY <1>5
  <2>2. cut(i) \in Nat /\ segs[i].start \in Nat /\ segs[i].end \in Int
    BY <1>3, <1>2 DEF Seg
  <2> QED BY <2>1, <2>2 DEF Seg
<1>7. capped \in Seq(Seg) /\ Len(capped) = n /\ DOMAIN capped = 1..n
  <2>1. capped = [i \in 1..n |-> capped[i]]
    BY <1>4
  <2> QED BY <2>1, <1>6, <1>1
<1>8. ASSUME NEW size, Ranged(segs, size) PROVE Ranged(capped, size)
  <2> SUFFICES ASSUME NEW i \in 1..n
               PROVE  /\ capped[i] \in Seg /\ capped[i].end \in 0..(size - 1)
                      /\ capped[i].start < size /\ capped[i].done <= SegSize(capped[i])
                      /\ capped[i].start = 0 <=> i = 1
    BY <1>7 DEF Ranged
  <2>1. /\ segs[i].end \in 0..(size - 1) /\ segs[i].start < size
        /\ segs[i].done <= SegSize(segs[i]) /\ (segs[i].start = 0 <=> i = 1)
    BY <1>1, <1>8 DEF Ranged
  <2>2. SegSize(capped[i]) = SegSize(segs[i]) /\ SegSize(segs[i]) \in Int
    BY <1>6, <1>2 DEF SegSize, Seg
  <2>3. segs[i].done \in Nat /\ cut(i) \in Nat /\ cut(i) <= segs[i].done
    BY <1>2, <1>3 DEF Seg
  <2> QED BY <1>6, <2>1, <2>2, <2>3
<1>9. Apart(segs) => Apart(capped)
  BY <1>1, <1>6, <1>7 DEF Apart
<1>10. ASSUME NEW size, Covers(segs, size) PROVE Covers(capped, size)
  BY <1>1, <1>6, <1>7, <1>10 DEF Covers
<1> QED BY <1>1, <1>3, <1>6, <1>7, <1>8, <1>9, <1>10 DEF n, capped

\* What a counter claims lies in its segment, and so in the file.
LEMMA CountedInside ==
    ASSUME NEW segs, NEW size \in Nat, Ranged(segs, size), NEW i \in DOMAIN segs,
           NEW k \in Counted(segs[i])
    PROVE  k \in 0..(size - 1) /\ k >= segs[i].start /\ k <= segs[i].end
BY DEF Ranged, Counted, SegSize, Seg

\* No two counters claim the same byte.
LEMMA CountedApart ==
    ASSUME NEW segs, NEW size \in Nat, Ranged(segs, size), Apart(segs),
           NEW i \in DOMAIN segs, NEW j \in DOMAIN segs, i # j
    PROVE  Counted(segs[i]) \cap Counted(segs[j]) = {}
<1> SUFFICES ASSUME NEW k \in Counted(segs[i]), k \in Counted(segs[j]) PROVE FALSE
  OBVIOUS
<1>1. k \in Int /\ k >= segs[i].start /\ k <= segs[i].end /\ k >= segs[j].start
      /\ k <= segs[j].end
  BY CountedInside
<1>2. segs[i] \in Seg /\ segs[j] \in Seg
  BY DEF Ranged
<1>3. segs[i].end < segs[j].start \/ segs[j].end < segs[i].start
  BY DEF Apart
<1> QED BY <1>1, <1>2, <1>3 DEF Seg

(***************************************************************************)
(* Counters of segments that are apart and that add up to the file's size  *)
(* cover every byte of it: what makes the sum of the completeness gate a   *)
(* check of holes (verifyComplete).                                        *)
(***************************************************************************)
LEMMA SumCovers ==
    ASSUME NEW segs \in Seq(Seg), NEW size \in Nat, Ranged(segs, size), Apart(segs),
           SumDone(segs) = size
    PROVE  \A k \in 0..(size - 1) : \E i \in DOMAIN segs : k \in Counted(segs[i])
<1> DEFINE D == DOMAIN segs
           f == [i \in D |-> segs[i].done]
           C == [i \in D |-> Counted(segs[i])]
           U == UNION {C[i] : i \in D}
<1>1. IsFiniteSet(D)
  BY FS_Interval
<1>2. \A i \in D : IsFiniteSet(C[i]) /\ Cardinality(C[i]) = f[i]
  <2> SUFFICES ASSUME NEW i \in D PROVE IsFiniteSet(C[i]) /\ Cardinality(C[i]) = f[i]
    OBVIOUS
  <2> DEFINE a == segs[i].start
             b == segs[i].done
  <2>1. a \in Nat /\ b \in Nat
    BY DEF Ranged, Seg
  <2>2. C[i] = a .. (a + b - 1) /\ f[i] = b
    BY DEF Counted
  <2> HIDE DEF a, b, C, f
  <2>3. /\ IsFiniteSet(a .. (a + b - 1))
        /\ Cardinality(a .. (a + b - 1)) = IF a > a + b - 1 THEN 0 ELSE (a + b - 1) - a + 1
    BY <2>1, FS_Interval
  <2> QED BY <2>1, <2>2, <2>3
<1>3. \A i, j \in D : i # j => C[i] \cap C[j] = {}
  BY CountedApart
<1>4. IsFiniteSet(U) /\ Cardinality(U) = SumFunctionOnSet(f, D)
  <2> HIDE DEF C, f, D
  <2> QED BY <1>1, <1>2, <1>3, SumCounts
<1>5. SumFunctionOnSet(f, D) = size
  BY DEF SumDone, SumFunction
<1>6. U \subseteq 0..(size - 1)
  BY CountedInside
<1>7. IsFiniteSet(0..(size - 1)) /\ Cardinality(0..(size - 1)) = size
  <2>1. /\ IsFiniteSet(0..(size - 1))
        /\ Cardinality(0..(size - 1)) = IF 0 > size - 1 THEN 0 ELSE (size - 1) - 0 + 1
    BY FS_Interval
  <2> QED BY <2>1
<1>8. 0..(size - 1) = U
  <2> HIDE DEF U
  <2> QED BY <1>4, <1>5, <1>6, <1>7, FS_Subset
<1> QED BY <1>8

(***************************************************************************)
(* Segments that are apart and cover the file tile it.                     *)
(***************************************************************************)
LEMMA TilesFrom ==
    ASSUME NEW segs, NEW size \in Nat, Ranged(segs, size), Apart(segs), Covers(segs, size)
    PROVE  Tiles(segs, size)
<1>1. \A i \in DOMAIN segs : segs[i].start >= 0 /\ segs[i].end < size
  BY DEF Ranged, Seg
<1>2. ASSUME NEW k \in 0..(size - 1)
      PROVE  Cardinality({i \in DOMAIN segs : k \in segs[i].start .. segs[i].end}) = 1
  <2>1. PICK i \in DOMAIN segs : k \in segs[i].start .. segs[i].end
    BY <1>2 DEF Covers
  <2>2. ASSUME NEW j \in DOMAIN segs, k \in segs[j].start .. segs[j].end PROVE j = i
    <3>1. segs[i] \in Seg /\ segs[j] \in Seg
      BY DEF Ranged
    <3>2. j # i => segs[i].end < segs[j].start \/ segs[j].end < segs[i].start
      BY DEF Apart
    <3> QED BY <2>1, <2>2, <3>1, <3>2 DEF Seg
  <2>3. {j \in DOMAIN segs : k \in segs[j].start .. segs[j].end} = {i}
    BY <2>1, <2>2
  <2> QED BY <2>3, FS_Singleton
<1> QED BY <1>1, <1>2 DEF Tiles
=============================================================================

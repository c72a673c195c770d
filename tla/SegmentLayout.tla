--------------------------- MODULE SegmentLayout ---------------------------
(***************************************************************************)
(* The segments of one download as data: how a plan is cut, when a segment *)
(* is done, how a resumed set of rows is healed and clamped, and what the  *)
(* completeness gate accepts.  Translated from internal/engine/plan.go and *)
(* the pure parts of internal/engine/download_run.go.                      *)
(*                                                                         *)
(* A segment is [start, end, done]: the inclusive byte range and the bytes *)
(* of it that are counted.  Slots are numbered from 1, where the code's    *)
(* indices start at 0.  An open-ended segment has end = -1.                *)
(***************************************************************************)
EXTENDS Integers, Sequences, FiniteSets, FiniteSetsExt, Functions

Segment(start, end) == [start |-> start, end |-> end, done |-> 0]

SegSize(seg) == seg.end - seg.start + 1

\* The offsets that a counter claims are fetched.
Counted(seg) == seg.start .. (seg.start + seg.done - 1)

IsDone(seg) == seg.end >= 0 /\ seg.done >= SegSize(seg)

WholeBody == <<Segment(0, -1)>>

IsWholeBody(segs) == Len(segs) = 1 /\ segs[1].end < 0

(***************************************************************************)
(* n pieces of equal size, none below the floor; the last one takes the    *)
(* remainder.                                                              *)
(***************************************************************************)
PlanSegments(size, n, floor) ==
    LET count == Max({1, Min({n, size \div floor})})
        base  == size \div count
    IN  [i \in 1..count |->
            Segment((i - 1) * base, IF i = count THEN size - 1 ELSE i * base - 1)]

PlanFor(ranges, size, n, floor) ==
    IF ranges /\ size > 0 THEN PlanSegments(size, n, floor) ELSE WholeBody

(***************************************************************************)
(* The orders sort.Slice may leave the rows in: sorted by start, rows with *)
(* the same start in either order.                                         *)
(***************************************************************************)
ByStart(rows) ==
    {p \in [1..Cardinality(DOMAIN rows) -> DOMAIN rows] :
        /\ IsInjective(p)
        /\ \A i, j \in DOMAIN p : i < j => rows[p[i]].start <= rows[p[j]].start}

Retiled(segs, size) ==
    [i \in DOMAIN segs |->
        LET end == IF i < Len(segs) THEN segs[i + 1].start - 1 ELSE size - 1
        IN  [segs[i] EXCEPT !.end  = end,
                            !.done = Min({@, end - segs[i].start + 1})]]

\* Defect: the rows are put in order, but keep their ends.
RepairLayout_OnlySorted(rows, size) == {[i \in DOMAIN p |-> rows[p[i]]] : p \in ByStart(rows)}

\* A lone row, an unknown size and an open-ended row are left as they are.
RepairLayout(rows, size) ==
    LET ordered == {[i \in DOMAIN p |-> rows[p[i]]] : p \in ByStart(rows)}
    IN  IF size <= 0 \/ Cardinality(DOMAIN rows) < 2 \/ \E i \in DOMAIN rows : rows[i].end < 0
          THEN ordered
          ELSE {Retiled(segs, size) : segs \in ordered}

\* Defect: a segment that starts beyond the end of the file is not told from the others.
Clamped_NoFloor(segs, onDisk) ==
    [i \in DOMAIN segs |->
        [segs[i] EXCEPT !.done = IF segs[i].end < 0 THEN 0 ELSE Min({@, onDisk - segs[i].start})]]

\* The counters capped by the bytes the file had before it was regrown.
Clamped(segs, onDisk) ==
    [i \in DOMAIN segs |->
        [segs[i] EXCEPT !.done = IF segs[i].end < 0 THEN 0
                                 ELSE Min({@, Max({0, onDisk - segs[i].start})})]]

SumDone(segs) == SumFunction([i \in DOMAIN segs |-> segs[i].done])

VerifyComplete(segs, size) ==
    /\ \A i \in DOMAIN segs : segs[i].end >= 0 => IsDone(segs[i])
    /\ size > 0 => SumDone(segs) = size

(***************************************************************************)
(* Every offset of the file belongs to exactly one segment.                *)
(***************************************************************************)
Tiles(segs, size) ==
    /\ \A k \in 0..(size - 1) :
          Cardinality({i \in DOMAIN segs : k \in segs[i].start .. segs[i].end}) = 1
    /\ \A i \in DOMAIN segs : segs[i].start >= 0 /\ segs[i].end < size
=============================================================================

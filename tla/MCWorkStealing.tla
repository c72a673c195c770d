--------------------------- MODULE MCWorkStealing ---------------------------
(* Small instances of WorkStealing.                                           *)
EXTENDS WorkStealing

CONSTANTS
    Sizes,      \* sizes of the first of two segments
    Resumed     \* bytes the first segment may already hold

\* Two segments: the second fresh, the first at one of the sizes and checkpoints.
MCLayouts ==
    {[i \in 0 .. 1 |->
        IF i = 0 THEN [start |-> 0, end |-> k - 1, completed |-> c]
                 ELSE [start |-> k, end |-> TotalSize - 1, completed |-> 0]]
     : k \in Sizes, c \in Resumed}

\* One segment holding nothing yet: a small file.
MCSingle == {[i \in {0} |-> [start |-> 0, end |-> TotalSize - 1, completed |-> 0]]}
=============================================================================

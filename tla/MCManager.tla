------------------------------ MODULE MCManager ------------------------------
(* Small instances of Manager.                                                *)
EXTENDS Manager

CONSTANTS c1, c2, Statuses

\* One download the last session left in one of the statuses, and free identifiers.
MCStores ==
    {[i \in Ids |-> IF i = 1 THEN [status |-> s, prio |-> 0] ELSE NoRow] : s \in Statuses}

\* One client stops, resumes and restarts, the other deletes and sets the priority.
MCAll == [c \in Clients |-> IF c = c1 THEN {"cancel", "resume", "restart"}
                                      ELSE {"delete", "priority"}]
MCSymmetry == Permutations(Workers)

\* One client submits and deletes, the other pauses.
MCStops == [c \in Clients |-> IF c = c1 THEN {"submit", "delete"} ELSE {"pause"}]

MCResumes == [c \in Clients |-> {"pause", "resume"}]
MCDeletes == [c \in Clients |-> {"delete"}]
=============================================================================

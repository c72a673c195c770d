---------------------------- MODULE Publication ----------------------------
(***************************************************************************)
(* What a download promises to whoever opens its destination, without the  *)
(* segments, counters and files that keep the promise (Transfer).          *)
(*                                                                         *)
(* A destination is None (absent or empty), one whole version of the       *)
(* remote file, or Other.                                                  *)
(* What a power loss would leave of it is safe.  The record of completion  *)
(* is written once what is shown is safe, and what is recorded is never    *)
(* replaced.  Anything but a version is only ever published once the       *)
(* download is tainted: it has met something its code cannot detect.       *)
(***************************************************************************)
CONSTANTS Versions, None, Other

VARIABLES shown, safe, recorded, tainted

vars == <<shown, safe, recorded, tainted>>

Init == shown = None /\ safe = None /\ recorded = FALSE /\ tainted = FALSE

\* Settle may come with a taint: a file is opened for the next attempt.
Taints == tainted => tainted'

Taint == Taints /\ UNCHANGED <<shown, safe, recorded>>

Publish ==
    /\ ~recorded
    /\ shown' \in Versions \/ (tainted /\ shown' \in {None, Other})
    /\ UNCHANGED <<safe, recorded, tainted>>

Settle == safe' = shown /\ Taints /\ UNCHANGED <<shown, recorded>>

Record ==
    /\ (shown = None => tainted) /\ safe = shown
    /\ recorded' = TRUE
    /\ UNCHANGED <<shown, safe, tainted>>

\* The record may be lost with the commit; the file that it recorded may not.
PowerLoss ==
    /\ shown' \in {shown, safe} /\ safe' = shown'
    /\ recorded' => recorded
    /\ UNCHANGED tainted

Next == Taint \/ Publish \/ Settle \/ Record \/ PowerLoss

Spec == Init /\ [][Next]_vars
=============================================================================

----------------------------- MODULE MCTransfer -----------------------------
EXTENDS Transfer

World(ranges, tags, disclosed, stealing, sum, first, kinds) ==
    [ranges |-> ranges, tags |-> tags, disclosed |-> disclosed, stealing |-> stealing,
     sum |-> sum, first |-> first, faults |-> kinds]
MCSize == <<3, 2, 2>>
MCWorlds ==
    \* every fault but a change of the remote file; then a change of equal size that only
    \* the checksum tells, a change that shrinks the file, splits, and the whole body
    {World(TRUE, TRUE, TRUE, FALSE, 0, 2, Faults \ {"change"}),
     World(TRUE, FALSE, TRUE, FALSE, 2, 2, {"kill", "power", "change", "cancel"}),
     World(TRUE, TRUE, TRUE, FALSE, 0, 1, {"change"}),
     World(TRUE, TRUE, TRUE, TRUE, 0, 1, {"kill", "power"}),
     World(FALSE, TRUE, TRUE, FALSE, 0, 1, Faults),
     World(FALSE, FALSE, FALSE, FALSE, 0, 1, Faults)}

\* A download of a steady remote whose process may die.
MCKilled == {World(TRUE, TRUE, TRUE, FALSE, 0, 2, {"kill"})}
=============================================================================

--------------------------- MODULE MCControlPlane ---------------------------
EXTENDS ControlPlane

MCKeys == <<"dir", "segments", "rate">>

\* The default and the file; a daemon with the second configuration does not start.
MCDefault == [dir |-> 1, segments |-> 1, rate |-> 0]
MCConfigs == {<<MCDefault, [dir |-> 0, rate |-> 1]>>, <<MCDefault, [segments |-> 0]>>}
MCPatches == <<{[dir |-> 2]}, {[rate |-> 2], [segments |-> 0]}>>
=============================================================================

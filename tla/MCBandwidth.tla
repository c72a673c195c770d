----------------------------- MODULE MCBandwidth -----------------------------
(* Two connections of one download, under its limit and the engine's.      *)
EXTENDS Bandwidth, TLC

MCOwner == [w \in Workers |-> CHOOSE d \in Downloads : TRUE]
MCFlushes == [w \in Workers |-> 3 - w]
=============================================================================

------------------------- MODULE MCDistributedLock -------------------------
(* Instances of DistributedLock for TLC.                                   *)
EXTENDS DistributedLock

CONSTANTS c1, c2

MCCallers == {c1, c2}
=============================================================================

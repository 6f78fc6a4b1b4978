---------------------- MODULE MCIdempotencyMiddleware ----------------------
(* Instances of IdempotencyMiddleware for TLC.                             *)
EXTENDS IdempotencyMiddleware

CONSTANTS s1, s2, b1, b2

TwoSlots == {s1, s2}
TwoBodies == {b1, b2}
=============================================================================

------------------------- MODULE MCIdempotencyKeys -------------------------
(* Instances of IdempotencyKeys for TLC.                                   *)
EXTENDS IdempotencyKeys, TLC

CONSTANTS c1, c2, c3, c4, transfers, rewards

FourCalls == {c1, c2, c3, c4}
TwoScopes == {transfers, rewards}
Symmetry == Permutations(FourCalls) \union Permutations(TwoScopes)
=============================================================================

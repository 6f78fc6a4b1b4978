----------------------------- MODULE MCAccount -----------------------------
(* Instances of Account for TLC.                                           *)
EXTENDS Account, TLC

Symmetry == Permutations(Calls) \union Permutations(Devices)
=============================================================================

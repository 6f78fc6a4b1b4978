----------------------------- MODULE MCVerxatag -----------------------------
(* Instances of Verxatag for TLC.                                          *)
EXTENDS Verxatag, TLC

Symmetry == Permutations(Calls)
=============================================================================

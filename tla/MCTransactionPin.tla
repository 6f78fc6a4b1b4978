-------------------------- MODULE MCTransactionPin --------------------------
(* Instances of TransactionPin for TLC.                                    *)
EXTENDS TransactionPin, TLC

Symmetry == Permutations(Calls)
=============================================================================

--------------------------- MODULE MCFlashBackups ---------------------------
(* Instances of FlashBackups for TLC. *)
EXTENDS FlashBackups, TLC

\* Reconcilers are interchangeable.
ReconcilerSymmetry == Permutations(Reconcilers)
=============================================================================

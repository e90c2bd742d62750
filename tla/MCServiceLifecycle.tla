------------------------ MODULE MCServiceLifecycle ------------------------
(* Instances of ServiceLifecycle for TLC. *)
EXTENDS ServiceLifecycle, TLC
===========================================================================

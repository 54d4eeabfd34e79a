----------------------------- MODULE MCAutoDryUnit -----------------------------
(* Instances of AutoDryUnit for TLC. *)
EXTENDS AutoDryUnit
=============================================================================

--------------------------- MODULE MCAutoDryEngine ---------------------------
(* Instances of AutoDryEngine for TLC. *)
EXTENDS AutoDryEngine, TLC

CONSTANTS u1, p1

ClientSymmetry == Permutations(Clients)

OneUnit == u1 :> p1
=============================================================================

----------------------------- MODULE MCJobMachine -----------------------------
(* JobMachine alone, over a printer that does not count its prints.            *)
EXTENDS JobMachine

UncountedInit == Init /\ ~counted
UncountedSpec == UncountedInit /\ [][Next]_vars
=============================================================================

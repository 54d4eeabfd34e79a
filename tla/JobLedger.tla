------------------------------- MODULE JobLedger -------------------------------
(* What the table of prints promises its readers, for one printer: at most one  *)
(* print runs, prints come on record in the order they began and stay there, a  *)
(* print is marked once it has ended, and keeps its mark.                       *)
EXTENDS Integers

CONSTANT Prints \* the prints in the order they begin, 1..n

VARIABLES
  ledger,   \* each print "absent", "open" or "ended"
  live,     \* the prints that were watched, not rebuilt from the history
  marked,   \* the prints with a mark «Годно / Брак»
  rebuilt   \* the history was replayed

OnRecord(l) == {p \in Prints : l[p] # "absent"}
Shapes == {l \in [Prints -> {"absent", "open", "ended"}] :
             \A p, q \in Prints : l[p] = "open" /\ l[q] = "open" => p = q}

\* One write, which may bring several steps of the prints at once.
Write ==
  /\ ledger' \in Shapes
  /\ LET old == OnRecord(ledger)
         new == OnRecord(ledger')
     IN /\ old \subseteq new
        /\ \A p \in new \ old, q \in old : q < p
        /\ live' = live \cup (new \ old)
  /\ UNCHANGED <<marked, rebuilt>>

\* A print that has ended is marked, or its mark taken back.
Mark ==
  /\ \E p \in Prints : ledger[p] = "ended" /\ marked' \in {marked \cup {p}, marked \ {p}}
  /\ UNCHANGED <<ledger, live, rebuilt>>

\* Once: the ended prints that were not watched are replaced by what the history shows.
Rebuild ==
  /\ ~rebuilt /\ rebuilt' = TRUE
  /\ ledger' \in Shapes
  /\ \A p \in Prints : (p \in live \/ ledger[p] = "open") => ledger'[p] = ledger[p]
  /\ marked' = {p \in marked : p \in live \/ ledger[p] = "open" \/ ledger'[p] = "ended"}
  /\ UNCHANGED live

Init ==
  /\ ledger \in Shapes
  /\ live \subseteq OnRecord(ledger) /\ marked \subseteq OnRecord(ledger)
  /\ rebuilt \in BOOLEAN

Next == Write \/ Mark \/ Rebuild
Spec == Init /\ [][Next]_<<ledger, live, marked, rebuilt>>
=============================================================================

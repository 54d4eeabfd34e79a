------------------------------ MODULE FleetBulk ------------------------------
(* fleet_commands.py: a bulk command sends to many printers at once from a    *)
(* pool, answers at its deadline whatever still runs, and keeps its family    *)
(* locked until the last of its sends has ended.                              *)
(*                                                                            *)
(* One family is modelled; the other has a lock and pools of its own.  The    *)
(* wait may end at any time: the deadline is not counted.                     *)
EXTENDS Naturals, FiniteSets

CONSTANTS
  None,
  Callers,    \* the threads that serve bulk requests of the family
  Fleet,      \* the printers
  Conditions, \* what the store and the registry may say of a printer
  Workers,    \* BULK_MAX_WORKERS
  MaxBulks    \* bound: bulk commands begun

VARIABLES
  family,     \* _busy of the family: the caller that took it, None
  at,         \* where each caller stands
  send,       \* its sends: what became of each printer's
  finished,   \* the sends that were done when its wait ended
  left,       \* the sends whose end gives the family back
  rows,       \* its answer: a status per printer
  bulks

vars == <<family, at, send, finished, left, rows, bulks>>

Sends == {None, "queued", "running", "ok", "rejected", "refused", "cancelled"}
Statuses == {None, "confirmed", "sent", "rejected", "skipped", "dry_run"}

TypeOK ==
  /\ family \in Callers \cup {None}
  /\ at \in [Callers -> {"idle", "waiting", "late", "cancelled"}]
  /\ send \in [Callers -> [Fleet -> Sends]]
  /\ finished \in [Callers -> SUBSET Fleet] /\ left \in [Callers -> SUBSET Fleet]
  /\ rows \in [Callers -> [Fleet -> Statuses]]
  /\ bulks \in 0..MaxBulks

Of(c, what) == {p \in Fleet : send[c][p] \in what}
Ended == {"ok", "rejected", "refused"}     \* a send that raises counts as rejected

\* skip_reason of a print command; a capability is TRUE, FALSE or not known.
Skipped(d) ==
  \/ ~d.known \/ d.maintenance
  \/ ~d.online \/ d.grace
  \/ d.cap # "yes"
  \/ ~d.fits

\* run_bulk up to the pool: the family is taken or the request is refused, and
\* the printers that are left out get their row.
Begin(c, ids, status, dry) ==
  /\ at[c] = "idle" /\ family = None
  /\ Of(c, {"running"}) = {}
  /\ bulks < MaxBulks /\ bulks' = bulks + 1
  /\ LET todo == {p \in ids : ~Skipped(status[p]) /\ ~dry}
     IN /\ rows' = [rows EXCEPT ![c] =
             [p \in Fleet |-> IF p \notin ids \/ p \in todo THEN None
                              ELSE IF Skipped(status[p]) THEN "skipped" ELSE "dry_run"]]
        /\ send' = [send EXCEPT ![c] = [p \in Fleet |-> IF p \in todo THEN "queued" ELSE None]]
        /\ IF todo = {} THEN UNCHANGED <<family, at>>
           ELSE family' = c /\ at' = [at EXCEPT ![c] = "waiting"]
  /\ finished' = [finished EXCEPT ![c] = {}]
  /\ UNCHANGED left

StartSend(c, p) ==
  /\ send[c][p] = "queued"
  /\ Cardinality(Of(c, {"running"})) < Workers
  /\ send' = [send EXCEPT ![c][p] = "running"]
  /\ UNCHANGED <<family, at, finished, left, rows, bulks>>

\* A send ends; past the deadline the last one gives the family back.
EndSend(c, p, how) ==
  /\ send[c][p] = "running"
  /\ send' = [send EXCEPT ![c][p] = how]
  /\ left' = [left EXCEPT ![c] = @ \ {p}]
  /\ family' = IF left[c] = {p} THEN None ELSE family
  /\ UNCHANGED <<at, finished, rows, bulks>>

\* wait(): all are done, or BULK_DEADLINE is over.
WaitEnds(c) ==
  /\ at[c] = "waiting"
  /\ finished' = [finished EXCEPT ![c] = Of(c, Ended)]
  /\ at' = [at EXCEPT ![c] = "late"]
  /\ UNCHANGED <<family, send, left, rows, bulks>>

\* shutdown(cancel_futures): what did not start is never sent.
Cancelled_Fault(c) == {}
Cancelled(c) == Of(c, {"queued"})

Cancel(c) ==
  /\ at[c] = "late"
  /\ send' = [send EXCEPT ![c] =
                [p \in Fleet |-> IF p \in Cancelled(c) THEN "cancelled" ELSE @[p]]]
  /\ at' = [at EXCEPT ![c] = "cancelled"]
  /\ UNCHANGED <<family, finished, left, rows, bulks>>

Told(c, p) ==
  CASE send[c][p] = None -> rows[c][p]
    [] send[c][p] # None /\ p \notin finished[c] ->
         IF send[c][p] \in {"cancelled", "queued"} THEN "skipped" ELSE "sent"
    [] send[c][p] # None /\ p \in finished[c] ->
         CASE send[c][p] = "ok" -> "confirmed"
           [] send[c][p] = "refused" -> "skipped"
           [] OTHER -> "rejected"

\* The rows are told; _release_when_done counts down the sends that still run.
Pending(c) == {p \in Fleet : send[c][p] # None} \ (finished[c] \cup Of(c, {"cancelled"}))
StillLeft(c) == Pending(c) \ Of(c, Ended)

Answer(c) ==
  /\ at[c] = "cancelled"
  /\ rows' = [rows EXCEPT ![c] = [p \in Fleet |-> Told(c, p)]]
  /\ left' = [left EXCEPT ![c] = StillLeft(c)]
  /\ family' = IF StillLeft(c) = {} THEN None ELSE family
  /\ at' = [at EXCEPT ![c] = "idle"]
  /\ UNCHANGED <<send, finished, bulks>>

Init ==
  /\ family = None
  /\ at = [c \in Callers |-> "idle"]
  /\ send = [c \in Callers |-> [p \in Fleet |-> None]]
  /\ finished = [c \in Callers |-> {}] /\ left = finished
  /\ rows = [c \in Callers |-> [p \in Fleet |-> None]]
  /\ bulks = 0

Next ==
  \E c \in Callers :
    \/ \E ids \in SUBSET Fleet \ {{}}, status \in [Fleet -> Conditions], dry \in BOOLEAN :
         Begin(c, ids, status, dry)
    \/ \E p \in Fleet : StartSend(c, p) \/ \E how \in Ended : EndSend(c, p, how)
    \/ WaitEnds(c) \/ Cancel(c) \/ Answer(c)

Spec == Init /\ [][Next]_vars

-----------------------------------------------------------------------------
\* Sends of two bulk commands of one family never run at the same time, even when
\* the first was answered long before its last send ended.
OneBulk ==
  \A c, d \in Callers : Of(c, {"running"}) # {} /\ Of(d, {"running"}) # {} => c = d

\* Nobody is locked out: the family is taken only while its command is not
\* answered or a send of it still runs.
FamilyFreed == family # None => at[family] # "idle" \/ Of(family, {"running"}) # {}

\* The answer is true for ever: a printer told as left out is never sent to after
\* it, and a confirmation is one of its own send.
BulkTold ==
  \A c \in Callers, p \in Fleet : at[c] = "idle" =>
    /\ rows[c][p] = "skipped" => send[c][p] \in {None, "cancelled", "refused"}
    /\ rows[c][p] = "confirmed" => send[c][p] = "ok"
=============================================================================

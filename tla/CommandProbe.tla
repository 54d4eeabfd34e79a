----------------------------- MODULE CommandProbe -----------------------------
(* printer_commands.py: the probe that learns whether a Bambu printer takes    *)
(* unsigned commands, beside the drying starts its stop could undo, and the    *)
(* verdict it leaves in memory and on disk.                                    *)
(*                                                                             *)
(* Threads: the probe loop, a request that starts a drying (auto-dry, run now  *)
(* and the card send it the same way) and the poll loop, which notes what the  *)
(* telemetry says of the signature.  Time is counted in ticks of the mark.     *)
EXTENDS Naturals

CONSTANTS
  None,
  Quiet,          \* PROBE_DRY_QUIET_S in ticks: longer than the telemetry lags
  MaxTurns        \* bound: drying starts, switches of the protection and restarts

VARIABLES
  drying, reported,     \* who started the printer's drying; a look saw it (ghost)
  shown,                \* what live telemetry says of drying, None before a full report
  signed, fun,          \* the firmware wants a signature; what its print.fun says
  mark,                 \* _dry_started: ticks since the last start, None without one
  probing,              \* the probe loop: rest, looked, sent
  starting,             \* the request: rest, armed, sent
  polling,              \* the poll loop inside note_signature: rest, trusted
  cap, distrust,        \* _capability and _passive_distrust of the printer
  saving, saved,        \* a verdict each thread writes; the settings row
  overlap,              \* two writes were under way at once (ghost)
  turns                 \* what the bound counts

vars == <<drying, reported, shown, signed, fun, mark, probing, starting, polling,
          cap, distrust, saving, saved, overlap, turns>>
printer == <<drying, reported, shown, signed, fun>>
verdict == <<cap, distrust, saving, saved, overlap>>

Threads == {"probe", "request", "poll"}
Verdicts == {"takes", "blocks"}
Verdict(wants) == IF wants THEN "blocks" ELSE "takes"
Unknown == [cmds |-> None, via |-> None]

TypeOK ==
  /\ drying \in {None, "ours", "screen"} /\ reported \in BOOLEAN
  /\ shown \in BOOLEAN \cup {None}
  /\ signed \in BOOLEAN /\ fun \in BOOLEAN \cup {None}
  /\ mark \in 0..Quiet \cup {None}
  /\ probing \in {"rest", "looked", "sent"}
  /\ starting \in {"rest", "armed", "sent"}
  /\ polling \in {"rest", "trusted"}
  /\ cap \in [cmds : Verdicts \cup {None}, via : {None, "fun", "local", "persisted"}]
  /\ distrust \in BOOLEAN
  /\ saving \in [Threads -> Verdicts \cup {None, "due"}]
  /\ saved \in Verdicts \cup {None} /\ overlap \in BOOLEAN
  /\ turns \in 0..MaxTurns

Turn == turns < MaxTurns /\ turns' = turns + 1

-----------------------------------------------------------------------------
\* _note_capability by thread t: silence keeps a known verdict, and a new known
\* verdict is persisted by the same thread.
NoteCapability_Fault(t, cmds, via) ==
  /\ cap' = [cmds |-> cmds, via |-> via]
  /\ saving' = IF cmds # None /\ cmds # cap.cmds THEN [saving EXCEPT ![t] = "due"] ELSE saving
  /\ UNCHANGED <<saved, overlap>>
NoteCapability(t, cmds, via) ==
  /\ cap' = IF cmds = None /\ cap.cmds # None THEN cap ELSE [cmds |-> cmds, via |-> via]
  /\ saving' = IF cmds # None /\ cmds # cap.cmds THEN [saving EXCEPT ![t] = "due"] ELSE saving
  /\ UNCHANGED <<saved, overlap>>

\* _note_reply: a refused signature where print.fun said none is needed.
NoteReply(t) ==
  /\ distrust' = (distrust \/ (signed /\ cap.via = "fun"))
  /\ NoteCapability(t, Verdict(signed), "local")

\* _persist_capabilities: the verdict is taken under the lock and written later.
Snapshot(t) ==
  /\ saving[t] = "due"
  /\ saving' = [saving EXCEPT ![t] = cap.cmds]
  /\ UNCHANGED <<printer, mark, probing, starting, polling, cap, distrust, saved, overlap, turns>>

WriteVerdict(t) ==
  /\ saving[t] \in Verdicts
  /\ saved' = saving[t]
  /\ saving' = [saving EXCEPT ![t] = None]
  /\ overlap' = (overlap \/ \E u \in Threads \ {t} : saving[u] \in Verdicts)
  /\ UNCHANGED <<printer, mark, probing, starting, polling, cap, distrust, turns>>

Free(t) == saving[t] = None

-----------------------------------------------------------------------------
\* _dry_quiet.
DryQuiet == mark # None /\ mark < Quiet

\* The look of _probe_cycle: no start lately, no drying shown, a full report seen,
\* and print.fun does not answer the question.  Maintenance mode skips the look.
LooksHarmless_Fault == ~DryQuiet /\ shown # TRUE
LooksHarmless == ~DryQuiet /\ shown = FALSE

ProbeLook ==
  /\ probing = "rest" /\ Free("probe")
  /\ LooksHarmless
  /\ fun = None \/ distrust
  /\ probing' = "looked"
  /\ UNCHANGED <<printer, mark, starting, polling, verdict, turns>>

\* probe: the guard runs under the publish lock, right before the publish.
ProbePublish ==
  /\ probing = "looked"
  /\ probing' = IF DryQuiet THEN "rest" ELSE "sent"
  /\ drying' = IF DryQuiet \/ signed THEN drying ELSE None
  /\ UNCHANGED <<reported, shown, signed, fun, mark, starting, polling, verdict, turns>>

ProbeAnswered ==
  /\ probing = "sent" /\ probing' = "rest"
  /\ NoteReply("probe")
  /\ UNCHANGED <<printer, mark, starting, polling, turns>>

ProbeSilent ==
  /\ probing = "sent" /\ probing' = "rest"
  /\ NoteCapability("probe", None, None)
  /\ UNCHANGED <<printer, mark, starting, polling, distrust, turns>>

\* _send_ams of a drying start: _plan_drying on the telemetry, then the mark.
Arm ==
  /\ starting = "rest" /\ Free("request")
  /\ shown = FALSE
  /\ starting' = "armed" /\ mark' = 0
  /\ Turn
  /\ UNCHANGED <<printer, probing, polling, verdict>>

StartPublish ==
  /\ starting = "armed" /\ starting' = "sent"
  /\ drying' = IF signed \/ drying # None THEN drying ELSE "ours"
  /\ reported' = FALSE
  /\ UNCHANGED <<shown, signed, fun, mark, probing, polling, verdict, turns>>

StartAnswered ==
  /\ starting = "sent" /\ starting' = "rest"
  /\ NoteReply("request")
  /\ UNCHANGED <<printer, mark, probing, polling, turns>>

StartSilent ==
  /\ starting = "sent" /\ starting' = "rest"
  /\ UNCHANGED <<printer, mark, probing, polling, verdict, turns>>

\* note_signature: trusted is read first, the verdict noted under the lock after it.
SignatureRead ==
  /\ polling = "rest" /\ Free("poll")
  /\ shown # None /\ fun # None /\ ~distrust
  /\ polling' = "trusted"
  /\ UNCHANGED <<printer, mark, probing, starting, verdict, turns>>

SignatureNote ==
  /\ polling = "trusted" /\ polling' = "rest"
  /\ fun # None
  /\ NoteCapability("poll", Verdict(fun), "fun")
  /\ UNCHANGED <<printer, mark, probing, starting, distrust, turns>>

-----------------------------------------------------------------------------
\* The printer: its telemetry says what it does, later than it does it but before
\* a start's mark lapses; its first report is a full one.
Report ==
  /\ shown' = (drying # None)
  /\ reported' = IF probing = "looked" THEN reported ELSE drying # None
  /\ <<shown', reported'>> # <<shown, reported>>
  /\ UNCHANGED <<drying, signed, fun, mark, probing, starting, polling, verdict, turns>>

ScreenStarts ==
  /\ drying = None
  /\ drying' = "screen" /\ reported' = FALSE
  /\ Turn
  /\ UNCHANGED <<shown, signed, fun, mark, probing, starting, polling, verdict>>

DryingEnds ==
  /\ drying # None
  /\ drying' = None /\ reported' = FALSE
  /\ UNCHANGED <<shown, signed, fun, mark, probing, starting, polling, verdict, turns>>

\* Developer Mode or the firmware changes; print.fun may not tell, or wrongly.
ProtectionSwitched(wants, says) ==
  /\ polling = "rest"
  /\ signed' = wants /\ fun' = says
  /\ Turn
  /\ UNCHANGED <<drying, reported, shown, mark, probing, starting, polling, verdict>>

TickMark ==
  /\ mark # None /\ mark < Quiet
  /\ starting # "armed" /\ probing # "looked"
  /\ drying = "ours" => shown = TRUE
  /\ mark' = mark + 1
  /\ UNCHANGED <<printer, probing, starting, polling, verdict, turns>>

\* A crash or a restart at any point, then load_persisted_capabilities; the
\* probe loop sleeps until the collectors are connected again.
DashboardRestarts ==
  /\ probing' = "rest" /\ starting' = "rest" /\ polling' = "rest"
  /\ mark' = None /\ shown' = None
  /\ cap' = IF saved = None THEN Unknown ELSE [cmds |-> saved, via |-> "persisted"]
  /\ distrust' = FALSE
  /\ saving' = [t \in Threads |-> None]
  /\ Turn
  /\ UNCHANGED <<drying, reported, signed, fun, saved, overlap>>

Init ==
  /\ drying = None /\ reported = FALSE /\ shown = None
  /\ signed = FALSE /\ fun = None
  /\ mark = None
  /\ probing = "rest" /\ starting = "rest" /\ polling = "rest"
  /\ cap = Unknown /\ distrust = FALSE
  /\ saving = [t \in Threads |-> None] /\ saved = None /\ overlap = FALSE
  /\ turns = 0

Next ==
  \/ ProbeLook \/ ProbePublish \/ ProbeAnswered \/ ProbeSilent
  \/ Arm \/ StartPublish \/ StartAnswered \/ StartSilent
  \/ SignatureRead \/ SignatureNote
  \/ \E t \in Threads : Snapshot(t) \/ WriteVerdict(t)
  \/ Report \/ ScreenStarts \/ DryingEnds \/ TickMark \/ DashboardRestarts
  \/ \E wants \in BOOLEAN, says \in BOOLEAN \cup {None} : ProtectionSwitched(wants, says)

Spec == Init /\ [][Next]_vars

-----------------------------------------------------------------------------
\* The probe's stop is never published on a drying the dashboard started, nor on
\* one started on the screen that the telemetry had shown when the probe looked:
\* not beside a start, not after a restart.
ProbeSpares ==
  [][probing = "looked" /\ probing' = "sent"
       => drying = None \/ (drying = "screen" /\ ~reported)]_vars

\* A verdict on disk is one memory has too, whatever stays silent, and with no
\* write under way it is the same one, unless two writes overlapped before.
VerdictKept ==
  saved # None =>
    /\ cap.cmds # None
    /\ overlap \/ cap.cmds = saved \/ \E t \in Threads : saving[t] # None
=============================================================================

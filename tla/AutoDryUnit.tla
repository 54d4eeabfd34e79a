------------------------------ MODULE AutoDryUnit ------------------------------
(***************************************************************************)
(* The auto-drying rules of one unit (ams_autodry.py): decide, and what    *)
(* the results of starts and stops do to the unit's state, over a unit     *)
(* that dries, runs out, is switched off, restarted or lost from sight.    *)
(*                                                                         *)
(* Commands are one step each here; AutoDryEngine interleaves them.  Time  *)
(* is kept in classes: an "hour" separates the classes of a drying's       *)
(* remaining time, 0 being within the tolerance of its end (10 to 15 min), *)
(* and the unit is checked many times an hour while it is in sight.  Other *)
(* timers either run out by an action of their own or, when nothing        *)
(* depends on their length, are a choice.                                  *)
(***************************************************************************)
EXTENDS Integers

CONSTANTS
  None,
  Plan,        \* the last class of a fresh drying's remaining time
  MaxRuns,     \* max_runs, 0: no limit
  Holds,       \* manual_hold_h > 0
  MaxEvents    \* bound: requests, outsiders, switch-offs, outages in a behaviour

ASSUME UnitAssumption ==
  /\ Plan \in Nat \ {0} /\ MaxRuns \in Nat /\ MaxEvents \in Nat
  /\ Holds \in BOOLEAN /\ None \notin Int

Cap == MaxRuns + 2   \* bound: series and runs are counted up to it

Ends == {"none", "finish", "foreign_end", "interrupted", "lost", "stop"}
States == [phase  : {"idle", "running", "foreign", "settle"},
           origin : {"none", "auto", "now", "manual"},
           series : 0..Cap,
           end    : Ends,                           \* end_kind
           closed : BOOLEAN,
           seen   : BOOLEAN,                        \* seen_active
           repeat : BOOLEAN,                        \* repeat_pending
           runs   : 0..Cap,                         \* Len(runs)
           stop   : {"none", "fresh", "old"},       \* stop_sent_at, within STOP_GRACE_S or not
           hold   : {"none", "manual", "foreign"},  \* hold_until ahead, hold_reason
           backoff : BOOLEAN,                       \* backoff_until ahead
           wait   : {"settle", "cool", "late"},     \* before settle_until, before the deadline, after
           entry  : BOOLEAN,                        \* measure_entry names a row
           mode   : BOOLEAN,                        \* maint_since is set
           expect : 0..Plan]                        \* time to run_expected_end

NewState == [phase |-> "idle", origin |-> "none", series |-> 0, end |-> "none",
             closed |-> FALSE, seen |-> FALSE, repeat |-> FALSE, runs |-> 0,
             stop |-> "none", hold |-> "none", backoff |-> FALSE, wait |-> "settle",
             entry |-> FALSE, mode |-> FALSE, expect |-> 0]

VARIABLES
  st,       \* the unit's state
  rem,      \* last_remaining_min (volatile)
  ago,      \* time since last_seen_at (volatile)
  near,     \* run_expected_end was within its tolerance at last_seen_at
  due,      \* the start a check claimed and that is under way
  ams,      \* off, starting (accepted), on
  left,     \* remaining time of a drying
  link,     \* the printer is online and shows the unit
  up,       \* the service runs
  maint,    \* the printer is in maintenance mode
  on,       \* automation_on
  wet,      \* the rest RH is above the target
  rested,   \* rest_stats: the rest RH stayed above start_rh long enough
  clear,    \* nothing delays a due start: blocker, window, printing, retry_at, restart_at
  looked,   \* since the last look: nothing, the drying changed, an hour passed
  why,      \* ghost: how the last drying really ended
  blind,    \* ghost: something happened to the tracked drying that no look could show
  swapped,  \* ghost: an outsider's program runs where the rules still track ours
  over,     \* ghost: why the series may not go on
  exempt,   \* ghost: the pending repeat makes up for an interruption
  orphan,   \* ghost: a row that waits for its measure was forgotten
  events

known  == <<st, rem, ago, near>>
device == <<ams, left, link, why>>
world  == <<up, maint, on, wet, rested, clear>>
hidden == <<blind, swapped>>
ghosts == <<hidden, over, exempt, orphan>>
vars == <<known, due, device, world, looked, ghosts, events>>

TypeOK ==
  /\ st \in States /\ rem \in 0..Plan \cup {None} /\ ago \in 0..2 /\ near \in BOOLEAN
  /\ due \in {"none", "start", "repeat"}
  /\ ams \in {"off", "starting", "on"} /\ left \in 0..Plan
  /\ link \in BOOLEAN /\ up \in BOOLEAN /\ maint \in BOOLEAN /\ on \in BOOLEAN
  /\ wet \in BOOLEAN /\ rested \in BOOLEAN /\ clear \in BOOLEAN
  /\ blind \in BOOLEAN /\ swapped \in BOOLEAN /\ exempt \in BOOLEAN /\ orphan \in BOOLEAN
  /\ looked \in {"yes", "change", "hour"}
  /\ why \in {"none", "ranout", "off", "stop"}
  /\ over \subseteq {"stop", "maintenance", "foreign_stop"}
  /\ events \in 0..MaxEvents

Init ==
  /\ st = NewState /\ rem = None /\ ago = 0 /\ near = FALSE /\ due = "none"
  /\ ams = "off" /\ left = 0 /\ link = TRUE /\ up = TRUE /\ maint = FALSE /\ on = TRUE
  /\ wet \in BOOLEAN /\ rested = FALSE /\ clear = TRUE /\ looked = "yes"
  /\ why = "none" /\ blind = FALSE /\ swapped = FALSE /\ over = {} /\ exempt = FALSE /\ orphan = FALSE
  /\ events = 0

AtMost(n) == IF n > Cap THEN Cap ELSE n
Active == link /\ ams = "on"
Tracked(s) == s.phase \in {"running", "foreign"}
Unhidden == blind' = FALSE /\ swapped' = FALSE
Event == events < MaxEvents /\ events' = events + 1

-----------------------------------------------------------------------------
(***************************************************************************)
(* decide: one check of the unit.                                          *)
(***************************************************************************)

\* The clean-up at the top of decide; a hold or a backoff runs out by an
\* action of its own.
Fresh ==
  [st EXCEPT !.mode = FALSE,
             !.stop = IF ~Tracked(st) /\ ~Active /\ st.stop = "old" THEN "none" ELSE st.stop]

\* A start overwrote the drying: its remaining time jumped up.
Jumped == st.seen /\ rem # None /\ left > rem

\* _maint_reset: only the runs stay and, once in the mode, the hold and the stop.
MaintReset ==
  [NewState EXCEPT !.runs = st.runs, !.mode = TRUE,
                   !.hold = IF st.mode THEN st.hold ELSE "none",
                   !.stop = IF st.mode THEN Fresh.stop ELSE "none"]

Sight == rem' = left /\ ago' = 0 /\ near' = (st'.expect = 0)
NoSight == rem' = None /\ ago' = 0 /\ near' = FALSE

\* A card's run in the mode is tracked while it goes or may still begin.
CardRunGoesOn ==
  /\ st.mode /\ st.phase = "running" /\ st.origin = "manual"
  /\ ~(Active /\ Jumped) /\ (~link \/ ams \in {"on", "starting"})

CheckMaintenance ==
  /\ maint
  /\ IF CardRunGoesOn
     THEN /\ st' = [st EXCEPT !.seen = @ \/ Active]
          /\ IF Active THEN Sight ELSE UNCHANGED <<rem, ago, near>>
          /\ UNCHANGED <<over, hidden>>
     ELSE /\ st' = MaintReset
          /\ NoSight
          /\ over' = over \cup {"maintenance"}
          /\ Unhidden
  /\ UNCHANGED <<due, clear, exempt, orphan>>

\* The tracked drying is out of sight.
CheckOffline ==
  /\ ~maint /\ Tracked(st) /\ ~link
  /\ st' = Fresh
  /\ UNCHANGED <<rem, ago, near, due, clear, ghosts>>

TakenOver(s) ==
  [s EXCEPT !.phase = "foreign", !.origin = "none", !.expect = 0, !.runs = AtMost(@ + 1)]

\* The tracked drying goes on; one whose timer jumped up is taken over.
CheckDrying ==
  /\ ~maint /\ Tracked(st) /\ Active
  /\ LET taken == st.phase = "running" /\ Jumped
         s == Fresh IN
     IF st.stop = "fresh"    \* the stop is winding down
     THEN st' = s /\ ago' = 0 /\ near' = (s.expect = 0) /\ UNCHANGED <<rem, hidden>>
     ELSE /\ st' = IF taken THEN TakenOver(s) ELSE [s EXCEPT !.seen = @ \/ st.phase = "running"]
          /\ Sight
          /\ blind' = (st'.phase = "running" /\ blind)
          /\ swapped' = (st'.phase = "running" /\ swapped)
  /\ UNCHANGED <<due, clear, over, exempt, orphan>>

\* An accepted start has until confirm_by to show.
Confirming_Fault == TRUE
Confirming == ams = "starting"
NotSeen == ~maint /\ link /\ st.phase = "running" /\ ~st.seen /\ st.stop = "none" /\ ams # "on"

CheckConfirming ==
  /\ NotSeen /\ Confirming
  /\ st' = Fresh
  /\ UNCHANGED <<rem, ago, near, due, clear, ghosts>>

\* A start that never ran is not counted: only the engine's own were.
Uncounted_Fault == st.runs - 1
Uncounted == IF st.origin = "auto" THEN st.runs - 1 ELSE st.runs

\* Only the engine's own start is retried, a repeat as a repeat.
Again == st.origin = "auto" /\ st.series > 1
NeverBegan(s) ==
  [s EXCEPT !.phase = "idle", !.origin = "none", !.expect = 0, !.runs = Uncounted,
            !.repeat = Again, !.series = IF Again THEN @ - 1 ELSE 0]

\* Its confirmation time is over: it never began.
CheckUnconfirmed ==
  /\ NotSeen /\ ~Confirming
  /\ st' = NeverBegan(Fresh)
  /\ NoSight
  /\ clear' = (clear /\ st.origin # "auto")
  /\ Unhidden
  /\ UNCHANGED <<due, over, exempt, orphan>>

Gap == ago >= 2

\* _ended_normally.
EndedNormally_Fault == rem = 0
EndedNormally == rem = 0 \/ (IF Gap THEN near ELSE st.expect = 0)

\* More than the tolerance was left by the last reading and the time since.
Early == rem # None /\ rem - ago > 0 /\ ~Gap

EndKind ==
  CASE st.stop # "none" -> "stop"
    [] st.stop = "none" /\ st.phase = "foreign" -> "foreign_end"
    [] st.stop = "none" /\ st.phase = "running" ->
         IF EndedNormally THEN "finish" ELSE IF Gap THEN "lost" ELSE "interrupted"

\* An end by a stop, or an early one, ends the series.
Closes_Fault(early) == EndKind = "stop"
Closes(early) == EndKind = "stop" \/ early

\* A start not seen yet has no end, unless it was stopped.
HasEnded == st.phase = "running" => st.seen \/ st.stop # "none"

Settled(s, early) ==
  [s EXCEPT !.phase = "settle", !.end = EndKind, !.wait = "settle",
            !.closed = @ \/ Closes(early),
            !.hold = IF early /\ Holds THEN "foreign" ELSE @,
            !.entry = @ \/ EndKind # "stop",
            !.stop = "none", !.seen = FALSE, !.expect = 0]

\* The tracked drying is over.
CheckEnd ==
  /\ ~maint /\ link /\ Tracked(st) /\ ams # "on"
  /\ HasEnded
  /\ LET early == EndKind = "foreign_end" /\ Early IN
     /\ st' = Settled(Fresh, early)
     /\ over' = IF early THEN over \cup {"foreign_stop"} ELSE over
  /\ NoSight
  /\ clear' = (clear /\ EndKind # "interrupted")
  /\ Unhidden
  /\ UNCHANGED <<due, exempt, orphan>>

\* _restarted: the drying is back soon after an early end.
MayBeRestarted ==
  st.phase = "settle" /\ (st.end = "interrupted" \/ (st.end = "foreign_end" /\ st.closed))

\* _undo_early_end: a restarted run of ours is a new foreign one, a foreign
\* drying goes on as it was; its row is rewritten.
Undone(s) ==
  [s EXCEPT !.phase = "foreign", !.origin = "none", !.closed = FALSE, !.end = "none",
            !.seen = FALSE, !.entry = FALSE, !.wait = "settle",
            !.runs = IF s.end = "interrupted" THEN AtMost(@ + 1) ELSE @,
            !.hold = IF s.end = "foreign_end" /\ @ = "foreign" THEN "none" ELSE @]

\* A drying nobody here started; a pending measure is cancelled.
Foreign(s) ==
  [s EXCEPT !.phase = "foreign", !.origin = "none", !.closed = FALSE, !.end = "none",
            !.seen = FALSE, !.entry = FALSE, !.wait = "settle", !.repeat = FALSE,
            !.series = IF s.phase = "settle" \/ s.repeat THEN AtMost(@ + 1) ELSE 1,
            !.runs = AtMost(@ + 1)]

CheckForeign ==
  /\ ~maint /\ ~Tracked(st) /\ Active
  /\ IF st.stop = "fresh" THEN st' = Fresh /\ UNCHANGED <<rem, ago, near, hidden, over>>
     ELSE /\ \E restarted \in BOOLEAN :
               /\ restarted => MayBeRestarted
               /\ st' = IF restarted THEN Undone(Fresh) ELSE Foreign(Fresh)
          /\ Sight /\ Unhidden /\ over' = {}
  /\ UNCHANGED <<due, clear, exempt, orphan>>

\* The gates of an idle unit and its trigger.
DueFor(s) ==
  IF on /\ s.hold = "none" /\ ~s.backoff /\ link /\ clear
  THEN IF s.repeat THEN "repeat"
       ELSE IF rested /\ (MaxRuns = 0 \/ s.runs < MaxRuns) THEN "start" ELSE "none"
  ELSE "none"

CheckIdle ==
  /\ ~maint /\ st.phase = "idle" /\ ~Active
  /\ st' = Fresh
  /\ due' = DueFor(st')
  /\ UNCHANGED <<rem, ago, near, clear, ghosts>>

\* A reading above the target is measured at once; else the unit settles and
\* cools down first, at most until the deadline.
Above == link /\ wet /\ ~st.closed
Measurable_Fault == Above \/ (link /\ st.wait # "settle")
Measurable == Above \/ st.wait = "late" \/ (st.wait = "cool" /\ link)

\* Settling, or waiting for the AMS to cool down or for a reading.
CheckSettling ==
  /\ ~maint /\ st.phase = "settle" /\ ~Active /\ ~Above /\ st.wait # "late"
  /\ st' = Fresh
  /\ UNCHANGED <<rem, ago, near, due, clear, ghosts>>

\* The limits of a series and of a day; an interrupted run is redone.
Unreachable == MaxRuns # 0 /\ st.series >= MaxRuns /\ st.end # "interrupted"
Limited_Fault == MaxRuns # 0 /\ st.runs > MaxRuns /\ st.end # "interrupted"
Limited == MaxRuns # 0 /\ st.runs >= MaxRuns /\ st.end # "interrupted"

Outcome ==
  CASE st.closed -> "stopped"
    [] ~st.closed /\ ~link -> "failed"
    [] ~st.closed /\ link /\ ~wet -> "done"
    [] Above /\ (st.hold # "none" \/ ~on) -> "held"
    [] Above /\ st.hold = "none" /\ on /\ st.backoff -> "backoff"
    [] OTHER ->
         IF Unreachable THEN "unreachable" ELSE IF Limited THEN "limit" ELSE "repeat"

Measured(s) ==
  [s EXCEPT !.phase = "idle", !.origin = "none", !.closed = FALSE, !.entry = FALSE,
            !.wait = "settle", !.repeat = Outcome = "repeat",
            !.series = IF Outcome = "repeat" THEN @ ELSE 0,
            !.backoff = @ \/ Outcome = "unreachable"]

\* The measure ends the series or makes a repeat due, which may start at once.
CheckMeasure ==
  /\ ~maint /\ st.phase = "settle" /\ ~Active
  /\ Measurable
  /\ st' = Measured(Fresh)
  /\ due' = DueFor(st')
  /\ exempt' = (Outcome = "repeat" /\ st.end = "interrupted")
  /\ UNCHANGED <<rem, ago, near, clear, hidden, over, orphan>>

Check ==
  /\ up /\ due = "none"
  /\ \/ CheckMaintenance \/ CheckOffline \/ CheckDrying \/ CheckConfirming
     \/ CheckUnconfirmed \/ CheckEnd
     \/ CheckForeign \/ CheckIdle \/ CheckSettling \/ CheckMeasure
  /\ looked' = "yes"
  /\ UNCHANGED <<device, up, maint, on, wet, rested, events>>

-----------------------------------------------------------------------------
(***************************************************************************)
(* Commands and their results.                                             *)
(***************************************************************************)

\* _start_running, after the printer accepted the start.
Running(s, origin, series) ==
  [s EXCEPT !.phase = "running", !.origin = origin, !.series = AtMost(series),
            !.closed = FALSE, !.end = "none", !.seen = FALSE, !.repeat = FALSE,
            !.stop = "none", !.entry = FALSE, !.wait = "settle", !.expect = Plan]

Begins ==
  /\ ams' = "starting" /\ left' = Plan /\ why' = "none" /\ Unhidden
  /\ rem' = None /\ ago' = 0 /\ near' = FALSE
  \* a start cancels the pending measure of a settling unit only
  /\ orphan' = (orphan \/ (st.entry /\ st.phase # "settle"))

Continues == st.phase = "settle" \/ st.repeat

\* The claimed start of the engine: re-checked, looked at live, sent.
StartAccepted ==
  /\ up /\ due # "none" /\ on /\ link /\ ams = "off"
  /\ st' = [Running(st, "auto", IF due = "repeat" THEN st.series + 1 ELSE 1) EXCEPT !.runs = AtMost(@ + 1)]
  /\ Begins
  /\ over' = IF due = "start" THEN {} ELSE over
  /\ due' = "none"
  /\ UNCHANGED <<link, world, looked, exempt, events>>

StartRefused ==
  /\ up /\ due # "none" /\ on /\ ams = "off"
  /\ due' = "none" /\ clear' = FALSE
  /\ UNCHANGED <<known, device, up, maint, on, wet, rested, looked, ghosts, events>>

StartDropped ==
  /\ up /\ due # "none" /\ (~on \/ ams = "on")
  /\ due' = "none"
  /\ UNCHANGED <<known, device, world, looked, ghosts, events>>

\* run_now.
RunNow ==
  /\ Event /\ up /\ due = "none" /\ link /\ ams # "on" /\ ~maint
  /\ ~(st.phase = "running" /\ ~st.seen)
  /\ st' = [Running(st, "now", IF Continues THEN st.series + 1 ELSE 1) EXCEPT !.hold = "none"]
  /\ Begins /\ over' = {}
  /\ UNCHANGED <<due, link, world, looked, exempt>>

\* apply_user_start; a foreign drying the engine saw begin just now was ours.
UserStart ==
  /\ Event /\ up /\ due = "none" /\ link /\ ams # "on"
  /\ \E convert \in BOOLEAN :
       /\ convert => st.phase = "foreign" /\ st.runs > 0
       /\ st' = [Running(st, "manual", IF convert THEN st.series ELSE IF Continues THEN st.series + 1 ELSE 1)
                   EXCEPT !.hold = "none", !.runs = IF convert THEN @ - 1 ELSE @]
  /\ Begins /\ over' = {}
  /\ UNCHANGED <<due, link, world, looked, exempt>>

Stopped(s) ==
  [s EXCEPT !.stop = "fresh", !.repeat = FALSE,
            !.hold = IF Holds THEN "manual" ELSE @,
            !.closed = @ \/ s.phase = "settle",
            !.series = IF s.phase = "idle" THEN 0 ELSE @,
            !.entry = @ \/ Tracked(s)]

\* apply_stop, after the printer accepted the stop; the drying may go on.
Stop ==
  /\ Event /\ up /\ due = "none" /\ link
  /\ st' = Stopped(st)
  /\ orphan' = (orphan \/ (Tracked(st) /\ st.entry))
  /\ over' = over \cup {"stop"}
  /\ \/ UNCHANGED <<ams, left, why>>
     \/ ams # "off" /\ ams' = "off" /\ left' = 0 /\ why' = "stop"
  /\ UNCHANGED <<rem, ago, near, due, link, world, looked, hidden, exempt>>

Release ==
  /\ Event /\ up /\ (st.hold # "none" \/ st.backoff)
  /\ st' = [st EXCEPT !.hold = "none", !.backoff = FALSE]
  /\ UNCHANGED <<rem, ago, near, due, device, world, looked, ghosts>>

-----------------------------------------------------------------------------
(***************************************************************************)
(* The unit, its printer and the clock.                                    *)
(***************************************************************************)

\* Checks follow each other fast: unless the unit is out of sight or nobody is
\* there to look, an hour passes only once the last change was seen, and the
\* drying changes only once the last hour was.
Watched == up /\ link /\ ~maint
Changes ==
  /\ Watched => looked # "hour"
  /\ looked' = IF looked = "hour" THEN "hour" ELSE "change"

Hour ==
  /\ (Watched => looked = "yes") /\ due = "none" /\ ams # "starting"
  /\ ams = "on" \/ Tracked(st)
  /\ looked' = "hour"
  /\ ago' = IF Tracked(st) /\ ago < 2 /\ rem # None THEN ago + 1 ELSE ago
  /\ st' = [st EXCEPT !.expect = IF @ > 0 THEN @ - 1 ELSE 0]
  /\ IF ams = "on" /\ left > 0 THEN left' = left - 1 /\ UNCHANGED <<ams, why>>
     ELSE IF ams = "on" THEN ams' = "off" /\ why' = "ranout" /\ UNCHANGED left
     ELSE UNCHANGED <<ams, left, why>>
  /\ UNCHANGED <<rem, near, due, link, world, ghosts, events>>

AmsBegins ==
  /\ Changes /\ ams = "starting" /\ ams' = "on" /\ rested' = FALSE
  /\ UNCHANGED <<known, due, left, link, why, up, maint, on, wet, clear, ghosts, events>>

AmsDoesNotBegin ==
  /\ Changes /\ ams = "starting" /\ ams' = "off" /\ left' = 0
  /\ UNCHANGED <<known, due, link, why, world, ghosts, events>>

\* The printer or someone at it switches the drying off.
SwitchedOff ==
  /\ Event /\ Changes /\ ams = "on"
  /\ ams' = "off" /\ left' = 0
  /\ why' = IF left = 0 THEN "ranout" ELSE IF st.stop # "none" THEN "stop" ELSE "off"
  /\ UNCHANGED <<known, due, link, world, ghosts>>

\* Someone starts a drying at the printer, as long as ours or shorter, over the
\* one that goes on if any; over ours a shorter one shows no jump.
OutsiderStarts ==
  /\ Event /\ Changes /\ ams # "starting"
  /\ ams' = "on" /\ left' \in 1..Plan /\ why' = "none" /\ rested' = FALSE
  /\ blind' = Tracked(st) /\ swapped' = (st.phase = "running")
  /\ UNCHANGED <<known, due, link, up, maint, on, wet, clear, over, exempt, orphan>>

LinkDrops ==
  /\ Event /\ link /\ link' = FALSE
  /\ UNCHANGED <<known, due, ams, left, why, world, looked, ghosts>>
LinkReturns ==
  /\ ~link /\ link' = TRUE
  /\ UNCHANGED <<known, due, ams, left, why, world, looked, ghosts, events>>

\* Everything but the volatile fields is on disk.
Crash ==
  /\ Event /\ up /\ up' = FALSE
  /\ NoSight /\ due' = "none" /\ blind' = Tracked(st)
  /\ UNCHANGED <<st, device, maint, on, wet, rested, clear, looked, swapped, over, exempt, orphan>>
Restart ==
  /\ ~up /\ up' = TRUE
  /\ UNCHANGED <<known, due, device, maint, on, wet, rested, clear, looked, ghosts, events>>

Maintenance ==
  /\ Event /\ maint' = ~maint
  /\ UNCHANGED <<known, due, device, up, on, wet, rested, clear, looked, ghosts>>
Automation ==
  /\ Event /\ on' = ~on
  /\ UNCHANGED <<known, due, device, up, maint, wet, rested, clear, looked, ghosts>>

\* The air in the unit.
Dampens ==
  /\ Event /\ wet' = ~wet /\ rested' = FALSE
  /\ UNCHANGED <<known, due, device, up, maint, on, clear, looked, ghosts>>
Rests ==
  /\ ~rested /\ wet /\ ams = "off" /\ st.phase = "idle" /\ rested' = TRUE
  /\ UNCHANGED <<known, due, device, up, maint, on, wet, clear, looked, ghosts, events>>
Blocked ==
  /\ Event /\ clear /\ clear' = FALSE
  /\ UNCHANGED <<known, due, device, up, maint, on, wet, rested, looked, ghosts>>
Cleared ==
  /\ ~clear /\ clear' = TRUE
  /\ UNCHANGED <<known, due, device, up, maint, on, wet, rested, looked, ghosts, events>>

\* The timers of the unit's state.
Elapses(s) ==
  /\ st' = s
  /\ UNCHANGED <<rem, ago, near, due, device, world, looked, ghosts, events>>

StopGraceOver == st.stop = "fresh" /\ Elapses([st EXCEPT !.stop = "old"])
HoldRunsOut == st.hold # "none" /\ Elapses([st EXCEPT !.hold = "none"])
BackoffRunsOut == st.backoff /\ Elapses([st EXCEPT !.backoff = FALSE])
SettleOver ==
  /\ st.phase = "settle" /\ st.wait # "late"
  /\ Elapses([st EXCEPT !.wait = IF @ = "settle" THEN "cool" ELSE "late"])

\* A day later a pending repeat is void and a run no longer counts.
RepeatAges == due = "none" /\ st.repeat /\ Elapses([st EXCEPT !.repeat = FALSE, !.series = 0])
RunAges_Fault == FALSE
RunAges ==
  /\ due = "none"
  /\ st.runs > (IF st.phase = "running" /\ st.origin = "auto" /\ ~st.seen THEN 1 ELSE 0)
  /\ Elapses([st EXCEPT !.runs = @ - 1])

Next ==
  \/ Check \/ StartAccepted \/ StartRefused \/ StartDropped
  \/ RunNow \/ UserStart \/ Stop \/ Release
  \/ Hour \/ AmsBegins \/ AmsDoesNotBegin \/ SwitchedOff \/ OutsiderStarts
  \/ LinkDrops \/ LinkReturns \/ Crash \/ Restart \/ Maintenance \/ Automation
  \/ Dampens \/ Rests \/ Blocked \/ Cleared
  \/ StopGraceOver \/ HoldRunsOut \/ BackoffRunsOut \/ SettleOver \/ RepeatAges \/ RunAges

Spec == Init /\ [][Next]_vars

\* The engine's thread checks and sends, timers run out, time passes, a crashed
\* service is restarted.  Of the printer: what delays a start passes, and a start
\* tried again and again is accepted and begins.
FairSpec ==
  /\ Spec
  /\ WF_vars(Check) /\ WF_vars(StartAccepted \/ StartRefused \/ StartDropped)
  /\ WF_vars(Hour) /\ WF_vars(Restart) /\ WF_vars(Rests)
  /\ WF_vars(HoldRunsOut) /\ WF_vars(BackoffRunsOut) /\ WF_vars(SettleOver)
  /\ WF_vars(RunAges) /\ WF_vars(Cleared)
  /\ WF_vars(AmsBegins \/ AmsDoesNotBegin)
  /\ SF_vars(StartAccepted) /\ SF_vars(AmsBegins)

-----------------------------------------------------------------------------
(***************************************************************************)
(* Properties.                                                             *)
(***************************************************************************)

\* A series that an admin's stop, the maintenance mode or someone who stopped
\* the drying early has ended is never continued: no repeat becomes due before
\* another drying began (ams_autodry.py 756-772, 942-945, 1213-1229).
SeriesStaysOver == [][due = "none" /\ due' = "repeat" => over' = {}]_vars

\* The engine starts no more than max_runs of a series and of a day, except to
\* make up for a run it judged to be switched off (1015-1018, 1073-1075).
LimitKept ==
  [][MaxRuns # 0 /\ due = "none" /\ due' # "none" =>
       \/ due' = "repeat" /\ exempt'
       \/ st'.runs < MaxRuns /\ (due' = "repeat" => st'.series < MaxRuns)]_vars

\* The end of a drying is judged by what happened: an interruption, which is
\* exempt from the limits, is one, unless an outsider's program ran unnoticed in
\* our run's place (swapped); and an end seen at once is told from running out
\* whoever switched it off, except that a foreign drying last seen before an
\* outage is not taken for stopped early (703-712, 913-957).
EndsJudged ==
  [][Tracked(st) /\ st'.phase = "settle" =>
       /\ st'.end = "interrupted" => why = "off" \/ swapped
       /\ looked = "change" /\ ~blind /\ rem # None =>
            /\ st'.end = "finish" => why = "ranout"
            /\ st'.end = "foreign_end" => st'.closed = (why = "off" /\ ~Gap)]_vars

\* Settling ends, in sight or not: the measure has a deadline (1000-1014).
Settles == st.phase = "settle" ~> st.phase # "settle"

\* A unit in sight does not stay in a drying that is over or never began.
RunsEnd == <>[]link => (Tracked(st) ~> ~Tracked(st))

\* What the automation is for: a unit that stays in sight, switched on and damp
\* is dried again and again, whatever went wrong before.
Dries == <>[](link /\ on /\ wet /\ ~maint) => []<>(ams = "on")

\* A row that waits for its measure gets it or is cancelled.
NoRowForgotten == ~orphan
=============================================================================

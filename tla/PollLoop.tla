------------------------------ MODULE PollLoop ------------------------------
(***************************************************************************)
(* The poll thread of main.py (poll_loop) for one printer, together with   *)
(* the two parties it shares the StateStore item with: the printer's live  *)
(* link (device.info.online) and the live-refresh thread of                *)
(* printer_commands.  Printers are independent of each other in the loop,  *)
(* so one is enough.  Time is counted in polls (POLL_INTERVAL).            *)
(*                                                                         *)
(* The states "cancelled" and "unknown" are treated by every branch of the *)
(* loop exactly as "idle" is and are not told apart from it.               *)
(***************************************************************************)
EXTENDS Integers

CONSTANTS
  None,          \* Python's None: a missing dictionary entry
  Grace,         \* OFFLINE_GRACE_PERIOD in polls
  RowEvery,      \* 60 s, the history row period, in polls
  RepeatEvery,   \* telegram_finish_repeat_interval_min in polls
  LiveRefresh,   \* FORGE_LIVE_REFRESH_S > 0
  Settings,      \* the notification settings an admin may choose
  Admins,        \* the maintenance switches that may be under way at once
  MaxRestarts    \* bound: restarts of the service in a behaviour

Live == {"idle", "printing", "paused", "finished", "error"}
Switches == {"finish", "repeat", "paused", "error"}
Statuses == [state : Live \cup {"offline"}, online : BOOLEAN, grace : BOOLEAN]

ASSUME PollAssumption ==
  /\ Grace \in Nat /\ RowEvery \in Nat /\ RepeatEvery \in Nat
  /\ MaxRestarts \in Nat
  /\ LiveRefresh \in BOOLEAN
  /\ Settings \subseteq SUBSET Switches /\ Settings # {}
  /\ None \notin Live \cup {"offline", "fail", "maintenance", "due"} /\ None \notin Int /\ None \notin Statuses

VARIABLES
  printer,     \* what the machine really does
  link,        \* device.info.online: its telemetry is live
  bot,         \* TelegramReporter.notify would dispatch a message
  maint,       \* the registry's maintenance flag
  on,          \* the notification switches stored in the settings
  got,         \* the result of this cycle's fetch, None between two polls
  prev,        \* _prev[pid]
  lastActive,  \* _last_active_state[pid]
  failAge,     \* polls since _fail_start[pid] (capped), None when absent
  finishAt,    \* polls since _finish_notify_at[pid] (capped), None when absent
  rowAge,      \* polls since _last_snapshot[pid] (capped)
  row,         \* state of the newest printer_history row, by recorded_at
  overlaid,    \* ghost: that row is a switch's, of a status the store had replaced
  snap,        \* the row a switch still owes: "due", then the state it read
  item,        \* StateStore._statuses[pid]
  liveRead,    \* the status the live refresh holds between its read and upsert
  silent,      \* ghost: polls since the last successful one (capped)
  sent,        \* ghost: the messages the last poll dispatched
  owed,        \* ghost: a finish was seen, its message met a dead bot
  restarts     \* how often the service was restarted

world == <<printer, link, bot, maint, on>>
loop  == <<got, prev, lastActive, failAge, finishAt, rowAge>>
ghost == <<silent, sent, owed>>
history == <<row, overlaid>>
vars  == <<world, loop, history, snap, item, liveRead, ghost, restarts>>

Status(s, o, g) == [state |-> s, online |-> o, grace |-> g]
OfflineStatus == Status("offline", FALSE, FALSE)

Age(n) == (0..n) \cup {None}
Older(a, n) == IF a = None THEN None ELSE IF a < n THEN a + 1 ELSE n

TypeOK ==
  /\ printer \in Live /\ link \in BOOLEAN /\ bot \in BOOLEAN
  /\ maint \in BOOLEAN /\ on \in Settings
  /\ got \in Live \cup {"fail", None}
  /\ prev \in Live \cup {"offline", None} /\ lastActive \in Live \cup {None}
  /\ failAge \in Age(Grace) /\ finishAt \in Age(RepeatEvery)
  /\ rowAge \in 0..RowEvery
  /\ row \in Live \cup {"offline", "maintenance", None} /\ overlaid \in BOOLEAN
  /\ snap \in [Admins -> Live \cup {"offline", "due", None}]
  /\ item \in Statuses \cup {None}
  /\ liveRead \in Live \cup {None}
  /\ silent \in 0..Grace + 1 /\ sent \subseteq Switches /\ owed \in BOOLEAN
  /\ restarts \in 0..MaxRestarts

Init ==
  /\ printer \in Live /\ link \in BOOLEAN /\ bot \in BOOLEAN
  /\ maint \in BOOLEAN /\ on \in Settings
  /\ got = None /\ prev = None /\ lastActive = None /\ failAge = None
  /\ finishAt = None /\ rowAge = RowEvery /\ item = None
  /\ row = None /\ overlaid = FALSE /\ snap = [a \in Admins |-> None]
  /\ liveRead = None /\ silent = 0 /\ sent = {} /\ owed = FALSE /\ restarts = 0

-----------------------------------------------------------------------------
\* Helpers of the poll.  A definition with a suffix (EffectivePrev_Fault) is a
\* seeded fault: the plausible bug that shows that the property it is named
\* beside in README.md can fail.  Nothing uses it.

\* A transient OFFLINE collapses to the last state really observed.
EffectivePrev_Fault == prev
EffectivePrev == IF prev = "offline" /\ lastActive # None THEN lastActive ELSE prev

Entered == got = "finished" /\ EffectivePrev = "printing"
RepeatDue_Fault ==
  got = "finished" /\ ~Entered /\ "repeat" \in on /\ finishAt # None
RepeatDue ==
  /\ got = "finished" /\ ~Entered /\ "repeat" \in on
  /\ finishAt # None /\ finishAt >= RepeatEvery

\* The messages this successful poll tries to send (tg.notify is called).
Attempts ==
  IF maint THEN {}
  ELSE {k \in on :
         \/ k = "finish" /\ (Entered \/ RepeatDue)
         \/ k = "paused" /\ got = "paused" /\ EffectivePrev = "printing"
         \/ k = "error" /\ got = "error" /\ EffectivePrev \notin {None, "error", "offline"}}

\* The repeat timer's anchor after this successful poll.
NextFinishAt ==
  CASE got # "finished" \/ maint -> None
    [] got = "finished" /\ ~maint /\ "finish" \notin on -> finishAt
    [] got = "finished" /\ ~maint /\ "finish" \in on /\ "finish" \in Attempts
         -> IF bot THEN 0 ELSE finishAt
    [] OTHER -> IF finishAt = None THEN 0 ELSE finishAt

\* When a history row is written by a successful poll.
RowDue_Fault == rowAge >= RowEvery
RowDue == rowAge >= RowEvery \/ (got # prev /\ ~maint)

\* record_snapshot: the row's state is replaced while in maintenance mode.
HistoryState(s, m) == IF m THEN "maintenance" ELSE s
WriteRow(s, stale) == row' = HistoryState(s, maint) /\ overlaid' = (stale /\ ~maint)
WriteRowIf(due, s) ==
  IF due THEN WriteRow(s, FALSE) /\ rowAge' = 0 ELSE UNCHANGED <<history, rowAge>>

\* store.upsert; job_journal.observe, which gets the same status, is not modelled here.
Publish_Fault(s) ==
  item' = IF item # None /\ s.online THEN [item EXCEPT !.state = s.state] ELSE s
Publish(s) == item' = s

-----------------------------------------------------------------------------
\* The poll thread: a fetch in the pool, then its result is applied.

PollFetch ==
  /\ got = None
  /\ got' = IF link THEN printer ELSE "fail"
  /\ failAge' = Older(failAge, Grace)
  /\ finishAt' = Older(finishAt, RepeatEvery)
  /\ rowAge' = IF rowAge < RowEvery THEN rowAge + 1 ELSE RowEvery
  /\ silent' = IF silent <= Grace THEN silent + 1 ELSE silent
  /\ sent' = {}
  /\ UNCHANGED <<world, prev, lastActive, history, snap, item, liveRead, owed, restarts>>

PollOk ==
  /\ got \in Live
  /\ failAge' = None
  /\ finishAt' = NextFinishAt
  /\ prev' = got
  /\ lastActive' = got
  /\ Publish(Status(got, TRUE, FALSE))
  /\ WriteRowIf(RowDue, got)
  /\ got' = None
  /\ silent' = 0
  /\ sent' = IF bot THEN Attempts ELSE {}
  /\ owed' = (/\ got = "finished" /\ ~maint
              /\ IF "finish" \in Attempts THEN ~bot /\ (Entered \/ owed) ELSE owed)
  /\ UNCHANGED <<world, snap, liveRead, restarts>>

\* Nothing known of the printer yet: offline at once, no grace period.
PollFailFirst ==
  /\ got = "fail" /\ item = None
  /\ prev' = "offline"
  /\ Publish(OfflineStatus)
  /\ WriteRow("offline", FALSE)                \* _last_snapshot is not set here
  /\ got' = None /\ sent' = {}
  /\ UNCHANGED <<world, lastActive, failAge, finishAt, rowAge, snap, liveRead, silent, owed, restarts>>

FailElapsed_Early == IF failAge = None THEN Grace ELSE failAge
FailElapsed_Restarted == IF failAge = None \/ ~item.grace THEN 0 ELSE failAge
FailElapsed_Rearmed == 0
FailElapsed_Past == IF failAge = None THEN 0 ELSE failAge + 1
FailElapsed == IF failAge = None THEN 0 ELSE failAge

\* Inside the grace period: the stored status is cloned with the flag set.
PollFailGrace ==
  /\ got = "fail" /\ item # None /\ FailElapsed < Grace
  /\ failAge' = FailElapsed
  /\ prev' = item.state
  /\ Publish([item EXCEPT !.grace = TRUE])
  /\ WriteRowIf(rowAge >= RowEvery, item.state)
  /\ got' = None /\ sent' = {}
  /\ UNCHANGED <<world, lastActive, finishAt, snap, liveRead, silent, owed, restarts>>

\* The grace period is over; _fail_start stays until the first success.
PollFailOffline ==
  /\ got = "fail" /\ item # None /\ FailElapsed >= Grace
  /\ failAge' = FailElapsed
  /\ prev' = "offline"
  /\ Publish(OfflineStatus)
  /\ WriteRowIf(rowAge >= RowEvery, "offline")
  /\ got' = None /\ sent' = {}
  /\ UNCHANGED <<world, lastActive, finishAt, snap, liveRead, silent, owed, restarts>>

Poll == PollFetch \/ PollOk \/ PollFailFirst \/ PollFailGrace \/ PollFailOffline

-----------------------------------------------------------------------------
\* The live-refresh thread: reads the live telemetry, then upserts it.

RefreshRead ==
  /\ LiveRefresh /\ link /\ liveRead = None
  /\ liveRead' = printer
  /\ UNCHANGED <<world, loop, history, snap, item, ghost, restarts>>

RefreshUpsert ==
  /\ liveRead # None
  /\ item' = Status(liveRead, TRUE, FALSE)
  /\ liveRead' = None
  /\ UNCHANGED <<world, loop, history, snap, ghost, restarts>>

-----------------------------------------------------------------------------
\* The world around the loop.

Leads == [s \in Live |->
  CASE s = "idle"     -> {"printing"}
    [] s = "printing" -> {"paused", "finished", "error", "idle"}
    [] s = "paused"   -> {"printing", "error", "idle"}
    [] s = "finished" -> {"printing", "idle"}
    [] OTHER          -> {"printing", "idle"}]

PrinterMoves ==
  /\ \E s \in Leads[printer] : printer' = s
  /\ UNCHANGED <<link, bot, maint, on, loop, history, snap, item, liveRead, ghost, restarts>>

LinkFlips ==
  /\ link' = ~link
  /\ UNCHANGED <<printer, bot, maint, on, loop, history, snap, item, liveRead, ghost, restarts>>

BotFlips ==
  /\ bot' = ~bot
  /\ UNCHANGED <<printer, link, maint, on, loop, history, snap, item, liveRead, ghost, restarts>>

\* PUT /maintenance commits the flag and only then takes a history row of the
\* switch: the store is read and the row written later, with no lock over both.
AdminMaintenance(a) ==
  /\ snap[a] = None
  /\ maint' = ~maint
  /\ snap' = [snap EXCEPT ![a] = "due"]
  /\ UNCHANGED <<printer, link, bot, on, loop, history, item, liveRead, ghost, restarts>>

SnapshotRead(a) ==
  /\ snap[a] = "due"
  /\ snap' = [snap EXCEPT ![a] = IF item = None THEN None ELSE item.state]
  /\ UNCHANGED <<world, loop, history, item, liveRead, ghost, restarts>>

SnapshotWrite(a) ==
  /\ snap[a] \notin {"due", None}
  /\ WriteRow(snap[a], snap[a] # item.state)
  /\ snap' = [snap EXCEPT ![a] = None]
  /\ UNCHANGED <<world, loop, item, liveRead, ghost, restarts>>

Admin == \E a \in Admins : AdminMaintenance(a) \/ SnapshotRead(a) \/ SnapshotWrite(a)

AdminSettings ==
  /\ on' \in Settings /\ on' # on
  /\ UNCHANGED <<printer, link, bot, maint, loop, history, snap, item, liveRead, ghost, restarts>>

\* Every dictionary of the loop, the store and the refresh thread are volatile;
\* the history rows are on disk.
Restart ==
  /\ restarts < MaxRestarts
  /\ restarts' = restarts + 1
  /\ got' = None /\ prev' = None /\ lastActive' = None /\ failAge' = None
  /\ finishAt' = None /\ rowAge' = RowEvery /\ item' = None
  /\ snap' = [a \in Admins |-> None]
  /\ liveRead' = None /\ silent' = 0 /\ sent' = {} /\ owed' = FALSE
  /\ UNCHANGED <<world, history>>

Next ==
  \/ Poll \/ RefreshRead \/ RefreshUpsert
  \/ PrinterMoves \/ LinkFlips \/ BotFlips \/ Admin \/ AdminSettings \/ Restart

Spec == Init /\ [][Next]_vars

-----------------------------------------------------------------------------
(***************************************************************************)
(* Properties.                                                             *)
(***************************************************************************)

\* A printer goes offline on the card only when it stayed silent for the whole
\* grace period, unless no poll has ever succeeded (main.py 486-528).
OfflineEarned ==
  item # None /\ item.state = "offline" /\ lastActive # None => silent > Grace

\* A printer that went offline after having been seen leaves that state only by
\* live telemetry: no fresh grace period flaps the card (main.py 521-524).
NoFlap ==
  [][item # None /\ item = OfflineStatus /\ lastActive # None /\ restarts' = restarts
       => item' = OfflineStatus \/ item'.online]_vars

\* When the last poll that saw the printer saw it printing and this one sees it
\* finished, paused or in error, the message goes out (main.py 360-365, 395-401).
TransitionHeard ==
  [][PollOk /\ lastActive = "printing" /\ ~maint /\ bot
       => /\ got = "finished" /\ "finish" \in on => "finish" \in sent'
          /\ got \in {"paused", "error"} \cap on => got \in sent']_vars

\* A finish whose message met a dead bot is not marked as announced: the anchor
\* of the repeat timer stays unset until a message went out (main.py 421-426).
OwedNotAnchored == owed => finishAt = None

\* A finish message that no PRINTING -> FINISHED transition caused is a repeat:
\* repeats are on and the interval has passed since the previous message.
RepeatsSpaced ==
  [][PollOk /\ "finish" \in sent' /\ lastActive # "printing"
       => "repeat" \in on /\ finishAt # None /\ finishAt >= RepeatEvery]_vars

\* After every successful poll out of maintenance the newest history row is the
\* polled state: a state change is never left to the next minute's row (main.py
\* 460-469).  Not while a switch still owes its row, and not under the row of a
\* switch that read the store before a poll changed it and wrote after that poll.
RowFollows ==
  [][PollOk /\ ~maint /\ (\A a \in Admins : snap[a] = None)
       => row' = got \/ overlaid']_vars

\* A printer switched off for good ends up offline on its card and stays so.
PowerOffShown == <>[]~link => <>[](item = OfflineStatus)

\* A reachable printer that keeps its state ends up on its card as it is.
CardConverges ==
  \A s \in Live : <>[](link /\ printer = s) => <>[](item = Status(s, TRUE, FALSE))
=============================================================================

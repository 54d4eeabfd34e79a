------------------------------ MODULE Commands ------------------------------
(* The commands to a printer: printer_commands.py and notification_actions.py. *)
(* The parts share no variable; Services lets them move.                       *)
EXTENDS Common, Integers, Sequences

CONSTANTS
  MaxCommands, MaxMixed, MaxDone, Window, Wait,   \* CommandSend: bounds and times
  QuietTime, MaxSwitches,                         \* CommandProbe
  Loops, Least, Most,                             \* CommandRefresh
  AmsUnits, Notifications, Guard, MaxPresses,     \* NoticeActions
  Machines, Parameters, Levels, Lamps, SocketSends, \* CommandRules: what is tried
  Views, Indices, Slots, Temps, Hours             \* AmsRules: what is tried

VARIABLES
  stage, look, command, awaited, swapMark, ejectMark, busy, done,
  drying, reported, shown, signed, fun, mark, probing, start, polling, cap,
  distrust, saving, verdict, overlap, changes,
  entry, refresher, state, card, goal, since,
  press, claimMark, holder, dries, noted, orders,
  asked,
  wanted

sendVars == <<stage, look, command, awaited, swapMark, ejectMark, busy, done>>
probeVars == <<drying, reported, shown, signed, fun, mark, probing, start,
  polling, cap, distrust, saving, verdict, overlap, changes>>
refreshVars == <<entry, refresher, state, card, goal, since>>
pressVars == <<press, claimMark, holder, dries, noted, orders>>

Send == INSTANCE CommandSend
Probe == INSTANCE CommandProbe WITH
  Quiet <- QuietTime, MaxTurns <- MaxSwitches, turns <- changes, saved <- verdict, starting <- start
Refresh == INSTANCE CommandRefresh
Press == INSTANCE NoticeActions WITH
  Clickers <- Senders, Units <- AmsUnits, Reports <- Notifications, mark <- claimMark
Rules == INSTANCE CommandRules WITH Printers <- Machines, Sends <- SocketSends
Ams == INSTANCE AmsRules

-----------------------------------------------------------------------------
\* A guard of a tick or more; nobody and nothing are none of the values they stand beside.
SwapMarks == [by : Senders, done : 0..MaxDone, age : 0..Window]
EjectMarks == [by : Senders, age : 0..Window]
SendConstants ==
  /\ Window \in Nat \ {0} /\ MaxCommands \in Nat /\ MaxDone \in Nat
  /\ None \notin Send!Kinds \cup Send!Verdicts \cup {"out", "unsent"}
  /\ None \notin {"confirmed", "sent", "rejected"}
  /\ None \notin SwapMarks /\ None \notin EjectMarks

\* A quiet time of a tick or more.
ProbeConstants ==
  /\ QuietTime \in Nat \ {0} /\ MaxSwitches \in Nat
  /\ None \notin Nat /\ None \notin BOOLEAN
  /\ None \notin {"ours", "screen", "takes", "blocks", "due", "fun", "local", "persisted"}

\* FAST_REFRESH_MAX is above the least time by an interval or more, as FAST_REFRESH_CMD_MAX is.
RefreshEntries == [deadline : 0..Most, keep : 0..Least, expect : Refresh!Goals \cup {None}]
RefreshConstants ==
  /\ Least \in Nat \ {0} /\ Most \in Nat /\ Most > Least
  /\ None \notin RefreshEntries /\ None \notin Refresh!Goals \cup {"yes", "no", "blind"}

\* A guard of a tick or more; the ids of a record are numbers, and the cancel echo has no
\* record in Bambu's table.
PressConstants ==
  /\ Guard \in Nat \ {0} /\ MaxPresses \in Nat
  /\ None \notin Senders /\ "engine" \notin Senders /\ None # "engine" /\ None \notin Press!Keys
  /\ None \notin [age : 0..Guard, by : Senders]
  /\ \A r \in Notifications : r.ids = None \/ r.ids \in Seq(Nat)
  /\ \A r \in Notifications : r.code = "cancel" => 39 \notin Press!Range(Press!IdsOf(r))

\* A report is of its printer's kind; Klipper is sent one frame and answers it, Creality
\* several without an answer.
RulesConstants ==
  /\ None \notin Int /\ None \notin {"ok", "error", "pe", "pause", "job_attr", "job_id"}
  /\ \A p \in Machines : p.kind = "bambu" \/ p.d.kind = p.kind
  /\ \A w \in SocketSends :
       /\ w.frames \in Nat \ {0} /\ w.fails \in (1..w.frames) \cup {None}
       /\ \/ w.kind = "klipper" /\ w.frames = 1 /\ w.reply \in {"ok", "error", None}
          \/ w.kind = "creality" /\ w.lamp = None

\* The units of a printer have numbers of their own: 0 to 3 with up to four slots, 128 to 135
\* (AMS HT) with one.
SpoolSlots ==
  [marker : BOOLEAN, colour : BOOLEAN, type : BOOLEAN, temp : Int \cup {None}, material : DOMAIN Ams!Material \cup {None}]
Dryings == {"off", "checking", "drying", "cooling", "stopping", "error", "overheat", "testing"}
SpoolUnits ==
  [index : (0..3) \cup (128..135), trays : Seq(SpoolSlots), model : {None, 0, 1, 2},
   status : Dryings \cup {None}, codes : SUBSET Nat, left : Nat]
AmsConstants ==
  /\ None \notin Int /\ None \notin Dryings
  /\ None \notin DOMAIN Ams!Material /\ None # "cancel"
  /\ \A v \in Views :
       /\ v.top \in Nat /\ v.top >= 170 /\ v.spool \in Int \cup {None}
       /\ v.units \in Seq(SpoolUnits)
       /\ \A i, j \in DOMAIN v.units : v.units[i].index = v.units[j].index => i = j
       /\ \A i \in DOMAIN v.units : Len(v.units[i].trays) <= IF v.units[i].index < 16 THEN 4 ELSE 1

ASSUME CommandsAssumption ==
  /\ SendConstants /\ ProbeConstants /\ RefreshConstants /\ PressConstants
  /\ RulesConstants /\ AmsConstants

=============================================================================

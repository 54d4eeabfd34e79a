---------------------------- MODULE NoticeActions ----------------------------
(* notification_actions.py: the buttons of a printer's notifications, from the *)
(* ids of Bambu's table to the command that one press sends.  Threads that     *)
(* serve the dashboard and the fleet's reset press; each looks at the live     *)
(* status, claims the printer's mark, for a stop of the drying also every unit *)
(* that dries, sends, and gives back what it claimed.                          *)
EXTENDS Naturals, FiniteSets, Sequences, SequencesExt

CONSTANTS
  None,
  Clickers,    \* the threads
  Units,       \* the printer's AMS units
  Reports,     \* what the printer can report, see Notice
  Guard,       \* ACTION_GUARD_S, in ticks
  MaxPresses   \* bound: commands sent

VARIABLES
  press,    \* of each thread: where it stands, and what it saw
  mark,     \* _marks of the printer: the age of the last claim and whose it is
  holder,   \* _inflight of the auto-dry engine: who holds each unit
  dries,    \* the units that dry
  noted,    \* the units whose stop the engine knows as the admin's
  orders    \* the commands sent: whose it is while it is out, its age and its fate

vars == <<press, mark, holder, dries, noted, orders>>

-----------------------------------------------------------------------------
\* ACTIONS (close_dialog is not enabled): an action's button ids, live checks, source, and whether it asks.
Row(ids, guards, srcs, asks) == [ids |-> ids, guards |-> guards, srcs |-> srcs, asks |-> asks]
Error == {"print_error"}
Either == {"print_error", "hms"}
Keys == {"resume", "ignore", "stop", "ams_done", "ams_retry", "ams_abort", "clean", "idle_ignore", "buzzer_off",
         "dry_stop", "refresh_nozzle", "purifier_off", "fw_restart", "klippy_restart"}
Action(a) ==
  CASE a = "resume" -> Row({2, 3, 4, 12, 28}, {"pe", "pause", "job_attr", "job_id"}, Error, FALSE)
    [] a = "ignore" -> Row({25, 27}, {"pe", "pause", "job_attr", "job_id"}, Error, FALSE)
    [] a = "stop" -> Row({5}, {"pe", "job_id"}, Error, TRUE)
    [] a = "ams_done" -> Row({7, 10001}, {"pe"}, Error, FALSE)
    [] a = "ams_retry" -> Row({8, 9, 34, 10002}, {"pe", "job_attr"}, Error, FALSE)
    [] a = "ams_abort" -> Row({51}, {"pe"}, Error, TRUE)
    [] a = "clean" -> Row({11, 10004}, {"pe"}, Error, FALSE)
    [] a = "idle_ignore" -> Row({23}, {"pe", "job_attr"}, Error, FALSE)
    [] a = "buzzer_off" -> Row({29}, {}, Either, FALSE)
    [] a = "dry_stop" -> Row({35}, {}, Either, FALSE)
    [] a = "refresh_nozzle" -> Row({24}, {}, Either, FALSE)
    [] a = "purifier_off" -> Row({54}, {}, Either, FALSE)
    [] a = "fw_restart" -> Row({}, {"host_down"}, {"klipper"}, TRUE)
    [] a = "klippy_restart" -> Row({}, {"host_error"}, {"klipper"}, TRUE)

\* A report r: the source of its notification (None: no notification), the ids of
\* the code's record in the model's table (None: table not loaded), the kind of
\* the code ("auto": in the auto-ignore setting, "cancel": the cancel echo), what
\* is told of the job, its level, and klippy's state.
IdsOf(r) ==
  IF r.ids # None THEN r.ids
  ELSE IF r.src = "print_error" /\ r.code = "auto" THEN <<27>> ELSE <<>>

\* klipper_actions and actions_for: the buttons, in the table's order.
Buttons(r) ==
  CASE r.src = None -> {}
    [] r.src = "klipper" -> CASE r.host = "shutdown" -> {"fw_restart"}
                              [] r.host = "error" -> {"klippy_restart", "fw_restart"}
                              [] OTHER -> {}
    [] r.src = "print_error" /\ r.code = "cancel" -> {"clean"}
    [] OTHER -> {a \in Keys : Action(a).ids \cap Range(IdsOf(r)) # {} /\ r.src \in Action(a).srcs}

\* ID_BLOCKING: the user must pick one of the buttons.
Blocking(r) == r.src \in Either /\ r.code # "cancel" /\ 39 \in Range(IdsOf(r))

\* describe: the primary button is the first that does not endanger the print.
Endangers == {"stop", "ams_abort", "fw_restart"}
Primary(r) ==
  LET safe == {i \in DOMAIN IdsOf(r) : \E a \in Buttons(r) \ Endangers : IdsOf(r)[i] \in Action(a).ids}
      first == IdsOf(r)[CHOOSE i \in safe : \A j \in safe : i <= j]
  IN IF safe = {} THEN None ELSE CHOOSE a \in Buttons(r) : first \in Action(a).ids

-----------------------------------------------------------------------------
\* _guard_refusal, on the report of the look.
Fails(g, r) ==
  CASE g = "pe" -> r.src # "print_error"
    [] g = "pause" -> ~r.paused
    [] g = "job_attr" -> r.laser
    [] g = "job_id" -> ~r.job
    [] g = "host_down" -> r.host \notin {"shutdown", "error"}
    [] g = "host_error" -> r.host # "error"
Allows(a, r) == \A g \in Action(a).guards : ~Fails(g, r)

\* resettable: the one record the fleet's reset closes.
Resettable(r) == r.src = "print_error" /\ ~Blocking(r) /\ ~r.paused /\ "clean" \in Buttons(r)

AtRest == [at |-> "rest", action |-> None, saw |-> None, asked |-> FALSE, fleet |-> FALSE,
           drying |-> FALSE, todo |-> {}, took |-> {}]

Presses == [at : {"rest", "looked", "claimed", "sent", "done", "failed"}, action : Keys \cup {None},
            saw : Reports \cup {None}, asked : BOOLEAN, fleet : BOOLEAN, drying : BOOLEAN,
            todo : SUBSET Units, took : SUBSET Units]
Orders == [by : Clickers \cup {None}, age : 0..Guard, fate : {"out", "ok", "failed"}]
TypeOK ==
  /\ press \in [Clickers -> Presses]
  /\ mark \in [age : 0..Guard, by : Clickers] \cup {None}
  /\ holder \in [Units -> Clickers \cup {"engine", None}]
  /\ dries \subseteq Units /\ noted \subseteq Units
  /\ orders \in Seq(Orders) /\ Len(orders) <= MaxPresses

\* run, _run_live: a press whose notification or button the live status no longer
\* has, whose checks fail or which is not confirmed changes nothing.
Look(c) ==
  /\ press[c].at = "rest" /\ Len(orders) < MaxPresses
  /\ \E r \in Reports : \E a \in {b \in Buttons(r) : Allows(b, r)} : \E confirmed \in BOOLEAN :
       /\ Action(a).asks => confirmed
       /\ press' = [press EXCEPT ![c] =
            [AtRest EXCEPT !.at = "looked", !.action = a, !.saw = r, !.asked = Action(a).asks /\ confirmed,
                           !.drying = a = "dry_stop", !.todo = IF a = "dry_stop" THEN dries ELSE {}]]
  /\ UNCHANGED <<mark, holder, dries, noted, orders>>

\* reset_one: «close the dialog» on the record the live status has to close.
ResetOne(c) ==
  /\ press[c].at = "rest" /\ Len(orders) < MaxPresses
  /\ \E r \in {q \in Reports : Resettable(q) /\ Allows("clean", q)} :
       press' = [press EXCEPT ![c] =
         [AtRest EXCEPT !.at = "looked", !.action = "clean", !.saw = r, !.fleet = TRUE]]
  /\ UNCHANGED <<mark, holder, dries, noted, orders>>

\* _claim: check and set in one step; then drying_units: what dried at the look
\* and what the engine runs by now.
Claim(c) ==
  /\ press[c].at = "looked"
  /\ IF mark # None /\ mark.age < Guard
     THEN press' = [press EXCEPT ![c] = AtRest] /\ UNCHANGED mark
     ELSE /\ press' = [press EXCEPT ![c] =
               [AtRest EXCEPT !.at = "claimed", !.drying = press[c].drying,
                              !.todo = IF press[c].drying THEN press[c].todo \cup dries ELSE {}]]
          /\ mark' = [age |-> 0, by |-> c]
  /\ UNCHANGED <<holder, dries, noted, orders>>

\* The units of the auto-dry engine, one after the other; the first that is taken
\* ends the press.
ClaimUnit(c, u) ==
  /\ press[c].at = "claimed" /\ u \in press[c].todo
  /\ IF holder[u] = None
     THEN /\ holder' = [holder EXCEPT ![u] = c]
          /\ press' = [press EXCEPT ![c].todo = @ \ {u}, ![c].took = @ \cup {u}]
     ELSE /\ press' = [press EXCEPT ![c].at = "failed"]
          /\ UNCHANGED holder
  /\ UNCHANGED <<mark, dries, noted, orders>>

\* _send_local or send_klipper_rpc.
Publish(c) ==
  /\ press[c].at = "claimed" /\ press[c].todo = {}
  /\ Len(orders) < MaxPresses
  /\ press' = [press EXCEPT ![c].at = "sent"]
  /\ orders' = Append(orders, [by |-> c, age |-> 0, fate |-> "out"])
  /\ dries' = IF press[c].drying THEN {} ELSE dries
  /\ UNCHANGED <<mark, holder, noted>>

Mine(c) == CHOOSE n \in DOMAIN orders : orders[n].by = c

\* Accepted, or sent and not answered: the engine learns of a stop of the drying
\* as the admin's, and the fast refresh begins.  Refused or not sent: a failure.
Ends(c, fate) ==
  /\ press[c].at = "sent"
  /\ orders' = [orders EXCEPT ![Mine(c)].fate = fate, ![Mine(c)].by = None,
                              ![Mine(c)].age = IF fate = "ok" THEN @ ELSE Guard]
  /\ noted' = IF fate = "ok" THEN noted \cup press[c].took ELSE noted
  /\ press' = [press EXCEPT ![c].at = IF fate = "ok" THEN "done" ELSE "failed"]
  /\ UNCHANGED <<mark, holder, dries>>

\* `finally`: the units are given back, after a failure the mark too, if it is
\* still the one of this press.
Released(c) == IF mark # None /\ mark.by = c THEN None ELSE mark
Finally(c) ==
  /\ press[c].at \in {"done", "failed"}
  /\ holder' = [u \in Units |-> IF u \in press[c].took THEN None ELSE holder[u]]
  /\ mark' = IF press[c].at = "failed" THEN Released(c) ELSE mark
  /\ press' = [press EXCEPT ![c] = AtRest]
  /\ UNCHANGED <<dries, noted, orders>>

-----------------------------------------------------------------------------
\* The auto-dry engine, or a drying command of the dashboard, claims a unit, starts
\* its drying and gives it back.
EngineClaims(u) ==
  /\ holder[u] = None /\ u \notin dries /\ u \notin noted
  /\ holder' = [holder EXCEPT ![u] = "engine"]
  /\ UNCHANGED <<press, mark, dries, noted, orders>>
EngineStarts(u) ==
  /\ holder[u] = "engine"
  /\ holder' = [holder EXCEPT ![u] = None]
  /\ dries' = dries \cup {u}
  /\ UNCHANGED <<press, mark, noted, orders>>

\* Time passes; a press is not held up for a tick before its send.
Tick ==
  /\ mark # None /\ mark.age < Guard
  /\ \A c \in Clickers : press[c].at \in {"rest", "looked", "sent"}
  /\ mark' = [mark EXCEPT !.age = @ + 1]
  /\ orders' = [n \in DOMAIN orders |-> [orders[n] EXCEPT !.age = IF @ < Guard THEN @ + 1 ELSE @]]
  /\ UNCHANGED <<press, holder, dries, noted>>

Init ==
  /\ press = [c \in Clickers |-> AtRest]
  /\ mark = None
  /\ holder = [u \in Units |-> None]
  /\ dries = {} /\ noted = {}
  /\ orders = <<>>

Next ==
  \/ \E c \in Clickers :
       \/ Look(c) \/ ResetOne(c)
       \/ Claim(c) \/ Publish(c) \/ Finally(c)
       \/ \E u \in Units : ClaimUnit(c, u)
       \/ \E fate \in {"ok", "failed"} : Ends(c, fate)
  \/ \E u \in Units : EngineClaims(u) \/ EngineStarts(u)
  \/ Tick

Spec == Init /\ [][Next]_vars

-----------------------------------------------------------------------------
\* Two presses on one printer that may both take effect are ACTION_GUARD_S apart,
\* whichever of them failed in between.
NoDoublePress ==
  [][\A n \in DOMAIN orders' \ DOMAIN orders, p \in DOMAIN orders :
       orders[p].fate # "failed" => orders[p].age >= Guard]_vars

\* The admin's stop of the drying stands: the engine restarts no unit whose stop is
\* under way or known to it.
StopStands ==
  /\ noted \cap dries = {}
  /\ \A c \in Clickers : press[c].at \in {"sent", "done"} => press[c].took \cap dries = {}

\* Once a press is over nothing of it blocks the engine or, if it failed, the next.
PressFrees ==
  /\ \A c \in Clickers, u \in Units : press[c].at = "rest" => holder[u] # c
  /\ mark # None /\ press[mark.by].at \in {"rest", "looked"}
       => \E n \in DOMAIN orders : orders[n].fate = "ok" /\ orders[n].age = mark.age

\* What a press is about to send fits what the printer showed at its look: nothing
\* continues a laser job or a print that is not paused, what loses the print was
\* confirmed and is not the button in front, and the fleet's reset decides nothing
\* for the user.
PressSound ==
  \A c \in Clickers : press[c].at = "looked" =>
    LET a == press[c].action  r == press[c].saw IN
    /\ a \in {"resume", "ignore"} => r.paused /\ ~r.laser
    /\ a = "ams_retry" => ~r.laser
    /\ a \in Endangers => press[c].asked /\ Primary(r) # a
    /\ press[c].fleet => a = "clean" /\ ~r.paused /\ 39 \notin Range(IdsOf(r))
=============================================================================

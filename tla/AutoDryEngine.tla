---------------------------- MODULE AutoDryEngine ----------------------------
(***************************************************************************)
(* The threads around the auto-drying rules (ams_autodry_engine.py): the   *)
(* engine's tick, the admin's requests (HTTP threads) and the printers, on *)
(* units (AMS) that may share a printer.                                   *)
(*                                                                         *)
(* A unit's rules (ams_autodry.decide) are kept to what the threads see of *)
(* them: "settle" counts as "idle" (nothing is started from either before  *)
(* the rules want to), and a timer that may run out is an action or a      *)
(* choice.  manual_hold_h is positive: a stop holds the unit.              *)
(***************************************************************************)
EXTENDS Integers

CONSTANTS
  Units, Printers, PrinterOf,  \* the units and the printer each belongs to
  Clients,       \* HTTP threads that serve an admin's requests
  Tick,          \* the engine's thread
  None,
  LiveStore,     \* the status a tick collects is the live telemetry
  MaxRequests,   \* bound: requests of the admins in a behaviour, switches included
  MaxRestarts    \* bound: restarts of the service

Actors == Clients \cup {Tick}

ASSUME EngineAssumption ==
  /\ PrinterOf \in [Units -> Printers]
  /\ Tick \notin Clients /\ None \notin Actors
  /\ LiveStore \in BOOLEAN
  /\ MaxRequests \in Nat /\ MaxRestarts \in Nat

Ops == {"stop_all", "run_now", "dry_start", "dry_stop", "release"}
Starts == {"run_now", "dry_start"}
Stops == {"stop_all", "dry_stop"}
Dashboard == {"dry_start", "dry_stop"}

\* What a worker is doing for a unit: waiting for its claim, a claimed start
\* before its re-check, before the live check, before the send, after an
\* accepted / a refused send, with the result applied (noted: under the claim).
Stages == {"none", "wait", "claimed", "live", "send", "yes", "no", "noted", "done"}
Claimed == {"claimed", "live", "send", "yes", "no", "noted"}

Phases == {"idle", "running", "foreign"}
Holds == {"none", "manual", "foreign"}
UnitStates == [phase  : Phases,
               seen   : BOOLEAN,   \* seen_active
               manual : BOOLEAN,   \* origin is "manual"
               hold   : Holds,     \* hold_until lies ahead: hold_reason
               stop   : BOOLEAN,   \* stop_sent_at is set (idle: within STOP_GRACE_S)
               mode   : BOOLEAN]   \* maint_since is set
NewState == [phase |-> "idle", seen |-> FALSE, manual |-> FALSE,
             hold |-> "none", stop |-> FALSE, mode |-> FALSE]

VARIABLES
  ams,        \* what each unit really does: off, starting (accepted), drying
  store,      \* units the stored status shows drying
  maint,      \* printers in maintenance mode
  auto,       \* automation_on: the config's and the unit's switch
  st,         \* _states
  inflight,   \* _inflight
  pc,         \* where each thread is: rest, decide, work, write
  op,         \* the request each client serves
  job,        \* job[a][u]: what thread a's worker does for unit u
  obs,        \* the tick's observations: drying units, printers in maintenance
  writer,     \* the thread that holds _persist_lock
  blob,       \* the states each thread captured for its write
  disk,       \* the settings row ams_autodry_state
  promised,   \* ghost: units whose stop was applied and never undone since
  usurped,    \* ghost: of them, those whose hold a foreign early end took over
  own,        \* ghost: units whose present drying is ours: started, not stopped since
  requests, restarts

machine == <<ams, store>>
config  == <<maint, auto>>
engine  == <<st, inflight>>
threads == <<pc, op, job, obs>>
saved   == <<writer, blob, disk>>
bounds  == <<requests, restarts>>
pledges == <<promised, usurped>>
ghosts  == <<pledges, own>>
vars == <<machine, config, engine, threads, saved, ghosts, bounds>>

TypeOK ==
  /\ ams \in [Units -> {"off", "starting", "on"}] /\ store \subseteq Units
  /\ maint \subseteq Printers /\ auto \in BOOLEAN
  /\ st \in [Units -> UnitStates] /\ inflight \subseteq Units
  /\ pc \in [Actors -> {"rest", "decide", "work", "write"}]
  /\ op \in [Clients -> Ops \cup {None}]
  /\ job \in [Actors -> [Units -> Stages]]
  /\ obs \in [drying : SUBSET Units, maint : SUBSET Printers]
  /\ writer \in Actors \cup {None}
  /\ blob \in [Actors -> [Units -> UnitStates]] /\ disk \in [Units -> UnitStates]
  /\ promised \subseteq Units /\ usurped \subseteq Units /\ own \subseteq Units
  /\ requests \in 0..MaxRequests /\ restarts \in 0..MaxRestarts

NoJobs == [u \in Units |-> "none"]
NoStates == [u \in Units |-> NewState]
NoObs == [drying |-> {}, maint |-> {}]
Drying == {u \in Units : ams[u] = "on"}

Init ==
  /\ ams = [u \in Units |-> "off"] /\ store = {}
  /\ maint = {} /\ auto \in BOOLEAN
  /\ st = NoStates /\ inflight = {}
  /\ pc = [a \in Actors |-> "rest"] /\ op = [c \in Clients |-> None]
  /\ job = [a \in Actors |-> NoJobs] /\ obs = NoObs
  /\ writer = None /\ blob = [a \in Actors |-> NoStates] /\ disk = NoStates
  /\ promised = {} /\ usurped = {} /\ own = {} /\ requests = 0 /\ restarts = 0

InMaint(u) == PrinterOf[u] \in maint
Shown == IF LiveStore THEN Drying ELSE store
Origin(a) == IF a = Tick THEN "auto" ELSE op[a]
SendsStart(a) == Origin(a) \in Starts \cup {"auto"}
Idle(a) == \A u \in Units : job[a][u] \in {"none", "noted", "done"}
Step(a, u, s) == job' = [job EXCEPT ![a][u] = s]

-----------------------------------------------------------------------------
(***************************************************************************)
(* The rules of one unit, as far as the threads can tell.                  *)
(***************************************************************************)

\* Maintenance: everything is forgotten, except a dashboard run still going
\* and, after the first check, the hold and the stop set meanwhile.
InMaintenance(s, drying) ==
  IF s.mode /\ s.phase = "running" /\ s.manual /\ (drying \/ ~s.seen)
  THEN {[s EXCEPT !.seen = s.seen \/ drying]}
         \cup (IF drying THEN {} ELSE {[NewState EXCEPT !.mode = TRUE, !.hold = s.hold, !.stop = s.stop]})
  ELSE {[NewState EXCEPT !.mode = TRUE, !.hold = IF s.mode THEN s.hold ELSE "none", !.stop = s.mode /\ s.stop]}

Ended(s) == [s EXCEPT !.phase = "idle", !.seen = FALSE, !.stop = FALSE, !.manual = FALSE]

Taken(s) == [s EXCEPT !.phase = "foreign", !.seen = FALSE, !.manual = FALSE]

\* An early end of a foreign drying takes the hold over, whoever's it was; the
\* drying that is back soon after it (_undo_early_end) clears it.
EndedEarly(s) == [Ended(s) EXCEPT !.hold = "foreign"]
Undone(s) == [Taken(s) EXCEPT !.hold = IF @ = "foreign" THEN "none" ELSE @]

\* The possible outcomes of decide for a unit, out of maintenance.  A start
\* not yet seen drying either waits or its confirmation time is over; an end
\* of a foreign drying may count as early, and a drying that shows as back soon
\* after one; the timer of another drying (others) than the one of our run may
\* have jumped up.
Outcomes(s, drying, others) ==
  IF s.phase # "idle" THEN
    IF drying THEN
      {IF s.phase = "running" /\ ~s.stop THEN [s EXCEPT !.seen = TRUE] ELSE s}
        \cup (IF s.phase = "running" /\ s.seen /\ ~s.stop /\ others THEN {Taken(s)} ELSE {})
    ELSE IF s.phase = "running" /\ ~s.seen /\ ~s.stop THEN {s, Ended(s)}
    ELSE IF s.phase = "foreign" /\ ~s.stop THEN {Ended(s), EndedEarly(s)}
    ELSE {Ended(s)}
  ELSE IF drying THEN
    IF s.stop THEN {s} ELSE {Taken(s), Undone(s)}
  ELSE {s}

Decided(u) ==
  LET s == [st[u] EXCEPT !.mode = FALSE]
      d == u \in obs.drying
  IN IF PrinterOf[u] \in obs.maint THEN InMaintenance(st[u], d)
     ELSE {s} \cup   \* offline: nothing is decided
          {o \in Outcomes(s, d, u \notin own) :
             \* the confirmation time outlasts an accepted start's beginning
             s.phase = "running" /\ o.phase = "idle" /\ ~s.seen /\ ~s.stop => ams[u] = "off"}

\* A unit the rules may start: the gates of decide that the threads can see.
Startable(u, s) ==
  s.phase = "idle" /\ u \notin obs.drying /\ PrinterOf[u] \notin obs.maint /\ auto /\ s.hold = "none"

Running_Fault(s, manual) ==   \* the origin written where the phase belongs
  [s EXCEPT !.phase = IF manual THEN "manual" ELSE "running", !.seen = FALSE, !.stop = FALSE]
Running(s, manual) ==
  [s EXCEPT !.phase = "running", !.seen = FALSE, !.manual = manual, !.stop = FALSE]
ApplyStart(s, origin) ==
  CASE origin = "auto"      -> Running(s, FALSE)
    [] origin = "run_now"   -> [Running(s, FALSE) EXCEPT !.hold = "none"]
    [] origin = "dry_start" -> [Running(s, TRUE) EXCEPT !.hold = "none"]
ApplyStop(s) == [s EXCEPT !.stop = TRUE, !.hold = "manual"]
Release(s) == [s EXCEPT !.hold = "none"]

OnePerPrinter(S) == \A u, v \in S : PrinterOf[u] = PrinterOf[v] => u = v

-----------------------------------------------------------------------------
(***************************************************************************)
(* Claims and persistence, shared by every thread.                         *)
(***************************************************************************)

\* claim() / the test under _lock in the tick, run_now and _claim_wait.
Free_Fault(u) == TRUE
Free(u) == u \notin inflight

\* _persist: capture and write are one critical section of _persist_lock.
CanCapture_Fault == TRUE
CanCapture == writer = None

Capture(a) ==
  /\ pc[a] = "work" /\ Idle(a) /\ CanCapture
  /\ writer' = a
  /\ blob' = [blob EXCEPT ![a] = st]
  /\ pc' = [pc EXCEPT ![a] = "write"]
  /\ UNCHANGED <<machine, config, engine, op, job, obs, disk, ghosts, bounds>>

\* The row is written; a client's request is then answered, and a dashboard
\* command gives its claim back only now.
Write(a) ==
  /\ pc[a] = "write"
  /\ disk' = blob[a]
  /\ blob' = [blob EXCEPT ![a] = NoStates]
  /\ writer' = None
  /\ pc' = [pc EXCEPT ![a] = "rest"]
  /\ job' = [job EXCEPT ![a] = NoJobs]
  /\ inflight' = inflight \ {u \in Units : job[a][u] = "noted"}
  /\ IF a = Tick THEN UNCHANGED op ELSE op' = [op EXCEPT ![a] = None]
  /\ UNCHANGED <<machine, config, st, obs, ghosts, bounds>>

-----------------------------------------------------------------------------
(***************************************************************************)
(* The tick: collect, decide every unit under the lock, send the starts,   *)
(* persist.                                                                *)
(***************************************************************************)

TickCollect ==
  /\ pc[Tick] = "rest"
  /\ obs' = [drying |-> Shown, maint |-> maint]
  /\ pc' = [pc EXCEPT ![Tick] = "decide"]
  /\ UNCHANGED <<machine, config, engine, op, job, saved, ghosts, bounds>>

TickDecide ==
  /\ pc[Tick] = "decide"
  /\ \E new \in [Units -> (UNION {Decided(u) : u \in Units}) \cup {st[u] : u \in Units}] :
       /\ \A u \in Units : IF Free(u) THEN new[u] \in Decided(u) ELSE new[u] = st[u]
       /\ st' = new
       /\ \E S \in SUBSET {u \in Units : Free(u) /\ Startable(u, new[u])} :
            /\ OnePerPrinter(S)
            /\ inflight' = inflight \cup S
            /\ job' = [job EXCEPT ![Tick] = [u \in Units |-> IF u \in S THEN "claimed" ELSE "none"]]
  /\ LET reset == {u \in Units : Free(u) /\ PrinterOf[u] \in obs.maint} IN
       \* entering the mode forgets holds and our runs; later checks forget runs
       /\ promised' = promised \ {u \in reset : ~st[u].mode}
       /\ usurped' = (usurped \cup {u \in Units : st'[u].hold = "foreign"}) \cap promised'
       /\ own' = own \ {u \in reset : st'[u].phase # "running"}
  /\ obs' = NoObs
  /\ pc' = [pc EXCEPT ![Tick] = "work"]
  /\ UNCHANGED <<machine, config, op, saved, bounds>>

\* An auto start is checked once more under the lock: a stop or a switch may
\* have come since it was claimed.
AutoCheck(u) ==
  /\ job[Tick][u] = "claimed"
  /\ IF st[u].phase = "idle" /\ st[u].hold = "none" /\ auto
     THEN Step(Tick, u, "live") /\ UNCHANGED inflight
     ELSE Step(Tick, u, "none") /\ inflight' = inflight \ {u}
  /\ UNCHANGED <<machine, config, st, pc, op, obs, saved, ghosts, bounds>>

LiveCheck_Fault(a, u) ==   \* an early return that keeps the claim
  /\ job[a][u] = "live"
  /\ Step(a, u, IF ams[u] = "on" THEN "none" ELSE "send")
  /\ UNCHANGED <<machine, config, engine, pc, op, obs, saved, ghosts, bounds>>

\* Both kinds of engine start look at the live telemetry: one that dries
\* already is left to the next tick.
LiveCheck(a, u) ==
  /\ job[a][u] = "live"
  /\ IF ams[u] = "on"
     THEN Step(a, u, "none") /\ inflight' = inflight \ {u}
     ELSE Step(a, u, "send") /\ UNCHANGED inflight
  /\ UNCHANGED <<machine, config, st, pc, op, obs, saved, ghosts, bounds>>

\* printer_commands.send: the start is accepted unless the unit dries already.
SendStart(a, u) ==
  /\ job[a][u] = "send" /\ SendsStart(a)
  /\ \/ /\ ams[u] # "on" /\ Step(a, u, "yes")
        /\ ams' = [ams EXCEPT ![u] = "starting"] /\ own' = own \cup {u}
     \/ Step(a, u, "no") /\ UNCHANGED <<ams, own>>
  /\ UNCHANGED <<store, config, engine, pc, op, obs, saved, pledges, bounds>>

SendStop(a, u) ==
  /\ job[a][u] = "send" /\ ~SendsStart(a)
  /\ \/ Step(a, u, "yes") /\ own' = own \ {u}   \* the drying ends a moment later
     \/ Step(a, u, "no") /\ UNCHANGED own
  /\ UNCHANGED <<machine, config, engine, pc, op, obs, saved, pledges, bounds>>

\* An applied stop is owed to the admin until an admin starts the unit.
Promise(a, u) ==
  /\ promised' = IF ~SendsStart(a) THEN promised \cup {u} ELSE IF a = Tick THEN promised ELSE promised \ {u}
  /\ usurped' = IF a = Tick THEN usurped ELSE usurped \ {u}

\* The result of an engine command is applied as the claim is given back.
ApplyResult(a, u) ==
  /\ job[a][u] \in {"yes", "no"} /\ Origin(a) \notin Dashboard
  /\ Step(a, u, IF job[a][u] = "yes" THEN "done" ELSE "none")
  /\ inflight' = inflight \ {u}
  /\ st' = IF job[a][u] = "no" THEN st
           ELSE [st EXCEPT ![u] = IF SendsStart(a) THEN ApplyStart(@, Origin(a)) ELSE ApplyStop(@)]
  /\ IF job[a][u] = "yes" THEN Promise(a, u) ELSE UNCHANGED pledges
  /\ UNCHANGED <<machine, config, pc, op, obs, saved, own, bounds>>

-----------------------------------------------------------------------------
(***************************************************************************)
(* The admin's requests.                                                   *)
(***************************************************************************)

Begins(c, o) ==
  /\ pc[c] = "rest" /\ requests < MaxRequests
  /\ requests' = requests + 1
  /\ op' = [op EXCEPT ![c] = o]
  /\ pc' = [pc EXCEPT ![c] = "work"]

\* stop_all: every drying unit the status or the engine knows, or some of them;
\* each worker waits for its claim.
StopAll(c) ==
  /\ Begins(c, "stop_all")
  /\ \E T \in SUBSET {u \in Units : (u \in Shown \/ st[u].phase # "idle") /\ ~InMaint(u)} :
       T # {} /\ job' = [job EXCEPT ![c] = [u \in Units |-> IF u \in T THEN "wait" ELSE "none"]]
  /\ UNCHANGED <<machine, config, engine, obs, saved, ghosts, restarts>>

ClaimWaited(c, u) ==
  /\ job[c][u] = "wait" /\ Free(u)
  /\ Step(c, u, "send") /\ inflight' = inflight \cup {u}
  /\ UNCHANGED <<machine, config, st, pc, op, obs, saved, ghosts, bounds>>

ClaimTimesOut_Fault(c, u) == FALSE   \* no deadline
ClaimTimesOut(c, u) ==
  /\ job[c][u] = "wait" /\ u \in inflight
  /\ Step(c, u, "none")
  /\ UNCHANGED <<machine, config, engine, pc, op, obs, saved, ghosts, bounds>>

\* run_now: the units not skipped are claimed at once.
RunNow(c) ==
  /\ Begins(c, "run_now")
  /\ \E T \in SUBSET {u \in Units : /\ Free(u) /\ ~InMaint(u) /\ u \notin Shown
                                    /\ ~(st[u].phase = "running" /\ ~st[u].seen)} :
       /\ T # {} /\ inflight' = inflight \cup T
       /\ job' = [job EXCEPT ![c] = [u \in Units |-> IF u \in T THEN "live" ELSE "none"]]
  /\ UNCHANGED <<machine, config, st, obs, saved, ghosts, restarts>>

\* A drying command of a card (the drying stop of a notification goes the same
\* way for each of its units): claimed or refused at once.
Command(c) ==
  /\ \E o \in Dashboard : Begins(c, o)
  /\ \E u \in Units : /\ Free(u) /\ inflight' = inflight \cup {u}
                      /\ Step(c, u, "send")
  /\ UNCHANGED <<machine, config, st, obs, saved, ghosts, restarts>>

\* note_user_command, still under the claim.
NoteCommand(c, u) ==
  /\ job[c][u] = "yes" /\ op[c] \in Dashboard
  /\ Step(c, u, "noted")
  /\ st' = [st EXCEPT ![u] = IF SendsStart(c) THEN ApplyStart(@, op[c]) ELSE ApplyStop(@)]
  /\ Promise(c, u)
  /\ UNCHANGED <<machine, config, inflight, pc, op, obs, saved, own, bounds>>

CommandFails(c, u) ==
  /\ job[c][u] = "no" /\ op[c] \in Dashboard
  /\ Step(c, u, "none") /\ inflight' = inflight \ {u}
  /\ op' = [op EXCEPT ![c] = None] /\ pc' = [pc EXCEPT ![c] = "rest"]
  /\ UNCHANGED <<machine, config, st, obs, saved, ghosts, bounds>>

ReleaseHold(c) ==
  /\ Begins(c, "release")
  /\ \E u \in Units : /\ st' = [st EXCEPT ![u] = Release(@)]
                      /\ promised' = promised \ {u} /\ usurped' = usurped \ {u}
  /\ UNCHANGED <<machine, config, inflight, job, obs, saved, own, restarts>>

Client(c) ==
  \/ StopAll(c) \/ RunNow(c) \/ Command(c) \/ ReleaseHold(c)

\* The steps a thread takes on its own once it has work.
Works(a) ==
  \/ Capture(a) \/ Write(a)
  \/ \E u \in Units : LiveCheck(a, u) \/ SendStart(a, u) \/ SendStop(a, u) \/ ApplyResult(a, u)
Serves(c) ==
  \/ Works(c)
  \/ \E u \in Units : ClaimWaited(c, u) \/ ClaimTimesOut(c, u) \/ NoteCommand(c, u) \/ CommandFails(c, u)
Ticks == TickCollect \/ TickDecide \/ Works(Tick) \/ \E u \in Units : AutoCheck(u)

-----------------------------------------------------------------------------
(***************************************************************************)
(* The world.                                                              *)
(***************************************************************************)

AmsBegins(u) ==
  /\ ams[u] = "starting"
  /\ \/ ams' = [ams EXCEPT ![u] = "on"] /\ UNCHANGED own
     \/ ams' = [ams EXCEPT ![u] = "off"] /\ own' = own \ {u}   \* it never began
  /\ UNCHANGED <<store, config, engine, threads, saved, pledges, bounds>>

AmsEnds(u) ==
  /\ ams[u] = "on"
  /\ ams' = [ams EXCEPT ![u] = "off"] /\ own' = own \ {u}
  /\ UNCHANGED <<store, config, engine, threads, saved, pledges, bounds>>

\* Someone starts a drying on the printer's screen or in another app.
OutsiderStarts(u) ==
  /\ ams[u] = "off"
  /\ ams' = [ams EXCEPT ![u] = "on"]
  /\ UNCHANGED <<store, config, engine, threads, saved, ghosts, bounds>>

StoreRefresh ==
  /\ ~LiveStore /\ store # Drying
  /\ store' = Drying
  /\ UNCHANGED <<ams, config, engine, threads, saved, ghosts, bounds>>

\* The maintenance switch of a card, and the automation's own switches.
SetMaintenance(p) ==
  /\ requests < MaxRequests /\ requests' = requests + 1
  /\ maint' = IF p \in maint THEN maint \ {p} ELSE maint \cup {p}
  /\ UNCHANGED <<machine, auto, engine, threads, saved, ghosts, restarts>>

SetAuto ==
  /\ requests < MaxRequests /\ requests' = requests + 1
  /\ auto' = ~auto
  /\ UNCHANGED <<machine, maint, engine, threads, saved, ghosts, restarts>>

\* hold_until passes for every copy of the state; so does the time a stop was
\* promised for, were its hold still there or not.
HoldRunsOut(u) ==
  /\ st[u].hold # "none" \/ u \in usurped
  /\ st' = [st EXCEPT ![u].hold = "none"]
  /\ disk' = [disk EXCEPT ![u].hold = "none"]
  /\ blob' = [a \in Actors |-> [blob[a] EXCEPT ![u].hold = "none"]]
  /\ promised' = promised \ {u} /\ usurped' = usurped \ {u}
  /\ UNCHANGED <<machine, config, inflight, threads, writer, own, bounds>>

\* STOP_GRACE_S is over for an idle unit; a tick reads the time before it looks.
StopGraceOver(u) ==
  /\ st[u].phase = "idle" /\ st[u].stop /\ pc[Tick] # "decide"
  /\ st' = [st EXCEPT ![u].stop = FALSE]
  /\ UNCHANGED <<machine, config, inflight, threads, saved, ghosts, bounds>>

\* A stop whose answer the admin still waits for.
Answering(c, u) == op[c] \in Stops /\ job[c][u] \in {"done", "noted"}

\* A crash or a restart at any point; set_sources reads the saved states.
Restart ==
  /\ restarts < MaxRestarts /\ restarts' = restarts + 1
  /\ st' = disk /\ inflight' = {}
  /\ pc' = [a \in Actors |-> "rest"] /\ op' = [c \in Clients |-> None]
  /\ job' = [a \in Actors |-> NoJobs] /\ obs' = NoObs
  /\ writer' = None /\ blob' = [a \in Actors |-> NoStates]
  /\ promised' = promised \ {u \in Units : \E c \in Clients : Answering(c, u)}
  /\ usurped' = usurped \cap promised'
  /\ own' = {u \in own : disk[u].phase = "running"}
  /\ UNCHANGED <<machine, config, disk, requests>>

World ==
  \/ \E u \in Units : AmsBegins(u) \/ AmsEnds(u) \/ OutsiderStarts(u)
                        \/ HoldRunsOut(u) \/ StopGraceOver(u)
  \/ StoreRefresh \/ SetAuto \/ Restart
  \/ \E p \in Printers : SetMaintenance(p)

Next == Ticks \/ (\E c \in Clients : Client(c) \/ Serves(c)) \/ World

Spec == Init /\ [][Next]_vars

\* A thread with work goes on with it; one blocked on _persist_lock gets it,
\* as every other thread holds it for one write and the engine sleeps between
\* its checks.  Nobody is obliged to make a request.
FairSpec ==
  /\ Spec
  /\ WF_vars(Ticks) /\ \A c \in Clients : WF_vars(Serves(c))
  /\ \A a \in Actors : SF_vars(Capture(a))

-----------------------------------------------------------------------------
(***************************************************************************)
(* Properties.                                                             *)
(***************************************************************************)

\* Every drying command claims its unit until its result is applied: a claimed
\* unit has exactly one command under way, and no other unit has one.
ClaimExclusive ==
  \A u \in Units :
    /\ u \in inflight <=> \E a \in Actors : job[a][u] \in Claimed
    /\ \A a, b \in Actors : job[a][u] \in Claimed /\ job[b][u] \in Claimed => a = b

\* An accepted stop holds its unit, and once it is answered the hold is on disk,
\* whatever other threads persist, until it runs out, an admin undoes it or the
\* early end of a foreign drying takes it over (usurped).
StopPersists ==
  \A u \in promised \ usurped :
    /\ st[u].hold = "manual"
    /\ disk[u].hold = "manual" \/ \E c \in Clients : Answering(c, u)

AutoStarted(u) == job[Tick][u] = "send" /\ job'[Tick][u] = "yes"

\* No auto start reaches a unit an admin has stopped, restarts included, whose
\* hold nobody took over.
StopRespected == [][\A u \in Units : AutoStarted(u) => u \notin promised \ usurped]_vars

\* stop_all's docstring: each stopped unit, its stop answered, is then left alone
\* for manual_hold_h, whatever others start and end at the printer meanwhile.
LeftAlone ==
  [][\A u \in Units : AutoStarted(u) /\ u \in promised => \E c \in Clients : Answering(c, u)]_vars

\* A check never judges a drying while the result of an accepted command to it
\* is still to be applied: neither our start taken for a foreign drying, nor
\* our stop for an interruption.
NotMisjudged ==
  [][\A u \in Units :
       (\E a \in Actors : job[a][u] = "yes" /\ job'[a][u] = "yes") => st'[u].phase = st[u].phase]_vars

\* The comment in printer_command: with the claim no check takes the drying
\* the dashboard started for a foreign one.
OurStartNotForeign ==
  \A u \in own : ams[u] = "on" /\ u \notin inflight => st[u].phase # "foreign"

\* An auto start that is checked again before it is sent is given up when its
\* printer is in maintenance mode by then.
NoStartInMaintenance ==
  [][\A u \in Units : job[Tick][u] = "claimed" /\ job'[Tick][u] = "live" => ~InMaint(u)]_vars

\* Whatever fails, a claim is given back: no unit stays out of reach of the
\* engine and of the dashboard.
ClaimsReturn == \A u \in Units : u \in inflight ~> u \notin inflight

\* Every request of an admin is answered.
Served == \A c \in Clients : pc[c] # "rest" ~> pc[c] = "rest"
=============================================================================

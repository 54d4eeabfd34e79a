------------------------- MODULE AutoDryEngine_proofs -------------------------
(***************************************************************************)
(* Proofs about the auto-drying threads, for any units, printers, clients, *)
(* number of requests and restarts.                                        *)
(***************************************************************************)
EXTENDS AutoDryEngine, TLAPS

(***************************************************************************)
(* What the rules of a unit return: a state, whose hold is only lost to    *)
(* the early end of a foreign drying.                                      *)
(***************************************************************************)

LEMMA NewStateTyped == NewState \in UnitStates
  BY DEF NewState, UnitStates, Phases, Holds

LEMMA EndedTyped ==
  ASSUME NEW s \in UnitStates
  PROVE  Ended(s) \in UnitStates /\ Ended(s).hold = s.hold
  BY DEF Ended, UnitStates, Phases

LEMMA TakenTyped ==
  ASSUME NEW s \in UnitStates
  PROVE  Taken(s) \in UnitStates /\ Taken(s).hold = s.hold
  BY DEF Taken, UnitStates, Phases

LEMMA EarlyTyped ==
  ASSUME NEW s \in UnitStates
  PROVE  EndedEarly(s) \in UnitStates /\ EndedEarly(s).hold = "foreign"
<1>1. Ended(s) \in UnitStates
  BY EndedTyped
<1> QED
  BY <1>1 DEF EndedEarly, UnitStates, Holds

LEMMA UndoneTyped ==
  ASSUME NEW s \in UnitStates
  PROVE  Undone(s) \in UnitStates /\ (s.hold = "manual" => Undone(s).hold = "manual")
<1>1. Taken(s) \in UnitStates /\ Taken(s).hold = s.hold
  BY TakenTyped
<1> QED
  BY <1>1 DEF Undone, UnitStates, Holds

LEMMA OutcomesTyped ==
  ASSUME NEW s \in UnitStates, NEW drying \in BOOLEAN, NEW others \in BOOLEAN,
         NEW o \in Outcomes(s, drying, others)
  PROVE  o \in UnitStates /\ (s.hold = "manual" => o.hold \in {"manual", "foreign"})
<1>1. Ended(s) \in UnitStates /\ Ended(s).hold = s.hold
  BY EndedTyped
<1>2. Taken(s) \in UnitStates /\ Taken(s).hold = s.hold
  BY TakenTyped
<1>4. [s EXCEPT !.seen = TRUE] \in UnitStates /\ [s EXCEPT !.seen = TRUE].hold = s.hold
  BY DEF UnitStates
<1>5. o \in {s, Ended(s), Taken(s), EndedEarly(s), Undone(s), [s EXCEPT !.seen = TRUE]}
  BY DEF Outcomes
<1> QED
  BY <1>1, <1>2, <1>4, <1>5, EarlyTyped, UndoneTyped

LEMMA InMaintenanceTyped ==
  ASSUME NEW s \in UnitStates, NEW drying \in BOOLEAN, NEW o \in InMaintenance(s, drying)
  PROVE  o \in UnitStates /\ (s.mode => o.hold = s.hold)
<1>1. [s EXCEPT !.seen = s.seen \/ drying] \in UnitStates
      /\ [s EXCEPT !.seen = s.seen \/ drying].hold = s.hold
  BY DEF UnitStates
<1>2. ASSUME NEW h \in Holds, NEW t \in BOOLEAN
      PROVE  /\ [NewState EXCEPT !.mode = TRUE, !.hold = h, !.stop = t] \in UnitStates
             /\ [NewState EXCEPT !.mode = TRUE, !.hold = h, !.stop = t].hold = h
  BY NewStateTyped DEF UnitStates
<1>3. s.hold \in Holds /\ s.stop \in BOOLEAN /\ s.mode \in BOOLEAN /\ "none" \in Holds
  BY DEF UnitStates, Holds
<1>4. \/ o = [s EXCEPT !.seen = s.seen \/ drying]
      \/ o = [NewState EXCEPT !.mode = TRUE, !.hold = s.hold, !.stop = s.stop]
      \/ o = [NewState EXCEPT !.mode = TRUE, !.hold = IF s.mode THEN s.hold ELSE "none", !.stop = s.mode /\ s.stop]
  BY DEF InMaintenance
<1> DEFINE h == IF s.mode THEN s.hold ELSE "none"
           t == s.mode /\ s.stop
<1>5. h \in Holds /\ t \in BOOLEAN /\ (s.mode => h = s.hold)
  BY <1>3
<1> HIDE DEF h, t
<1>6. /\ [NewState EXCEPT !.mode = TRUE, !.hold = h, !.stop = t] \in UnitStates
      /\ [NewState EXCEPT !.mode = TRUE, !.hold = h, !.stop = t].hold = h
  BY <1>2, <1>5
<1>7. CASE o = [s EXCEPT !.seen = s.seen \/ drying]
  BY <1>1, <1>7
<1>8. CASE o = [NewState EXCEPT !.mode = TRUE, !.hold = s.hold, !.stop = s.stop]
  BY <1>2, <1>3, <1>8
<1>9. CASE o = [NewState EXCEPT !.mode = TRUE, !.hold = h, !.stop = t]
  BY <1>5, <1>6, <1>9
<1> QED
  BY <1>4, <1>7, <1>8, <1>9 DEF h, t

\* A check keeps the hold of a unit that does not enter the maintenance mode, or a
\* foreign drying's early end takes it over.
LEMMA DecidedTyped ==
  ASSUME TypeOK, NEW u \in Units, NEW o \in Decided(u)
  PROVE  /\ o \in UnitStates
         /\ st[u].hold = "manual" /\ (PrinterOf[u] \in obs.maint => st[u].mode)
              => o.hold \in {"manual", "foreign"}
<1> DEFINE s == [st[u] EXCEPT !.mode = FALSE]
<1>1. st[u] \in UnitStates
  BY DEF TypeOK
<1>2. s \in UnitStates /\ s.hold = st[u].hold
  BY <1>1 DEF UnitStates
<1>3. CASE PrinterOf[u] \in obs.maint
  <2>1. o \in InMaintenance(st[u], u \in obs.drying)
    BY <1>3 DEF Decided
  <2>2. (u \in obs.drying) \in BOOLEAN
    OBVIOUS
  <2>3. o \in UnitStates /\ (st[u].mode => o.hold = st[u].hold)
    BY <1>1, <2>1, <2>2, InMaintenanceTyped
  <2> QED
    BY <1>3, <2>3
<1>4. CASE PrinterOf[u] \notin obs.maint
  <2>1. o = s \/ o \in Outcomes(s, u \in obs.drying, u \notin own)
    BY <1>4 DEF Decided
  <2>2. (u \in obs.drying) \in BOOLEAN /\ (u \notin own) \in BOOLEAN
    OBVIOUS
  <2> HIDE DEF s
  <2>3. o \in UnitStates /\ (s.hold = "manual" => o.hold \in {"manual", "foreign"})
    BY <1>2, <2>1, <2>2, OutcomesTyped
  <2> QED
    BY <1>2, <2>3
<1> QED
  BY <1>3, <1>4

LEMMA ApplyTyped ==
  ASSUME NEW s \in UnitStates
  PROVE  /\ \A o \in Starts \cup {"auto"} : ApplyStart(s, o) \in UnitStates
         /\ ApplyStart(s, "auto").hold = s.hold
         /\ ApplyStop(s) \in UnitStates /\ ApplyStop(s).hold = "manual"
         /\ Release(s) \in UnitStates
<1>1. \A m \in BOOLEAN : Running(s, m) \in UnitStates /\ Running(s, m).hold = s.hold
  BY DEF Running, UnitStates, Phases
<1>2. \A m \in BOOLEAN : [Running(s, m) EXCEPT !.hold = "none"] \in UnitStates
  BY <1>1 DEF UnitStates, Holds
<1>3. ApplyStart(s, "auto") = Running(s, FALSE)
  BY DEF ApplyStart
<1>4. ApplyStart(s, "run_now") = [Running(s, FALSE) EXCEPT !.hold = "none"]
      /\ ApplyStart(s, "dry_start") = [Running(s, TRUE) EXCEPT !.hold = "none"]
  BY DEF ApplyStart
<1>5. \A o \in Starts \cup {"auto"} : ApplyStart(s, o) \in UnitStates
  BY <1>1, <1>2, <1>3, <1>4 DEF Starts
<1>6. ApplyStop(s) \in UnitStates /\ ApplyStop(s).hold = "manual" /\ Release(s) \in UnitStates
  BY DEF ApplyStop, Release, UnitStates, Holds
<1> QED
  BY <1>1, <1>3, <1>5, <1>6

-----------------------------------------------------------------------------
(***************************************************************************)
(* Types.                                                                  *)
(***************************************************************************)

LEMMA NoStatesTyped == NoStates \in [Units -> UnitStates]
  BY NewStateTyped DEF NoStates

LEMMA StepTyped ==
  ASSUME TypeOK, NEW a \in Actors, NEW u \in Units, NEW s \in Stages, Step(a, u, s)
  PROVE  job' \in [Actors -> [Units -> Stages]]
  BY DEF TypeOK, Step

LEMMA TypeStep == TypeOK /\ [Next]_vars => TypeOK'
<1> SUFFICES ASSUME TypeOK, [Next]_vars PROVE TypeOK'
  OBVIOUS
<1> USE EngineAssumption
<1>t. TypeOK
  OBVIOUS
<1>a. Tick \in Actors /\ Clients \subseteq Actors
  BY DEF Actors
<1>1. ASSUME NEW a \in Actors, Capture(a) PROVE TypeOK'
  BY <1>1 DEF TypeOK, Capture, machine, config, engine, ghosts, pledges, bounds
<1>2. ASSUME NEW a \in Actors, Write(a) PROVE TypeOK'
  <2>1. blob' \in [Actors -> [Units -> UnitStates]] /\ disk' \in [Units -> UnitStates]
    BY <1>2, NoStatesTyped DEF TypeOK, Write
  <2>2. job' \in [Actors -> [Units -> Stages]]
    BY <1>2 DEF TypeOK, Write, NoJobs, Stages
  <2>3. op' \in [Clients -> Ops \cup {None}]
    BY <1>2 DEF TypeOK, Write, Actors
  <2> QED
    BY <1>2, <2>1, <2>2, <2>3 DEF TypeOK, Write, machine, config, ghosts, pledges, bounds
<1>3. ASSUME TickCollect PROVE TypeOK'
  BY <1>3, <1>a DEF TypeOK, TickCollect, machine, config, engine, saved, ghosts, pledges, bounds, Shown, Drying
<1>4. ASSUME TickDecide PROVE TypeOK'
  <2>1. \A u \in Units : st'[u] \in UnitStates
    BY <1>4, DecidedTyped DEF TypeOK, TickDecide
  <2>2. st' \in [Units -> UnitStates]
    <3>1. st' \in [Units -> (UNION {Decided(u) : u \in Units}) \cup {st[u] : u \in Units}]
      BY <1>4 DEF TickDecide
    <3> QED
      BY <2>1, <3>1
  <2>3. job' \in [Actors -> [Units -> Stages]] /\ inflight' \subseteq Units
    BY <1>4, <1>a DEF TypeOK, TickDecide, Stages
  <2>4. promised' \subseteq Units /\ usurped' \subseteq Units /\ own' \subseteq Units /\ obs' = NoObs
        /\ pc' \in [Actors -> {"rest", "decide", "work", "write"}]
    BY <1>4 DEF TypeOK, TickDecide
  <2>5. obs' \in [drying : SUBSET Units, maint : SUBSET Printers]
    BY <2>4 DEF NoObs
  <2> QED
    BY <1>4, <2>2, <2>3, <2>4, <2>5 DEF TypeOK, TickDecide, machine, config, saved, bounds
<1>5. ASSUME NEW u \in Units, AutoCheck(u) PROVE TypeOK'
  <2>1. job' \in [Actors -> [Units -> Stages]]
    BY <1>5, <1>a, StepTyped DEF AutoCheck, Stages
  <2> QED
    BY <1>5, <2>1 DEF TypeOK, AutoCheck, machine, config, saved, ghosts, pledges, bounds
<1>6. ASSUME NEW a \in Actors, NEW u \in Units, LiveCheck(a, u) PROVE TypeOK'
  <2>1. job' \in [Actors -> [Units -> Stages]]
    BY <1>6, StepTyped DEF LiveCheck, Stages
  <2> QED
    BY <1>6, <2>1 DEF TypeOK, LiveCheck, machine, config, saved, ghosts, pledges, bounds
<1>7. ASSUME NEW a \in Actors, NEW u \in Units, SendStart(a, u) PROVE TypeOK'
  <2>1. job' \in [Actors -> [Units -> Stages]]
    BY <1>7, StepTyped DEF SendStart, Stages
  <2> QED
    BY <1>7, <2>1 DEF TypeOK, SendStart, config, engine, saved, pledges, bounds
<1>8. ASSUME NEW a \in Actors, NEW u \in Units, SendStop(a, u) PROVE TypeOK'
  <2>1. job' \in [Actors -> [Units -> Stages]]
    BY <1>8, StepTyped DEF SendStop, Stages
  <2> QED
    BY <1>8, <2>1 DEF TypeOK, SendStop, machine, config, engine, saved, pledges, bounds
<1>9. ASSUME NEW a \in Actors, NEW u \in Units, ApplyResult(a, u) PROVE TypeOK'
  <2>1. job' \in [Actors -> [Units -> Stages]]
    BY <1>9, StepTyped DEF ApplyResult, Stages
  <2>2. st' \in [Units -> UnitStates]
    BY <1>9, ApplyTyped DEF ApplyResult, TypeOK, SendsStart
  <2>3. promised' \subseteq Units /\ usurped' \subseteq Units
    BY <1>9 DEF ApplyResult, TypeOK, Promise, pledges
  <2> QED
    BY <1>9, <2>1, <2>2, <2>3 DEF TypeOK, ApplyResult, machine, config, saved, bounds
<1>10. ASSUME NEW c \in Clients, StopAll(c) PROVE TypeOK'
  <2>1. job' \in [Actors -> [Units -> Stages]]
    BY <1>10, <1>a DEF TypeOK, StopAll, Stages
  <2> QED
    BY <1>10, <2>1, <1>a DEF TypeOK, StopAll, Begins, Ops, machine, config, engine, saved, ghosts, pledges
<1>11. ASSUME NEW c \in Clients, NEW u \in Units, ClaimWaited(c, u) PROVE TypeOK'
  <2>1. job' \in [Actors -> [Units -> Stages]]
    BY <1>11, <1>a, StepTyped DEF ClaimWaited, Stages
  <2> QED
    BY <1>11, <2>1 DEF TypeOK, ClaimWaited, machine, config, saved, ghosts, pledges, bounds
<1>12. ASSUME NEW c \in Clients, NEW u \in Units, ClaimTimesOut(c, u) PROVE TypeOK'
  <2>1. job' \in [Actors -> [Units -> Stages]]
    BY <1>12, <1>a, StepTyped DEF ClaimTimesOut, Stages
  <2> QED
    BY <1>12, <2>1 DEF TypeOK, ClaimTimesOut, machine, config, engine, saved, ghosts, pledges, bounds
<1>13. ASSUME NEW c \in Clients, RunNow(c) PROVE TypeOK'
  <2>1. job' \in [Actors -> [Units -> Stages]] /\ inflight' \subseteq Units
    BY <1>13, <1>a DEF TypeOK, RunNow, Stages
  <2> QED
    BY <1>13, <2>1, <1>a DEF TypeOK, RunNow, Begins, Ops, machine, config, saved, ghosts, pledges
<1>14. ASSUME NEW c \in Clients, Command(c) PROVE TypeOK'
  <2>1. job' \in [Actors -> [Units -> Stages]] /\ inflight' \subseteq Units
    BY <1>14, <1>a, StepTyped DEF TypeOK, Command, Stages
  <2>2. PICK o \in Dashboard : Begins(c, o)
    BY <1>14 DEF Command
  <2>3. op' \in [Clients -> Ops \cup {None}]
    BY <2>2 DEF TypeOK, Begins, Ops, Dashboard
  <2>4. pc' \in [Actors -> {"rest", "decide", "work", "write"}] /\ requests' \in 0..MaxRequests
    BY <2>2, <1>a DEF TypeOK, Begins
  <2>5. UNCHANGED <<ams, store, maint, auto, st, obs, writer, blob, disk, promised, usurped, own, restarts>>
    BY <1>14 DEF Command, machine, config, saved, ghosts, pledges
  <2> QED
    BY <2>1, <2>3, <2>4, <2>5 DEF TypeOK
<1>15. ASSUME NEW c \in Clients, NEW u \in Units, NoteCommand(c, u) PROVE TypeOK'
  <2>1. job' \in [Actors -> [Units -> Stages]]
    BY <1>15, <1>a, StepTyped DEF NoteCommand, Stages
  <2>2. Origin(c) = op[c]
    BY DEF Origin
  <2>3. st' \in [Units -> UnitStates]
    BY <1>15, <2>2, ApplyTyped DEF NoteCommand, TypeOK, SendsStart
  <2>4. promised' \subseteq Units /\ usurped' \subseteq Units
    BY <1>15 DEF NoteCommand, TypeOK, Promise
  <2> QED
    BY <1>15, <2>1, <2>3, <2>4 DEF TypeOK, NoteCommand, machine, config, saved, bounds
<1>16. ASSUME NEW c \in Clients, NEW u \in Units, CommandFails(c, u) PROVE TypeOK'
  <2>1. job' \in [Actors -> [Units -> Stages]]
    BY <1>16, <1>a, StepTyped DEF CommandFails, Stages
  <2> QED
    BY <1>16, <2>1, <1>a DEF TypeOK, CommandFails, machine, config, saved, ghosts, pledges, bounds
<1>17. ASSUME NEW c \in Clients, ReleaseHold(c) PROVE TypeOK'
  <2>1. st' \in [Units -> UnitStates] /\ promised' \subseteq Units /\ usurped' \subseteq Units
    BY <1>17, ApplyTyped DEF ReleaseHold, TypeOK
  <2> QED
    BY <1>17, <2>1, <1>a DEF TypeOK, ReleaseHold, Begins, Ops, machine, config, saved
<1>18. ASSUME NEW u \in Units, AmsBegins(u) \/ AmsEnds(u) \/ OutsiderStarts(u) PROVE TypeOK'
  BY <1>18 DEF TypeOK, AmsBegins, AmsEnds, OutsiderStarts, config, engine, threads, saved, ghosts, pledges, bounds
<1>19. ASSUME StoreRefresh \/ SetAuto \/ \E p \in Printers : SetMaintenance(p) PROVE TypeOK'
  <2>1. CASE StoreRefresh
    BY <2>1 DEF TypeOK, StoreRefresh, Drying, config, engine, threads, saved, ghosts, pledges, bounds
  <2>2. CASE SetAuto
    BY <2>2 DEF TypeOK, SetAuto, machine, engine, threads, saved, ghosts, pledges
  <2>3. ASSUME NEW p \in Printers, SetMaintenance(p) PROVE TypeOK'
    <3>1. maint' \subseteq Printers
      BY <2>3 DEF TypeOK, SetMaintenance
    <3> QED
      BY <2>3, <3>1 DEF TypeOK, SetMaintenance, machine, engine, threads, saved, ghosts, pledges
  <2> QED
    BY <1>19, <2>1, <2>2, <2>3
<1>20. ASSUME NEW u \in Units, HoldRunsOut(u) \/ StopGraceOver(u) PROVE TypeOK'
  <2>1. ASSUME NEW f \in [Units -> UnitStates]
        PROVE  [f EXCEPT ![u].hold = "none"] \in [Units -> UnitStates]
               /\ [f EXCEPT ![u].stop = FALSE] \in [Units -> UnitStates]
    BY DEF UnitStates, Holds
  <2>2. CASE HoldRunsOut(u)
    <3>1. st' \in [Units -> UnitStates] /\ disk' \in [Units -> UnitStates]
      BY <2>1, <2>2 DEF TypeOK, HoldRunsOut
    <3>2. \A a \in Actors : blob[a] \in [Units -> UnitStates]
      BY DEF TypeOK
    <3>3. \A a \in Actors : [blob[a] EXCEPT ![u].hold = "none"] \in [Units -> UnitStates]
      BY <2>1, <3>2
    <3>4. blob' \in [Actors -> [Units -> UnitStates]]
      BY <2>2, <3>3 DEF HoldRunsOut
    <3> QED
      BY <2>2, <3>1, <3>4 DEF TypeOK, HoldRunsOut, machine, config, threads, bounds
  <2>3. CASE StopGraceOver(u)
    <3>1. st' \in [Units -> UnitStates]
      BY <2>1, <2>3 DEF TypeOK, StopGraceOver
    <3> QED
      BY <2>3, <3>1 DEF TypeOK, StopGraceOver, machine, config, threads, saved, ghosts, pledges, bounds
  <2> QED
    BY <1>20, <2>2, <2>3
<1>21. ASSUME Restart PROVE TypeOK'
  <2>1. job' \in [Actors -> [Units -> Stages]] /\ blob' \in [Actors -> [Units -> UnitStates]]
    BY <1>21, NoStatesTyped DEF Restart, NoJobs, Stages
  <2>2. obs' \in [drying : SUBSET Units, maint : SUBSET Printers]
    BY <1>21 DEF Restart, NoObs
  <2> QED
    BY <1>21, <2>1, <2>2 DEF TypeOK, Restart, machine, config
<1>22. CASE UNCHANGED vars
  BY <1>22 DEF TypeOK, vars, machine, config, engine, threads, saved, ghosts, pledges, bounds
<1> QED
  BY <1>1, <1>2, <1>3, <1>4, <1>5, <1>6, <1>7, <1>8, <1>9, <1>10, <1>11, <1>12, <1>13, <1>14, <1>15,
     <1>16, <1>17, <1>18, <1>19, <1>20, <1>21, <1>22, <1>a
     DEF Next, Ticks, Client, Serves, Works, World

LEMMA InitTyped == Init => TypeOK
<1> SUFFICES ASSUME Init PROVE TypeOK
  OBVIOUS
<1>1. st \in [Units -> UnitStates] /\ disk \in [Units -> UnitStates]
      /\ blob \in [Actors -> [Units -> UnitStates]]
  BY NoStatesTyped DEF Init
<1>2. job \in [Actors -> [Units -> Stages]] /\ obs \in [drying : SUBSET Units, maint : SUBSET Printers]
  BY DEF Init, NoJobs, NoObs, Stages
<1> QED
  BY <1>1, <1>2, EngineAssumption DEF Init, TypeOK

\* Every variable keeps its type.
THEOREM TypeCorrect == Spec => []TypeOK
  BY InitTyped, TypeStep, PTL DEF Spec

-----------------------------------------------------------------------------
(***************************************************************************)
(* The bookkeeping of a thread: what its counter and its request say of    *)
(* its workers.                                                            *)
(***************************************************************************)

Settled ==
  /\ \A a \in Actors : pc[a] \in {"rest", "decide"} => \A u \in Units : job[a][u] = "none"
  /\ \A a \in Actors : pc[a] = "write" => Idle(a)
  /\ \A c \in Clients, u \in Units : job[c][u] # "none" => op[c] \in Starts \cup Stops
  /\ \A c \in Clients : op[c] \in Dashboard =>
       \A u, v \in Units : job[c][u] # "none" /\ job[c][v] # "none" => u = v

\* One worker of a thread goes on; the thread's counter and request stay.
LEMMA StepSettled ==
  ASSUME TypeOK, Settled, NEW a \in Actors, NEW u \in Units, NEW s \in Stages, Step(a, u, s),
         job[a][u] \notin {"none", "noted", "done"}, UNCHANGED <<pc, op>>
  PROVE  Settled'
  BY EngineAssumption DEF TypeOK, Settled, Step, Idle, Actors

\* A request begins in a resting thread.
LEMMA BeginsSettled ==
  ASSUME TypeOK, Settled, NEW c \in Clients, NEW o \in Starts \cup Stops, Begins(c, o),
         job' \in [Actors -> [Units -> Stages]], \A a \in Actors \ {c} : job'[a] = job[a],
         o \in Dashboard => \E u \in Units : Step(c, u, "send")
  PROVE  Settled'
<1>1. c \in Actors /\ Tick \notin Clients
  BY EngineAssumption DEF Actors
<1>2. pc[c] = "rest" /\ pc'[c] = "work" /\ op'[c] = o
  BY <1>1 DEF Begins, TypeOK
<1>3. \A a \in Actors \ {c} : pc'[a] = pc[a]
  BY <1>1 DEF Begins, TypeOK
<1>4. \A d \in Clients \ {c} : op'[d] = op[d]
  BY DEF Begins, TypeOK
<1>5. \A u \in Units : job[c][u] = "none"
  BY <1>1, <1>2 DEF Settled
<1>6. \A a \in Actors : pc'[a] \in {"rest", "decide"} => \A u \in Units : job'[a][u] = "none"
  BY <1>2, <1>3 DEF Settled
<1>7. \A a \in Actors : pc'[a] = "write" => \A u \in Units : job'[a][u] \in {"none", "noted", "done"}
  BY <1>2, <1>3 DEF Settled, Idle
<1>8. \A d \in Clients, u \in Units : job'[d][u] # "none" => op'[d] \in Starts \cup Stops
  BY <1>2, <1>4 DEF Settled, Actors
<1>9. \A d \in Clients : op'[d] \in Dashboard =>
        \A u, v \in Units : job'[d][u] # "none" /\ job'[d][v] # "none" => u = v
  <2>1. ASSUME o \in Dashboard, NEW u \in Units, NEW v \in Units,
               job'[c][u] # "none", job'[c][v] # "none"
        PROVE  u = v
    BY <2>1, <1>1, <1>5 DEF Step, TypeOK
  <2> QED
    BY <2>1, <1>2, <1>4 DEF Settled, Actors
<1> QED
  BY <1>6, <1>7, <1>8, <1>9 DEF Settled, Idle

LEMMA SettledStep == TypeOK /\ Settled /\ [Next]_vars => Settled'
<1> SUFFICES ASSUME TypeOK, Settled, [Next]_vars PROVE Settled'
  OBVIOUS
<1>a. Tick \in Actors /\ Clients \subseteq Actors /\ Tick \notin Clients
  BY EngineAssumption DEF Actors
<1>t. TypeOK'
  BY TypeStep
<1>1. ASSUME NEW a \in Actors, Capture(a) PROVE Settled'
  BY <1>1 DEF TypeOK, Settled, Capture, Idle
<1>2. ASSUME NEW a \in Actors, Write(a) PROVE Settled'
  BY <1>2, <1>a DEF TypeOK, Settled, Write, Idle, NoJobs
<1>3. ASSUME TickCollect PROVE Settled'
  BY <1>3, <1>a DEF TypeOK, Settled, TickCollect, Idle
<1>4. ASSUME TickDecide PROVE Settled'
  <2>1. pc' = [pc EXCEPT ![Tick] = "work"] /\ op' = op /\ \A c \in Clients : job'[c] = job[c]
    BY <1>4, <1>a DEF TickDecide, TypeOK
  <2>2. \A a \in Actors : a = Tick \/ a \in Clients
    BY DEF Actors
  <2> QED
    BY <2>1, <2>2, <1>a DEF TypeOK, Settled, Idle
<1>5. ASSUME NEW u \in Units, AutoCheck(u) PROVE Settled'
  BY <1>5, <1>a, StepSettled DEF AutoCheck, Stages
<1>6. ASSUME NEW a \in Actors, NEW u \in Units, LiveCheck(a, u) PROVE Settled'
  BY <1>6, StepSettled DEF LiveCheck, Stages
<1>7. ASSUME NEW a \in Actors, NEW u \in Units, SendStart(a, u) \/ SendStop(a, u) PROVE Settled'
  BY <1>7, StepSettled DEF SendStart, SendStop, Stages
<1>8. ASSUME NEW a \in Actors, NEW u \in Units, ApplyResult(a, u) PROVE Settled'
  BY <1>8, StepSettled DEF ApplyResult, Stages
<1>9. ASSUME NEW c \in Clients, StopAll(c) PROVE Settled'
  <2>1. Begins(c, "stop_all") /\ \A a \in Actors \ {c} : job'[a] = job[a]
    BY <1>9 DEF StopAll, TypeOK
  <2> QED
    BY <2>1, <1>t, BeginsSettled DEF TypeOK, Starts, Stops, Dashboard
<1>10. ASSUME NEW c \in Clients, RunNow(c) PROVE Settled'
  <2>1. Begins(c, "run_now") /\ \A a \in Actors \ {c} : job'[a] = job[a]
    BY <1>10 DEF RunNow, TypeOK
  <2> QED
    BY <2>1, <1>t, BeginsSettled DEF TypeOK, Starts, Stops, Dashboard
<1>11. ASSUME NEW c \in Clients, Command(c) PROVE Settled'
  <2>1. PICK o \in Dashboard : Begins(c, o)
    BY <1>11 DEF Command
  <2>2. PICK u \in Units : Step(c, u, "send")
    BY <1>11 DEF Command
  <2>3. \A a \in Actors \ {c} : job'[a] = job[a]
    BY <2>2 DEF Step, TypeOK
  <2>4. o \in Starts \cup Stops /\ job' \in [Actors -> [Units -> Stages]]
    BY <1>t DEF Starts, Stops, Dashboard, TypeOK
  <2> QED
    BY <2>1, <2>2, <2>3, <2>4, BeginsSettled
<1>12. ASSUME NEW c \in Clients, NEW u \in Units, ClaimWaited(c, u) \/ ClaimTimesOut(c, u) PROVE Settled'
  BY <1>12, <1>a, StepSettled DEF ClaimWaited, ClaimTimesOut, Stages
<1>13. ASSUME NEW c \in Clients, NEW u \in Units, NoteCommand(c, u) PROVE Settled'
  BY <1>13, <1>a, StepSettled DEF NoteCommand, Stages
<1>14. ASSUME NEW c \in Clients, NEW u \in Units, CommandFails(c, u) PROVE Settled'
  <2>1. \A v \in Units : job'[c][v] = "none"
    BY <1>14, <1>a DEF CommandFails, Settled, TypeOK, Step
  <2>2. \A a \in Actors \ {c} : job'[a] = job[a] /\ pc'[a] = pc[a]
    BY <1>14, <1>a DEF CommandFails, TypeOK, Step
  <2>3. \A d \in Clients \ {c} : op'[d] = op[d]
    BY <1>14 DEF CommandFails, TypeOK
  <2>4. pc'[c] = "rest"
    BY <1>14, <1>a DEF CommandFails, TypeOK
  <2> QED
    BY <2>1, <2>2, <2>3, <2>4, <1>a DEF Settled, Idle
<1>15. ASSUME NEW c \in Clients, ReleaseHold(c) PROVE Settled'
  <2>1. pc[c] = "rest" /\ pc'[c] = "work" /\ job' = job
    BY <1>15, <1>a DEF ReleaseHold, Begins, TypeOK
  <2>2. \A u \in Units : job[c][u] = "none"
    BY <2>1, <1>a DEF Settled
  <2>3. (\A a \in Actors \ {c} : pc'[a] = pc[a]) /\ \A d \in Clients \ {c} : op'[d] = op[d]
    BY <1>15, <1>a DEF ReleaseHold, Begins, TypeOK
  <2> QED
    BY <2>1, <2>2, <2>3, <1>a DEF Settled, Idle
<1>16. ASSUME NEW u \in Units, AmsBegins(u) \/ AmsEnds(u) \/ OutsiderStarts(u) \/ HoldRunsOut(u) \/ StopGraceOver(u)
       PROVE  Settled'
  BY <1>16 DEF Settled, Idle, AmsBegins, AmsEnds, OutsiderStarts, HoldRunsOut, StopGraceOver, threads
<1>17. ASSUME StoreRefresh \/ SetAuto \/ \E p \in Printers : SetMaintenance(p) PROVE Settled'
  BY <1>17 DEF Settled, Idle, StoreRefresh, SetAuto, SetMaintenance, threads
<1>18. ASSUME Restart PROVE Settled'
  BY <1>18, <1>a DEF Settled, Idle, Restart, NoJobs
<1>19. CASE UNCHANGED vars
  BY <1>19 DEF Settled, Idle, vars, threads
<1> QED
  BY <1>1, <1>2, <1>3, <1>4, <1>5, <1>6, <1>7, <1>8, <1>9, <1>10, <1>11, <1>12, <1>13, <1>14, <1>15,
     <1>16, <1>17, <1>18, <1>19, <1>a
     DEF Next, Ticks, Client, Serves, Works, World

-----------------------------------------------------------------------------
(***************************************************************************)
(* Claims.                                                                 *)
(***************************************************************************)

\* One worker goes on; it takes, keeps or gives back the claim of its unit.
LEMMA StepExclusive ==
  ASSUME TypeOK, ClaimExclusive, NEW a \in Actors, NEW u \in Units, NEW s \in Stages, Step(a, u, s),
         \/ s \in Claimed /\ job[a][u] \in Claimed /\ inflight' = inflight
         \/ s \notin Claimed /\ job[a][u] \notin Claimed /\ inflight' = inflight
         \/ s \notin Claimed /\ job[a][u] \in Claimed /\ inflight' = inflight \ {u}
         \/ s \in Claimed /\ u \notin inflight /\ inflight' = inflight \cup {u}
  PROVE  ClaimExclusive'
<1>1. \A b \in Actors, v \in Units : job'[b][v] = IF b = a /\ v = u THEN s ELSE job[b][v]
  BY DEF TypeOK, Step
<1>2. \A v \in Units : v # u => (v \in inflight' <=> v \in inflight)
  OBVIOUS
<1>3. \A v \in Units : v # u =>
        /\ v \in inflight' <=> \E b \in Actors : job'[b][v] \in Claimed
        /\ \A b, d \in Actors : job'[b][v] \in Claimed /\ job'[d][v] \in Claimed => b = d
  BY <1>1, <1>2 DEF ClaimExclusive
<1>4. /\ u \in inflight' <=> \E b \in Actors : job'[b][u] \in Claimed
      /\ \A b, d \in Actors : job'[b][u] \in Claimed /\ job'[d][u] \in Claimed => b = d
  BY <1>1 DEF ClaimExclusive
<1> QED
  BY <1>3, <1>4 DEF ClaimExclusive

\* A thread without workers gets one for each unit of a set, claimed or not.
LEMMA ManyExclusive ==
  ASSUME TypeOK, ClaimExclusive, NEW a \in Actors, NEW T \in SUBSET Units, NEW s \in Stages,
         \A u \in Units : job[a][u] = "none",
         job' = [job EXCEPT ![a] = [u \in Units |-> IF u \in T THEN s ELSE "none"]],
         \/ s \notin Claimed /\ inflight' = inflight
         \/ s \in Claimed /\ inflight' = inflight \cup T /\ T \cap inflight = {}
  PROVE  ClaimExclusive'
<1>1. \A b \in Actors, v \in Units :
        job'[b][v] = IF b = a THEN (IF v \in T THEN s ELSE "none") ELSE job[b][v]
  BY DEF TypeOK
<1>2. "none" \notin Claimed
  BY DEF Claimed
<1>3. ASSUME NEW v \in Units
      PROVE  /\ v \in inflight' <=> \E b \in Actors : job'[b][v] \in Claimed
             /\ \A b, d \in Actors : job'[b][v] \in Claimed /\ job'[d][v] \in Claimed => b = d
  BY <1>1, <1>2, <1>3 DEF ClaimExclusive
<1> QED
  BY <1>3 DEF ClaimExclusive

LEMMA ExclusiveStep == TypeOK /\ Settled /\ ClaimExclusive /\ [Next]_vars => ClaimExclusive'
<1> SUFFICES ASSUME TypeOK, Settled, ClaimExclusive, [Next]_vars PROVE ClaimExclusive'
  OBVIOUS
<1>a. Tick \in Actors /\ Clients \subseteq Actors
  BY DEF Actors
<1> USE DEF Claimed
<1>1. ASSUME NEW a \in Actors, Capture(a) PROVE ClaimExclusive'
  BY <1>1 DEF ClaimExclusive, Capture, engine
<1>2. ASSUME NEW a \in Actors, Write(a) PROVE ClaimExclusive'
  <2>1. \A u \in Units : job[a][u] \in Claimed => job[a][u] = "noted"
    BY <1>2 DEF Settled, Idle, Write
  <2>2. \A b \in Actors, u \in Units : job'[b][u] = IF b = a THEN "none" ELSE job[b][u]
    BY <1>2 DEF Write, NoJobs, TypeOK
  <2>3. inflight' = inflight \ {u \in Units : job[a][u] = "noted"}
    BY <1>2 DEF Write
  <2>4. ASSUME NEW u \in Units
        PROVE  /\ u \in inflight' <=> \E b \in Actors : job'[b][u] \in Claimed
               /\ \A b, d \in Actors : job'[b][u] \in Claimed /\ job'[d][u] \in Claimed => b = d
    BY <2>1, <2>2, <2>3, <2>4 DEF ClaimExclusive
  <2> QED
    BY <2>4 DEF ClaimExclusive
<1>3. ASSUME TickCollect PROVE ClaimExclusive'
  BY <1>3 DEF ClaimExclusive, TickCollect, engine
<1>4. ASSUME TickDecide PROVE ClaimExclusive'
  <2>1. \A u \in Units : job[Tick][u] = "none"
    BY <1>4, <1>a DEF TickDecide, Settled
  <2>2. PICK S \in SUBSET Units :
          /\ \A u \in S : Free(u)
          /\ inflight' = inflight \cup S
          /\ job' = [job EXCEPT ![Tick] = [u \in Units |-> IF u \in S THEN "claimed" ELSE "none"]]
    BY <1>4 DEF TickDecide
  <2>3. S \cap inflight = {}
    BY <2>2 DEF Free
  <2> QED
    BY <2>1, <2>2, <2>3, <1>a, ManyExclusive DEF Stages
<1>5. ASSUME NEW u \in Units, AutoCheck(u) PROVE ClaimExclusive'
  BY <1>5, <1>a, StepExclusive DEF AutoCheck, Stages
<1>6. ASSUME NEW a \in Actors, NEW u \in Units, LiveCheck(a, u) PROVE ClaimExclusive'
  BY <1>6, StepExclusive DEF LiveCheck, Stages
<1>7. ASSUME NEW a \in Actors, NEW u \in Units, SendStart(a, u) \/ SendStop(a, u) PROVE ClaimExclusive'
  BY <1>7, StepExclusive DEF SendStart, SendStop, Stages, engine
<1>8. ASSUME NEW a \in Actors, NEW u \in Units, ApplyResult(a, u) PROVE ClaimExclusive'
  BY <1>8, StepExclusive DEF ApplyResult, Stages
<1>9. ASSUME NEW c \in Clients, StopAll(c) PROVE ClaimExclusive'
  <2>1. \A u \in Units : job[c][u] = "none"
    BY <1>9, <1>a DEF StopAll, Begins, Settled
  <2>2. PICK T \in SUBSET Units :
          job' = [job EXCEPT ![c] = [u \in Units |-> IF u \in T THEN "wait" ELSE "none"]]
    BY <1>9 DEF StopAll
  <2> QED
    BY <1>9, <2>1, <2>2, <1>a, ManyExclusive DEF StopAll, engine, Stages
<1>10. ASSUME NEW c \in Clients, RunNow(c) PROVE ClaimExclusive'
  <2>1. \A u \in Units : job[c][u] = "none"
    BY <1>10, <1>a DEF RunNow, Begins, Settled
  <2>2. PICK T \in SUBSET Units :
          /\ \A u \in T : Free(u)
          /\ inflight' = inflight \cup T
          /\ job' = [job EXCEPT ![c] = [u \in Units |-> IF u \in T THEN "live" ELSE "none"]]
    BY <1>10 DEF RunNow
  <2>3. T \cap inflight = {}
    BY <2>2 DEF Free
  <2> QED
    BY <2>1, <2>2, <2>3, <1>a, ManyExclusive DEF Stages
<1>11. ASSUME NEW c \in Clients, Command(c) PROVE ClaimExclusive'
  BY <1>11, <1>a, StepExclusive DEF Command, Free, Stages
<1>12. ASSUME NEW c \in Clients, NEW u \in Units, ClaimWaited(c, u) \/ ClaimTimesOut(c, u) PROVE ClaimExclusive'
  BY <1>12, <1>a, StepExclusive DEF ClaimWaited, ClaimTimesOut, Free, engine, Stages
<1>13. ASSUME NEW c \in Clients, NEW u \in Units, NoteCommand(c, u) PROVE ClaimExclusive'
  BY <1>13, <1>a, StepExclusive DEF NoteCommand, Stages
<1>14. ASSUME NEW c \in Clients, NEW u \in Units, CommandFails(c, u) PROVE ClaimExclusive'
  BY <1>14, <1>a, StepExclusive DEF CommandFails, Stages
<1>15. ASSUME NEW c \in Clients, ReleaseHold(c) PROVE ClaimExclusive'
  BY <1>15 DEF ClaimExclusive, ReleaseHold
<1>16. ASSUME NEW u \in Units, AmsBegins(u) \/ AmsEnds(u) \/ OutsiderStarts(u) \/ HoldRunsOut(u) \/ StopGraceOver(u)
       PROVE  ClaimExclusive'
  BY <1>16 DEF ClaimExclusive, AmsBegins, AmsEnds, OutsiderStarts, HoldRunsOut, StopGraceOver, engine, threads
<1>17. ASSUME StoreRefresh \/ SetAuto \/ \E p \in Printers : SetMaintenance(p) PROVE ClaimExclusive'
  BY <1>17 DEF ClaimExclusive, StoreRefresh, SetAuto, SetMaintenance, engine, threads
<1>18. ASSUME Restart PROVE ClaimExclusive'
  BY <1>18 DEF ClaimExclusive, Restart, NoJobs
<1>19. CASE UNCHANGED vars
  BY <1>19 DEF ClaimExclusive, vars, engine, threads
<1> QED
  BY <1>1, <1>2, <1>3, <1>4, <1>5, <1>6, <1>7, <1>8, <1>9, <1>10, <1>11, <1>12, <1>13, <1>14, <1>15,
     <1>16, <1>17, <1>18, <1>19, <1>a
     DEF Next, Ticks, Client, Serves, Works, World

LEMMA InitClaims == Init => Settled /\ ClaimExclusive
<1> SUFFICES ASSUME Init PROVE Settled /\ ClaimExclusive
  OBVIOUS
<1>1. \A a \in Actors, u \in Units : job[a][u] = "none"
  BY DEF Init, NoJobs
<1>2. inflight = {} /\ "none" \notin Claimed
  BY DEF Init, Claimed
<1>3. Settled
  BY <1>1 DEF Settled, Idle, Actors
<1>4. ClaimExclusive
  BY <1>1, <1>2 DEF ClaimExclusive
<1> QED
  BY <1>3, <1>4

\* A claimed unit has exactly one command under way, an unclaimed one none.
THEOREM ClaimsAreExclusive == Spec => []ClaimExclusive
<1>1. Init => TypeOK /\ Settled /\ ClaimExclusive
  BY InitTyped, InitClaims
<1>2. (TypeOK /\ Settled /\ ClaimExclusive) /\ [Next]_vars => (TypeOK /\ Settled /\ ClaimExclusive)'
  BY TypeStep, SettledStep, ExclusiveStep
<1> QED
  BY <1>1, <1>2, PTL DEF Spec

-----------------------------------------------------------------------------
(***************************************************************************)
(* A stop, once accepted, is kept, but for one whose hold the early end of *)
(* a foreign drying took over (Kept).  Its hold is in the state (Held); until *)
(* it is on disk its request is unanswered, and a thread that captured the *)
(* states before it writes before that request is answered (Saved), since  *)
(* capture and write are one critical section (WriterKnown).  An automatic *)
(* start past its re-check is of a unit without a hold (Checked).          *)
(***************************************************************************)

WriterKnown == \A a \in Actors : pc[a] = "write" => writer = a

Kept == promised \ usurped

Held == \A u \in Kept : st[u].hold = "manual"

Saved ==
  /\ \A u \in Kept : disk[u].hold = "manual" \/ \E c \in Clients : Answering(c, u)
  /\ \A a \in Actors, u \in Kept :
       pc[a] = "write" => blob[a][u].hold = "manual"
                          \/ \E c \in Clients : pc[c] = "work" /\ Answering(c, u)

Checked == \A u \in Units : job[Tick][u] \in {"live", "send"} => st[u].hold = "none"

LEMMA WriterStep == TypeOK /\ WriterKnown /\ [Next]_vars => WriterKnown'
<1> SUFFICES ASSUME TypeOK, WriterKnown, [Next]_vars PROVE WriterKnown'
  OBVIOUS
<1>a. Tick \in Actors /\ Clients \subseteq Actors /\ None \notin Actors
  BY EngineAssumption DEF Actors
<1>1. ASSUME NEW a \in Actors, Capture(a) PROVE WriterKnown'
  BY <1>1, <1>a DEF TypeOK, WriterKnown, Capture, CanCapture
<1>2. ASSUME NEW a \in Actors, Write(a) PROVE WriterKnown'
  BY <1>2 DEF TypeOK, WriterKnown, Write
<1>3. ASSUME TickCollect \/ TickDecide PROVE WriterKnown'
  BY <1>3 DEF TypeOK, WriterKnown, TickCollect, TickDecide, saved
<1>4. ASSUME NEW c \in Clients, StopAll(c) \/ RunNow(c) \/ Command(c) \/ ReleaseHold(c) PROVE WriterKnown'
  <2>1. pc' = [pc EXCEPT ![c] = "work"] /\ writer' = writer
    BY <1>4 DEF StopAll, RunNow, Command, ReleaseHold, Begins, saved
  <2> QED
    BY <2>1, <1>a DEF TypeOK, WriterKnown
<1>5. ASSUME NEW c \in Clients, NEW u \in Units, CommandFails(c, u) PROVE WriterKnown'
  BY <1>5 DEF TypeOK, WriterKnown, CommandFails, saved
<1>6. ASSUME NEW a \in Actors, NEW u \in Units,
             LiveCheck(a, u) \/ SendStart(a, u) \/ SendStop(a, u) \/ ApplyResult(a, u)
      PROVE  WriterKnown'
  BY <1>6 DEF WriterKnown, LiveCheck, SendStart, SendStop, ApplyResult, saved
<1>7. ASSUME NEW c \in Clients, NEW u \in Units,
             AutoCheck(u) \/ ClaimWaited(c, u) \/ ClaimTimesOut(c, u) \/ NoteCommand(c, u)
      PROVE  WriterKnown'
  BY <1>7 DEF WriterKnown, AutoCheck, ClaimWaited, ClaimTimesOut, NoteCommand, saved
<1>8. ASSUME NEW u \in Units, AutoCheck(u) \/ AmsBegins(u) \/ AmsEnds(u) \/ OutsiderStarts(u)
                               \/ HoldRunsOut(u) \/ StopGraceOver(u)
      PROVE  WriterKnown'
  BY <1>8 DEF WriterKnown, AutoCheck, AmsBegins, AmsEnds, OutsiderStarts, HoldRunsOut, StopGraceOver, threads, saved
<1>9. ASSUME StoreRefresh \/ SetAuto \/ \E p \in Printers : SetMaintenance(p) PROVE WriterKnown'
  BY <1>9 DEF WriterKnown, StoreRefresh, SetAuto, SetMaintenance, threads, saved
<1>10. ASSUME Restart PROVE WriterKnown'
  BY <1>10 DEF WriterKnown, Restart
<1>11. CASE UNCHANGED vars
  BY <1>11 DEF WriterKnown, vars, threads, saved
<1> QED
  BY <1>1, <1>2, <1>3, <1>4, <1>5, <1>6, <1>7, <1>8, <1>9, <1>10, <1>11, <1>a
     DEF Next, Ticks, Client, Serves, Works, World

LEMMA HeldStep == TypeOK /\ Saved /\ Held /\ [Next]_vars => Held'
<1> SUFFICES ASSUME TypeOK, Saved, Held, [Next]_vars PROVE Held'
  OBVIOUS
<1>a. Tick \in Actors /\ Clients \subseteq Actors /\ Kept \subseteq Units
  BY DEF Actors, TypeOK, Kept
<1>1. ASSUME NEW a \in Actors, Capture(a) \/ Write(a) PROVE Held'
  BY <1>1 DEF Held, Kept, Capture, Write, engine, ghosts, pledges
<1>2. ASSUME TickCollect PROVE Held'
  BY <1>2 DEF Held, Kept, TickCollect, engine, ghosts, pledges
<1>3. ASSUME TickDecide PROVE Held'
  <2>1. ASSUME NEW u \in Kept' PROVE st'[u].hold = "manual"
    <3>1. u \in Kept /\ u \in Units /\ st[u].hold = "manual" /\ st'[u].hold # "foreign"
      BY <1>3, <1>a DEF TickDecide, Held, Kept
    <3>2. CASE ~Free(u)
      BY <1>3, <3>1, <3>2 DEF TickDecide
    <3>3. CASE Free(u)
      <4>1. st'[u] \in Decided(u)
        BY <1>3, <3>1, <3>3 DEF TickDecide
      <4>2. PrinterOf[u] \in obs.maint => st[u].mode
        BY <1>3, <3>1, <3>3 DEF TickDecide, Kept
      <4> QED
        BY <3>1, <4>1, <4>2, DecidedTyped
    <3> QED
      BY <3>2, <3>3
  <2> QED
    BY <2>1 DEF Held
<1>4. ASSUME NEW a \in Actors, NEW u \in Units, ApplyResult(a, u) PROVE Held'
  <2>1. CASE job[a][u] = "no"
    BY <1>4, <2>1 DEF ApplyResult, Held, Kept, pledges
  <2>2. CASE job[a][u] = "yes" /\ ~SendsStart(a)
    <3>1. st' = [st EXCEPT ![u] = ApplyStop(st[u])] /\ Kept' \subseteq Kept \cup {u}
      BY <1>4, <2>2 DEF ApplyResult, Promise, Kept
    <3>2. ApplyStop(st[u]).hold = "manual"
      BY ApplyTyped DEF TypeOK
    <3> QED
      BY <3>1, <3>2, <1>a DEF Held, TypeOK
  <2>3. CASE job[a][u] = "yes" /\ SendsStart(a) /\ a = Tick
    <3>1. st' = [st EXCEPT ![u] = ApplyStart(st[u], "auto")] /\ Kept' = Kept
      BY <1>4, <2>3 DEF ApplyResult, Promise, Origin, Kept
    <3>2. ApplyStart(st[u], "auto").hold = st[u].hold
      BY ApplyTyped DEF TypeOK
    <3> QED
      BY <3>1, <3>2, <1>a DEF Held, TypeOK
  <2>4. CASE job[a][u] = "yes" /\ SendsStart(a) /\ a # Tick
    <3>1. Kept' = Kept \ {u} /\ \A v \in Units \ {u} : st'[v] = st[v]
      BY <1>4, <2>4 DEF ApplyResult, Promise, TypeOK, Kept
    <3> QED
      BY <3>1, <1>a DEF Held
  <2> QED
    BY <1>4, <2>1, <2>2, <2>3, <2>4 DEF ApplyResult
<1>5. ASSUME NEW c \in Clients, NEW u \in Units, NoteCommand(c, u) PROVE Held'
  <2>1. CASE ~SendsStart(c)
    <3>1. st' = [st EXCEPT ![u] = ApplyStop(st[u])] /\ Kept' \subseteq Kept \cup {u}
      BY <1>5, <2>1 DEF NoteCommand, Promise, Kept
    <3>2. ApplyStop(st[u]).hold = "manual"
      BY ApplyTyped DEF TypeOK
    <3> QED
      BY <3>1, <3>2, <1>a DEF Held, TypeOK
  <2>2. CASE SendsStart(c)
    <3>1. Kept' = Kept \ {u} /\ \A v \in Units \ {u} : st'[v] = st[v]
      BY <1>5, <2>2, EngineAssumption DEF NoteCommand, Promise, TypeOK, Kept
    <3> QED
      BY <3>1, <1>a DEF Held
  <2> QED
    BY <2>1, <2>2
<1>6. ASSUME NEW c \in Clients, ReleaseHold(c) PROVE Held'
  <2>1. PICK u \in Units : st' = [st EXCEPT ![u] = Release(@)] /\ Kept' = Kept \ {u}
    BY <1>6 DEF ReleaseHold, Kept
  <2>2. \A v \in Units \ {u} : st'[v] = st[v]
    BY <2>1 DEF TypeOK
  <2> QED
    BY <2>1, <2>2, <1>a DEF Held
<1>7. ASSUME NEW u \in Units, HoldRunsOut(u) PROVE Held'
  <2>1. Kept' = Kept \ {u} /\ \A v \in Units \ {u} : st'[v] = st[v]
    BY <1>7 DEF HoldRunsOut, TypeOK, Kept
  <2> QED
    BY <2>1, <1>a DEF Held
<1>8. ASSUME NEW u \in Units, StopGraceOver(u) PROVE Held'
  <2>1. [st[u] EXCEPT !.stop = FALSE].hold = st[u].hold
    BY DEF TypeOK, UnitStates
  <2>2. st' = [st EXCEPT ![u] = [st[u] EXCEPT !.stop = FALSE]] /\ Kept' = Kept
    BY <1>8 DEF StopGraceOver, ghosts, pledges, Kept
  <2>3. \A v \in Units : st'[v].hold = st[v].hold
    BY <2>1, <2>2 DEF TypeOK
  <2> QED
    BY <2>2, <2>3, <1>a DEF Held
<1>9. ASSUME Restart PROVE Held'
  <2>1. st' = disk /\ Kept' = Kept \ {u \in Units : \E c \in Clients : Answering(c, u)}
    BY <1>9 DEF Restart, Kept
  <2>2. \A u \in Kept' : disk[u].hold = "manual"
    BY <2>1, <1>a DEF Saved
  <2> QED
    BY <2>1, <2>2 DEF Held
<1>10. ASSUME NEW a \in Actors, NEW u \in Units, LiveCheck(a, u) \/ SendStart(a, u) \/ SendStop(a, u) PROVE Held'
  BY <1>10 DEF Held, Kept, LiveCheck, SendStart, SendStop, engine, ghosts, pledges
<1>11. ASSUME NEW c \in Clients, StopAll(c) \/ RunNow(c) \/ Command(c) PROVE Held'
  BY <1>11 DEF Held, Kept, StopAll, RunNow, Command, engine, ghosts, pledges
<1>12. ASSUME NEW c \in Clients, NEW u \in Units, ClaimWaited(c, u) \/ ClaimTimesOut(c, u) \/ CommandFails(c, u)
       PROVE  Held'
  BY <1>12 DEF Held, Kept, ClaimWaited, ClaimTimesOut, CommandFails, engine, ghosts, pledges
<1>13. ASSUME NEW u \in Units, AutoCheck(u) \/ AmsBegins(u) \/ AmsEnds(u) \/ OutsiderStarts(u) PROVE Held'
  BY <1>13 DEF Held, Kept, AutoCheck, AmsBegins, AmsEnds, OutsiderStarts, engine, ghosts, pledges
<1>14. ASSUME StoreRefresh \/ SetAuto \/ \E p \in Printers : SetMaintenance(p) PROVE Held'
  BY <1>14 DEF Held, Kept, StoreRefresh, SetAuto, SetMaintenance, engine, ghosts, pledges
<1>15. CASE UNCHANGED vars
  BY <1>15 DEF Held, Kept, vars, engine, ghosts, pledges
<1> QED
  BY <1>1, <1>2, <1>3, <1>4, <1>5, <1>6, <1>7, <1>8, <1>9, <1>10, <1>11, <1>12, <1>13, <1>14, <1>15, <1>a
     DEF Next, Ticks, Client, Serves, Works, World

\* An answer still owed stays owed while a worker of its thread or of another
\* goes on.
LEMMA StepAnswering ==
  ASSUME TypeOK, NEW a \in Actors, NEW u \in Units, NEW s \in Stages, Step(a, u, s),
         job[a][u] \notin {"none", "noted", "done"}, op' = op,
         NEW c \in Clients, NEW v \in Units, Answering(c, v)
  PROVE  Answering(c, v)'
  BY DEF TypeOK, Step, Answering, Actors

\* Nothing is disturbed by a step that writes nothing, answers nothing and
\* promises no more than its own answer owes.
LEMMA QuietSaved ==
  ASSUME TypeOK, Saved, UNCHANGED <<disk, blob>>,
         \A u \in Units, c \in Clients : Answering(c, u) => Answering(c, u)',
         \A a \in Actors : pc'[a] = "write" => pc[a] = "write",
         \A c \in Clients : pc[c] = "work" => pc'[c] = "work" \/ \A u \in Units : ~Answering(c, u),
         \A u \in Kept' : u \in Kept
                              \/ \E c \in Clients : pc'[c] = "work" /\ Answering(c, u)'
  PROVE  Saved'
<1>a. Kept \subseteq Units
  BY DEF TypeOK, Kept
<1>1. \A u \in Kept' : disk'[u].hold = "manual" \/ \E c \in Clients : Answering(c, u)'
  BY <1>a DEF Saved
<1>2. \A a \in Actors, u \in Kept' :
        pc'[a] = "write" => blob'[a][u].hold = "manual" \/ \E c \in Clients : pc'[c] = "work" /\ Answering(c, u)'
  BY <1>a DEF Saved
<1> QED
  BY <1>1, <1>2 DEF Saved

LEMMA SavedStep == TypeOK /\ Settled /\ WriterKnown /\ Held /\ Saved /\ [Next]_vars => Saved'
<1> SUFFICES ASSUME TypeOK, Settled, WriterKnown, Held, Saved, [Next]_vars PROVE Saved'
  OBVIOUS
<1>a. Tick \in Actors /\ Clients \subseteq Actors /\ Kept \subseteq Units
      /\ None \notin Actors /\ Tick \notin Clients
  BY EngineAssumption DEF Actors, TypeOK, Kept
<1>1. ASSUME NEW a \in Actors, Capture(a) PROVE Saved'
  <2>1. \A c \in Clients, u \in Units : Answering(c, u)' <=> Answering(c, u)
    BY <1>1 DEF Capture, Answering
  <2>2. \A u \in Kept' : disk'[u].hold = "manual" \/ \E c \in Clients : Answering(c, u)'
    BY <1>1, <2>1, <1>a DEF Saved, Kept, Capture, ghosts, pledges
  <2>3. \A b \in Actors : pc'[b] = "write" => b = a
    BY <1>1, <1>a DEF Capture, CanCapture, WriterKnown, TypeOK
  <2>4. \A u \in Kept' : blob'[a][u].hold = "manual"
    BY <1>1 DEF Capture, Held, Kept, TypeOK, ghosts, pledges
  <2> QED
    BY <2>2, <2>3, <2>4 DEF Saved
<1>2. ASSUME NEW a \in Actors, Write(a) PROVE Saved'
  <2>1. \A b \in Actors : pc'[b] # "write"
    BY <1>2 DEF Write, WriterKnown, TypeOK
  <2>2. ASSUME NEW u \in Kept' PROVE disk'[u].hold = "manual" \/ \E c \in Clients : Answering(c, u)'
    <3>1. u \in Kept /\ pc[a] = "write" /\ disk' = blob[a]
      BY <1>2 DEF Write, Kept, ghosts, pledges
    <3>2. CASE blob[a][u].hold = "manual"
      BY <3>1, <3>2
    <3>3. CASE blob[a][u].hold # "manual"
      <4>1. PICK c \in Clients : pc[c] = "work" /\ Answering(c, u)
        BY <3>1, <3>3 DEF Saved
      <4>2. c # a
        BY <3>1, <4>1
      <4>3. job'[c] = job[c] /\ op'[c] = op[c]
        BY <1>2, <4>2, <1>a DEF Write, TypeOK
      <4> QED
        BY <4>1, <4>3 DEF Answering
    <3> QED
      BY <3>2, <3>3
  <2> QED
    BY <2>1, <2>2 DEF Saved
<1>3. ASSUME TickCollect PROVE Saved'
  BY <1>3, <1>a, QuietSaved DEF TickCollect, Kept, Answering, TypeOK, saved, ghosts, pledges
<1>4. ASSUME TickDecide PROVE Saved'
  <2>1. /\ UNCHANGED <<disk, blob>> /\ op' = op /\ pc' = [pc EXCEPT ![Tick] = "work"]
        /\ Kept' \subseteq Kept /\ \A c \in Clients : job'[c] = job[c]
    BY <1>4, <1>a DEF TickDecide, Kept, TypeOK, saved
  <2> QED
    BY <2>1, <1>a, QuietSaved DEF Answering, TypeOK
<1>5. ASSUME NEW a \in Actors, NEW u \in Units,
             LiveCheck(a, u) \/ SendStart(a, u) \/ SendStop(a, u)
      PROVE  Saved'
  <2>1. UNCHANGED <<disk, blob, op, pc, Kept>>
    BY <1>5 DEF LiveCheck, SendStart, SendStop, saved, ghosts, pledges, Kept
  <2>2. \A c \in Clients, v \in Units : Answering(c, v) => Answering(c, v)'
    BY <1>5, <2>1, StepAnswering DEF LiveCheck, SendStart, SendStop, Stages
  <2> QED
    BY <2>1, <2>2, QuietSaved
<1>6. ASSUME NEW u \in Units, AutoCheck(u) PROVE Saved'
  <2>1. UNCHANGED <<disk, blob, op, pc, Kept>>
    BY <1>6 DEF AutoCheck, saved, ghosts, pledges, Kept
  <2>2. \A c \in Clients, v \in Units : Answering(c, v) => Answering(c, v)'
    BY <1>6, <2>1, <1>a, StepAnswering DEF AutoCheck, Stages
  <2> QED
    BY <2>1, <2>2, QuietSaved
<1>7. ASSUME NEW a \in Actors, NEW u \in Units,
             ApplyResult(a, u) \/ (a \in Clients /\ NoteCommand(a, u))
      PROVE  Saved'
  <2>1. UNCHANGED <<disk, blob, op, pc>> /\ job[a][u] \in {"yes", "no"}
    BY <1>7 DEF ApplyResult, NoteCommand, saved
  <2>2. \A c \in Clients, v \in Units : Answering(c, v) => Answering(c, v)'
    BY <1>7, <2>1, StepAnswering DEF ApplyResult, NoteCommand, Stages
  <2>3. ASSUME NEW v \in Kept', v \notin Kept
        PROVE  \E c \in Clients : pc'[c] = "work" /\ Answering(c, v)'
    <3>1. v = u /\ ~SendsStart(a) /\ job[a][u] = "yes"
      BY <1>7, <2>3 DEF ApplyResult, NoteCommand, Promise, Kept, pledges
    <3>2. a \in Clients
      BY <3>1 DEF SendsStart, Origin, Actors
    <3>3. op[a] \in Stops
      BY <3>1, <3>2, EngineAssumption DEF SendsStart, Origin, Settled
    <3>4. pc[a] = "work"
      <4>1. pc[a] \in {"rest", "decide", "work", "write"}
        BY DEF TypeOK
      <4>2. pc[a] \notin {"rest", "decide"}
        BY <3>1 DEF Settled
      <4>3. pc[a] # "write"
        BY <3>1 DEF Settled, Idle
      <4> QED
        BY <4>1, <4>2, <4>3
    <3>5. job'[a][u] \in {"done", "noted"}
      BY <1>7, <3>1 DEF ApplyResult, NoteCommand, Step, TypeOK
    <3> QED
      BY <2>1, <3>1, <3>2, <3>3, <3>4, <3>5 DEF Answering
  <2> QED
    BY <2>1, <2>2, <2>3, QuietSaved
<1>8. ASSUME NEW c \in Clients, StopAll(c) \/ RunNow(c) \/ Command(c) \/ ReleaseHold(c) PROVE Saved'
  <2>1. /\ UNCHANGED <<disk, blob>> /\ pc[c] = "rest" /\ pc' = [pc EXCEPT ![c] = "work"]
        /\ Kept' \subseteq Kept /\ \A d \in Clients \ {c} : op'[d] = op[d]
    BY <1>8 DEF StopAll, RunNow, Command, ReleaseHold, Begins, TypeOK, saved, ghosts, pledges, Kept
  <2>2. \A d \in Clients \ {c} : job'[d] = job[d]
    BY <1>8, <1>a DEF StopAll, RunNow, Command, ReleaseHold, Step, TypeOK
  <2>3. \A v \in Units : ~Answering(c, v)
    BY <2>1, <1>a DEF Settled, Answering
  <2>4. \A d \in Clients, v \in Units : Answering(d, v) => Answering(d, v)'
    BY <2>1, <2>2, <2>3 DEF Answering
  <2>5. \A a \in Actors : pc'[a] = "write" => pc[a] = "write"
    BY <2>1 DEF TypeOK
  <2>6. \A d \in Clients : pc[d] = "work" => pc'[d] = "work"
    BY <2>1, <1>a DEF TypeOK
  <2> QED
    BY <2>1, <2>4, <2>5, <2>6, QuietSaved
<1>9. ASSUME NEW c \in Clients, NEW u \in Units, CommandFails(c, u) PROVE Saved'
  <2>1. /\ UNCHANGED <<disk, blob, Kept>> /\ pc' = [pc EXCEPT ![c] = "rest"]
        /\ \A d \in Clients \ {c} : op'[d] = op[d] /\ job'[d] = job[d]
    BY <1>9, <1>a DEF CommandFails, Step, TypeOK, saved, ghosts, pledges, Kept
  <2>2. \A v \in Units : ~Answering(c, v)
    BY <1>9 DEF CommandFails, Settled, Answering
  <2>3. \A d \in Clients, v \in Units : Answering(d, v) => Answering(d, v)'
    BY <2>1, <2>2 DEF Answering
  <2>4. \A a \in Actors : pc'[a] = "write" => pc[a] = "write"
    BY <2>1 DEF TypeOK
  <2>5. \A d \in Clients : pc[d] = "work" => pc'[d] = "work" \/ \A v \in Units : ~Answering(d, v)
    BY <2>1, <2>2, <1>a DEF TypeOK
  <2> QED
    BY <2>1, <2>3, <2>4, <2>5, QuietSaved
<1>10. ASSUME NEW c \in Clients, NEW u \in Units, ClaimWaited(c, u) \/ ClaimTimesOut(c, u) PROVE Saved'
  <2>1. UNCHANGED <<disk, blob, op, pc, Kept>>
    BY <1>10 DEF ClaimWaited, ClaimTimesOut, saved, ghosts, pledges, Kept
  <2>2. \A d \in Clients, v \in Units : Answering(d, v) => Answering(d, v)'
    BY <1>10, <2>1, <1>a, StepAnswering DEF ClaimWaited, ClaimTimesOut, Stages
  <2> QED
    BY <2>1, <2>2, QuietSaved
<1>11. ASSUME NEW u \in Units, AmsBegins(u) \/ AmsEnds(u) \/ OutsiderStarts(u) \/ StopGraceOver(u) PROVE Saved'
  BY <1>11 DEF Saved, Kept, Answering, AmsBegins, AmsEnds, OutsiderStarts, StopGraceOver, threads, saved, ghosts, pledges
<1>12. ASSUME NEW u \in Units, HoldRunsOut(u) PROVE Saved'
  <2>1. UNCHANGED <<op, pc, job>> /\ Kept' = Kept \ {u}
    BY <1>12 DEF HoldRunsOut, threads, Kept
  <2>2. \A v \in Units \ {u} : disk'[v] = disk[v] /\ \A a \in Actors : blob'[a][v] = blob[a][v]
    BY <1>12 DEF HoldRunsOut, TypeOK
  <2>3. \A d \in Clients, v \in Units : Answering(d, v)' <=> Answering(d, v)
    BY <2>1 DEF Answering
  <2> QED
    BY <2>1, <2>2, <2>3, <1>a DEF Saved
<1>13. ASSUME StoreRefresh \/ SetAuto \/ \E p \in Printers : SetMaintenance(p) PROVE Saved'
  BY <1>13 DEF Saved, Kept, Answering, StoreRefresh, SetAuto, SetMaintenance, threads, saved, ghosts, pledges
<1>14. ASSUME Restart PROVE Saved'
  <2>1. \A a \in Actors : pc'[a] = "rest"
    BY <1>14 DEF Restart
  <2>2. \A u \in Kept' : disk'[u].hold = "manual"
    BY <1>14, <1>a DEF Restart, Saved, Kept
  <2> QED
    BY <2>1, <2>2 DEF Saved
<1>15. CASE UNCHANGED vars
  BY <1>15 DEF Saved, Kept, Answering, vars, threads, saved, ghosts, pledges
<1> QED
  BY <1>1, <1>2, <1>3, <1>4, <1>5, <1>6, <1>7, <1>8, <1>9, <1>10, <1>11, <1>12, <1>13, <1>14, <1>15, <1>a
     DEF Next, Ticks, Client, Serves, Works, World

LEMMA CheckedStep == TypeOK /\ ClaimExclusive /\ Checked /\ [Next]_vars => Checked'
<1> SUFFICES ASSUME TypeOK, ClaimExclusive, Checked, [Next]_vars PROVE Checked'
  OBVIOUS
<1>a. Tick \in Actors /\ Clients \subseteq Actors /\ Tick \notin Clients
  BY EngineAssumption DEF Actors
\* A worker of the tick that goes on to one of the two stages comes from the
\* re-check or from the other stage.
<1>s. ASSUME NEW a \in Actors, NEW u \in Units, NEW s \in Stages, Step(a, u, s), st' = st,
             a = Tick /\ s \in {"live", "send"} => job[a][u] \in {"live", "send"} \/ st[u].hold = "none"
      PROVE  Checked'
  BY <1>s, <1>a DEF Checked, Step, TypeOK
\* A state changes under the claim of the worker that changes it.
<1>p. ASSUME NEW a \in Actors, NEW u \in Units, NEW s \in Stages, Step(a, u, s),
             s \notin {"live", "send"}, job[a][u] \in Claimed,
             \A v \in Units \ {u} : st'[v] = st[v]
      PROVE  Checked'
  <2>1. job'[Tick][u] \notin {"live", "send"}
    BY <1>p, <1>a DEF ClaimExclusive, Claimed, Step, TypeOK
  <2>2. \A v \in Units \ {u} : job'[Tick][v] = job[Tick][v]
    BY <1>p, <1>a DEF Step, TypeOK
  <2> QED
    BY <1>p, <2>1, <2>2 DEF Checked
<1>1. ASSUME NEW a \in Actors, Capture(a) \/ Write(a) PROVE Checked'
  BY <1>1, <1>a DEF Checked, Capture, Write, NoJobs, TypeOK, engine
<1>2. ASSUME TickCollect PROVE Checked'
  BY <1>2 DEF Checked, TickCollect, engine
<1>3. ASSUME TickDecide PROVE Checked'
  <2>1. \A u \in Units : job'[Tick][u] \in {"claimed", "none"}
    BY <1>3, <1>a DEF TickDecide, TypeOK
  <2> QED
    BY <2>1 DEF Checked
<1>4. ASSUME NEW u \in Units, AutoCheck(u) PROVE Checked'
  BY <1>4, <1>a, <1>s DEF AutoCheck, Stages
<1>5. ASSUME NEW a \in Actors, NEW u \in Units, LiveCheck(a, u) PROVE Checked'
  BY <1>5, <1>s DEF LiveCheck, Stages
<1>6. ASSUME NEW a \in Actors, NEW u \in Units, SendStart(a, u) \/ SendStop(a, u) PROVE Checked'
  BY <1>6, <1>s DEF SendStart, SendStop, Stages, engine
<1>7. ASSUME NEW a \in Actors, NEW u \in Units, ApplyResult(a, u) PROVE Checked'
  <2>1. \A v \in Units \ {u} : st'[v] = st[v]
    BY <1>7 DEF ApplyResult, TypeOK
  <2>2. job[a][u] \in Claimed
    BY <1>7 DEF ApplyResult, Claimed
  <2>3. PICK s \in {"done", "none"} : Step(a, u, s)
    BY <1>7 DEF ApplyResult
  <2> QED
    BY <2>1, <2>2, <2>3, <1>p DEF Stages
<1>8. ASSUME NEW c \in Clients, NEW u \in Units, NoteCommand(c, u) PROVE Checked'
  <2>1. \A v \in Units \ {u} : st'[v] = st[v]
    BY <1>8 DEF NoteCommand, TypeOK
  <2>2. job[c][u] \in Claimed /\ Step(c, u, "noted")
    BY <1>8 DEF NoteCommand, Claimed
  <2> QED
    BY <2>1, <2>2, <1>a, <1>p DEF Stages
<1>9. ASSUME NEW c \in Clients, StopAll(c) \/ RunNow(c) \/ Command(c) PROVE Checked'
  <2>1. st' = st /\ job'[Tick] = job[Tick]
    BY <1>9, <1>a DEF StopAll, RunNow, Command, Step, TypeOK, engine
  <2> QED
    BY <2>1 DEF Checked
<1>10. ASSUME NEW c \in Clients, ReleaseHold(c) PROVE Checked'
  <2>1. PICK u \in Units : st' = [st EXCEPT ![u] = Release(@)]
    BY <1>10 DEF ReleaseHold
  <2>2. Release(st[u]).hold = "none"
    BY DEF Release, TypeOK, UnitStates
  <2>3. \A v \in Units : st[v].hold = "none" => st'[v].hold = "none"
    BY <2>1, <2>2 DEF TypeOK
  <2> QED
    BY <1>10, <2>3 DEF Checked, ReleaseHold
<1>11. ASSUME NEW c \in Clients, NEW u \in Units, ClaimWaited(c, u) \/ ClaimTimesOut(c, u) \/ CommandFails(c, u)
       PROVE  Checked'
  BY <1>11, <1>a, <1>s DEF ClaimWaited, ClaimTimesOut, CommandFails, Stages, engine
<1>12. ASSUME NEW u \in Units, HoldRunsOut(u) \/ StopGraceOver(u) PROVE Checked'
  <2>1. [st[u] EXCEPT !.stop = FALSE].hold = st[u].hold /\ [st[u] EXCEPT !.hold = "none"].hold = "none"
    BY DEF TypeOK, UnitStates
  <2>2. \/ st' = [st EXCEPT ![u] = [st[u] EXCEPT !.stop = FALSE]]
        \/ st' = [st EXCEPT ![u] = [st[u] EXCEPT !.hold = "none"]]
    BY <1>12 DEF HoldRunsOut, StopGraceOver
  <2>3. \A v \in Units : st[v].hold = "none" => st'[v].hold = "none"
    BY <2>1, <2>2 DEF TypeOK
  <2> QED
    BY <1>12, <2>3 DEF Checked, HoldRunsOut, StopGraceOver, threads
<1>13. ASSUME NEW u \in Units, AmsBegins(u) \/ AmsEnds(u) \/ OutsiderStarts(u) PROVE Checked'
  BY <1>13 DEF Checked, AmsBegins, AmsEnds, OutsiderStarts, engine, threads
<1>14. ASSUME StoreRefresh \/ SetAuto \/ \E p \in Printers : SetMaintenance(p) PROVE Checked'
  BY <1>14 DEF Checked, StoreRefresh, SetAuto, SetMaintenance, engine, threads
<1>15. ASSUME Restart PROVE Checked'
  BY <1>15, <1>a DEF Checked, Restart, NoJobs
<1>16. CASE UNCHANGED vars
  BY <1>16 DEF Checked, vars, engine, threads
<1> QED
  BY <1>1, <1>2, <1>3, <1>4, <1>5, <1>6, <1>7, <1>8, <1>9, <1>10, <1>11, <1>12, <1>13, <1>14, <1>15, <1>16, <1>a
     DEF Next, Ticks, Client, Serves, Works, World

-----------------------------------------------------------------------------
(***************************************************************************)
(* The theorems.                                                           *)
(***************************************************************************)

IInv ==
  TypeOK /\ Settled /\ ClaimExclusive /\ WriterKnown /\ Held /\ Saved /\ Checked

LEMMA IInvHolds == Spec => []IInv
<1>1. Init => IInv
  <2> SUFFICES ASSUME Init PROVE IInv
    OBVIOUS
  <2>1. TypeOK /\ Settled /\ ClaimExclusive
    BY InitTyped, InitClaims
  <2>2. promised = {} /\ \A a \in Actors : pc[a] = "rest" /\ \A u \in Units : job[a][u] = "none"
    BY DEF Init, NoJobs
  <2> QED
    BY <2>1, <2>2 DEF IInv, WriterKnown, Held, Saved, Checked, Kept, Actors
<1>2. IInv /\ [Next]_vars => IInv'
  BY TypeStep, SettledStep, ExclusiveStep, WriterStep, HeldStep, SavedStep, CheckedStep DEF IInv
<1> QED
  BY <1>1, <1>2, PTL DEF Spec

\* ams_autodry_engine.py 548-600: an accepted stop holds its unit, and once answered the
\* hold is on disk, unless the early end of a foreign drying took the hold over.
THEOREM StopsPersist == Spec => []StopPersists
<1>1. IInv => StopPersists
  BY DEF IInv, Held, Saved, Kept, StopPersists
<1> QED
  BY <1>1, IInvHolds, PTL

\* ams_autodry_engine.py 400-446: no automatic start is sent to a unit an admin has
\* stopped, restarts included, whose hold is still the admin's.
THEOREM StopsAreRespected == Spec => StopRespected
<1>1. IInv /\ [Next]_vars =>
        [\A u \in Units : AutoStarted(u) => u \notin promised \ usurped]_vars
  BY DEF IInv, Checked, Held, Kept, AutoStarted
<1> QED
  BY <1>1, IInvHolds, PTL DEF Spec, StopRespected

\* No check judges a drying whose accepted command is still to be applied.
THEOREM NeverMisjudged == Spec => NotMisjudged
<1> DEFINE Waiting(u) == \E a \in Actors : job[a][u] = "yes" /\ job'[a][u] = "yes"
<1>1. IInv /\ [Next]_vars => [\A u \in Units : Waiting(u) => st'[u].phase = st[u].phase]_vars
  <2> SUFFICES ASSUME IInv, Next, NEW u \in Units, NEW a \in Actors,
                      job[a][u] = "yes", job'[a][u] = "yes"
               PROVE  st'[u].phase = st[u].phase
    OBVIOUS
  <2>a. TypeOK /\ Tick \in Actors /\ Clients \subseteq Actors
    BY DEF IInv, Actors
  <2>1. u \in inflight /\ \A b \in Actors : job[b][u] \in Claimed => b = a
    BY DEF IInv, ClaimExclusive, Claimed
  <2>2. CASE TickDecide
    BY <2>1, <2>2 DEF TickDecide, Free
  <2>3. ASSUME NEW b \in Actors, NEW v \in Units, ApplyResult(b, v) PROVE st'[u] = st[u]
    <3>1. v # u
      BY <2>1, <2>3, <2>a DEF ApplyResult, Claimed, Step, TypeOK
    <3> QED
      BY <2>3, <3>1, <2>a DEF ApplyResult, TypeOK
  <2>4. ASSUME NEW c \in Clients, NEW v \in Units, NoteCommand(c, v) PROVE st'[u] = st[u]
    <3>1. v # u
      BY <2>1, <2>4, <2>a DEF NoteCommand, Claimed, Step, TypeOK
    <3> QED
      BY <2>4, <3>1, <2>a DEF NoteCommand, TypeOK
  <2>5. ASSUME NEW v \in Units,
               \/ st' = [st EXCEPT ![v] = [st[v] EXCEPT !.hold = "none"]]
               \/ st' = [st EXCEPT ![v] = [st[v] EXCEPT !.stop = FALSE]]
        PROVE  st'[u].phase = st[u].phase
    <3>1. st[v] \in UnitStates /\ st \in [Units -> UnitStates]
      BY <2>a DEF TypeOK
    <3>2. [st[v] EXCEPT !.hold = "none"].phase = st[v].phase /\ [st[v] EXCEPT !.stop = FALSE].phase = st[v].phase
      BY <3>1 DEF UnitStates
    <3> QED
      BY <2>5, <3>1, <3>2
  <2>6. ASSUME NEW c \in Clients, ReleaseHold(c) PROVE st'[u].phase = st[u].phase
    <3>1. PICK v \in Units : st' = [st EXCEPT ![v] = [st[v] EXCEPT !.hold = "none"]]
      BY <2>6 DEF ReleaseHold, Release
    <3> QED
      BY <2>5, <3>1
  <2>7. ASSUME NEW v \in Units, HoldRunsOut(v) \/ StopGraceOver(v) PROVE st'[u].phase = st[u].phase
    BY <2>5, <2>7 DEF HoldRunsOut, StopGraceOver
  <2>8. CASE Restart
    BY <2>8 DEF Restart, NoJobs
  <2>9. ASSUME NEW b \in Actors, NEW v \in Units,
               \/ Capture(b) \/ Write(b) \/ LiveCheck(b, v) \/ SendStart(b, v) \/ SendStop(b, v)
        PROVE  st' = st
    BY <2>9 DEF Capture, Write, LiveCheck, SendStart, SendStop, engine
  <2>10. ASSUME NEW c \in Clients, NEW v \in Units,
                \/ StopAll(c) \/ RunNow(c) \/ Command(c)
                \/ ClaimWaited(c, v) \/ ClaimTimesOut(c, v) \/ CommandFails(c, v)
         PROVE  st' = st
    BY <2>10 DEF StopAll, RunNow, Command, ClaimWaited, ClaimTimesOut, CommandFails, engine
  <2>11. ASSUME NEW v \in Units,
                \/ TickCollect \/ AutoCheck(v) \/ AmsBegins(v) \/ AmsEnds(v) \/ OutsiderStarts(v)
                \/ StoreRefresh \/ SetAuto \/ \E p \in Printers : SetMaintenance(p)
         PROVE  st' = st
    BY <2>11 DEF TickCollect, AutoCheck, AmsBegins, AmsEnds, OutsiderStarts, StoreRefresh, SetAuto,
                 SetMaintenance, engine
  <2> QED
    BY <2>2, <2>3, <2>4, <2>6, <2>7, <2>8, <2>9, <2>10, <2>11, <2>a
       DEF Next, Ticks, Client, Serves, Works, World
<1> QED
  BY <1>1, IInvHolds, PTL DEF Spec, NotMisjudged
=============================================================================

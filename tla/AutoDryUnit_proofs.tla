-------------------------- MODULE AutoDryUnit_proofs --------------------------
(***************************************************************************)
(* Proofs about the auto-drying rules of one unit, for every limit, length *)
(* of a drying and number of events.                                       *)
(*                                                                         *)
(* First, for each change the code makes to a unit's state, that the new   *)
(* state is one and the few fields that the invariant relates; the changes *)
(* are built up a few fields at a time.  Then the invariant and, action by *)
(* action, that it is inductive.                                           *)
(***************************************************************************)
EXTENDS AutoDryUnit, TLAPS

\* The cap of the saturating counts.
LEMMA CapType == Cap \in Nat /\ Cap = MaxRuns + 2
BY UnitAssumption DEF Cap

\* A saturating count stays in range and never exceeds what it counts.
LEMMA AtMostType ==
  ASSUME NEW n \in Nat PROVE AtMost(n) \in 0..Cap /\ AtMost(n) <= n /\ (n > 0 => AtMost(n) > 0)
BY CapType, UnitAssumption DEF AtMost

\* What each field of a unit's state may be.
LEMMA Fields ==
  ASSUME NEW s \in States
  PROVE  /\ s.series \in 0..Cap /\ s.runs \in 0..Cap
         /\ s.closed \in BOOLEAN /\ s.seen \in BOOLEAN /\ s.repeat \in BOOLEAN
         /\ s.backoff \in BOOLEAN /\ s.entry \in BOOLEAN /\ s.mode \in BOOLEAN
         /\ s.hold \in {"none", "manual", "foreign"} /\ s.stop \in {"none", "fresh", "old"}
         /\ s.phase \in {"idle", "running", "foreign", "settle"}
BY DEF States

\* The range of a drying's length.
LEMMA PlanType == Plan \in 0..Plan /\ 0 \in 0..Plan
BY UnitAssumption

\* The clean-up at the top of a check drops at most an old stop.
LEMMA FreshType ==
  ASSUME st \in States
  PROVE  /\ Fresh \in States
         /\ Fresh.phase = st.phase /\ Fresh.origin = st.origin /\ Fresh.series = st.series
         /\ Fresh.closed = st.closed /\ Fresh.seen = st.seen /\ Fresh.repeat = st.repeat
         /\ Fresh.runs = st.runs /\ Fresh.end = st.end /\ Fresh.hold = st.hold
         /\ Fresh.backoff = st.backoff /\ (Tracked(st) => Fresh.stop = st.stop)
<1>1. Fresh \in States
  BY DEF Fresh, States
<1> QED BY <1>1 DEF Fresh, States, Tracked

\* A reset by the maintenance mode.
LEMMA MaintResetType ==
  ASSUME st \in States
  PROVE  MaintReset \in States /\ MaintReset.phase = "idle" /\ MaintReset.repeat = FALSE
<1> DEFINE a == [NewState EXCEPT !.runs = st.runs, !.mode = TRUE]
           b == [a EXCEPT !.hold = IF st.mode THEN st.hold ELSE "none"]
           c == [b EXCEPT !.stop = IF st.mode THEN Fresh.stop ELSE "none"]
<1>1. NewState \in States /\ NewState.phase = "idle" /\ NewState.repeat = FALSE
  BY CapType, UnitAssumption DEF NewState, States, Ends
<1>2. Fresh.stop \in {"none", "fresh", "old"}
  BY FreshType DEF States
<1>3. a \in States /\ a.phase = "idle" /\ a.repeat = FALSE
  <2> HIDE DEF NewState
  <2> QED BY <1>1, Fields, ZenonT(60) DEF States
<1>4. b \in States /\ b.phase = "idle" /\ b.repeat = FALSE
  <2> HIDE DEF a
  <2> QED BY <1>3, Fields, ZenonT(60) DEF States
<1>5. c \in States /\ c.phase = "idle" /\ c.repeat = FALSE
  <2> HIDE DEF b
  <2> QED BY <1>2, <1>4, ZenonT(60) DEF States
<1>6. MaintReset = c
  BY Zenon DEF MaintReset
<1> QED BY <1>5, <1>6

\* A drying that someone else's start overwrote.
LEMMA TakenOverType ==
  ASSUME NEW s \in States
  PROVE  TakenOver(s) \in States /\ TakenOver(s).phase = "foreign" /\ TakenOver(s).stop = s.stop
<1> DEFINE a == [s EXCEPT !.phase = "foreign", !.origin = "none"]
           n == AtMost(s.runs + 1)
           b == [a EXCEPT !.expect = 0, !.runs = n]
<1>1. n \in 0..Cap
  BY Fields, CapType, AtMostType
<1>2. a \in States /\ a.phase = "foreign" /\ a.stop = s.stop
  BY DEF States
<1>3. TakenOver(s) = b
  BY Zenon DEF TakenOver
<1>4. b \in States /\ b.phase = "foreign" /\ b.stop = s.stop
  <2> HIDE DEF a, n
  <2> QED BY <1>1, <1>2, PlanType, ZenonT(60) DEF States
<1> QED BY <1>3, <1>4

\* A start that never began, and its place given back.
LEMMA NeverBeganType ==
  ASSUME NEW s \in States, Uncounted \in 0..Cap,
         s.series = st.series, st.series \in 0..Cap
  PROVE  /\ NeverBegan(s) \in States
         /\ NeverBegan(s).phase = "idle" /\ NeverBegan(s).repeat = Again
         /\ NeverBegan(s).runs = Uncounted
         /\ Again => NeverBegan(s).series = st.series - 1
<1> DEFINE a == [s EXCEPT !.phase = "idle", !.origin = "none", !.expect = 0]
           n == IF Again THEN s.series - 1 ELSE 0
           b == [a EXCEPT !.runs = Uncounted, !.series = n]
           c == [b EXCEPT !.repeat = Again]
<1>1. n \in 0..Cap /\ Again \in BOOLEAN
  BY CapType DEF Again
<1>2. a \in States /\ a.phase = "idle"
  BY PlanType DEF States
<1>3. b \in States /\ b.phase = "idle" /\ b.runs = Uncounted /\ b.series = n
  <2> HIDE DEF a, n
  <2> QED BY <1>1, <1>2, ZenonT(60) DEF States
<1>4. c \in States /\ c.phase = "idle" /\ c.runs = Uncounted /\ c.series = n /\ c.repeat = Again
  <2> HIDE DEF b, n
  <2> QED BY <1>1, <1>3, ZenonT(60) DEF States
<1>5. NeverBegan(s) = c
  BY Zenon DEF NeverBegan
<1> QED BY <1>4, <1>5

\* The end of a tracked drying.
LEMMA SettledType ==
  ASSUME NEW s \in States, NEW early \in BOOLEAN, EndKind \in Ends
  PROVE  /\ Settled(s, early) \in States /\ Settled(s, early).phase = "settle"
         /\ Settled(s, early).closed = (s.closed \/ Closes(early))
<1> DEFINE a == [s EXCEPT !.phase = "settle", !.end = EndKind, !.wait = "settle"]
           k == s.closed \/ Closes(early)
           e == s.entry \/ EndKind # "stop"
           b == [a EXCEPT !.closed = k, !.entry = e]
           h == IF early /\ Holds THEN "foreign" ELSE s.hold
           c == [b EXCEPT !.hold = h]
           d == [c EXCEPT !.stop = "none", !.seen = FALSE, !.expect = 0]
<1>0. k \in BOOLEAN /\ e \in BOOLEAN /\ h \in {"none", "manual", "foreign"}
  BY Fields
<1>1. a \in States /\ a.phase = "settle"
  BY DEF States
<1>2. b \in States /\ b.phase = "settle" /\ b.closed = k
  <2> HIDE DEF a, k, e
  <2> QED BY <1>0, <1>1, ZenonT(60) DEF States
<1>3. c \in States /\ c.phase = "settle" /\ c.closed = b.closed
  <2> HIDE DEF b, h
  <2> QED BY <1>0, <1>2, ZenonT(60) DEF States
<1>4. d \in States /\ d.phase = "settle" /\ d.closed = c.closed
  <2> HIDE DEF c
  <2> QED BY <1>3, PlanType, ZenonT(60) DEF States
<1>5. Settled(s, early) = d
  BY Zenon DEF Settled
<1> QED BY <1>2, <1>3, <1>4, <1>5

\* An end taken back, as the drying is back.
LEMMA UndoneType ==
  ASSUME NEW s \in States
  PROVE  Undone(s) \in States /\ Undone(s).phase = "foreign"
<1> DEFINE a == [s EXCEPT !.phase = "foreign", !.origin = "none", !.closed = FALSE]
           b == [a EXCEPT !.end = "none", !.seen = FALSE, !.entry = FALSE]
           n == IF s.end = "interrupted" THEN AtMost(s.runs + 1) ELSE s.runs
           h == IF s.end = "foreign_end" /\ s.hold = "foreign" THEN "none" ELSE s.hold
           c == [b EXCEPT !.runs = n]
           d == [c EXCEPT !.wait = "settle", !.hold = h]
<1>1. n \in 0..Cap /\ h \in {"none", "manual", "foreign"}
  BY Fields, CapType, AtMostType
<1>2. a \in States /\ a.phase = "foreign"
  BY DEF States
<1>3. b \in States /\ b.phase = "foreign"
  <2> HIDE DEF a
  <2> QED BY <1>2, ZenonT(60) DEF States, Ends
<1>4. c \in States /\ c.phase = "foreign"
  <2> HIDE DEF b, n
  <2> QED BY <1>1, <1>3, ZenonT(60) DEF States
<1>5. d \in States /\ d.phase = "foreign"
  <2> HIDE DEF c, h
  <2> QED BY <1>1, <1>4, ZenonT(60) DEF States
<1>6. Undone(s) = d
  BY Zenon DEF Undone
<1> QED BY <1>5, <1>6

\* A drying nobody here started.
LEMMA ForeignType ==
  ASSUME NEW s \in States
  PROVE  Foreign(s) \in States /\ Foreign(s).phase = "foreign"
<1> DEFINE a == [s EXCEPT !.phase = "foreign", !.origin = "none", !.closed = FALSE]
           b == [a EXCEPT !.end = "none", !.seen = FALSE, !.entry = FALSE]
           m == IF s.phase = "settle" \/ s.repeat THEN AtMost(s.series + 1) ELSE 1
           n == AtMost(s.runs + 1)
           c == [b EXCEPT !.wait = "settle", !.repeat = FALSE]
           d == [c EXCEPT !.series = m]
           f == [d EXCEPT !.runs = n]
<1>1. m \in 0..Cap /\ n \in 0..Cap
  BY Fields, CapType, AtMostType, UnitAssumption
<1>2. a \in States /\ a.phase = "foreign"
  BY DEF States
<1>3. b \in States /\ b.phase = "foreign"
  <2> HIDE DEF a
  <2> QED BY <1>2, ZenonT(60) DEF States, Ends
<1>4. c \in States /\ c.phase = "foreign"
  <2> HIDE DEF b
  <2> QED BY <1>3, ZenonT(60) DEF States
<1>5. d \in States /\ d.phase = "foreign"
  <2> HIDE DEF c, m
  <2> QED BY <1>1, <1>4, ZenonT(60) DEF States
<1>6. f \in States /\ f.phase = "foreign"
  <2> HIDE DEF d, n
  <2> QED BY <1>1, <1>5, ZenonT(60) DEF States
<1>7. Foreign(s) = f
  BY Zenon DEF Foreign
<1> QED BY <1>6, <1>7

\* The outcome of a settling unit.
LEMMA MeasuredType ==
  ASSUME NEW s \in States
  PROVE  /\ Measured(s) \in States /\ Measured(s).phase = "idle"
         /\ Measured(s).repeat = (Outcome = "repeat") /\ Measured(s).runs = s.runs
         /\ Outcome = "repeat" => Measured(s).series = s.series
<1> DEFINE a == [s EXCEPT !.phase = "idle", !.origin = "none", !.closed = FALSE]
           r == (Outcome = "repeat")
           b == [a EXCEPT !.entry = FALSE, !.repeat = r]
           n == IF Outcome = "repeat" THEN s.series ELSE 0
           f == s.backoff \/ Outcome = "unreachable"
           c == [b EXCEPT !.series = n, !.backoff = f, !.wait = "settle"]
<1>1. n \in 0..Cap /\ r \in BOOLEAN /\ f \in BOOLEAN
  BY Fields, CapType
<1>2. a \in States /\ a.phase = "idle" /\ a.runs = s.runs
  BY DEF States
<1>3. b \in States /\ b.phase = "idle" /\ b.runs = s.runs /\ b.repeat = r
  <2> HIDE DEF a, r
  <2> QED BY <1>1, <1>2, ZenonT(60) DEF States
<1>4. c \in States /\ c.phase = "idle" /\ c.runs = s.runs /\ c.repeat = r /\ c.series = n
  <2> HIDE DEF b, n, r, f
  <2> QED BY <1>1, <1>3, ZenonT(60) DEF States
<1>5. Measured(s) = c
  BY Zenon DEF Measured
<1> QED BY <1>4, <1>5

\* An accepted start.
LEMMA RunningType ==
  ASSUME NEW s \in States, NEW origin \in {"auto", "now", "manual"}, NEW n \in Nat
  PROVE  /\ Running(s, origin, n) \in States
         /\ Running(s, origin, n).phase = "running" /\ Running(s, origin, n).origin = origin
         /\ Running(s, origin, n).series = AtMost(n) /\ Running(s, origin, n).runs = s.runs
<1> DEFINE k == AtMost(n)
           a == [s EXCEPT !.phase = "running", !.origin = origin, !.series = k]
           b == [a EXCEPT !.closed = FALSE, !.end = "none", !.seen = FALSE]
           c == [b EXCEPT !.repeat = FALSE, !.stop = "none", !.entry = FALSE]
           d == [c EXCEPT !.wait = "settle", !.expect = Plan]
<1>1. k \in 0..Cap
  BY AtMostType
<1>2. a \in States /\ a.phase = "running" /\ a.origin = origin /\ a.series = k /\ a.runs = s.runs
  <2> HIDE DEF k
  <2> QED BY <1>1, ZenonT(60) DEF States
<1>3. b \in States /\ b.phase = "running" /\ b.origin = origin /\ b.series = k /\ b.runs = s.runs
  <2> HIDE DEF a, k
  <2> QED BY <1>2, ZenonT(60) DEF States, Ends
<1>4. c \in States /\ c.phase = "running" /\ c.origin = origin /\ c.series = k /\ c.runs = s.runs
  <2> HIDE DEF b, k
  <2> QED BY <1>3, ZenonT(60) DEF States
<1>5. d \in States /\ d.phase = "running" /\ d.origin = origin /\ d.series = k /\ d.runs = s.runs
  <2> HIDE DEF c, k
  <2> QED BY <1>4, PlanType, ZenonT(60) DEF States
<1>6. Running(s, origin, n) = d
  BY Zenon DEF Running
<1> QED BY <1>5, <1>6

\* An accepted stop.
LEMMA StoppedType ==
  ASSUME NEW s \in States
  PROVE  /\ Stopped(s) \in States
         /\ Stopped(s).phase = s.phase /\ Stopped(s).repeat = FALSE /\ Stopped(s).stop = "fresh"
         /\ s.phase = "settle" => Stopped(s).closed
         /\ Stopped(s).origin = s.origin /\ Stopped(s).seen = s.seen /\ Stopped(s).runs = s.runs
         /\ s.phase # "idle" => Stopped(s).series = s.series
<1> DEFINE n == IF s.phase = "idle" THEN 0 ELSE s.series
           a == [s EXCEPT !.stop = "fresh", !.repeat = FALSE]
           h == IF Holds THEN "manual" ELSE s.hold
           k == s.closed \/ s.phase = "settle"
           b == [a EXCEPT !.hold = h, !.closed = k]
           c == [b EXCEPT !.series = n, !.entry = s.entry \/ Tracked(s)]
<1>1. /\ n \in 0..Cap /\ h \in {"none", "manual", "foreign"} /\ k \in BOOLEAN
      /\ s.phase = "settle" => k
  BY Fields, CapType
<1>2. /\ a \in States /\ a.phase = s.phase /\ a.repeat = FALSE /\ a.stop = "fresh"
      /\ a.origin = s.origin /\ a.seen = s.seen /\ a.runs = s.runs
  BY DEF States
<1>3. /\ b \in States /\ b.phase = s.phase /\ b.repeat = FALSE /\ b.stop = "fresh"
      /\ b.origin = s.origin /\ b.seen = s.seen /\ b.runs = s.runs
      /\ s.phase = "settle" => b.closed
  <2> HIDE DEF a, h, k
  <2> QED BY <1>1, <1>2, ZenonT(60) DEF States
<1>4. /\ c \in States /\ c.phase = s.phase /\ c.repeat = FALSE /\ c.stop = "fresh"
      /\ c.origin = s.origin /\ c.seen = s.seen /\ c.runs = s.runs
      /\ s.phase = "settle" => c.closed
      /\ c.series = n
  <2> HIDE DEF b, n
  <2> QED BY <1>1, <1>3, Fields, ZenonT(60) DEF States, Tracked
<1>5. Stopped(s) = c
  BY Zenon DEF Stopped
<1> QED BY <1>4, <1>5

-----------------------------------------------------------------------------
\* The engine's own start that nobody has seen yet is counted.
Counted == st.phase = "running" /\ st.origin = "auto" /\ ~st.seen => st.runs > 0

\* What ended a series is remembered until another drying begins: no repeat
\* waits, a settling unit is closed, a tracked drying is being stopped.
SeriesOver ==
  over # {} =>
    /\ st.phase = "idle" => ~st.repeat
    /\ st.phase = "settle" => st.closed
    /\ Tracked(st) => st.stop # "none"

\* A repeat that was claimed is still wanted when its start is sent.
DueKept == due = "repeat" => over = {} /\ st.phase = "idle" /\ st.repeat

\* A waiting repeat leaves room for one more run, and a repeat not seen yet
\* would give its place back.
Limits ==
  MaxRuns # 0 /\ ~exempt =>
    /\ st.phase = "idle" /\ st.repeat => st.runs < MaxRuns /\ st.series < MaxRuns
    /\ st.phase = "running" /\ st.origin = "auto" /\ ~st.seen /\ st.series > 1 =>
         st.runs <= MaxRuns /\ st.series <= MaxRuns

Rules == Counted /\ SeriesOver /\ DueKept /\ Limits
IInv == TypeOK /\ Rules

\* Another reason to end a series.
LEMMA OverType ==
  ASSUME TypeOK, NEW r \in {"stop", "maintenance", "foreign_stop"}
  PROVE  over \cup {r} \subseteq {"stop", "maintenance", "foreign_stop"}
BY DEF TypeOK

\* What a look at the drying leaves of it.
LEMMA SightType ==
  ASSUME Sight, left \in 0..Plan
  PROVE  rem' \in 0..Plan \cup {None} /\ ago' \in 0..2 /\ near' \in BOOLEAN
<1>1. near' \in BOOLEAN
  BY Zenon DEF Sight
<1> QED BY <1>1 DEF Sight

\* A check changes the unit's state and what is known, never the world.
CheckFrame ==
  /\ st \in States /\ Fresh \in States /\ due = "none" /\ 0 \in 0..2
  /\ up' = up /\ ams' = ams /\ left' = left /\ link' = link /\ why' = why
  /\ maint' = maint /\ on' = on /\ wet' = wet /\ rested' = rested
  /\ looked' = "yes" /\ events' = events

\* Every branch of decide.
LEMMA CheckFrameType ==
  ASSUME TypeOK, Check PROVE CheckFrame
BY FreshType DEF TypeOK, Check, device, CheckFrame

\* Nothing was seen.
LEMMA NoSightType ==
  ASSUME NoSight
  PROVE  rem' \in 0..Plan \cup {None} /\ ago' \in 0..2 /\ near' \in BOOLEAN
<1>1. 0 \in 0..2
  OBVIOUS
<1> QED BY <1>1, Zenon DEF NoSight

\* A check of a unit in maintenance mode, out of sight or still drying.
LEMMA CheckTrackedStep ==
  ASSUME IInv, Check, CheckMaintenance \/ CheckOffline \/ CheckDrying \/ CheckConfirming
  PROVE  IInv'
<1> USE DEF IInv
<1>0. CheckFrame
  BY CheckFrameType
<1> USE DEF CheckFrame
<1>1. CASE CheckMaintenance
  <2>1. CASE CardRunGoesOn
    <3>1. st' = [st EXCEPT !.seen = st.seen \/ Active] /\ UNCHANGED <<due, clear, exempt, orphan, over, hidden>>
      BY <1>1, <2>1 DEF CheckMaintenance
    <3>2. rem' \in 0..Plan \cup {None} /\ ago' \in 0..2 /\ near' \in BOOLEAN
      BY <1>1, <2>1, SightType DEF CheckMaintenance, TypeOK
    <3>3. st' \in States
      BY <1>0, <3>1, Fields, ZenonT(60) DEF States
    <3>4. TypeOK'
      BY <1>0, <3>1, <3>2, <3>3 DEF TypeOK, hidden
    <3>5. Rules'
      BY <1>0, <2>1, <3>1 DEF Rules, Counted, SeriesOver, DueKept, Limits, CardRunGoesOn, States, Tracked
    <3> QED BY <3>4, <3>5
  <2>2. CASE ~CardRunGoesOn
    <3>1. /\ st' = MaintReset /\ NoSight
          /\ over' = over \cup {"maintenance"} /\ Unhidden
          /\ UNCHANGED <<due, clear, exempt, orphan>>
      BY <1>1, <2>2 DEF CheckMaintenance
    <3>2. st' \in States /\ st'.phase = "idle" /\ st'.repeat = FALSE
      BY <1>0, <3>1, MaintResetType
    <3>6. over' \subseteq {"stop", "maintenance", "foreign_stop"}
      BY <3>1, OverType
    <3>3. /\ rem' \in 0..Plan \cup {None}
          /\ near' \in BOOLEAN /\ blind' \in BOOLEAN /\ swapped' \in BOOLEAN /\ ago' \in 0..2
          /\ due' = due /\ clear' = clear /\ exempt' = exempt /\ orphan' = orphan
      BY <1>0, <3>1, NoSightType, Zenon DEF Unhidden, TypeOK
    <3>5. TypeOK'
      BY <1>0, <3>2, <3>3, <3>6 DEF TypeOK
    <3>4. Rules'
      BY <1>0, <3>1, <3>2 DEF Rules, Counted, SeriesOver, DueKept, Limits, Tracked
    <3> QED BY <3>4, <3>5
  <2> QED BY <2>1, <2>2
<1>2. CASE CheckOffline \/ CheckConfirming
  <2>1. st' = Fresh /\ UNCHANGED <<rem, ago, near, due, clear, ghosts>> /\ Tracked(st)
    BY <1>2 DEF CheckOffline, CheckConfirming, NotSeen, Tracked
  <2>2. TypeOK'
    BY <1>0, <2>1 DEF TypeOK, ghosts, hidden
  <2>3. Rules'
    BY <1>0, <2>1, FreshType DEF Rules, Counted, SeriesOver, DueKept, Limits, Tracked, ghosts, hidden
  <2> QED BY <2>2, <2>3
<1>3. CASE CheckDrying
  <2>1. Tracked(st) /\ UNCHANGED <<due, clear, over, exempt, orphan>>
    BY <1>3 DEF CheckDrying
  <2>6. blind' \in BOOLEAN /\ swapped' \in BOOLEAN /\ near' \in BOOLEAN
    BY <1>3, Zenon DEF CheckDrying, Sight, TypeOK, hidden
  <2>7. rem' \in 0..Plan \cup {None} /\ ago' \in 0..2
    BY <1>3 DEF CheckDrying, Sight, TypeOK
  <2>2. \/ st' = Fresh \/ st' = TakenOver(Fresh)
        \/ st' = [Fresh EXCEPT !.seen = Fresh.seen \/ st.phase = "running"]
    BY <1>3 DEF CheckDrying
  <2>3. /\ st' \in States /\ st'.stop = Fresh.stop
        /\ st'.phase = "foreign" \/ (st'.phase = Fresh.phase /\ st'.origin = Fresh.origin
             /\ st'.runs = Fresh.runs /\ st'.series = Fresh.series /\ (Fresh.seen => st'.seen))
    <3>1. CASE st' = Fresh
      BY <1>0, <3>1, Fields
    <3>2. CASE st' = TakenOver(Fresh)
      BY <1>0, <3>2, TakenOverType
    <3>3. CASE st' = [Fresh EXCEPT !.seen = Fresh.seen \/ st.phase = "running"]
      <4> DEFINE k == Fresh.seen \/ st.phase = "running"
      <4>1. k \in BOOLEAN /\ (Fresh.seen => k)
        BY <1>0, Fields
      <4>2. st' = [Fresh EXCEPT !.seen = k]
        BY <3>3
      <4> HIDE DEF k
      <4> QED BY <1>0, <4>1, <4>2, Fields DEF States
    <3> QED BY <2>2, <3>1, <3>2, <3>3
  <2>4. TypeOK'
    BY <1>0, <2>1, <2>3, <2>6, <2>7 DEF TypeOK
  <2>5. Rules'
    BY <1>0, <2>1, <2>3, FreshType DEF Rules, Counted, SeriesOver, DueKept, Limits, Tracked
  <2> QED BY <2>4, <2>5
<1> QED BY <1>1, <1>2, <1>3

\* A check of a unit whose drying never began or is over.
LEMMA CheckOverStep ==
  ASSUME IInv, Check, CheckUnconfirmed \/ CheckEnd
  PROVE  IInv'
<1> USE DEF IInv
<1>0. CheckFrame
  BY CheckFrameType
<1>1. CASE CheckUnconfirmed
  <2>1. /\ st' = NeverBegan(Fresh) /\ NoSight /\ Unhidden /\ clear' = (clear /\ st.origin # "auto")
        /\ UNCHANGED <<due, over, exempt, orphan>>
        /\ st.phase = "running" /\ ~st.seen /\ st.stop = "none"
    BY <1>1 DEF CheckUnconfirmed, NotSeen
  <2>2. Uncounted \in 0..Cap /\ (st.origin = "auto" => Uncounted < st.runs)
    BY <1>0, <2>1, Fields, CapType, UnitAssumption DEF Uncounted, Rules, Counted, CheckFrame
  <2>3. /\ st' \in States /\ st'.phase = "idle" /\ st'.repeat = Again /\ st'.runs = Uncounted
        /\ Again => st'.series = st.series - 1
    BY <1>0, <2>1, <2>2, NeverBeganType, FreshType, Fields DEF CheckFrame
  <2>4. /\ rem' \in 0..Plan \cup {None} /\ ago' \in 0..2 /\ near' \in BOOLEAN /\ blind' \in BOOLEAN /\ swapped' \in BOOLEAN
        /\ clear' \in BOOLEAN /\ due' = due /\ over' = over /\ exempt' = exempt /\ orphan' = orphan
    BY <2>1, NoSightType, Zenon DEF Unhidden
  <2>5. TypeOK'
    BY <1>0, <2>3, <2>4 DEF TypeOK, CheckFrame
  <2>6. over = {}
    BY <2>1 DEF Rules, SeriesOver, Tracked
  <2>7. Again /\ MaxRuns # 0 /\ ~exempt => st'.runs < MaxRuns /\ st'.series < MaxRuns
    BY <1>0, <2>1, <2>2, <2>3, Fields, CapType, UnitAssumption DEF CheckFrame, Rules, Limits, Again
  <2>8. Rules'
    BY <1>0, <2>3, <2>4, <2>6, <2>7 DEF Rules, Counted, SeriesOver, DueKept, Limits, CheckFrame, Tracked
  <2> QED BY <2>5, <2>8
<1>2. CASE CheckEnd
  <2> DEFINE early == EndKind = "foreign_end" /\ Early
  <2>1. /\ st' = Settled(Fresh, early) /\ NoSight /\ Unhidden
        /\ clear' = (clear /\ EndKind # "interrupted")
        /\ UNCHANGED <<due, exempt, orphan>> /\ Tracked(st)
    BY <1>2 DEF CheckEnd
  <2>2. over' = IF early THEN over \cup {"foreign_stop"} ELSE over
    BY <1>2 DEF CheckEnd
  <2>3. EndKind \in Ends
    BY <2>1 DEF EndKind, Ends, Tracked
  <2>4. early \in BOOLEAN
    OBVIOUS
  <2>5. over # {} => EndKind = "stop"
    BY <2>1 DEF Rules, SeriesOver, EndKind
  <2> HIDE DEF early
  <2>6. st' \in States /\ st'.phase = "settle" /\ (Closes(early) => st'.closed)
    BY <1>0, <2>1, <2>3, <2>4, SettledType, ZenonT(60) DEF CheckFrame
  <2>7. over' \subseteq {"stop", "maintenance", "foreign_stop"}
    BY <2>2, OverType DEF TypeOK
  <2>8. /\ rem' \in 0..Plan \cup {None} /\ ago' \in 0..2 /\ near' \in BOOLEAN /\ blind' \in BOOLEAN /\ swapped' \in BOOLEAN
        /\ clear' \in BOOLEAN /\ due' = due /\ exempt' = exempt /\ orphan' = orphan
    BY <2>1, NoSightType, Zenon DEF Unhidden
  <2>9. TypeOK'
    BY <1>0, <2>6, <2>7, <2>8 DEF TypeOK, CheckFrame
  <2>10. over' # {} => st'.closed
    BY <2>2, <2>5, <2>6 DEF Closes
  <2>11. Rules'
    BY <1>0, <2>6, <2>8, <2>10 DEF Rules, Counted, SeriesOver, DueKept, Limits, CheckFrame, Tracked
  <2> QED BY <2>9, <2>11
<1> QED BY <1>1, <1>2

\* What becomes due.
LEMMA DueForType ==
  ASSUME NEW s
  PROVE  /\ DueFor(s) \in {"none", "start", "repeat"}
         /\ DueFor(s) = "repeat" => s.repeat
         /\ DueFor(s) = "start" /\ MaxRuns # 0 => s.runs < MaxRuns
BY DEF DueFor

\* A check of a unit that is not drying for us, or dries unasked.
LEMMA CheckUntrackedStep ==
  ASSUME IInv, Check, CheckForeign \/ CheckIdle \/ CheckSettling \/ CheckMeasure
  PROVE  IInv'
<1> USE DEF IInv
<1>0. CheckFrame /\ Fresh.phase = st.phase /\ ~Tracked(st) /\ st.phase \in {"idle", "settle"}
  BY CheckFrameType, FreshType, Fields DEF CheckForeign, CheckIdle, CheckSettling, CheckMeasure, Tracked, CheckFrame
<1>1. CASE CheckForeign
  <2>1. /\ UNCHANGED <<due, clear, exempt, orphan>>
        /\ \/ st' = Fresh /\ UNCHANGED <<rem, ago, near, hidden, over>>
           \/ (st' = Undone(Fresh) \/ st' = Foreign(Fresh)) /\ Sight /\ Unhidden /\ over' = {}
    BY <1>1 DEF CheckForeign
  <2>2. CASE st' = Fresh /\ UNCHANGED <<rem, ago, near, hidden, over>>
    <3>1. TypeOK'
      BY <1>0, <2>1, <2>2 DEF TypeOK, CheckFrame, hidden
    <3>2. Rules'
      BY <1>0, <2>1, <2>2, FreshType DEF Rules, Counted, SeriesOver, DueKept, Limits, CheckFrame, Tracked
    <3> QED BY <3>1, <3>2
  <2>3. CASE (st' = Undone(Fresh) \/ st' = Foreign(Fresh)) /\ Sight /\ Unhidden /\ over' = {}
    <3>1. st' \in States /\ st'.phase = "foreign"
      BY <1>0, <2>3, UndoneType, ForeignType DEF CheckFrame
    <3>2. /\ rem' \in 0..Plan \cup {None} /\ ago' \in 0..2 /\ near' \in BOOLEAN /\ blind' \in BOOLEAN /\ swapped' \in BOOLEAN
          /\ over' = {} /\ over' \subseteq {"stop", "maintenance", "foreign_stop"}
          /\ due' = due /\ clear' = clear /\ exempt' = exempt /\ orphan' = orphan
      <4>1. left \in 0..Plan
        BY DEF TypeOK
      <4> QED BY <2>1, <2>3, <4>1, SightType, Zenon DEF Unhidden
    <3>3. TypeOK'
      BY <1>0, <3>1, <3>2 DEF TypeOK, CheckFrame
    <3>4. Rules'
      BY <1>0, <3>1, <3>2 DEF Rules, Counted, SeriesOver, DueKept, Limits, CheckFrame, Tracked
    <3> QED BY <3>3, <3>4
  <2> QED BY <2>1, <2>2, <2>3
<1>2. CASE CheckIdle
  <2>1. st' = Fresh /\ due' = DueFor(Fresh) /\ UNCHANGED <<rem, ago, near, clear, ghosts>> /\ st.phase = "idle"
    BY <1>2 DEF CheckIdle
  <2>2. TypeOK'
    BY <1>0, <2>1, DueForType DEF TypeOK, CheckFrame, ghosts, hidden
  <2>3. Rules'
    BY <1>0, <2>1, FreshType, DueForType DEF Rules, Counted, SeriesOver, DueKept, Limits, CheckFrame, Tracked, ghosts, hidden
  <2> QED BY <2>2, <2>3
<1>3. CASE CheckSettling
  <2>1. st' = Fresh /\ UNCHANGED <<rem, ago, near, due, clear, ghosts>>
    BY <1>3 DEF CheckSettling
  <2>2. TypeOK'
    BY <1>0, <2>1 DEF TypeOK, CheckFrame, ghosts, hidden
  <2>3. Rules'
    BY <1>0, <2>1, FreshType DEF Rules, Counted, SeriesOver, DueKept, Limits, CheckFrame, Tracked, ghosts, hidden
  <2> QED BY <2>2, <2>3
<1>4. CASE CheckMeasure
  <2>1. /\ st' = Measured(Fresh) /\ due' = DueFor(st') /\ UNCHANGED <<rem, ago, near, clear, hidden, over, orphan>>
        /\ st.phase = "settle"
    BY <1>4 DEF CheckMeasure
  <2>2. exempt' = (Outcome = "repeat" /\ st.end = "interrupted")
    BY <1>4 DEF CheckMeasure
  <2>3. /\ st' \in States /\ st'.phase = "idle" /\ st'.repeat = (Outcome = "repeat") /\ st'.runs = st.runs
        /\ Outcome = "repeat" => st'.series = st.series
    BY <1>0, <2>1, MeasuredType, FreshType DEF CheckFrame
  <2>4. Outcome = "repeat" => ~st.closed /\ ~Unreachable /\ ~Limited
    BY DEF Outcome
  <2>5. exempt' \in BOOLEAN
    BY <2>2
  <2>6. TypeOK'
    BY <1>0, <2>1, <2>3, <2>5, DueForType DEF TypeOK, CheckFrame, hidden
  <2>7. Outcome = "repeat" => over = {} /\ (MaxRuns # 0 /\ ~exempt' => st.runs < MaxRuns /\ st.series < MaxRuns)
    <3>1. st.runs \in Nat /\ st.series \in Nat /\ MaxRuns \in Nat
      BY <1>0, Fields, CapType, UnitAssumption DEF CheckFrame
    <3>2. Outcome = "repeat" => over = {}
      BY <2>1, <2>4 DEF Rules, SeriesOver
    <3>3. Outcome = "repeat" /\ ~exempt' => st.end # "interrupted"
      BY <2>2
    <3>4. MaxRuns # 0 /\ st.end # "interrupted" /\ ~Unreachable /\ ~Limited => st.runs < MaxRuns /\ st.series < MaxRuns
      BY <3>1 DEF Unreachable, Limited
    <3> QED BY <2>4, <3>2, <3>3, <3>4
  <2>8. Rules'
    BY <1>0, <2>1, <2>3, <2>7, DueForType DEF Rules, Counted, SeriesOver, DueKept, Limits, Tracked
  <2> QED BY <2>6, <2>8
<1> QED BY <1>1, <1>2, <1>3, <1>4

\* Every branch of decide keeps the invariant.
LEMMA CheckStep ==
  ASSUME IInv, Check PROVE IInv'
BY CheckTrackedStep, CheckOverStep, CheckUntrackedStep DEF Check

\* A start that the printer accepted.
LEMMA BeginsType ==
  ASSUME TypeOK, Begins
  PROVE  /\ ams' \in {"off", "starting", "on"} /\ left' \in 0..Plan /\ blind' \in BOOLEAN /\ swapped' \in BOOLEAN
         /\ rem' \in 0..Plan \cup {None} /\ ago' \in 0..2 /\ near' \in BOOLEAN
         /\ why' \in {"none", "ranout", "off", "stop"} /\ orphan' \in BOOLEAN
<1>1. 0 \in 0..2 /\ Plan \in 0..Plan
  BY PlanType
<1> QED BY <1>1, Zenon DEF Begins, TypeOK, Unhidden

\* A bounded event.
LEMMA EventType ==
  ASSUME TypeOK, Event PROVE events' \in 0..MaxEvents
BY UnitAssumption DEF Event, TypeOK

\* The engine's start and its refusal.
LEMMA StartStep ==
  ASSUME IInv, StartAccepted \/ StartRefused \/ StartDropped
  PROVE  IInv'
<1> USE DEF IInv
<1>1. CASE StartAccepted
  <2> DEFINE n == IF due = "repeat" THEN st.series + 1 ELSE 1
             s == Running(st, "auto", n)
             k == AtMost(s.runs + 1)
  <2>1. st' = [s EXCEPT !.runs = k]
    BY <1>1, Zenon DEF StartAccepted
  <2>2. /\ due \in {"start", "repeat"} /\ due' = "none" /\ over' = (IF due = "start" THEN {} ELSE over)
        /\ Begins /\ UNCHANGED <<link, world, looked, exempt, events>>
    BY <1>1 DEF StartAccepted, TypeOK
  <2>3. st \in States /\ st.runs \in 0..Cap /\ st.series \in 0..Cap /\ MaxRuns \in Nat /\ n \in Nat
    BY Fields, CapType, UnitAssumption DEF TypeOK
  <2>4. /\ s \in States /\ s.phase = "running" /\ s.origin = "auto"
        /\ s.series = AtMost(n) /\ s.runs = st.runs
    <3>1. "auto" \in {"auto", "now", "manual"}
      OBVIOUS
    <3>2. st \in States /\ n \in Nat
      BY <2>3
    <3> HIDE DEF n
    <3>3. /\ Running(st, "auto", n) \in States
          /\ Running(st, "auto", n).phase = "running" /\ Running(st, "auto", n).origin = "auto"
          /\ Running(st, "auto", n).series = AtMost(n) /\ Running(st, "auto", n).runs = st.runs
      BY <3>1, <3>2, RunningType, ZenonT(60)
    <3> QED BY <3>3, Zenon
  <2>5. k \in 0..Cap /\ k <= st.runs + 1 /\ k > 0 /\ s.series <= n
    BY <2>3, <2>4, CapType, AtMostType
  <2>6. /\ st' \in States /\ st'.phase = "running" /\ st'.origin = "auto"
        /\ st'.series = s.series /\ st'.runs = k
    <3> HIDE DEF k, s
    <3> QED BY <2>1, <2>4, <2>5 DEF States
  <2>7. over' = {}
    BY <2>2 DEF Rules, DueKept
  <2>8. TypeOK'
    BY <2>2, <2>6, <2>7, BeginsType DEF TypeOK, world
  <2>9. st'.series > 1 /\ MaxRuns # 0 /\ ~exempt => st'.runs <= MaxRuns /\ st'.series <= MaxRuns
    <3>1. due = "start" => n = 1
      OBVIOUS
    <3>2. due = "repeat" /\ MaxRuns # 0 /\ ~exempt => st.runs < MaxRuns /\ st.series < MaxRuns
      BY DEF Rules, DueKept, Limits
    <3>3. s.series \in 0..Cap
      BY <2>4, Fields
    <3> QED BY <2>2, <2>3, <2>5, <2>6, <3>1, <3>2, <3>3, CapType
  <2>10. Rules'
    <3> HIDE DEF s, k
    <3> QED BY <2>2, <2>5, <2>6, <2>7, <2>9 DEF Rules, Counted, SeriesOver, DueKept, Limits
  <2> QED BY <2>8, <2>10
<1>2. CASE StartRefused \/ StartDropped
  <2>1. /\ due' = "none" /\ clear' \in BOOLEAN
        /\ UNCHANGED <<known, device, up, maint, on, wet, rested, looked, ghosts, events>>
    BY <1>2 DEF StartRefused, StartDropped, TypeOK, world
  <2>2. TypeOK'
    BY <2>1 DEF TypeOK, known, device, ghosts, hidden
  <2>3. Rules'
    BY <2>1 DEF Rules, Counted, SeriesOver, DueKept, Limits, Tracked, known, ghosts, hidden
  <2> QED BY <2>2, <2>3
<1> QED BY <1>1, <1>2

\* A drying someone else asked the service for.
LEMMA RequestStep ==
  ASSUME IInv, RunNow \/ UserStart
  PROVE  IInv'
<1> USE DEF IInv
<1>1. PICK origin \in {"now", "manual"}, n \in Nat, k \in 0..Cap :
        st' = [[Running(st, origin, n) EXCEPT !.hold = "none"] EXCEPT !.runs = k]
  <2>1. st \in States /\ st.runs \in 0..Cap /\ st.series \in 0..Cap
    BY Fields DEF TypeOK
  <2>2. CASE RunNow
    <3> DEFINE n == IF Continues THEN st.series + 1 ELSE 1
               s == [Running(st, "now", n) EXCEPT !.hold = "none"]
    <3>1. st' = s /\ n \in Nat
      BY <2>1, <2>2, CapType DEF RunNow
    <3>2. s = [s EXCEPT !.runs = st.runs]
      <4>1. Running(st, "now", n) \in States /\ Running(st, "now", n).runs = st.runs
        <5> HIDE DEF n
        <5> QED BY <2>1, <3>1, RunningType, ZenonT(60)
      <4> QED BY <4>1 DEF States
    <3> HIDE DEF n
    <3> QED BY <2>1, <3>1, <3>2
  <2>3. CASE UserStart
    <3>1. PICK convert \in BOOLEAN :
            /\ convert => st.phase = "foreign" /\ st.runs > 0
            /\ st' = [Running(st, "manual", IF convert THEN st.series ELSE IF Continues THEN st.series + 1 ELSE 1)
                        EXCEPT !.hold = "none", !.runs = IF convert THEN @ - 1 ELSE @]
      BY <2>3 DEF UserStart
    <3> DEFINE n == IF convert THEN st.series ELSE IF Continues THEN st.series + 1 ELSE 1
               s == Running(st, "manual", n)
               k == IF convert THEN s.runs - 1 ELSE s.runs
    <3>2. n \in Nat
      BY <2>1, CapType
    <3>3. s.runs = st.runs
      <4> HIDE DEF n
      <4> QED BY <2>1, <3>2, RunningType
    <3>4. k \in 0..Cap
      BY <2>1, <3>1, <3>3, CapType
    <3>5. st' = [[s EXCEPT !.hold = "none"] EXCEPT !.runs = k]
      BY <3>1, Zenon
    <3> HIDE DEF n, k
    <3> QED BY <3>2, <3>4, <3>5
  <2> QED BY <2>2, <2>3
<1>2. /\ Begins /\ over' = {} /\ due = "none" /\ Event
      /\ UNCHANGED <<due, link, world, looked, exempt>>
  BY DEF RunNow, UserStart
<1>3. st' \in States /\ st'.phase = "running" /\ st'.origin # "auto"
  <2> DEFINE s == Running(st, origin, n)
  <2>1. s \in States /\ s.phase = "running" /\ s.origin = origin
    <3>1. st \in States /\ origin \in {"auto", "now", "manual"}
      BY DEF TypeOK
    <3> QED BY <3>1, RunningType
  <2> HIDE DEF s
  <2>2. st' = [[s EXCEPT !.hold = "none"] EXCEPT !.runs = k]
    BY <1>1 DEF s
  <2> QED BY <2>1, <2>2 DEF States
<1>4. TypeOK'
  BY <1>2, <1>3, BeginsType, EventType DEF TypeOK, world
<1>5. Rules'
  BY <1>2, <1>3 DEF Rules, Counted, SeriesOver, DueKept, Limits, Tracked
<1> QED BY <1>4, <1>5

\* An admin's stop.
LEMMA StopStep ==
  ASSUME IInv, Stop PROVE IInv'
<1> USE DEF IInv
<1>1. /\ st' = Stopped(st) /\ over' = over \cup {"stop"} /\ Event /\ due = "none"
      /\ UNCHANGED <<rem, ago, near, due, link, world, looked, hidden, exempt>>
  BY DEF Stop
<1>2. /\ orphan' \in BOOLEAN /\ ams' \in {"off", "starting", "on"} /\ left' \in 0..Plan
      /\ why' \in {"none", "ranout", "off", "stop"}
  BY PlanType DEF Stop, TypeOK
<1>3. /\ st' \in States /\ st.phase \in {"idle", "running", "foreign", "settle"}
      /\ st'.phase = st.phase /\ st'.repeat = FALSE /\ st'.stop = "fresh" /\ (st.phase = "settle" => st'.closed)
      /\ st'.origin = st.origin /\ st'.seen = st.seen /\ st'.runs = st.runs
      /\ (st.phase # "idle" => st'.series = st.series)
  BY <1>1, StoppedType, Fields DEF TypeOK
<1>4. over' \subseteq {"stop", "maintenance", "foreign_stop"}
  BY <1>1, OverType
<1>5. TypeOK'
  BY <1>1, <1>2, <1>3, <1>4, EventType DEF TypeOK, world, hidden
<1>6. Rules'
  BY <1>1, <1>3 DEF Rules, Counted, SeriesOver, DueKept, Limits, Tracked
<1> QED BY <1>5, <1>6

\* Tracking a drying or not is a truth value.
LEMMA TrackedType == \A s : Tracked(s) \in BOOLEAN
BY DEF Tracked

\* The AMS, the printer's link, the service and the settings leave the unit's
\* state alone.
LEMMA WorldStep ==
  ASSUME IInv,
         AmsBegins \/ AmsDoesNotBegin \/ SwitchedOff \/ OutsiderStarts \/ LinkDrops \/ LinkReturns
           \/ Crash \/ Restart \/ Maintenance \/ Automation \/ Dampens \/ Rests \/ Blocked \/ Cleared
  PROVE  IInv'
<1> USE DEF IInv
<1>1. st' = st /\ over' = over /\ exempt' = exempt /\ (due' = due \/ due' = "none")
  BY DEF AmsBegins, AmsDoesNotBegin, SwitchedOff, OutsiderStarts, LinkDrops, LinkReturns, Crash, Restart,
         Maintenance, Automation, Dampens, Rests, Blocked, Cleared, known, ghosts, hidden
<1>2. Rules'
  BY <1>1 DEF Rules, Counted, SeriesOver, DueKept, Limits, Tracked
<1>3. CASE AmsBegins \/ AmsDoesNotBegin \/ SwitchedOff \/ OutsiderStarts
  <2>1. looked' \in {"yes", "change", "hour"}
    BY <1>3 DEF AmsBegins, AmsDoesNotBegin, SwitchedOff, OutsiderStarts, Changes
  <2>2. events' \in 0..MaxEvents
    BY <1>3, EventType DEF AmsBegins, AmsDoesNotBegin, SwitchedOff, OutsiderStarts, TypeOK
  <2>3. ams' \in {"off", "starting", "on"} /\ left' \in 0..Plan /\ why' \in {"none", "ranout", "off", "stop"}
    BY <1>3, PlanType, UnitAssumption DEF AmsBegins, AmsDoesNotBegin, SwitchedOff, OutsiderStarts, TypeOK
  <2>4. rested' \in BOOLEAN /\ blind' \in BOOLEAN /\ swapped' \in BOOLEAN
    <3>1. CASE OutsiderStarts
      BY <3>1, TrackedType, Zenon DEF OutsiderStarts, TypeOK
    <3>2. CASE AmsBegins \/ AmsDoesNotBegin \/ SwitchedOff
      BY <3>2 DEF AmsBegins, AmsDoesNotBegin, SwitchedOff, TypeOK, world, ghosts, hidden
    <3> QED BY <1>3, <3>1, <3>2
  <2>5. UNCHANGED <<known, due, link, up, maint, on, wet, clear, exempt, orphan>>
    BY <1>3 DEF AmsBegins, AmsDoesNotBegin, SwitchedOff, OutsiderStarts, world, ghosts, hidden
  <2>6. TypeOK'
    BY <1>1, <2>1, <2>2, <2>3, <2>4, <2>5 DEF TypeOK, known
  <2> QED BY <1>2, <2>6
<1>4. CASE Crash
  <2>1. /\ NoSight /\ Event /\ due' = "none" /\ up' = FALSE /\ blind' = Tracked(st)
        /\ UNCHANGED <<st, device, maint, on, wet, rested, clear, looked, swapped, over, exempt, orphan>>
    BY <1>4 DEF Crash
  <2>2. up' \in BOOLEAN /\ blind' \in BOOLEAN /\ swapped' \in BOOLEAN
    BY <2>1, TrackedType DEF TypeOK
  <2>3. rem' \in 0..Plan \cup {None} /\ ago' \in 0..2 /\ near' \in BOOLEAN
    BY <2>1, NoSightType
  <2>4. due' \in {"none", "start", "repeat"} /\ events' \in 0..MaxEvents
    BY <2>1, EventType
  <2>5. UNCHANGED <<st, device, maint, on, wet, rested, clear, looked, swapped, over, exempt, orphan>>
    BY <2>1
  <2>6. TypeOK'
    BY <2>2, <2>3, <2>4, <2>5 DEF TypeOK, device
  <2> QED BY <1>2, <2>6
<1>5. CASE LinkDrops \/ LinkReturns \/ Restart \/ Maintenance \/ Automation \/ Dampens \/ Rests \/ Blocked \/ Cleared
  <2>1. events' \in 0..MaxEvents
    BY <1>5, EventType DEF LinkDrops, LinkReturns, Restart, Maintenance, Automation, Dampens, Rests, Blocked, Cleared, TypeOK
  <2>2. /\ link' \in BOOLEAN /\ up' \in BOOLEAN /\ maint' \in BOOLEAN /\ on' \in BOOLEAN
        /\ wet' \in BOOLEAN /\ rested' \in BOOLEAN /\ clear' \in BOOLEAN
    BY <1>5, Zenon DEF LinkDrops, LinkReturns, Restart, Maintenance, Automation, Dampens, Rests, Blocked, Cleared,
                       TypeOK, world, device
  <2>3. UNCHANGED <<known, due, ams, left, why, looked, ghosts>>
    BY <1>5 DEF LinkDrops, LinkReturns, Restart, Maintenance, Automation, Dampens, Rests, Blocked, Cleared, device
  <2>4. TypeOK'
    BY <2>1, <2>2, <2>3 DEF TypeOK, known, ghosts, hidden
  <2> QED BY <1>2, <2>4
<1> QED BY <1>3, <1>4, <1>5

\* An hour passes, or a timer of the unit's state runs out.
LEMMA TimeStep ==
  ASSUME IInv,
         Hour \/ Release \/ StopGraceOver \/ HoldRunsOut \/ BackoffRunsOut \/ SettleOver \/ RepeatAges \/ RunAges
  PROVE  IInv'
<1> USE DEF IInv
<1>0. /\ st \in States /\ st.expect \in 0..Plan /\ st.runs \in 0..Cap /\ st.series \in 0..Cap
      /\ 0 \in 0..Cap /\ MaxRuns \in Nat
  BY Fields, CapType, UnitAssumption DEF TypeOK, States
<1>1. CASE Hour
  <2> DEFINE e == IF st.expect > 0 THEN st.expect - 1 ELSE 0
  <2>1. e \in 0..Plan
    BY <1>0, UnitAssumption
  <2>2. st' = [st EXCEPT !.expect = e] /\ due = "none" /\ looked' = "hour"
        /\ UNCHANGED <<rem, near, due, link, world, ghosts, events>>
    BY <1>1 DEF Hour
  <2>3. ago' \in 0..2 /\ ams' \in {"off", "starting", "on"} /\ left' \in 0..Plan
        /\ why' \in {"none", "ranout", "off", "stop"}
    BY <1>1, UnitAssumption DEF Hour, TypeOK
  <2>4. /\ st' \in States /\ st'.phase = st.phase /\ st'.origin = st.origin /\ st'.seen = st.seen
        /\ st'.runs = st.runs /\ st'.series = st.series /\ st'.repeat = st.repeat
        /\ st'.closed = st.closed /\ st'.stop = st.stop
    <3> HIDE DEF e
    <3> QED BY <1>0, <2>1, <2>2 DEF States
  <2>5. TypeOK'
    BY <2>2, <2>3, <2>4 DEF TypeOK, world, ghosts, hidden
  <2>6. Rules'
    BY <2>2, <2>4 DEF Rules, Counted, SeriesOver, DueKept, Limits, Tracked, ghosts, hidden
  <2> QED BY <2>5, <2>6
<1>2. CASE Release \/ StopGraceOver \/ HoldRunsOut \/ BackoffRunsOut \/ SettleOver \/ RepeatAges \/ RunAges
  <2>1. UNCHANGED <<rem, ago, near, due, device, world, looked, ghosts>>
    BY <1>2 DEF Release, StopGraceOver, HoldRunsOut, BackoffRunsOut, SettleOver, RepeatAges, RunAges, Elapses
  <2>2. events' \in 0..MaxEvents
    BY <1>2, EventType DEF Release, StopGraceOver, HoldRunsOut, BackoffRunsOut, SettleOver, RepeatAges, RunAges, Elapses, TypeOK
  <2> DEFINE Kept == /\ st' \in States /\ st'.phase = st.phase /\ st'.origin = st.origin /\ st'.seen = st.seen
                     /\ st'.runs = st.runs /\ st'.series = st.series /\ st'.repeat = st.repeat
                     /\ st'.closed = st.closed /\ (st.stop # "none" => st'.stop # "none")
  <2>3. Kept \/ RepeatAges \/ RunAges
    <3>1. CASE Release
      BY <1>0, <3>1 DEF Release, States
    <3>2. CASE StopGraceOver
      BY <1>0, <3>2 DEF StopGraceOver, Elapses, States
    <3>3. CASE HoldRunsOut
      BY <1>0, <3>3 DEF HoldRunsOut, Elapses, States
    <3>4. CASE BackoffRunsOut
      BY <1>0, <3>4 DEF BackoffRunsOut, Elapses, States
    <3>5. CASE SettleOver
      BY <1>0, <3>5 DEF SettleOver, Elapses, States
    <3> QED BY <1>2, <3>1, <3>2, <3>3, <3>4, <3>5
  <2>7. RepeatAges => st' = [st EXCEPT !.repeat = FALSE, !.series = 0] /\ due = "none"
    BY DEF RepeatAges, Elapses
  <2>8. RunAges => /\ st' = [st EXCEPT !.runs = st.runs - 1] /\ due = "none"
                   /\ st.runs > IF st.phase = "running" /\ st.origin = "auto" /\ ~st.seen THEN 1 ELSE 0
    BY DEF RunAges, Elapses
  <2>9. RunAges => st.runs - 1 \in 0..Cap
    BY <1>0, <2>8, CapType
  <2>4. st' \in States
    <3>1. CASE RepeatAges
      BY <1>0, <2>7, <3>1, ZenonT(60) DEF States
    <3>2. CASE RunAges
      <4> DEFINE n == st.runs - 1
      <4>1. n \in 0..Cap /\ st' = [st EXCEPT !.runs = n]
        BY <2>8, <2>9, <3>2
      <4> HIDE DEF n
      <4> QED BY <1>0, <4>1 DEF States
    <3> QED BY <2>3, <3>1, <3>2
  <2>5. TypeOK'
    BY <2>1, <2>2, <2>4 DEF TypeOK, device, world, ghosts, hidden
  <2>6. Rules'
    <3>1. CASE RepeatAges
      <4>1. /\ st'.phase = st.phase /\ st'.origin = st.origin /\ st'.seen = st.seen /\ st'.runs = st.runs
            /\ st'.series = 0 /\ st'.repeat = FALSE /\ st'.closed = st.closed /\ st'.stop = st.stop
        BY <1>0, <2>7, <3>1 DEF States
      <4> QED BY <1>0, <2>1, <2>7, <3>1, <4>1 DEF Rules, Counted, SeriesOver, DueKept, Limits, Tracked, ghosts, hidden
    <3>2. CASE RunAges
      <4>1. /\ st'.phase = st.phase /\ st'.origin = st.origin /\ st'.seen = st.seen /\ st'.runs = st.runs - 1
            /\ st'.series = st.series /\ st'.repeat = st.repeat /\ st'.closed = st.closed /\ st'.stop = st.stop
        BY <1>0, <2>8, <3>2 DEF States
      <4> QED BY <1>0, <2>1, <2>8, <3>2, <4>1, CapType DEF Rules, Counted, SeriesOver, DueKept, Limits, Tracked, ghosts, hidden
    <3> QED BY <2>1, <2>3, <3>1, <3>2 DEF Rules, Counted, SeriesOver, DueKept, Limits, Tracked, ghosts, hidden
  <2> QED BY <2>5, <2>6
<1> QED BY <1>1, <1>2

-----------------------------------------------------------------------------
\* The invariant holds in a new unit.
LEMMA InitInv == Init => IInv
<1> SUFFICES ASSUME Init PROVE IInv
  OBVIOUS
<1>1. NewState \in States /\ NewState.phase = "idle" /\ NewState.repeat = FALSE
  BY CapType, UnitAssumption DEF NewState, States, Ends
<1>4. 0 \in 0..2 /\ 0 \in 0..Plan /\ 0 \in 0..MaxEvents
  BY PlanType, UnitAssumption
<1>2. TypeOK
  BY <1>1, <1>4, Zenon DEF TypeOK, Init
<1>3. Rules
  BY <1>1 DEF Rules, Counted, SeriesOver, DueKept, Limits, Init
<1> QED BY <1>2, <1>3 DEF IInv

\* Every step keeps the invariant.
LEMMA NextInv == IInv /\ [Next]_vars => IInv'
<1> SUFFICES ASSUME IInv, [Next]_vars PROVE IInv'
  OBVIOUS
<1>1. CASE Next
  BY <1>1, CheckStep, StartStep, RequestStep, StopStep, WorldStep, TimeStep DEF Next
<1>2. CASE UNCHANGED vars
  BY <1>2 DEF IInv, TypeOK, Rules, Counted, SeriesOver, DueKept, Limits, Tracked,
              vars, known, device, world, ghosts, hidden
<1> QED BY <1>1, <1>2

\* The invariant holds throughout.
THEOREM Inductive == Spec => []IInv
BY InitInv, NextInv, PTL DEF Spec

\* Every variable keeps its type: the counts of runs and of a series never
\* leave their range, whatever is retried, taken over or aged out.
THEOREM TypeCorrect == Spec => []TypeOK
BY Inductive, PTL DEF IInv

\* No step but a check makes a start due.
LEMMA OnlyChecksClaim ==
  ASSUME IInv, [Next]_vars, due = "none", due' # "none"
  PROVE  Check
BY DEF Next, vars, known, device, world, ghosts, Elapses, StartAccepted, StartRefused, StartDropped, RunNow,
       UserStart, Stop, Release, Hour, AmsBegins, AmsDoesNotBegin, SwitchedOff, OutsiderStarts, LinkDrops,
       LinkReturns, Crash, Restart, Maintenance, Automation, Dampens, Rests, Blocked, Cleared,
       StopGraceOver, HoldRunsOut, BackoffRunsOut, SettleOver, RepeatAges, RunAges

\* A series that a stop, the maintenance mode or an early stop at the printer
\* ended is never continued: a repeat only becomes due in a series that may go
\* on (decide and apply_stop).
THEOREM EndedSeriesStayOver == Spec => SeriesStaysOver
<1>1. IInv /\ IInv' /\ [Next]_vars => [due = "none" /\ due' = "repeat" => over' = {}]_vars
  BY DEF IInv, Rules, DueKept
<1> QED BY <1>1, Inductive, NextInv, PTL DEF Spec, SeriesStaysOver

\* The engine's starts stay within max_runs, a redone interruption aside: for
\* a repeat by the invariant after the check, for a first start by the trigger.
THEOREM LimitsAreKept == Spec => LimitKept
<1>1. IInv /\ IInv' /\ [Next]_vars =>
        [MaxRuns # 0 /\ due = "none" /\ due' # "none" =>
           \/ due' = "repeat" /\ exempt'
           \/ st'.runs < MaxRuns /\ (due' = "repeat" => st'.series < MaxRuns)]_vars
  <2> SUFFICES ASSUME IInv, IInv', [Next]_vars, MaxRuns # 0, due = "none", due' # "none"
               PROVE  \/ due' = "repeat" /\ exempt'
                      \/ st'.runs < MaxRuns /\ (due' = "repeat" => st'.series < MaxRuns)
    OBVIOUS
  <2>1. due' \in {"none", "start", "repeat"}
    BY DEF IInv, TypeOK
  <2>2. CASE due' = "repeat"
    BY <2>2 DEF IInv, Rules, DueKept, Limits
  <2>3. CASE due' = "start"
    <3>1. CheckIdle \/ CheckMeasure
      BY OnlyChecksClaim DEF Check, CheckMaintenance, CheckOffline, CheckDrying, CheckConfirming,
                             CheckUnconfirmed, CheckEnd, CheckForeign, CheckSettling
    <3>2. due' = DueFor(st')
      BY <3>1 DEF CheckIdle, CheckMeasure
    <3> QED BY <2>3, <3>2, DueForType
  <2> QED BY <2>1, <2>2, <2>3
<1> QED BY <1>1, Inductive, NextInv, PTL DEF Spec, LimitKept

-----------------------------------------------------------------------------
\* The rest of the file: how the end of a drying is judged.

\* A drying that begins or goes on has not ended yet.
GoingOn == ams # "off" => why = "none"

\* A drying that was seen has begun, and one that is over ended somehow.
Begun ==
  st.phase = "foreign" \/ (st.phase = "running" /\ st.seen) =>
    ams # "starting" /\ (ams = "off" => why # "none")

\* A drying that a stop switched off is still being stopped.
StopKnown == Tracked(st) /\ ams = "off" /\ why = "stop" => st.stop # "none"

\* Our run's planned end is never later than the drying's own, unless an outsider's
\* program runs in its place.
PlanKept ==
  st.phase = "running" /\ ~swapped =>
    /\ ams # "off" => st.expect <= left
    /\ why = "ranout" => st.expect = 0

\* Without a blind spot it is exactly that end, the last reading is not below it,
\* and a run just switched off still had something to go.
Followed ==
  st.phase = "running" /\ ~blind =>
    /\ ams # "off" => left = st.expect
    /\ rem # None => rem >= st.expect
    /\ ams = "off" /\ why = "off" /\ looked = "change" => st.expect > 0

\* Near its planned end once, near it for good.
NearKnown == near => st.expect = 0

\* What is tracked is not closed.
Open == Tracked(st) => ~st.closed

\* The last reading of a foreign drying and the time since are its remaining time.
ReadRight ==
  st.phase = "foreign" /\ st.stop = "none" /\ ~blind /\ rem # None /\ ago < 2 =>
    /\ ams = "on" => left = rem - ago
    /\ ams = "off" /\ looked = "change" =>
         (why = "off" => rem - ago > 0) /\ (why = "ranout" => rem - ago <= 0)

JudgeInv == GoingOn /\ Begun /\ StopKnown /\ PlanKept /\ Followed /\ NearKnown /\ Open /\ ReadRight

\* Only CheckEnd makes a tracked drying one that is over.
OnlyEnds == Tracked(st) /\ st'.phase = "settle" => CheckEnd

\* What the invariant reads of a unit's state, its fields' types, and of the rest.
LEMMA ReadFields ==
  ASSUME TypeOK
  PROVE  /\ st \in States /\ st.expect \in Nat /\ st.expect <= Plan /\ Plan \in Nat /\ Plan > 0
         /\ left \in Nat /\ ago \in Nat /\ (rem # None => rem \in Nat) /\ None \notin Nat
         /\ st.seen \in BOOLEAN /\ st.closed \in BOOLEAN /\ near \in BOOLEAN /\ blind \in BOOLEAN /\ swapped \in BOOLEAN
         /\ st.phase \in {"idle", "running", "foreign", "settle"}
         /\ ams \in {"off", "starting", "on"}
BY UnitAssumption DEF TypeOK, States

\* The fields of what decide and the commands make of a unit's state.
LEMMA FreshRead == ASSUME st \in States PROVE Fresh.expect = st.expect
BY DEF Fresh, States

LEMMA TakenOverRead == ASSUME NEW s \in States PROVE TakenOver(s).closed = s.closed
BY DEF TakenOver, States

LEMMA SettledRead ==
  ASSUME NEW s \in States, NEW early \in BOOLEAN PROVE Settled(s, early).end = EndKind
<1> DEFINE e == EndKind
           k == s.closed \/ Closes(early)
           h == IF early /\ Holds THEN "foreign" ELSE s.hold
           n == s.entry \/ EndKind # "stop"
           r == [s EXCEPT !.phase = "settle", !.end = e, !.wait = "settle", !.closed = k, !.hold = h,
                          !.entry = n, !.stop = "none", !.seen = FALSE, !.expect = 0]
<1>1. Settled(s, early) = r
  BY Zenon DEF Settled
<1> HIDE DEF e, k, h, n
<1>2. r.end = e
  BY DEF States
<1> QED BY <1>1, <1>2 DEF e

LEMMA UndoneRead == ASSUME NEW s \in States PROVE Undone(s).closed = FALSE
BY DEF Undone, States

LEMMA ForeignRead == ASSUME NEW s \in States PROVE Foreign(s).closed = FALSE
BY DEF Foreign, States

LEMMA MeasuredRead == ASSUME NEW s \in States PROVE Measured(s).expect = s.expect
BY DEF Measured, States

LEMMA RunningRead ==
  ASSUME NEW s \in States, NEW origin, NEW n
  PROVE  /\ Running(s, origin, n).phase = "running" /\ Running(s, origin, n).seen = FALSE
         /\ Running(s, origin, n).closed = FALSE /\ Running(s, origin, n).expect = Plan
BY DEF Running, States

LEMMA StoppedRead ==
  ASSUME NEW s \in States
  PROVE  Stopped(s).expect = s.expect /\ Stopped(s).closed = (s.closed \/ s.phase = "settle")
BY DEF Stopped, States

\* A step that leaves alone what the invariant reads.
LEMMA StillJudged ==
  ASSUME JudgeInv, UNCHANGED <<rem, ago, near, ams, left, why, hidden>>,
         looked' = looked \/ looked' = "yes",
         st'.phase = st.phase, st'.seen = st.seen, st'.closed = st.closed, st'.expect = st.expect,
         (st'.stop = "none") = (st.stop = "none")
  PROVE  JudgeInv'
BY DEF JudgeInv, GoingOn, Begun, StopKnown, PlanKept, Followed, NearKnown, Open, ReadRight, Tracked, hidden

\* Nothing was seen of a unit that is not tracked any more.
LEMMA UntrackedJudged ==
  ASSUME JudgeInv, UNCHANGED <<ams, left, why>>, ~near', st'.phase \in {"idle", "settle"}
  PROVE  JudgeInv'
BY DEF JudgeInv, GoingOn, Begun, StopKnown, PlanKept, Followed, NearKnown, Open, ReadRight, Tracked, hidden

\* A look at a foreign drying that goes on.
LEMMA ForeignJudged ==
  ASSUME TypeOK, JudgeInv, UNCHANGED <<ams, left, why>>, ams = "on", Sight,
         st'.phase = "foreign", st'.closed = FALSE
  PROVE  JudgeInv'
<1>0. near' => st'.expect = 0
  BY Zenon DEF Sight
<1>1. rem' - ago' = left /\ (near' => st'.expect = 0)
  <2>1. rem' = left /\ ago' = 0 /\ left \in Nat
    BY ReadFields DEF Sight
  <2> QED BY <1>0, <2>1
<1>2. why = "none"
  BY DEF JudgeInv, GoingOn
<1> QED
  BY <1>1, <1>2 DEF JudgeInv, GoingOn, Begun, StopKnown, PlanKept, Followed, NearKnown, Open, ReadRight, Tracked, hidden

\* A start that the printer accepted.
LEMMA BegunJudged ==
  ASSUME TypeOK, Begins, st'.phase = "running", st'.seen = FALSE,
         st'.closed = FALSE, st'.expect = Plan
  PROVE  JudgeInv'
<1>1. /\ ams' = "starting" /\ left' = Plan /\ why' = "none" /\ rem' = None /\ near' = FALSE /\ Plan \in Nat
  BY ReadFields DEF Begins
<1> QED
  BY <1>1 DEF JudgeInv, GoingOn, Begun, StopKnown, PlanKept, Followed, NearKnown, Open, ReadRight, Tracked, hidden

\* A check of a unit in maintenance mode, out of sight or still drying.
LEMMA CheckTrackedJudged ==
  ASSUME TypeOK, JudgeInv, Check, CheckMaintenance \/ CheckOffline \/ CheckDrying \/ CheckConfirming
  PROVE  JudgeInv' /\ OnlyEnds
<1>0. CheckFrame
  BY CheckFrameType
<1>f. /\ st \in States /\ Fresh \in States /\ ams' = ams /\ left' = left /\ why' = why /\ looked' = "yes"
  BY <1>0 DEF CheckFrame
<1>1. CASE CheckMaintenance
  <2>1. CASE CardRunGoesOn
    <3>1. /\ st' = [st EXCEPT !.seen = st.seen \/ Active] /\ UNCHANGED hidden /\ st.phase = "running"
          /\ \/ Active /\ Sight
             \/ ~Active /\ UNCHANGED <<rem, ago, near>>
      BY <1>1, <2>1 DEF CheckMaintenance, CardRunGoesOn
    <3>2. /\ st'.phase = "running" /\ st'.closed = st.closed /\ st'.expect = st.expect /\ st'.stop = st.stop
          /\ st'.seen = (st.seen \/ Active)
      BY <1>f, <3>1 DEF States
    <3>3. CASE Active /\ Sight
      <4>1. rem' = left /\ near' = (st'.expect = 0) /\ ams = "on"
        BY <3>3 DEF Sight, Active
      <4> QED
        BY <1>f, <3>1, <3>2, <4>1, ReadFields
           DEF JudgeInv, GoingOn, Begun, StopKnown, PlanKept, Followed, NearKnown, Open, ReadRight, Tracked, hidden, OnlyEnds
    <3>4. CASE ~Active /\ UNCHANGED <<rem, ago, near>>
      <4>1. st'.seen = st.seen
        BY <3>2, <3>4, ReadFields
      <4>2. JudgeInv'
        BY <1>f, <3>1, <3>2, <3>4, <4>1, StillJudged
      <4> QED BY <3>2, <4>2 DEF OnlyEnds
    <3> QED BY <3>1, <3>3, <3>4
  <2>2. CASE ~CardRunGoesOn
    <3>1. st' = MaintReset /\ NoSight
      BY <1>1, <2>2 DEF CheckMaintenance
    <3>2. st'.phase = "idle" /\ ~near'
      BY <1>f, <3>1, MaintResetType DEF NoSight
    <3> QED BY <1>f, <3>2, UntrackedJudged DEF OnlyEnds
  <2> QED BY <2>1, <2>2
<1>2. CASE CheckOffline \/ CheckConfirming
  <2>1. st' = Fresh /\ UNCHANGED <<rem, ago, near, hidden>> /\ Tracked(st)
    BY <1>2 DEF CheckOffline, CheckConfirming, NotSeen, Tracked, ghosts, hidden
  <2>2. /\ st'.phase = st.phase /\ st'.seen = st.seen /\ st'.closed = st.closed /\ st'.expect = st.expect
        /\ st'.stop = st.stop
    BY <1>f, <2>1, FreshType, FreshRead
  <2>3. JudgeInv'
    BY <1>f, <2>1, <2>2, StillJudged
  <2> QED BY <2>1, <2>2, <2>3 DEF OnlyEnds, Tracked
<1>3. CASE CheckDrying
  <2>1. Tracked(st) /\ ams = "on" /\ link
    BY <1>3 DEF CheckDrying, Active
  <2>2. /\ Fresh.phase = st.phase /\ Fresh.seen = st.seen /\ Fresh.closed = st.closed
        /\ Fresh.expect = st.expect /\ Fresh.stop = st.stop
    BY <1>f, <2>1, FreshType, FreshRead
  <2>3. CASE st.stop = "fresh"
    <3>1. st' = Fresh /\ near' = (Fresh.expect = 0) /\ ago' = 0 /\ UNCHANGED <<rem, hidden>>
      BY <1>3, <2>3 DEF CheckDrying
    <3> QED
      BY <1>f, <2>1, <2>2, <2>3, <3>1
         DEF JudgeInv, GoingOn, Begun, StopKnown, PlanKept, Followed, NearKnown, Open, ReadRight, Tracked, hidden, OnlyEnds
  <2>4. CASE st.stop # "fresh" /\ st.phase = "running" /\ Jumped
    <3>1. st' = TakenOver(Fresh) /\ Sight
      BY <1>3, <2>4 DEF CheckDrying
    <3>2. st'.phase = "foreign" /\ st'.closed = FALSE
      BY <1>f, <2>1, <2>2, <3>1, TakenOverType, TakenOverRead, ReadFields DEF JudgeInv, Open
    <3> QED BY <1>f, <2>1, <3>1, <3>2, ForeignJudged DEF OnlyEnds
  <2>5. CASE st.stop # "fresh" /\ ~(st.phase = "running" /\ Jumped)
    <3>1. /\ st' = [Fresh EXCEPT !.seen = Fresh.seen \/ st.phase = "running"] /\ Sight
          /\ blind' = (st'.phase = "running" /\ blind)
          /\ swapped' = (st'.phase = "running" /\ swapped)
      BY <1>3, <2>5 DEF CheckDrying
    <3>2. /\ st'.phase = st.phase /\ st'.closed = st.closed /\ st'.expect = st.expect /\ st'.stop = st.stop
      BY <1>f, <2>2, <3>1 DEF States
    <3>3. CASE st.phase = "foreign"
      <4>1. st'.closed = FALSE
        BY <2>1, <3>2, ReadFields DEF JudgeInv, Open
      <4> QED BY <1>f, <2>1, <3>1, <3>2, <3>3, <4>1, ForeignJudged DEF OnlyEnds
    <3>4. CASE st.phase = "running"
      <4>1. /\ rem' = left /\ near' = (st.expect = 0) /\ UNCHANGED hidden
        BY <3>1, <3>2, <3>4, ReadFields DEF Sight, hidden
      <4> QED
        BY <1>f, <2>1, <3>2, <3>4, <4>1, ReadFields
           DEF JudgeInv, GoingOn, Begun, StopKnown, PlanKept, Followed, NearKnown, Open, ReadRight, Tracked, hidden, OnlyEnds
    <3> QED BY <2>1, <3>3, <3>4 DEF Tracked
  <2> QED BY <2>3, <2>4, <2>5
<1> QED BY <1>1, <1>2, <1>3

\* A check of a unit whose drying never began or is over.
LEMMA CheckOverJudged ==
  ASSUME IInv, JudgeInv, Check, CheckUnconfirmed \/ CheckEnd
  PROVE  JudgeInv' /\ OnlyEnds
<1> USE DEF IInv
<1>0. CheckFrame /\ ams' = ams /\ left' = left /\ why' = why
  BY CheckFrameType DEF CheckFrame
<1>1. CASE CheckUnconfirmed
  <2>1. st' = NeverBegan(Fresh) /\ NoSight /\ st.phase = "running" /\ ~st.seen
    BY <1>1 DEF CheckUnconfirmed, NotSeen
  <2>2. Uncounted \in 0..Cap
    BY <1>0, <2>1, Fields, CapType, UnitAssumption DEF Uncounted, Rules, Counted, CheckFrame
  <2>3. st'.phase = "idle" /\ ~near'
    BY <1>0, <2>1, <2>2, NeverBeganType, FreshType, Fields DEF CheckFrame, NoSight
  <2> QED BY <1>0, <2>3, UntrackedJudged DEF OnlyEnds
<1>2. CASE CheckEnd
  <2> DEFINE early == EndKind = "foreign_end" /\ Early
  <2>1. st' = Settled(Fresh, early) /\ NoSight /\ Tracked(st)
    BY <1>2 DEF CheckEnd
  <2>2. EndKind \in Ends
    BY <2>1 DEF EndKind, Ends, Tracked
  <2>3. early \in BOOLEAN
    OBVIOUS
  <2> HIDE DEF early
  <2>4. st'.phase = "settle" /\ ~near'
    BY <1>0, <2>1, <2>2, <2>3, SettledType, ZenonT(60) DEF CheckFrame, NoSight
  <2> QED BY <1>0, <1>2, <2>4, UntrackedJudged DEF OnlyEnds
<1> QED BY <1>1, <1>2

\* A check of a unit that is not drying for us, or dries unasked.
LEMMA CheckUntrackedJudged ==
  ASSUME TypeOK, JudgeInv, Check, CheckForeign \/ CheckIdle \/ CheckSettling \/ CheckMeasure
  PROVE  JudgeInv' /\ OnlyEnds
<1>0. /\ Fresh \in States /\ st \in States /\ ~Tracked(st) /\ st.phase \in {"idle", "settle"}
      /\ ams' = ams /\ left' = left /\ why' = why /\ looked' = "yes"
  BY CheckFrameType, FreshType, Fields DEF CheckForeign, CheckIdle, CheckSettling, CheckMeasure, Tracked, CheckFrame
<1>1. Fresh.phase = st.phase /\ Fresh.expect = st.expect
  BY <1>0, FreshType, FreshRead
<1>2. CASE st' = Fresh /\ UNCHANGED near
  BY <1>0, <1>1, <1>2
     DEF JudgeInv, GoingOn, Begun, StopKnown, PlanKept, Followed, NearKnown, Open, ReadRight, Tracked, hidden, OnlyEnds
<1>3. CASE CheckForeign /\ st.stop # "fresh"
  <2>1. (st' = Undone(Fresh) \/ st' = Foreign(Fresh)) /\ Sight /\ ams = "on"
    BY <1>3 DEF CheckForeign, Active
  <2>2. st'.phase = "foreign" /\ st'.closed = FALSE
    BY <1>0, <2>1, UndoneType, UndoneRead, ForeignType, ForeignRead
  <2> QED BY <1>0, <2>1, <2>2, ForeignJudged DEF OnlyEnds
<1>4. CASE CheckMeasure
  <2>1. st' = Measured(Fresh) /\ UNCHANGED near
    BY <1>4 DEF CheckMeasure
  <2>2. st'.phase = "idle" /\ st'.expect = st.expect
    BY <1>0, <1>1, <2>1, MeasuredType, MeasuredRead
  <2> QED
    BY <1>0, <2>1, <2>2
       DEF JudgeInv, GoingOn, Begun, StopKnown, PlanKept, Followed, NearKnown, Open, ReadRight, Tracked, hidden, OnlyEnds
<1> QED BY <1>2, <1>3, <1>4 DEF CheckForeign, CheckIdle, CheckSettling

\* A start that the printer accepted, the engine's, an admin's or the card's.
LEMMA StartJudged ==
  ASSUME TypeOK, JudgeInv, StartAccepted \/ RunNow \/ UserStart
  PROVE  JudgeInv' /\ OnlyEnds
<1>1. st \in States /\ st.series \in Nat
  BY Fields, CapType DEF TypeOK
<1> DEFINE Fresher(r) == r.phase = "running" /\ r.seen = FALSE /\ r.closed = FALSE /\ r.expect = Plan
<1>2. ASSUME NEW origin \in {"auto", "now", "manual"}, NEW n \in Nat
      PROVE  Running(st, origin, n) \in States /\ Fresher(Running(st, origin, n))
  <2>1. Running(st, origin, n) \in States
    BY <1>1, RunningType
  <2> QED BY <1>1, <2>1, RunningRead
<1>3. ASSUME NEW r \in States, Fresher(r), NEW h, NEW k
      PROVE  /\ Fresher([r EXCEPT !.hold = h]) /\ Fresher([r EXCEPT !.runs = k])
             /\ Fresher([r EXCEPT !.hold = h, !.runs = k])
  BY <1>3 DEF States
<1>4. Begins
  BY DEF StartAccepted, RunNow, UserStart
<1>5. Fresher(st')
  <2> DEFINE series == IF Continues THEN st.series + 1 ELSE 1
  <2>1. series \in Nat /\ st.series + 1 \in Nat
    BY <1>1
  <2>2. CASE StartAccepted
    <3> DEFINE m == IF due = "repeat" THEN st.series + 1 ELSE 1
               r == Running(st, "auto", m)
    <3>1. st' = [r EXCEPT !.runs = AtMost(r.runs + 1)]
      BY <2>2, Zenon DEF StartAccepted
    <3>2. m \in Nat
      BY <2>1
    <3>3. r \in States /\ Fresher(r)
      <4> HIDE DEF m, Fresher
      <4> QED BY <1>2, <3>2
    <3> HIDE DEF r, Fresher
    <3> QED BY <1>3, <3>1, <3>3
  <2>3. CASE RunNow
    <3> DEFINE r == Running(st, "now", series)
    <3>1. st' = [r EXCEPT !.hold = "none"]
      BY <2>3, Zenon DEF RunNow
    <3>3. r \in States /\ Fresher(r)
      <4> HIDE DEF series, Fresher
      <4> QED BY <1>2, <2>1
    <3> HIDE DEF r, Fresher
    <3> QED BY <1>3, <3>1, <3>3
  <2>4. CASE UserStart
    <3>1. PICK convert \in BOOLEAN :
            st' = [Running(st, "manual", IF convert THEN st.series ELSE IF Continues THEN st.series + 1 ELSE 1)
                     EXCEPT !.hold = "none", !.runs = IF convert THEN @ - 1 ELSE @]
      BY <2>4 DEF UserStart
    <3> DEFINE m == IF convert THEN st.series ELSE series
               r == Running(st, "manual", m)
               k == IF convert THEN r.runs - 1 ELSE r.runs
    <3>2. m \in Nat
      BY <1>1, <2>1
    <3>3. r \in States /\ Fresher(r)
      <4> HIDE DEF m, Fresher
      <4> QED BY <1>2, <3>2
    <3>4. st' = [[r EXCEPT !.hold = "none"] EXCEPT !.runs = k]
      BY <3>1, Zenon
    <3>5. Fresher([r EXCEPT !.hold = "none", !.runs = k])
      <4> HIDE DEF r, k, Fresher
      <4> QED BY <1>3, <3>3
    <3> QED BY <3>4, <3>5, Zenon
  <2> QED BY <2>2, <2>3, <2>4
<1> QED BY <1>4, <1>5, BegunJudged DEF OnlyEnds

\* An admin's stop.
LEMMA StopJudged ==
  ASSUME TypeOK, JudgeInv, Stop PROVE JudgeInv' /\ OnlyEnds
<1>1. /\ st' = Stopped(st) /\ UNCHANGED <<rem, ago, near, hidden, looked>>
      /\ \/ UNCHANGED <<ams, left, why>>
         \/ ams' = "off" /\ why' = "stop"
  BY DEF Stop
<1>2. /\ st'.phase = st.phase /\ st'.seen = st.seen /\ st'.expect = st.expect /\ st'.stop = "fresh"
      /\ (st.phase # "settle" => st'.closed = st.closed)
  BY <1>1, StoppedType, StoppedRead, ReadFields
<1> QED
  BY <1>1, <1>2, ReadFields
     DEF JudgeInv, GoingOn, Begun, StopKnown, PlanKept, Followed, NearKnown, Open, ReadRight, Tracked, hidden, OnlyEnds

\* The AMS begins or not, is switched off, or is started by someone else.
LEMMA AmsJudged ==
  ASSUME TypeOK, JudgeInv, AmsBegins \/ AmsDoesNotBegin \/ SwitchedOff \/ OutsiderStarts
  PROVE  JudgeInv' /\ OnlyEnds
<1>1. st' = st /\ rem' = rem /\ ago' = ago /\ near' = near
  BY DEF AmsBegins, AmsDoesNotBegin, SwitchedOff, OutsiderStarts, known
<1>o. OnlyEnds
  BY <1>1 DEF OnlyEnds, Tracked
<1>2. CASE AmsBegins
  <2>1. ams = "starting" /\ ams' = "on" /\ UNCHANGED <<left, why, hidden>>
    BY <1>2 DEF AmsBegins, ghosts, hidden
  <2> QED
    BY <1>1, <1>o, <2>1
       DEF JudgeInv, GoingOn, Begun, StopKnown, PlanKept, Followed, NearKnown, Open, ReadRight, Tracked, hidden
<1>3. CASE AmsDoesNotBegin
  <2>1. ams = "starting" /\ ams' = "off" /\ UNCHANGED <<why, hidden>>
    BY <1>3 DEF AmsDoesNotBegin, ghosts, hidden
  <2> QED
    BY <1>1, <1>o, <2>1
       DEF JudgeInv, GoingOn, Begun, StopKnown, PlanKept, Followed, NearKnown, Open, ReadRight, Tracked, hidden
<1>4. CASE SwitchedOff
  <2>1. /\ ams = "on" /\ ams' = "off" /\ UNCHANGED hidden
        /\ why' = IF left = 0 THEN "ranout" ELSE IF st.stop # "none" THEN "stop" ELSE "off"
    BY <1>4 DEF SwitchedOff, ghosts, hidden
  <2> QED
    BY <1>1, <1>o, <2>1, ReadFields
       DEF JudgeInv, GoingOn, Begun, StopKnown, PlanKept, Followed, NearKnown, Open, ReadRight, Tracked, hidden
<1>5. CASE OutsiderStarts
  <2>1. /\ ams' = "on" /\ why' = "none" /\ ams # "starting"
        /\ blind' = Tracked(st) /\ swapped' = (st.phase = "running")
    BY <1>5 DEF OutsiderStarts
  <2> QED
    BY <1>1, <1>o, <2>1, ReadFields
       DEF JudgeInv, GoingOn, Begun, StopKnown, PlanKept, Followed, NearKnown, Open, ReadRight, Tracked, hidden
<1> QED BY <1>2, <1>3, <1>4, <1>5

\* The printer's link, the service and the settings, and a start not sent.
LEMMA WorldJudged ==
  ASSUME TypeOK, JudgeInv,
         StartRefused \/ StartDropped \/ LinkDrops \/ LinkReturns
           \/ Crash \/ Restart \/ Maintenance \/ Automation \/ Dampens \/ Rests \/ Blocked \/ Cleared
  PROVE  JudgeInv' /\ OnlyEnds
<1>1. UNCHANGED <<st, ams, left, why, looked>>
  BY DEF StartRefused, StartDropped, LinkDrops, LinkReturns, Crash, Restart, Maintenance, Automation, Dampens,
         Rests, Blocked, Cleared, known, device, world
<1>2. CASE Crash
  <2>1. rem' = None /\ near' = FALSE /\ blind' = Tracked(st) /\ swapped' = swapped
    BY <1>2 DEF Crash, NoSight
  <2> QED
    BY <1>1, <2>1
       DEF JudgeInv, GoingOn, Begun, StopKnown, PlanKept, Followed, NearKnown, Open, ReadRight, Tracked, hidden, OnlyEnds
<1>3. CASE ~Crash
  <2>1. UNCHANGED <<rem, ago, near, hidden>>
    BY <1>3 DEF StartRefused, StartDropped, LinkDrops, LinkReturns, Restart, Maintenance, Automation, Dampens,
                Rests, Blocked, Cleared, known, ghosts, hidden
  <2> QED BY <1>1, <2>1, StillJudged DEF OnlyEnds, Tracked
<1> QED BY <1>2, <1>3

\* An hour passes: a drying's remaining time, its planned end and the age of the
\* last reading move together.
LEMMA HourJudged ==
  ASSUME TypeOK, JudgeInv, Hour PROVE JudgeInv' /\ OnlyEnds
<1> DEFINE e == IF st.expect > 0 THEN st.expect - 1 ELSE 0
<1>1. st' = [st EXCEPT !.expect = e] /\ UNCHANGED <<rem, near, hidden>> /\ looked' = "hour" /\ ams # "starting"
  BY DEF Hour, ghosts, hidden
<1>2. /\ st'.phase = st.phase /\ st'.seen = st.seen /\ st'.closed = st.closed /\ st'.stop = st.stop
      /\ st'.expect = e
  <2> HIDE DEF e
  <2> QED BY <1>1, ReadFields DEF States
<1>3. ago' = IF Tracked(st) /\ ago < 2 /\ rem # None THEN ago + 1 ELSE ago
  BY DEF Hour
<1>o. OnlyEnds
  BY <1>2 DEF OnlyEnds, Tracked
<1>4. CASE ams = "on" /\ left > 0
  <2>1. left' = left - 1 /\ UNCHANGED <<ams, why>>
    BY <1>4 DEF Hour
  <2> QED
    BY <1>1, <1>2, <1>3, <1>4, <1>o, <2>1, ReadFields
       DEF JudgeInv, GoingOn, Begun, StopKnown, PlanKept, Followed, NearKnown, Open, ReadRight, Tracked, hidden
<1>5. CASE ams = "on" /\ ~(left > 0)
  <2>1. ams' = "off" /\ why' = "ranout" /\ UNCHANGED left
    BY <1>5 DEF Hour
  <2> QED
    BY <1>1, <1>2, <1>3, <1>5, <1>o, <2>1, ReadFields
       DEF JudgeInv, GoingOn, Begun, StopKnown, PlanKept, Followed, NearKnown, Open, ReadRight, Tracked, hidden
<1>6. CASE ams # "on"
  <2>1. UNCHANGED <<ams, left, why>>
    BY <1>6 DEF Hour
  <2> QED
    BY <1>1, <1>2, <1>3, <1>6, <1>o, <2>1, ReadFields
       DEF JudgeInv, GoingOn, Begun, StopKnown, PlanKept, Followed, NearKnown, Open, ReadRight, Tracked, hidden
<1> QED BY <1>4, <1>5, <1>6

\* A timer of the unit's state runs out, or an admin releases the unit.
LEMMA TimerJudged ==
  ASSUME TypeOK, JudgeInv,
         Release \/ StopGraceOver \/ HoldRunsOut \/ BackoffRunsOut \/ SettleOver \/ RepeatAges \/ RunAges
  PROVE  JudgeInv' /\ OnlyEnds
<1>1. UNCHANGED <<rem, ago, near, ams, left, why, looked, hidden>>
  BY DEF Release, StopGraceOver, HoldRunsOut, BackoffRunsOut, SettleOver, RepeatAges, RunAges, Elapses, device, ghosts, hidden
<1>2. st \in States
  BY ReadFields
<1>3. /\ st'.phase = st.phase /\ st'.seen = st.seen /\ st'.closed = st.closed /\ st'.expect = st.expect
      /\ (st'.stop = "none") = (st.stop = "none")
  BY <1>2 DEF Release, StopGraceOver, HoldRunsOut, BackoffRunsOut, SettleOver, RepeatAges, RunAges, Elapses, States
<1> QED BY <1>1, <1>3, StillJudged DEF OnlyEnds, Tracked

-----------------------------------------------------------------------------
LEMMA InitJudged == Init => JudgeInv
BY DEF Init, NewState, JudgeInv, GoingOn, Begun, StopKnown, PlanKept, Followed, NearKnown, Open, ReadRight, Tracked, hidden

\* Every step keeps what the judgement rests on, and only CheckEnd judges.
LEMMA NextJudged == IInv /\ JudgeInv /\ [Next]_vars => JudgeInv' /\ (OnlyEnds \/ UNCHANGED vars)
<1> SUFFICES ASSUME IInv, JudgeInv, [Next]_vars PROVE JudgeInv' /\ (OnlyEnds \/ UNCHANGED vars)
  OBVIOUS
<1>1. TypeOK
  BY DEF IInv
<1>2. CASE Check
  BY <1>1, <1>2, CheckTrackedJudged, CheckOverJudged, CheckUntrackedJudged DEF Check
<1>3. CASE Next /\ ~Check
  BY <1>1, <1>3, StartJudged, StopJudged, AmsJudged, WorldJudged, HourJudged, TimerJudged DEF Next
<1>4. CASE UNCHANGED vars
  BY <1>4 DEF JudgeInv, GoingOn, Begun, StopKnown, PlanKept, Followed, NearKnown, Open, ReadRight, Tracked, hidden,
              vars, known, device, ghosts, hidden
<1> QED BY <1>2, <1>3, <1>4

\* decide, 913-957: only a run that the printer switched off is judged an
\* interruption, or one an outsider's program replaced unnoticed; an end seen at once is a finish only when the drying ran out,
\* and closes a foreign one exactly when someone stopped it in sight.
THEOREM EndsAreJudged == Spec => EndsJudged
<1> DEFINE Right == /\ st'.end = "interrupted" => why = "off" \/ swapped
                    /\ looked = "change" /\ ~blind /\ rem # None =>
                         /\ st'.end = "finish" => why = "ranout"
                         /\ st'.end = "foreign_end" => st'.closed = (why = "off" /\ ~Gap)
<1>1. IInv /\ JudgeInv /\ [Next]_vars => [Tracked(st) /\ st'.phase = "settle" => Right]_vars
  <2> SUFFICES ASSUME IInv, JudgeInv, [Next]_vars, Tracked(st), st'.phase = "settle", ~UNCHANGED vars
               PROVE  Right
    OBVIOUS
  <2>1. CheckEnd /\ TypeOK
    BY NextJudged DEF OnlyEnds, IInv
  <2> DEFINE early == EndKind = "foreign_end" /\ Early
  <2>2. st' = Settled(Fresh, early) /\ ams # "on" /\ HasEnded
    BY <2>1 DEF CheckEnd
  <2>3. EndKind \in Ends /\ Fresh \in States /\ Fresh.closed = FALSE
    BY <2>1, FreshType, ReadFields DEF EndKind, Ends, Tracked, JudgeInv, Open
  <2>4. st'.closed = Closes(early) /\ st'.end = EndKind
    <3>1. early \in BOOLEAN
      OBVIOUS
    <3> HIDE DEF early
    <3>2. Settled(Fresh, early).closed = (Fresh.closed \/ Closes(early))
      BY <2>3, <3>1, SettledType
    <3>3. Closes(early) \in BOOLEAN
      BY <3>1 DEF Closes
    <3>4. st'.end = EndKind
      BY <2>2, <2>3, <3>1, SettledRead
    <3> QED BY <2>2, <2>3, <3>2, <3>3, <3>4
  <2>5. EndKind # "stop" => /\ st.stop = "none" /\ ams = "off" /\ why \in {"ranout", "off"}
    BY <2>1, <2>2, ReadFields
       DEF EndKind, HasEnded, JudgeInv, Begun, StopKnown, Tracked, TypeOK
  <2>6. EndKind = "interrupted" => why = "off" \/ swapped
    BY <2>1, <2>5, ReadFields DEF EndKind, EndedNormally, Gap, JudgeInv, PlanKept, Tracked
  <2>7. ASSUME looked = "change", ~blind, rem # None, EndKind = "finish" PROVE why = "ranout"
    BY <2>1, <2>5, <2>7, ReadFields DEF EndKind, EndedNormally, JudgeInv, Followed, NearKnown, Tracked
  <2>8. ASSUME looked = "change", ~blind, rem # None, EndKind = "foreign_end"
        PROVE  early = (why = "off" /\ ~Gap)
    BY <2>1, <2>5, <2>8, ReadFields DEF EndKind, Early, Gap, JudgeInv, ReadRight, Tracked
  <2>9. EndKind = "foreign_end" => Closes(early) = early
    BY DEF Closes
  <2> QED BY <2>4, <2>6, <2>7, <2>8, <2>9
<1>2. Spec => []JudgeInv
  BY InitJudged, NextJudged, Inductive, PTL DEF Spec
<1> QED BY <1>1, <1>2, Inductive, PTL DEF Spec, EndsJudged
=============================================================================

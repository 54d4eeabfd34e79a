--------------------------- MODULE PollLoop_proofs ---------------------------
(***************************************************************************)
(* Proofs about the poll loop, for every grace period, row period, repeat  *)
(* interval, set of settings and number of restarts, with and without the  *)
(* live refresh.                                                           *)
(***************************************************************************)
EXTENDS PollLoop, TLAPS

LEMMA InitTyped == Init => TypeOK
<1> USE PollAssumption DEF Age, Statuses
<1>1. Init => sent \subseteq Switches /\ item \in Statuses \cup {None}
  BY DEF Init
<1>2. Init => failAge \in Age(Grace) /\ finishAt \in Age(RepeatEvery)
              /\ rowAge \in 0..RowEvery /\ restarts \in 0..MaxRestarts
  BY DEF Init
<1>3. Init => owed \in BOOLEAN /\ row = None /\ liveRead = None /\ silent = 0
  BY DEF Init
<1>5. 0 \in 0..Grace + 1
  BY PollAssumption
<1>6. Init => snap \in [Admins -> Live \cup {"offline", "due", None}] /\ overlaid = FALSE
  BY DEF Init
<1>4. Init => printer \in Live /\ link \in BOOLEAN /\ bot \in BOOLEAN /\ maint \in BOOLEAN
              /\ on \in Settings /\ got = None /\ prev = None /\ lastActive = None
  BY DEF Init
<1> QED
  BY <1>1, <1>2, <1>3, <1>4, <1>5, <1>6 DEF TypeOK

\* Every variable keeps its type.
THEOREM TypeCorrect == Spec => []TypeOK
<1> USE PollAssumption DEF Age, Live, Switches, Statuses, OfflineStatus, Status
<1>1. Init => TypeOK
  BY InitTyped
<1>2. TypeOK /\ [Next]_vars => TypeOK'
  <2> SUFFICES ASSUME TypeOK, [Next]_vars PROVE TypeOK'
    OBVIOUS
  <2> USE DEF TypeOK, world, loop, ghost, history
  <2>1. CASE PollFetch
    BY <2>1 DEF PollFetch, Older
  <2>2. CASE PollOk
    <3>1. finishAt' \in Age(RepeatEvery)
      BY <2>2 DEF PollOk, NextFinishAt
    <3>2. sent' \subseteq Switches
      BY <2>2 DEF PollOk, Attempts
    <3>3. row' \in Live \cup {"offline", "maintenance", None} /\ rowAge' \in 0..RowEvery
      BY <2>2 DEF PollOk, WriteRowIf, WriteRow, HistoryState
    <3>6. overlaid' \in BOOLEAN
      BY <2>2 DEF PollOk, WriteRowIf, WriteRow
    <3>4. got' = None /\ prev' \in Live /\ lastActive' \in Live /\ failAge' = None
          /\ item' \in Statuses /\ owed' \in BOOLEAN
      BY <2>2 DEF PollOk, Publish
    <3> QED
      BY <2>2, <3>1, <3>2, <3>3, <3>4, <3>6 DEF PollOk
  <2>3. CASE PollFailFirst
    <3>1. row' \in Live \cup {"offline", "maintenance", None} /\ overlaid' \in BOOLEAN
      BY <2>3 DEF PollFailFirst, WriteRow, HistoryState
    <3>2. item' \in Statuses
      BY <2>3 DEF PollFailFirst, Publish
    <3> QED
      BY <2>3, <3>1, <3>2, SMTT(30) DEF PollFailFirst
  <2>4. CASE PollFailGrace
    <3>1. item \in Statuses /\ item' \in Statuses /\ item.state \in Live \cup {"offline"}
      BY <2>4 DEF PollFailGrace, Publish
    <3>2. failAge' \in Age(Grace)
      BY <2>4 DEF PollFailGrace, FailElapsed
    <3>3. row' \in Live \cup {"offline", "maintenance", None} /\ rowAge' \in 0..RowEvery
      BY <2>4, <3>1 DEF PollFailGrace, WriteRowIf, WriteRow, HistoryState
    <3>6. overlaid' \in BOOLEAN
      BY <2>4 DEF PollFailGrace, WriteRowIf, WriteRow
    <3> QED
      BY <2>4, <3>1, <3>2, <3>3, <3>6 DEF PollFailGrace
  <2>5. CASE PollFailOffline
    <3>1. failAge' \in Age(Grace)
      BY <2>5 DEF PollFailOffline, FailElapsed
    <3>2. row' \in Live \cup {"offline", "maintenance", None} /\ rowAge' \in 0..RowEvery
      BY <2>5 DEF PollFailOffline, WriteRowIf, WriteRow, HistoryState
    <3>6. overlaid' \in BOOLEAN
      BY <2>5 DEF PollFailOffline, WriteRowIf, WriteRow
    <3> QED
      BY <2>5, <3>1, <3>2, <3>6 DEF PollFailOffline, Publish
  <2>6. CASE RefreshRead
    <3>1. liveRead' \in Live
      BY <2>6 DEF RefreshRead
    <3> QED
      BY <2>6, <3>1 DEF RefreshRead
  <2>12. CASE RefreshUpsert
    <3>1. item' \in Statuses /\ liveRead' = None
      BY <2>12 DEF RefreshUpsert
    <3> QED
      BY <2>12, <3>1 DEF RefreshUpsert
  <2>7. CASE PrinterMoves
    <3>1. printer' \in Live
      BY <2>7 DEF PrinterMoves, Leads
    <3> QED
      BY <2>7, <3>1 DEF PrinterMoves
  <2>8. CASE LinkFlips
    BY <2>8 DEF LinkFlips
  <2>13. CASE BotFlips
    BY <2>13 DEF BotFlips
  <2>14. CASE AdminSettings
    BY <2>14 DEF AdminSettings
  <2>9. CASE Admin
    <3>1. PICK a \in Admins : AdminMaintenance(a) \/ SnapshotRead(a) \/ SnapshotWrite(a)
      BY <2>9 DEF Admin
    <3>2. CASE AdminMaintenance(a)
      <4>1. maint' \in BOOLEAN /\ snap' \in [Admins -> Live \cup {"offline", "due", None}]
        BY <3>2 DEF AdminMaintenance
      <4> QED
        BY <3>2, <4>1 DEF AdminMaintenance
    <3>3. CASE SnapshotRead(a)
      <4>1. snap' \in [Admins -> Live \cup {"offline", "due", None}]
        BY <3>3 DEF SnapshotRead
      <4> QED
        BY <3>3, <4>1 DEF SnapshotRead
    <3>4. CASE SnapshotWrite(a)
      <4>1. row' \in Live \cup {"offline", "maintenance", None} /\ overlaid' \in BOOLEAN
        BY <3>4 DEF SnapshotWrite, WriteRow, HistoryState
      <4>2. snap' \in [Admins -> Live \cup {"offline", "due", None}]
        BY <3>4 DEF SnapshotWrite
      <4> QED
        BY <3>4, <4>1, <4>2 DEF SnapshotWrite
    <3> QED
      BY <3>1, <3>2, <3>3, <3>4
  <2>10. CASE Restart
    <3>1. failAge' \in Age(Grace) /\ finishAt' \in Age(RepeatEvery)
          /\ rowAge' \in 0..RowEvery /\ restarts' \in 0..MaxRestarts
      BY <2>10 DEF Restart
    <3>2. sent' \subseteq Switches /\ owed' \in BOOLEAN /\ item' = None
          /\ snap' \in [Admins -> Live \cup {"offline", "due", None}]
      BY <2>10 DEF Restart
    <3> QED
      BY <2>10, <3>1, <3>2 DEF Restart
  <2>11. CASE UNCHANGED vars
    BY <2>11, SMTT(30) DEF vars
  <2> QED
    BY <2>1, <2>2, <2>3, <2>4, <2>5, <2>6, <2>7, <2>8, <2>9, <2>10, <2>11, <2>12, <2>13, <2>14
       DEF Next, Poll
<1> QED
  BY <1>1, <1>2, PTL DEF Spec

-----------------------------------------------------------------------------
\* A printer no poll has published is one no poll has ever seen.
SeenStored == item = None => lastActive = None

\* The loop's own failure clock never runs ahead of the silence, and the
\* result of a fetch is in hand only after a poll has begun.
FailBehind ==
  /\ failAge # None => failAge < silent
  /\ got # None => silent >= 1

\* A seen printer that is offline keeps its failure clock at the grace period.
OfflineLatched ==
  item # None /\ item.state = "offline" /\ lastActive # None => failAge = Grace

\* The strengthening: OfflineEarned speaks of the silence, which the loop does
\* not measure; it holds because the clock _fail_start starts is behind it.
CardInv == TypeOK /\ OfflineLatched /\ FailBehind /\ SeenStored

LEMMA CardInvHolds == Spec => []CardInv
<1> USE PollAssumption DEF CardInv, OfflineLatched, FailBehind, SeenStored
<1>1. Init => CardInv
  <2>1. Init => OfflineLatched /\ FailBehind /\ SeenStored
    BY DEF Init
  <2> QED
    BY <2>1, InitTyped
<1>2. CardInv /\ TypeOK' /\ [Next]_vars => CardInv'
  <2> SUFFICES ASSUME CardInv, TypeOK', [Next]_vars
               PROVE  OfflineLatched' /\ FailBehind' /\ SeenStored'
    OBVIOUS
  <2> USE DEF world, loop, ghost, Statuses, Status, OfflineStatus, Age, Live
  <2>1. CASE PollFetch
    <3>1. silent' >= 1 /\ (failAge' # None => failAge' < silent')
      BY <2>1 DEF PollFetch, Older, TypeOK
    <3>2. failAge = Grace => failAge' = Grace
      BY <2>1 DEF PollFetch, Older, TypeOK
    <3> QED
      BY <2>1, <3>1, <3>2 DEF PollFetch
  <2>2. CASE PollOk
    <3>1. got \in Live /\ item' = [state |-> got, online |-> TRUE, grace |-> FALSE]
      BY <2>2 DEF PollOk, Publish
    <3>3. item' \in Statuses /\ item'.state = got
      BY <3>1
    <3>2. item' # None /\ item'.state # "offline"
      BY <3>1, <3>3
    <3> QED
      BY <2>2, <3>2 DEF PollOk
  <2>3. CASE PollFailFirst
    <3>1. UNCHANGED <<lastActive, failAge, silent>> /\ got' = None /\ lastActive = None
      BY <2>3 DEF PollFailFirst
    <3> QED
      BY <3>1
  <2>4. CASE PollFailGrace
    <3>1. failAge' < silent' /\ got' = None /\ UNCHANGED lastActive
      <4>1. FailElapsed \in 0..Grace /\ FailElapsed < silent
        BY <2>4 DEF PollFailGrace, TypeOK, FailElapsed
      <4>2. failAge' = FailElapsed /\ UNCHANGED <<silent, lastActive>> /\ got' = None
        BY <2>4 DEF PollFailGrace
      <4> QED
        BY <4>1, <4>2
    <3>2. item \in Statuses /\ item' \in Statuses /\ item'.state = item.state
      BY <2>4 DEF PollFailGrace, Publish, TypeOK
    <3>3. lastActive # None => item.state # "offline"
      BY <2>4, <3>2 DEF PollFailGrace, FailElapsed, TypeOK
    <3>4. item' # None
      BY <3>2
    <3> QED
      BY <3>1, <3>2, <3>3, <3>4
  <2>5. CASE PollFailOffline
    <3>1. FailElapsed \in 0..Grace /\ FailElapsed < silent
      BY <2>5 DEF PollFailOffline, TypeOK, FailElapsed
    <3>2. failAge' = Grace /\ failAge' < silent' /\ got' = None
      BY <2>5, <3>1 DEF PollFailOffline
    <3>3. OfflineStatus \in Statuses
      OBVIOUS
    <3>4. item' # None
      BY <2>5, <3>3 DEF PollFailOffline, Publish
    <3> QED
      BY <3>2, <3>4
  <2>6. CASE RefreshRead
    BY <2>6 DEF RefreshRead, TypeOK
  <2>7. CASE RefreshUpsert
    <3>1. item'.state \in Live /\ item' # None
      <4>1. liveRead \in Live
        BY <2>7 DEF RefreshUpsert, TypeOK
      <4>2. item' = [state |-> liveRead, online |-> TRUE, grace |-> FALSE] /\ item' \in Statuses
        BY <2>7, <4>1 DEF RefreshUpsert
      <4> QED
        BY <4>1, <4>2
    <3>2. item'.state # "offline"
      BY <3>1
    <3> QED
      BY <2>7, <3>1, <3>2 DEF RefreshUpsert
  <2>8. CASE PrinterMoves \/ LinkFlips \/ BotFlips \/ AdminSettings
    BY <2>8 DEF PrinterMoves, LinkFlips, BotFlips, AdminSettings
  <2>9. CASE Admin
    BY <2>9 DEF Admin, AdminMaintenance, SnapshotRead, SnapshotWrite
  <2>10. CASE Restart
    BY <2>10 DEF Restart
  <2>11. CASE UNCHANGED vars
    BY <2>11 DEF vars
  <2> QED
    BY <2>1, <2>2, <2>3, <2>4, <2>5, <2>6, <2>7, <2>8, <2>9, <2>10, <2>11 DEF Next, Poll
<1> QED
  BY <1>1, <1>2, TypeCorrect, PTL DEF Spec

\* A printer that has been seen shows offline only after a whole silent grace
\* period, whatever the live refresh writes in between.
THEOREM OfflineIsEarned == Spec => []OfflineEarned
<1>1. CardInv => OfflineEarned
  BY PollAssumption DEF CardInv, OfflineLatched, FailBehind, OfflineEarned, TypeOK, Age
<1> QED
  BY <1>1, CardInvHolds, PTL

\* No step takes a printer that went offline back into a grace period.
THEOREM OfflineDoesNotFlap == Spec => NoFlap
<1> DEFINE Held == item # None /\ item = OfflineStatus /\ lastActive # None /\ restarts' = restarts
<1>1. CardInv /\ TypeOK' /\ [Next]_vars =>
        [Held => item' = OfflineStatus \/ item'.online]_vars
  <2> SUFFICES ASSUME CardInv, [Next]_vars, Held
               PROVE  item' = OfflineStatus \/ item'.online \/ UNCHANGED vars
    OBVIOUS
  <2> USE PollAssumption DEF world, loop, Statuses, Status, OfflineStatus, Age, Live
  <2>0. failAge = Grace /\ FailElapsed = Grace
    BY DEF CardInv, OfflineLatched, FailElapsed, TypeOK
  <2>1. CASE PollFetch
    BY <2>1 DEF PollFetch
  <2>2. CASE PollOk
    BY <2>2 DEF PollOk, Publish
  <2>3. CASE PollFailFirst
    BY <2>3 DEF PollFailFirst
  <2>4. CASE PollFailGrace
    BY <2>4, <2>0 DEF PollFailGrace, TypeOK
  <2>5. CASE PollFailOffline
    BY <2>5 DEF PollFailOffline, Publish
  <2>6. CASE RefreshRead
    BY <2>6 DEF RefreshRead
  <2>7. CASE RefreshUpsert
    BY <2>7 DEF RefreshUpsert
  <2>8. CASE PrinterMoves \/ LinkFlips \/ BotFlips \/ AdminSettings \/ Admin
    BY <2>8 DEF PrinterMoves, LinkFlips, BotFlips, AdminSettings, Admin, AdminMaintenance,
                SnapshotRead, SnapshotWrite
  <2>9. CASE Restart
    BY <2>9 DEF Restart, CardInv, TypeOK
  <2>10. CASE UNCHANGED vars
    BY <2>10
  <2> QED
    BY <2>1, <2>2, <2>3, <2>4, <2>5, <2>6, <2>7, <2>8, <2>9, <2>10 DEF Next, Poll
<1> QED
  BY <1>1, CardInvHolds, TypeCorrect, PTL DEF Spec, NoFlap

-----------------------------------------------------------------------------
\* What the loop remembers of the printer is what the store shows and, unless the
\* card is offline, what the last good poll saw: nobody else writes the store.
Remembered ==
  /\ liveRead = None
  /\ IF item = None THEN prev = None ELSE prev = item.state
  /\ prev \in {None, "offline", lastActive}
  /\ prev = None => lastActive = None

\* Every switch of the maintenance mode has written its row.
Noted == \A a \in Admins : snap[a] = None

\* A state that is remembered has its row, unless one is due anyway, the rows are
\* those of the maintenance mode or a switch still owes one or wrote a stale one.
RowKept == prev \in Live /\ ~maint /\ Noted /\ ~overlaid /\ rowAge < RowEvery => row = prev

\* The strengthening for the properties of a loop that is the store's only writer.
QuietInv == Remembered /\ RowKept

LEMMA QuietHolds == ASSUME LiveRefresh = FALSE PROVE Spec => []QuietInv
<1> USE PollAssumption DEF QuietInv, Remembered, RowKept, Noted
<1>1. Init => QuietInv
  BY DEF Init, Live
<1>2. QuietInv /\ TypeOK /\ [Next]_vars => QuietInv'
  <2> SUFFICES ASSUME QuietInv, TypeOK, [Next]_vars PROVE QuietInv'
    OBVIOUS
  <2> USE DEF world, loop, ghost, history
  <2>1. CASE PollFetch
    <3>1. rowAge' < RowEvery => rowAge < RowEvery
      BY <2>1 DEF PollFetch, TypeOK
    <3> QED
      BY <2>1, <3>1 DEF PollFetch
  <2>2. CASE PollOk
    <3>1. item' = [state |-> got, online |-> TRUE, grace |-> FALSE] /\ item'.state = got
      BY <2>2 DEF PollOk, Publish, Status
    <3>4. item' \in Statuses
      BY <2>2, <3>1 DEF PollOk, Statuses
    <3>2. item' # None
      BY <3>4
    <3>3. ~maint /\ Noted /\ ~overlaid' /\ rowAge' < RowEvery => row' = got
      <4>1. CASE RowDue
        BY <2>2, <4>1 DEF PollOk, WriteRowIf, WriteRow, HistoryState
      <4>2. CASE ~RowDue
        BY <2>2, <4>2 DEF PollOk, WriteRowIf, RowDue, TypeOK
      <4> QED
        BY <4>1, <4>2
    <3> QED
      BY <2>2, <3>1, <3>2, <3>3 DEF PollOk
  <2>3. CASE PollFailFirst
    <3>1. item' = [state |-> "offline", online |-> FALSE, grace |-> FALSE] /\ prev' = "offline"
      BY <2>3 DEF PollFailFirst, Publish, OfflineStatus, Status
    <3>3. item' \in Statuses /\ item'.state = "offline"
      BY <3>1 DEF Statuses
    <3>4. item' # None
      BY <3>3
    <3>2. "offline" # None /\ "offline" \notin Live
      BY DEF Live
    <3> QED
      BY <2>3, <3>1, <3>2, <3>3, <3>4 DEF PollFailFirst
  <2>4. CASE PollFailGrace
    <3>1. item \in Statuses /\ item' \in Statuses /\ item'.state = item.state /\ prev' = prev
      BY <2>4 DEF PollFailGrace, Publish, TypeOK, Statuses
    <3>2. prev \in Live /\ ~maint /\ Noted /\ ~overlaid' /\ rowAge' < RowEvery => row' = prev
      <4>1. CASE rowAge >= RowEvery
        BY <2>4, <4>1 DEF PollFailGrace, WriteRowIf, WriteRow, HistoryState
      <4>2. CASE ~(rowAge >= RowEvery)
        BY <2>4, <4>2 DEF PollFailGrace, WriteRowIf, TypeOK
      <4> QED
        BY <4>1, <4>2
    <3>3. item' # None
      BY <3>1
    <3> QED
      BY <2>4, <3>1, <3>2, <3>3 DEF PollFailGrace
  <2>5. CASE PollFailOffline
    <3>1. item' = [state |-> "offline", online |-> FALSE, grace |-> FALSE] /\ prev' = "offline"
      BY <2>5 DEF PollFailOffline, Publish, OfflineStatus, Status
    <3>3. item' \in Statuses /\ item'.state = "offline"
      BY <3>1 DEF Statuses
    <3>4. item' # None
      BY <3>3
    <3>2. "offline" # None /\ "offline" \notin Live
      BY DEF Live
    <3> QED
      BY <2>5, <3>1, <3>2, <3>3, <3>4 DEF PollFailOffline
  <2>6. CASE RefreshRead \/ RefreshUpsert
    BY <2>6 DEF RefreshRead, RefreshUpsert
  <2>7. CASE PrinterMoves \/ LinkFlips \/ BotFlips \/ AdminSettings
    BY <2>7 DEF PrinterMoves, LinkFlips, BotFlips, AdminSettings
  <2>8. CASE Admin
    <3>1. PICK a \in Admins : AdminMaintenance(a) \/ SnapshotRead(a) \/ SnapshotWrite(a)
      BY <2>8 DEF Admin
    <3>2. prev \in Live => item # None /\ prev = item.state
      BY DEF TypeOK
    <3>3. CASE AdminMaintenance(a)
      <4>1. snap'[a] = "due" /\ "due" # None
        BY <3>3 DEF AdminMaintenance, TypeOK
      <4> QED
        BY <3>3, <4>1 DEF AdminMaintenance
    <3>4. CASE SnapshotRead(a)
      <4>1. item # None => snap'[a] # None
        BY <3>4 DEF SnapshotRead, TypeOK, Statuses
      <4> QED
        BY <3>4, <3>2, <4>1 DEF SnapshotRead
    <3>5. CASE SnapshotWrite(a)
      <4>1. ~maint /\ ~overlaid' => row' = item.state
        BY <3>5 DEF SnapshotWrite, WriteRow, HistoryState
      <4> QED
        BY <3>5, <3>2, <4>1 DEF SnapshotWrite
    <3> QED
      BY <3>1, <3>3, <3>4, <3>5
  <2>9. CASE Restart
    BY <2>9 DEF Restart, Live
  <2>10. CASE UNCHANGED vars
    BY <2>10 DEF vars
  <2> QED
    BY <2>1, <2>2, <2>3, <2>4, <2>5, <2>6, <2>7, <2>8, <2>9, <2>10 DEF Next, Poll
<1> QED
  BY <1>1, <1>2, TypeCorrect, PTL DEF Spec

\* The state the transitions are judged against is the one the last good poll saw.
LEMMA PrevIsSeen == ASSUME TypeOK, QuietInv PROVE lastActive # None => EffectivePrev = lastActive
  BY PollAssumption DEF QuietInv, Remembered, EffectivePrev

\* Before the first good poll there is nothing a transition could start from.
LEMMA NothingSeen == ASSUME TypeOK, QuietInv
                     PROVE  lastActive = None => EffectivePrev \in {None, "offline"}
  BY DEF QuietInv, Remembered, EffectivePrev

\* main.py 360-401: whatever polls failed between the two, a transition from
\* printing is announced when the loop is the only writer of the store.
THEOREM TransitionsAreHeard == ASSUME LiveRefresh = FALSE PROVE Spec => TransitionHeard
<1> DEFINE Heard == /\ got = "finished" /\ "finish" \in on => "finish" \in sent'
                    /\ got \in {"paused", "error"} \cap on => got \in sent'
<1>1. TypeOK /\ QuietInv /\ [Next]_vars =>
        [PollOk /\ lastActive = "printing" /\ ~maint /\ bot => Heard]_vars
  <2> SUFFICES ASSUME TypeOK, QuietInv, PollOk, lastActive = "printing", ~maint, bot
               PROVE  Heard
    OBVIOUS
  <2>1. EffectivePrev = "printing" /\ "printing" # None
    BY PollAssumption, PrevIsSeen DEF Live
  <2>2. sent' = Attempts
    BY DEF PollOk
  <2>3. ASSUME got = "finished", "finish" \in on PROVE "finish" \in Attempts
    BY <2>1, <2>3 DEF Attempts, Entered
  <2>4. ASSUME got \in {"paused", "error"} \cap on PROVE got \in Attempts
    BY <2>1, <2>4 DEF Attempts
  <2> QED
    BY <2>2, <2>3, <2>4
<1> QED
  BY <1>1, TypeCorrect, QuietHolds, PTL DEF Spec, TransitionHeard

\* main.py 365-393, 417-431: a finish message without a print that ended is a
\* repeat whose interval has passed.
THEOREM RepeatsAreSpaced == ASSUME LiveRefresh = FALSE PROVE Spec => RepeatsSpaced
<1> DEFINE Spaced == "repeat" \in on /\ finishAt # None /\ finishAt >= RepeatEvery
<1>1. TypeOK /\ QuietInv /\ [Next]_vars =>
        [PollOk /\ "finish" \in sent' /\ lastActive # "printing" => Spaced]_vars
  <2> SUFFICES ASSUME TypeOK, QuietInv, PollOk, "finish" \in sent', lastActive # "printing"
               PROVE  Spaced
    OBVIOUS
  <2>1. EffectivePrev # "printing"
    <3>1. CASE lastActive # None
      BY <3>1, PrevIsSeen
    <3>2. CASE lastActive = None
      BY <3>2, NothingSeen, PollAssumption DEF Live
    <3> QED
      BY <3>1, <3>2
  <2>2. "finish" \in Attempts
    BY DEF PollOk
  <2> QED
    BY <2>1, <2>2 DEF Attempts, Entered, RepeatDue
<1> QED
  BY <1>1, TypeCorrect, QuietHolds, PTL DEF Spec, RepeatsSpaced

\* main.py 457-472, 496-524, admin.py 275-284, 308-316: after a good poll the
\* newest history row is the polled state, through grace periods, restarts and
\* switches of the maintenance mode, but for a row a switch still owes or took too
\* early.
THEOREM RowsFollow == ASSUME LiveRefresh = FALSE PROVE Spec => RowFollows
<1>1. TypeOK /\ QuietInv /\ [Next]_vars =>
        [PollOk /\ ~maint /\ (\A a \in Admins : snap[a] = None) => row' = got \/ overlaid']_vars
  <2> SUFFICES ASSUME TypeOK, QuietInv, PollOk, ~maint, Noted, ~overlaid'
               PROVE row' = got
    BY DEF Noted
  <2>1. CASE RowDue
    BY <2>1 DEF PollOk, WriteRowIf, WriteRow, HistoryState
  <2>2. CASE ~RowDue
    <3>1. prev = got /\ got \in Live /\ rowAge < RowEvery
      BY <2>2, PollAssumption DEF RowDue, TypeOK, PollOk
    <3>2. row' = row /\ ~overlaid
      BY <2>2 DEF PollOk, WriteRowIf, history
    <3>3. row = prev
      BY <3>1, <3>2 DEF QuietInv, RowKept
    <3> QED
      BY <3>1, <3>2, <3>3
  <2> QED
    BY <2>1, <2>2
<1> QED
  BY <1>1, TypeCorrect, QuietHolds, PTL DEF Spec, RowFollows
=============================================================================

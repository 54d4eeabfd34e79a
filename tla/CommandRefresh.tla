---------------------------- MODULE CommandRefresh ----------------------------
(* printer_commands.py: the refresh that follows a printer after a command     *)
(* until it does what the command leads to.  One entry holds the deadlines and  *)
(* what is expected; a command creates or widens it, a loop works it off.       *)
(* Clocks are the ticks left until a deadline, in FAST_REFRESH_INTERVALs.       *)
EXTENDS Naturals, FiniteSets

CONSTANTS
  None,
  Loops,     \* identities of refresh threads
  Least,     \* FAST_REFRESH_MIN
  Most       \* FAST_REFRESH_MAX; the shorter FAST_REFRESH_CMD_MAX is Least + 1

VARIABLES
  entry,        \* _fast_refresh_until of the printer
  refresher,    \* each loop: its stage, the expectation it read, its pass's result
  state,        \* the printer's state, and whether an AMS change settles
  card,         \* the state the store shows
  goal, since   \* the newest expectation (ghost); ticks since the newest command

vars == <<entry, refresher, state, card, goal, since>>

Goals == {"paused", "printing"}
Later(a, b) == IF a > b THEN a ELSE b
Gone == [stage |-> "gone", expect |-> None, settling |-> None]

TypeOK ==
  /\ entry = None \/ entry \in [deadline : 0..Most, keep : 0..Least, expect : Goals \cup {None}]
  /\ refresher \in [Loops -> [stage : {"gone", "asleep", "awake", "reading", "judging", "failing"},
                              expect : Goals \cup {None}, settling : {None, "yes", "no", "blind"}]]
  /\ state \in Goals /\ card \in Goals
  /\ goal \in Goals \cup {None} /\ since \in 0..Most

-----------------------------------------------------------------------------
\* _start_fast_refresh after a command: the thread is started by whoever found no entry.
Widen(left, expect) ==
  [deadline |-> Later(entry.deadline, left), keep |-> Least,
   expect |-> IF expect # None THEN expect ELSE entry.expect]

CommandSent(left, expect) ==
  /\ entry' = IF entry = None THEN [deadline |-> left, keep |-> Least, expect |-> expect]
                              ELSE Widen(left, expect)
  /\ IF entry = None
     THEN \E l \in Loops : /\ refresher[l] = Gone
                           /\ refresher' = [refresher EXCEPT ![l].stage = "asleep"]
     ELSE UNCHANGED refresher
  /\ goal' = IF expect # None THEN expect ELSE IF entry # None THEN goal ELSE None
  /\ since' = 0
  /\ UNCHANGED <<state, card>>

\* The loop has slept an interval and reads what is expected, under the lock.
LoopReads(l) ==
  /\ refresher[l].stage = "awake"
  /\ refresher' = [refresher EXCEPT ![l].stage = "reading",
                                    ![l].expect = IF entry = None THEN None ELSE entry.expect]
  /\ UNCHANGED <<entry, state, card, goal, since>>

\* _fast_refresh_once: the live status goes into the store; something settles when
\* an AMS does or the expected state is not there yet.
LoopPasses(l, ams) ==
  /\ refresher[l].stage = "reading"
  /\ card' = state
  /\ refresher' = [refresher EXCEPT ![l].stage = "judging", ![l].settling =
                     IF ams \/ (refresher[l].expect # None /\ refresher[l].expect # state)
                     THEN "yes" ELSE "no"]
  /\ UNCHANGED <<entry, state, goal, since>>

\* Without live telemetry nothing is stored; a pass may also raise.
LoopBlind(l) ==
  /\ refresher[l].stage = "reading"
  /\ refresher' = [refresher EXCEPT ![l].stage = "judging", ![l].settling = "blind"]
  /\ UNCHANGED <<entry, state, card, goal, since>>
LoopRaises(l) ==
  /\ refresher[l].stage = "reading"
  /\ refresher' = [refresher EXCEPT ![l].stage = "failing"]
  /\ UNCHANGED <<entry, state, card, goal, since>>

\* The exit, decided under the lock on the entry as it is now.
Over_Fault(l) == refresher[l].settling # "yes"
Over(l) ==
  LET held == IF entry = None THEN [deadline |-> 0, keep |-> 0] ELSE entry
  IN \/ refresher[l].settling = "blind"
     \/ held.deadline = 0
     \/ refresher[l].settling = "no" /\ held.keep = 0

LoopJudges(l) ==
  /\ refresher[l].stage = "judging"
  /\ IF Over(l) THEN entry' = None /\ refresher' = [refresher EXCEPT ![l] = Gone]
     ELSE UNCHANGED entry
          /\ refresher' = [refresher EXCEPT ![l] = [Gone EXCEPT !.stage = "asleep"]]
  /\ UNCHANGED <<state, card, goal, since>>

LoopFails(l) ==
  /\ refresher[l].stage = "failing"
  /\ entry' = None
  /\ refresher' = [refresher EXCEPT ![l] = Gone]
  /\ UNCHANGED <<state, card, goal, since>>

-----------------------------------------------------------------------------
Turns ==
  /\ state' \in Goals \ {state}
  /\ UNCHANGED <<entry, refresher, card, goal, since>>

\* An interval passes: the loop sleeps it; its pass is short beside it.
Fewer(n) == IF n = 0 THEN 0 ELSE n - 1
RefreshTick ==
  /\ entry # None
  /\ \A l \in Loops : refresher[l].stage \in {"gone", "asleep"}
  /\ entry' = [entry EXCEPT !.deadline = Fewer(@), !.keep = Fewer(@)]
  /\ since' = IF since < Most THEN since + 1 ELSE since
  /\ refresher' = [l \in Loops |-> IF refresher[l] = Gone THEN Gone
                                   ELSE [refresher[l] EXCEPT !.stage = "awake"]]
  /\ UNCHANGED <<state, card, goal>>

Init ==
  /\ entry = None
  /\ refresher = [l \in Loops |-> Gone]
  /\ state = "printing" /\ card = "printing"
  /\ goal = None /\ since = 0

Next ==
  \/ \E left \in {Least + 1, Most}, expect \in Goals \cup {None} : CommandSent(left, expect)
  \/ \E l \in Loops : \/ LoopReads(l) \/ LoopBlind(l) \/ LoopRaises(l)
                      \/ LoopJudges(l) \/ LoopFails(l)
                      \/ \E ams \in BOOLEAN : LoopPasses(l, ams)
  \/ Turns \/ RefreshTick

Spec == Init /\ [][Next]_vars

-----------------------------------------------------------------------------
Running == {l \in Loops : refresher[l] # Gone}

\* The printer has one refresh loop while there is an entry and none without one:
\* a command never widens the entry of a loop that has decided to end.
OneLoop == Cardinality(Running) = IF entry = None THEN 0 ELSE 1

\* A loop that sees the printer and does not fail follows the newest command: for
\* the least time, and on to its deadline unless the card shows the awaited state.
RefreshFollows ==
  [][entry # None /\ entry' = None
       => \/ \E l \in Running : refresher[l].stage = "failing" \/ refresher[l].settling = "blind"
          \/ since > Least
          \/ since = Least /\ goal \in {None, card}]_vars
=============================================================================

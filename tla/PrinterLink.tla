----------------------------- MODULE PrinterLink -----------------------------
(* bambu_collector.py: one printer's MQTT client, the listener thread that    *)
(* brings its telemetry, and the short-lived bridge threads that start and    *)
(* rebuild it, between fetches of the poll loop, requests that send, and the  *)
(* shutdown.                                                                  *)
(*                                                                            *)
(* The vendored client: connect() makes a new listener, disconnect() ends the *)
(* one it knows, the listener tries to log in for ever unless it dies.        *)
EXTENDS Naturals

CONSTANTS
  None,
  StreakEnd,   \* REFUSED_STREAK_END_AFTER
  Backoff,     \* the entries of REBUILD_BACKOFF, each one fetch longer here
  MaxEvents    \* bound: attempts to log in and failures of threads

VARIABLES
  connected, closed,   \* of the collector
  bridge,              \* the bridge thread: None, "clearing", "connecting" or "started"
  failed,              \* _bridge_error is set
  attempt, due,        \* _rebuild_attempt; fetches until _rebuild_due, None
  waited,              \* ghost: fetches in a row that waited for the rebuild
  listener,            \* client._mqtt: None, "alive" or "dead"
  stray,               \* ghost: listeners that run and that no client knows
  closing,             \* close(): None, "joining" or "done"
  online,              \* device.info.online
  refused, unanswered, \* _login_refused, _unanswered
  cap,                 \* the longest wait of paho between attempts
  quiet,               \* ghost: attempts in a row since the last refused login that ended otherwise
  told,                \* ghost: the streak of refused logins was reported
  events

vars == <<connected, closed, bridge, failed, attempt, due, waited, listener, stray, closing, online,
          refused, unanswered, cap, quiet, told, events>>

TypeOK ==
  /\ connected \in BOOLEAN /\ closed \in BOOLEAN /\ failed \in BOOLEAN /\ online \in BOOLEAN
  /\ bridge \in {None, "clearing", "connecting", "started"}
  /\ attempt \in 0..(Backoff + 1) /\ due \in 0..Backoff \cup {None} /\ waited \in 0..(Backoff + 2)
  /\ listener \in {None, "alive", "dead"} /\ stray \in 0..2
  /\ closing \in {None, "joining", "done"}
  /\ refused \in BOOLEAN /\ unanswered \in 0..StreakEnd
  /\ cap \in {"lib", "outage", "refused"}
  /\ quiet \in 0..StreakEnd /\ told \in BOOLEAN
  /\ events \in 0..MaxEvents

login == <<refused, unanswered, cap, quiet, told>>
threads == <<bridge, failed, listener, stray, closing>>
Happens == events < MaxEvents /\ events' = events + 1

-----------------------------------------------------------------------------
\* connect(): idempotent, it starts the one bridge that makes the first client.
MayConnect_Fault == ~closed
MayConnect == ~connected /\ ~closed

Connect ==
  /\ MayConnect
  /\ bridge = None /\ bridge' = "connecting"
  /\ connected' = TRUE
  /\ UNCHANGED <<closed, failed, attempt, due, waited, listener, stray, closing, online, events>>
  /\ UNCHANGED login

\* client.disconnect(): the listener it knows is stopped and joined.
Ended == IF listener = "alive" THEN "dead" ELSE listener

\* _bridge_run of a rebuild: the old listener goes first.
BridgeClears ==
  /\ bridge = "clearing"
  /\ bridge' = "connecting"
  /\ listener' = None /\ online' = FALSE
  /\ UNCHANGED <<connected, closed, failed, attempt, due, waited, stray, closing, events>>
  /\ UNCHANGED login

\* connect() of the client: the state of a refused login is forgotten, a new
\* paho client (its wait capped by the library) and a new listener begin.
BridgeConnects ==
  /\ bridge = "connecting"
  /\ bridge' = "started" /\ failed' = FALSE
  /\ listener' = "alive"
  /\ stray' = IF listener = "alive" THEN stray + 1 ELSE stray
  /\ refused' = FALSE /\ unanswered' = 0 /\ cap' = "lib"
  /\ quiet' = 0 /\ told' = FALSE
  /\ UNCHANGED <<connected, closed, attempt, due, waited, closing, online, events>>

BridgeFails ==
  /\ Happens
  /\ bridge \in {"clearing", "connecting"}
  /\ bridge' = None /\ failed' = TRUE
  /\ UNCHANGED <<connected, closed, attempt, due, waited, listener, stray, closing, online>>
  /\ UNCHANGED login

\* A bridge that outlived close()'s patience leaves no listener behind.
LeavesNone_Fault == FALSE
LeavesNone == closed

BridgeEnds ==
  /\ bridge = "started"
  /\ bridge' = None
  /\ listener' = IF LeavesNone THEN Ended ELSE listener
  /\ online' = (online /\ ~LeavesNone)
  /\ UNCHANGED <<connected, closed, failed, attempt, due, waited, stray, closing, events>>
  /\ UNCHANGED login

-----------------------------------------------------------------------------
\* _listener_dead.
Dead == listener # "alive" /\ bridge = None /\ (failed \/ listener = "dead")

Delay == IF attempt < Backoff THEN attempt ELSE Backoff

\* fetch: live telemetry ends the backoff; without it a dead listener gets a
\* deadline first and is rebuilt once that has passed.
FetchLive ==
  /\ online /\ ~closed
  /\ attempt' = 0 /\ due' = None /\ waited' = 0
  /\ UNCHANGED <<connected, closed, online, events>> /\ UNCHANGED threads /\ UNCHANGED login

FetchDead ==
  /\ ~online /\ ~closed /\ connected /\ Dead
  /\ IF due = None
     THEN due' = Delay /\ waited' = waited + 1 /\ UNCHANGED <<attempt, bridge, failed>>
     ELSE IF due > 0
     THEN due' = due - 1 /\ waited' = waited + 1 /\ UNCHANGED <<attempt, bridge, failed>>
     ELSE /\ waited' = 0
          /\ attempt' = IF attempt <= Backoff THEN attempt + 1 ELSE attempt
          /\ due' = None /\ failed' = FALSE /\ bridge' = "clearing"
  /\ UNCHANGED <<connected, closed, listener, stray, closing, online, events>>
  /\ UNCHANGED login

\* close(): no new bridge from here on; the last one is waited for, not for ever.
CloseBegins ==
  /\ ~closed /\ closed' = TRUE /\ closing' = "joining"
  /\ UNCHANGED <<connected, bridge, failed, attempt, due, waited, listener, stray, online, events>>
  /\ UNCHANGED login

CloseEnds ==
  /\ closing = "joining" /\ closing' = "done"
  /\ listener' = Ended /\ online' = FALSE
  /\ UNCHANGED <<connected, closed, bridge, failed, attempt, due, waited, stray, events>>
  /\ UNCHANGED login

-----------------------------------------------------------------------------
\* _end_refused_login.
EndsStreak(q) ==
  /\ refused' = FALSE /\ unanswered' = 0 /\ cap' = "outage"
  /\ quiet' = q /\ told' = FALSE

\* The listener logs in: telemetry flows.
LogsIn ==
  /\ Happens /\ listener = "alive" /\ ~online
  /\ online' = TRUE
  /\ EndsStreak(0)
  /\ UNCHANGED <<connected, closed, attempt, due, waited>> /\ UNCHANGED threads

\* The printer refuses the login (CONNACK 4 / 5): one report per streak.
LoginRefused ==
  /\ Happens /\ listener = "alive" /\ ~online
  /\ refused' = TRUE /\ unanswered' = 0 /\ cap' = "refused"
  /\ quiet' = 0 /\ told' = TRUE
  /\ UNCHANGED <<connected, closed, attempt, due, waited, online>> /\ UNCHANGED threads

\* _attempt_failed: no answer, closed before its CONNACK, turned away (CONNACK
\* 1-3), or the link of a login dropped.
StreakOver == ~refused \/ unanswered + 1 >= StreakEnd

AttemptFails ==
  /\ Happens /\ listener = "alive"
  /\ online' = FALSE
  /\ IF StreakOver
     THEN EndsStreak(IF quiet < StreakEnd THEN quiet + 1 ELSE quiet)
     ELSE /\ unanswered' = unanswered + 1 /\ quiet' = quiet + 1
          /\ UNCHANGED <<refused, cap, told>>
  /\ UNCHANGED <<connected, closed, attempt, due, waited>> /\ UNCHANGED threads

\* The listener thread ends by an error of its own.
ListenerDies ==
  /\ Happens /\ listener = "alive" /\ bridge = None
  /\ listener' = "dead" /\ online' = FALSE
  /\ UNCHANGED <<connected, closed, bridge, failed, attempt, due, waited, stray, closing>>
  /\ UNCHANGED login

Init ==
  /\ connected = FALSE /\ closed = FALSE
  /\ bridge = None /\ failed = FALSE /\ attempt = 0 /\ due = None /\ waited = 0
  /\ listener = None /\ stray = 0 /\ closing = None /\ online = FALSE
  /\ refused = FALSE /\ unanswered = 0 /\ cap = "lib" /\ quiet = 0 /\ told = FALSE
  /\ events = 0

Next ==
  \/ Connect \/ BridgeClears \/ BridgeConnects \/ BridgeFails \/ BridgeEnds
  \/ FetchLive \/ FetchDead \/ CloseBegins \/ CloseEnds
  \/ LogsIn \/ LoginRefused \/ AttemptFails \/ ListenerDies

Spec == Init /\ [][Next]_vars

-----------------------------------------------------------------------------
\* However fetches, senders, rebuilds and the shutdown meet, no listener runs
\* beside the client's own, and none is left once close() and the last bridge
\* have ended.
OneListener ==
  /\ stray = 0
  /\ closing = "done" /\ bridge = None => listener # "alive"

\* A printer that refuses the login stays in its streak, reported once, until it
\* accepts one, gets a new client or misses REFUSED_STREAK_END_AFTER in a row.
StreakKept == [][told /\ ~told' => quiet' = 0 \/ quiet' >= StreakEnd]_vars

\* A link with no listener left is on its way to a new one: no failure leaves it
\* where nobody would start one, and REBUILD_BACKOFF bounds the wait.
Rebuilt ==
  connected /\ ~closed /\ bridge = None /\ listener # "alive" => Dead /\ waited <= Backoff + 1
=============================================================================

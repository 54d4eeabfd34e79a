----------------------------- MODULE KlipperHost -----------------------------
(* klipper_client.py: one Klipper printer's WebSocket to its Moonraker host.   *)
(* The host tells of klippy, the printer's firmware process, in several ways:  *)
(* the status klippy pushes, a notice of a change, and its answers to the      *)
(* client's own questions.  The client shows one state of klippy, looks its    *)
(* light pin up, and drops a connection that has gone silent.                  *)
(*                                                                             *)
(* Moonraker is external: it handles a request when it comes and keeps the     *)
(* order of what it sends on one socket.  Time is counted in ticks of          *)
(* HOST_CHECK_S.                                                               *)
EXTENDS Naturals, Sequences

CONSTANTS
  None,
  Check,     \* HOST_CHECK_S, in ticks
  Stale,     \* STALE_S, in ticks
  MaxTurns,  \* bound: changes of klippy's state
  MaxLosses  \* bound: sockets lost or hung

VARIABLES
  klippy,     \* klippy's state; "gone": not connected to Moonraker
  subscribed, \* Moonraker pushes klippy's status to this socket
  socket,     \* None, "opening", "open" or "hung": nothing passes any more
  wire,       \* the messages on their way to the client
  connected,  \* of the client
  shown,      \* data['host_state']
  webhook,    \* data['debug']['webhooks_state']
  heardAt,    \* ticks since last_message_ts
  answeredAt, \* ticks since last_host_ts
  looking,    \* _discover_ts: a lookup of the pin is in flight
  pin,        \* light_pin was looked up
  watched,    \* the watchdog has made its check of this tick
  unsaid,     \* ghost: ticks since klippy changed, or the socket opened, with nothing said of it
  turns, losses

vars == <<klippy, subscribed, socket, wire, connected, shown, webhook, heardAt, answeredAt, looking,
          pin, watched, unsaid, turns, losses>>
moonraker == <<klippy, turns, losses>>

States == {"startup", "ready", "shutdown", "error", "gone"}
Never == Stale + 1
Older(n) == IF n < Never THEN n + 1 ELSE n

TypeOK ==
  /\ klippy \in States /\ shown \in States \cup {None} /\ webhook \in States \cup {None}
  /\ subscribed \in BOOLEAN /\ connected \in BOOLEAN /\ looking \in BOOLEAN /\ pin \in BOOLEAN /\ watched \in BOOLEAN
  /\ socket \in {None, "opening", "open", "hung"}
  /\ \A n \in DOMAIN wire : wire[n].kind \in {"status", "notice", "info", "why", "objects"} /\ wire[n].state \in States \cup {None}
  /\ heardAt \in 0..Never /\ answeredAt \in 0..Never
  /\ unsaid \in 0..Never \cup {None}
  /\ turns \in 0..MaxTurns /\ losses \in 0..MaxLosses

-----------------------------------------------------------------------------
\* Requests.  Moonraker's answer to each, as klippy stands; without klippy it has
\* no status to subscribe to, no reason and no objects.
Message(kind, state) == [kind |-> kind, state |-> state]
Answer(request) ==
  CASE request = "subscribe" -> IF klippy = "gone" THEN <<>> ELSE <<Message("status", klippy)>>
    [] request = "objects" -> <<Message("objects", IF klippy = "ready" THEN "ready" ELSE None)>>
    [] request = "why" -> <<Message("why", IF klippy = "gone" THEN None ELSE klippy)>>
    [] OTHER -> <<Message(request, klippy)>>

\* _rpc_async, subscribe_to_status: what is sent on a hung socket is lost.
Reached == socket \in {"opening", "open"}
Asks(requests, which) == Reached /\ Len(requests) > 0 /\ requests[1] = which
Subscribed(requests) == IF Asks(requests, "subscribe") THEN klippy # "gone" ELSE subscribed
Sends(before, requests) ==
  /\ wire' = IF ~Reached THEN before
             ELSE before \o (IF Len(requests) > 0 THEN Answer(requests[1]) ELSE <<>>)
                         \o (IF Len(requests) > 1 THEN Answer(requests[2]) ELSE <<>>)
  /\ subscribed' = Subscribed(requests)
  /\ unsaid' = IF Asks(requests, "info") \/ (Asks(requests, "subscribe") /\ klippy # "gone") THEN None
               ELSE IF socket = "opening" THEN 0 ELSE unsaid

\* connect: idempotent, under its lock; an old socket is closed first.  Called by
\* every fetch and by the reconnect loop, for as long as there is no connection.
Connect ==
  /\ ~connected
  /\ socket' = "opening" /\ wire' = <<>> /\ subscribed' = FALSE
  /\ UNCHANGED <<connected, shown, webhook, heardAt, answeredAt, looking, pin, watched, unsaid>>
  /\ UNCHANGED moonraker

\* on_open: a lookup sent on the old socket is never answered.
OnOpen ==
  /\ socket = "opening"
  /\ socket' = "open" /\ connected' = TRUE
  /\ Sends(wire, <<"subscribe", "objects">>)
  /\ looking' = TRUE
  /\ UNCHANGED <<shown, webhook, heardAt, answeredAt, pin, watched>>
  /\ UNCHANGED moonraker

\* on_close, on_error.
OnClose ==
  /\ socket # None /\ losses < MaxLosses
  /\ socket' = None /\ connected' = FALSE
  /\ wire' = <<>> /\ subscribed' = FALSE
  /\ losses' = losses + 1
  /\ UNCHANGED <<klippy, turns, shown, webhook, heardAt, answeredAt, looking, pin, watched, unsaid>>

\* The link dies without a word.
Hangs ==
  /\ socket = "open" /\ losses < MaxLosses
  /\ socket' = "hung" /\ losses' = losses + 1
  /\ UNCHANGED <<klippy, turns, wire, subscribed, connected, shown, webhook, heardAt, answeredAt,
                 looking, pin, watched, unsaid>>

-----------------------------------------------------------------------------
\* on_message.
Takes(kind) ==
  /\ socket = "open" /\ wire # <<>> /\ Head(wire).kind = kind
  /\ UNCHANGED <<socket, connected, watched>> /\ UNCHANGED moonraker
Said == Head(wire).state

\* _discover: looks the pin up unless a lookup is in flight.
Lookup(needed, requests) ==
  /\ looking' = (looking \/ needed)
  /\ Sends(Tail(wire), IF needed /\ ~looking THEN Append(requests, "objects") ELSE requests)

\* parse_status of a push, or of a subscription's answer: a klippy that was not
\* ready before has its pin looked up.
Status ==
  /\ Takes("status")
  /\ heardAt' = 0
  /\ webhook' = IF Said = None THEN webhook ELSE Said
  /\ shown' = IF Said = None THEN shown ELSE Said
  /\ Lookup(Said = "ready" /\ webhook # "ready", <<>>)
  /\ UNCHANGED <<answeredAt, pin>>

\* _set_host.
SetHost(state) == shown' = state /\ answeredAt' = 0

\* _on_klippy_notice; _klippy_ready subscribes and looks the pin up.
Notice ==
  /\ Takes("notice")
  /\ SetHost(Said)
  /\ CASE Said = "shutdown" -> Sends(Tail(wire), <<"why">>) /\ UNCHANGED looking
       [] Said = "gone" -> Sends(Tail(wire), <<>>) /\ UNCHANGED looking
       [] Said = "ready" -> Lookup(TRUE, <<"subscribe">>)
  /\ UNCHANGED <<webhook, heardAt, pin>>

\* _on_server_info, the watchdog's answer; klippy's return to ready may be news.
Info ==
  /\ Takes("info")
  /\ SetHost(Said)
  /\ CASE Said = "ready" /\ shown # "ready" -> Lookup(TRUE, <<"subscribe">>)
       [] Said \notin {"ready", "gone"} -> Sends(Tail(wire), <<"why">>) /\ UNCHANGED looking
       [] OTHER -> Sends(Tail(wire), <<>>) /\ UNCHANGED looking
  /\ UNCHANGED <<webhook, heardAt, pin>>

\* _on_printer_info: the reason of a klippy that is not ready.
TellsState == Said \notin {None, "ready"}
Why ==
  /\ Takes("why")
  /\ IF TellsState THEN SetHost(Said) ELSE UNCHANGED <<shown, answeredAt>>
  /\ Sends(Tail(wire), <<>>)
  /\ UNCHANGED <<webhook, heardAt, looking, pin>>

\* _on_objects: the pin, and the whole subscription again with it.
Objects ==
  /\ Takes("objects")
  /\ looking' = FALSE
  /\ pin' = (pin \/ Said = "ready")
  /\ Sends(Tail(wire), IF Said = "ready" THEN <<"subscribe">> ELSE <<>>)
  /\ UNCHANGED <<shown, webhook, heardAt, answeredAt>>

\* _host_watch_loop, _check_host: asks when no status came for HOST_CHECK_S.
Watch ==
  /\ ~watched /\ watched' = TRUE
  /\ IF connected /\ heardAt > Check THEN Sends(wire, <<"info">>) ELSE UNCHANGED <<wire, subscribed, unsaid>>
  /\ UNCHANGED <<socket, connected, shown, webhook, heardAt, answeredAt, looking, pin>>
  /\ UNCHANGED moonraker

\* get_data, of a fetch: without a status for STALE_S the connection is given up,
\* except while the host keeps answering that klippy is not ready.  (last_message_ts
\* is set once a status came, with which webhooks_state is known.)
HostDown == answeredAt <= Stale /\ shown \notin {None, "ready"}
GivesUp == heardAt > Stale /\ ~HostDown
FetchStale ==
  /\ connected /\ webhook # None /\ GivesUp
  /\ connected' = FALSE
  /\ UNCHANGED <<klippy, turns, losses, subscribed, socket, wire, shown, webhook, heardAt, answeredAt,
                 looking, pin, watched, unsaid>>

-----------------------------------------------------------------------------
\* Klippy changes; Moonraker tells of three of its states.
Follows(old) ==
  CASE old = "startup" -> {"ready", "error", "shutdown", "gone"}
    [] old = "ready" -> {"shutdown", "gone"}
    [] old = "gone" -> {"startup"}
    [] OTHER -> {"gone"}
Turn(s) ==
  /\ turns < MaxTurns /\ turns' = turns + 1
  /\ s \in Follows(klippy) /\ klippy' = s
  /\ subscribed' = (subscribed /\ s # "gone")
  /\ IF socket = "open" /\ s \in {"ready", "shutdown", "gone"}
     THEN wire' = Append(wire, Message("notice", s)) /\ unsaid' = None
     ELSE wire' = wire /\ unsaid' = 0
  /\ UNCHANGED <<losses, socket, connected, shown, webhook, heardAt, answeredAt, looking, pin, watched>>

\* A tick: what was on its way has arrived, the watchdog has looked, and a ready
\* klippy has pushed its status.
Tick ==
  /\ watched /\ watched' = FALSE
  /\ socket = "open" => wire = <<>>
  /\ wire' = IF socket = "open" /\ subscribed /\ klippy = "ready" THEN <<Message("status", None)>> ELSE wire
  /\ heardAt' = Older(heardAt) /\ answeredAt' = Older(answeredAt)
  /\ unsaid' = IF unsaid = None THEN None ELSE Older(unsaid)
  /\ UNCHANGED <<subscribed, socket, connected, shown, webhook, looking, pin>>
  /\ UNCHANGED moonraker

Init ==
  /\ klippy \in {"startup", "gone"} /\ subscribed = FALSE
  /\ socket = None /\ wire = <<>> /\ connected = FALSE
  /\ shown = None /\ webhook = None /\ heardAt = Never /\ answeredAt = Never
  /\ looking = FALSE /\ pin = FALSE /\ watched = FALSE /\ unsaid = None
  /\ turns = 0 /\ losses = 0

Next ==
  \/ Connect \/ OnOpen \/ OnClose \/ Hangs
  \/ Status \/ Notice \/ Info \/ Why \/ Objects
  \/ Watch \/ FetchStale
  \/ \E s \in States : Turn(s)
  \/ Tick

Spec == Init /\ [][Next]_vars

-----------------------------------------------------------------------------
Calm == socket = "open" /\ connected /\ wire = <<>>

\* On a connection that lives, what is shown of klippy is its state, however its
\* notices, the answers and the pushes crossed; a change nobody tells of is known
\* after the watchdog's next two checks.
HostTold ==
  /\ Calm /\ unsaid = None => shown = klippy
  /\ Calm /\ watched /\ unsaid # None => unsaid <= Check + 1

\* With a ready klippy its status flows and its light pin is known.
ReadyServed == Calm /\ unsaid = None /\ klippy = "ready" => subscribed /\ pin

\* A connection that lives is not given up as stale, but right after it opened,
\* before the host could answer.
LiveKept == [][connected /\ ~connected' /\ socket' = "open" => wire # <<>> \/ unsaid # None]_vars
=============================================================================

----------------------------- MODULE TelegramBot -----------------------------
(* telegram_manager.py with proxy_checker.py and the polling loop of          *)
(* telegram_bot_async.py: settings are saved while the bot runs, a restart of *)
(* the bot replaces its thread, and checks of the proxies end when they end.  *)
(*                                                                            *)
(* The token stands for the settings a bot is made of, None for a bot that is *)
(* disabled.  Bots are numbered in the order they are made.                   *)
EXTENDS Naturals, FiniteSets

CONSTANTS
  None,
  Tokens,
  Proxies,
  MaxSaves,   \* bound: settings saved
  MaxBots     \* bound: bots made

VARIABLES
  token, list,   \* the settings as every thread reads them
  applying,      \* saved settings that apply_settings has not seen yet
  queued,        \* restarts that wait for _lock
  starting,      \* the thread of the service's start has not had _lock yet
  work,          \* what the holder of _lock does, None while it is free
  restarting,    \* _restarting
  reporter,      \* _reporter: the number of a bot or None
  bots,          \* the bots made so far
  checked, best, \* ProxyChecker: its list and _best_proxy
  check,         \* the list a running check was begun with, None
  saves,
  overrun, crossed  \* ghosts: see OneBot, BestListed

vars == <<token, list, applying, queued, starting, work, restarting, reporter, bots, checked, best,
          check, saves, overrun, crossed>>

Bot == [token : Tokens \cup {None}, stop : BOOLEAN, alive : BOOLEAN, chat : BOOLEAN,
        via : Proxies \cup {None}]

TypeOK ==
  /\ token \in Tokens \cup {None} /\ list \in SUBSET Proxies
  /\ applying \in SUBSET {"bot", "proxies"}
  /\ queued \in 0..MaxSaves /\ starting \in BOOLEAN /\ restarting \in BOOLEAN
  /\ work = None \/
     work \in [at : {"joining", "stopped", "enabled"}, old : 0..MaxBots, first : BOOLEAN]
  /\ DOMAIN bots \in SUBSET (1..MaxBots) /\ \A i \in DOMAIN bots : bots[i] \in Bot
  /\ reporter \in DOMAIN bots \cup {None}
  /\ checked \in SUBSET Proxies /\ best \in Proxies \cup {None}
  /\ check \in (SUBSET Proxies) \cup {None}
  /\ saves \in 0..MaxSaves /\ overrun \in BOOLEAN /\ crossed \in BOOLEAN

settings == <<token, list, applying, saves>>
manager == <<queued, starting, work, restarting, reporter>>
proxies == <<checked, best, check, crossed>>

-----------------------------------------------------------------------------
\* The settings page: set_many, then apply_settings.
Save(what, newToken, newList) ==
  /\ saves < MaxSaves /\ saves' = saves + 1
  /\ token' = newToken /\ list' = newList
  /\ applying' = applying \cup {what}
  /\ UNCHANGED <<bots, overrun>> /\ UNCHANGED manager /\ UNCHANGED proxies

SaveToken(t) == t # token /\ Save("bot", t, list)
SaveList(l) == l # list /\ Save("proxies", token, l)

\* _restart_bot_async: the flag is set, a thread begins, one for each save.
Waiting_Fault == IF restarting THEN queued ELSE queued + 1
Waiting == queued + 1

ApplyBot ==
  /\ "bot" \in applying
  /\ applying' = applying \ {"bot"}
  /\ queued' = Waiting /\ restarting' = TRUE
  /\ UNCHANGED <<token, list, saves, starting, work, reporter, bots, overrun>>
  /\ UNCHANGED proxies

\* set_proxies: a best proxy that is gone from the list is dropped.
Kept(newList) == IF best \in newList THEN best ELSE None

ApplyProxies ==
  /\ "proxies" \in applying
  /\ applying' = applying \ {"proxies"}
  /\ checked' = list /\ best' = Kept(list)
  /\ crossed' = (crossed \/ check # None)
  /\ UNCHANGED <<token, list, saves, check, bots, overrun>> /\ UNCHANGED manager

-----------------------------------------------------------------------------
\* A check (periodic, after a change, of the settings page) pings a snapshot of
\* the list; _update takes the fastest, and keeps the best when all have failed.
CheckBegins ==
  /\ check = None /\ check' = checked
  /\ UNCHANGED <<checked, best, crossed, bots, overrun>>
  /\ UNCHANGED settings /\ UNCHANGED manager

CheckEnds(fastest) ==
  /\ check # None /\ fastest \in check \cup {None}
  /\ best' = IF fastest = None THEN best ELSE fastest
  /\ check' = None
  /\ UNCHANGED <<checked, crossed, bots, overrun>>
  /\ UNCHANGED settings /\ UNCHANGED manager

-----------------------------------------------------------------------------
\* A restart (or the start of the service) gets _lock and stops the old bot ...
Lock(first) ==
  /\ work = None
  /\ IF first THEN starting ELSE queued > 0
  /\ work' = [at |-> IF reporter = None \/ first THEN "stopped" ELSE "joining",
              old |-> IF reporter = None \/ first THEN 0 ELSE reporter, first |-> first]
  /\ starting' = (starting /\ ~first)
  /\ queued' = IF first THEN queued ELSE queued - 1
  /\ reporter' = IF first THEN reporter ELSE None
  /\ bots' = [i \in DOMAIN bots |-> IF i = reporter /\ ~first THEN [bots[i] EXCEPT !.stop = TRUE]
                                    ELSE bots[i]]
  /\ overrun' = (overrun \/ (first /\ reporter # None))
  /\ UNCHANGED restarting /\ UNCHANGED settings /\ UNCHANGED proxies

\* ... waits for its thread, _JOIN_TIMEOUT at most ...
Join ==
  /\ work # None /\ work.at = "joining"
  /\ work' = [work EXCEPT !.at = "stopped"]
  /\ overrun' = (overrun \/ bots[work.old].alive)
  /\ UNCHANGED <<queued, starting, restarting, reporter, bots>>
  /\ UNCHANGED settings /\ UNCHANGED proxies

Free == /\ work' = None
        /\ restarting' = (restarting /\ work.first)

\* ... reads whether the bot is enabled, and may then wait for the proxies ...
ReadEnabled ==
  /\ work # None /\ work.at = "stopped"
  /\ IF token = None THEN Free
     ELSE work' = [work EXCEPT !.at = "enabled"] /\ UNCHANGED restarting
  /\ UNCHANGED <<queued, starting, reporter, bots, overrun>>
  /\ UNCHANGED settings /\ UNCHANGED proxies

\* ... and makes the new bot of the settings as they are now.
Make(ok) ==
  /\ work # None /\ work.at = "enabled"
  /\ Cardinality(DOMAIN bots) < MaxBots
  /\ LET new == Cardinality(DOMAIN bots) + 1
     IN /\ bots' = IF ok THEN [i \in DOMAIN bots \cup {new} |->
                                 IF i = new THEN [token |-> token, stop |-> FALSE, alive |-> TRUE,
                                                  chat |-> FALSE, via |-> best]
                                 ELSE bots[i]]
                   ELSE bots
        /\ reporter' = IF ok THEN new ELSE None
  /\ Free
  /\ UNCHANGED <<queued, starting, overrun>> /\ UNCHANGED settings /\ UNCHANGED proxies

-----------------------------------------------------------------------------
Polling(i) == i \in DOMAIN bots /\ bots[i].alive

\* One turn of the bot's polling: ensure_bot on the proxy of now, the known chat is
\* bound unless the send fails.
Poll(i, bound) ==
  /\ Polling(i) /\ ~bots[i].stop
  /\ bots' = [bots EXCEPT ![i].via = IF best = None THEN @ ELSE best,
                          ![i].chat = @ \/ bound]
  /\ bots' # bots
  /\ UNCHANGED overrun /\ UNCHANGED settings /\ UNCHANGED manager /\ UNCHANGED proxies

Exit(i) ==
  /\ Polling(i) /\ bots[i].stop
  /\ bots' = [bots EXCEPT ![i].alive = FALSE]
  /\ UNCHANGED overrun /\ UNCHANGED settings /\ UNCHANGED manager /\ UNCHANGED proxies

Init ==
  /\ token \in Tokens \cup {None} /\ list = Proxies
  /\ applying = {} /\ queued = 0 /\ starting = TRUE /\ work = None
  /\ restarting = FALSE /\ reporter = None
  /\ bots = [i \in {} |-> None]
  /\ checked = list /\ best = None /\ check = None
  /\ saves = 0 /\ overrun = FALSE /\ crossed = FALSE

Next ==
  \/ \E t \in Tokens \cup {None} : SaveToken(t)
  \/ \E l \in SUBSET Proxies : SaveList(l)
  \/ ApplyBot \/ ApplyProxies
  \/ CheckBegins \/ \E p \in Proxies \cup {None} : CheckEnds(p)
  \/ \E first \in BOOLEAN : Lock(first)
  \/ Join \/ ReadEnabled \/ \E ok \in BOOLEAN : Make(ok)
  \/ \E i \in DOMAIN bots : (\E bound \in BOOLEAN : Poll(i, bound)) \/ Exit(i)

Spec == Init /\ [][Next]_vars

-----------------------------------------------------------------------------
\* Once all that was saved is applied and no restart is under way, the bot that
\* takes the notifications is made of the saved token, and none runs when it is
\* disabled: of several restarts in a row the last save wins, whenever each of
\* them read the settings.
BotFollows ==
  applying = {} /\ queued = 0 /\ ~starting /\ work = None /\ reporter # None
    => token # None /\ bots[reporter].token = token

\* Two bots ask Telegram for updates at the same time only when the wait for the
\* old one ran out, or when the thread of the start got the lock after a restart:
\* it stops no bot.
OneBot == Cardinality({i \in DOMAIN bots : Polling(i)}) <= 1 \/ overrun

\* The bot is sent through a proxy of the list, unless a check of the old list
\* outlived the change and brought a removed one back.
BestListed == best \in checked \cup {None} \/ crossed
=============================================================================

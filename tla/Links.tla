-------------------------------- MODULE Links --------------------------------
(* What holds a line to somebody: bambu_collector.py, klipper_client.py,       *)
(* auto_ignore.py and telegram_manager.py.  The parts share no variable;       *)
(* Services lets them move.                                                    *)
EXTENDS Common, Integers, Sequences

CONSTANTS
  StreakEnd, Backoff, MaxEvents,              \* PrinterLink
  Check, Stale, MaxKlippy, MaxLosses,         \* KlipperHost
  Tries, Retry, ForgetAfter, MaxPasses, MaxMoves,  \* AutoIgnore
  Tokens, Proxies, MaxSaves, MaxBots          \* TelegramBot

VARIABLES
  connected, closed, bridge, failed, attempt, due, waited, listener, stray, closing,
  online, refused, unanswered, loginCap, quiet, told, events,
  klippy, subscribed, socket, wire, linked, hostShown, webhook, heardAt,
  answeredAt, looking, pin, watched, unsaid, klippyTurns, losses,
  passes, pause, seen, looked, tries, skips, working, pressed, midpass, moves,
  token, list, applying, queued, starting, work, restarting, reporter, bots,
  checked, best, check, saves, overrun, crossed

linkVars == <<connected, closed, bridge, failed, attempt, due, waited, listener,
  stray, closing, online, refused, unanswered, loginCap, quiet, told, events>>
hostVars == <<klippy, subscribed, socket, wire, linked, hostShown, webhook,
  heardAt, answeredAt, looking, pin, watched, unsaid, klippyTurns, losses>>
ignoreVars == <<passes, pause, seen, looked, tries, skips, working, pressed, midpass, moves>>
botVars == <<token, list, applying, queued, starting, work, restarting,
  reporter, bots, checked, best, check, saves, overrun, crossed>>

Link == INSTANCE PrinterLink WITH cap <- loginCap
Host == INSTANCE KlipperHost WITH
  MaxTurns <- MaxKlippy, connected <- linked, shown <- hostShown, turns <- klippyTurns
Ignore == INSTANCE AutoIgnore WITH Forget <- ForgetAfter, stored <- seen
Bot == INSTANCE TelegramBot

-----------------------------------------------------------------------------
\* What is said of the constants.
LinkConstants ==
  /\ StreakEnd \in Nat /\ Backoff \in Nat /\ MaxEvents \in Nat
  /\ None \notin Nat
  /\ None \notin {"clearing", "connecting", "started", "alive", "dead", "joining", "done"}

\* The watchdog asks before the connection counts as stale.
HostConstants ==
  /\ Check \in Nat /\ Stale \in Nat /\ Check < Stale
  /\ MaxKlippy \in Nat /\ MaxLosses \in Nat
  /\ None \notin Nat /\ None \notin Host!States \cup {"opening", "open", "hung"}

\* A press may be repeated before its tries are forgotten.
IgnoreConstants ==
  /\ Tries \in Nat /\ Retry \in Nat /\ ForgetAfter \in Nat /\ Retry <= ForgetAfter
  /\ MaxPasses \in Nat /\ MaxMoves \in Nat
  /\ None \notin [count : Nat, last : Nat]
  /\ None \notin {"print", "listed", "other", "away", "armed"}

BotConstants ==
  /\ MaxSaves \in Nat /\ MaxBots \in Nat
  /\ None \notin Nat /\ None \notin Tokens \cup Proxies /\ \A S \in SUBSET Proxies : S # None
  /\ None \notin [at : {"joining", "stopped", "enabled"}, old : 0..MaxBots, first : BOOLEAN]

ASSUME LinksAssumption == LinkConstants /\ HostConstants /\ IgnoreConstants /\ BotConstants

=============================================================================

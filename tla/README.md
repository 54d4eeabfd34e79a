# Printer fleet dashboard: TLA+ models, checks and proofs

The dashboard is one Python process that polls a mixed fleet of 3D printers, serves a web page and an API, notifies over
Telegram, keeps a history, and dries the filament units (AMS) of its Bambu printers by rules. It has one process and many
threads over shared dictionaries, SQLite tables and the printers themselves. What can go wrong in it goes wrong *between*
threads and *over long sequences* of ordinary events, and that is what these modules are about.

| Module | Models | Checked by | Proved in |
|---|---|---|---|
| `PollLoop` | `main.py` `poll_loop` for one printer, with the live refresh of `printer_commands` | `MCPollLoop` | `PollLoop_proofs` |
| `AutoDryEngine` | the threads around the auto-drying rules, `ams_autodry_engine.py` and its callers in `api/admin.py`, `notification_actions.py` | `MCAutoDryEngine` | `AutoDryEngine_proofs` |
| `AutoDryUnit` | the auto-drying rules of one unit, `ams_autodry.py` | `MCAutoDryUnit` | `AutoDryUnit_proofs` |
| `Services` | the sum of the parts below, in four groups | `MCServices` | `Services_proofs` |
| **group `Commands`** | | | `Commands_proofs` |
| `CommandSend` | `printer_commands.py`: marks, publish, reply, timeout | `MCServices` | types, all properties |
| `CommandProbe` | `printer_commands.py`: the probe of the firmware's protection, its verdict | `MCServices` | types, all properties |
| `CommandRefresh` | `printer_commands.py`: the fast refresh after a command | `MCServices` | types, all properties |
| `StatusRules` | `normalizer.py`, `bambu_extras.py`, `bambu_raw.py`: what a report means (pure) | through its users | lemmas on the units' slots |
| `CommandRules` | `printer_commands.py`: which command is sent with what | `MCServices` | `HarmlessSend` |
| `AmsRules` | `printer_commands.py`, `ams_drying.py`: filament changes and dryings | `MCServices` | `AmsSound` |
| `NoticeActions` | `notification_actions.py` | `MCServices` | types, all properties |
| **group `SharedState`** | | | `SharedState_proofs` |
| `FleetRegistry` | `printer_registry.py`: table, running snapshot, caches | `MCServices` | types, all properties |
| `SettingsStore` | `settings_service.py`, `notification_mutes.py` | `MCServices` | types, all properties |
| `FleetBulk` | `fleet_commands.py` | `MCServices` | types, all properties |
| `Accounts` | `api/auth.py`, users in `api/admin.py`, the middleware of `api/main.py` | `MCServices` | types, all properties |
| `JobLedger` | what the table of prints promises (abstract) | implemented by `JobStore` | implemented by `JobStore` |
| `JobStore` | `job_journal.py`: prints to rows, failed writes, restarts, the history | `MCServices` | types, all properties |
| **group `Links`** | | | `Links_proofs` |
| `PrinterLink` | `bambu_collector.py` | `MCServices` | types, all properties |
| `KlipperHost` | `klipper_client.py` | `MCServices` | types, all properties |
| `AutoIgnore` | `auto_ignore.py` | `MCServices` | types, all properties |
| `TelegramBot` | `telegram_manager.py`, `proxy_checker.py`, the loop of `telegram_bot_async.py` | `MCServices` | types, all properties |
| **group `Journal`** | | | `Journal_proofs` |
| `NoticeKeeping` | `notification_tracker.py`, `bambu_raw.py`: since when, and was it cancelled | `MCServices` | types, all properties |
| `JobMachine` | `job_journal.py`: samples to prints | `MCServices`, `MCJobMachine` | types, `TimesAddUp`, `OnePrintPerRow` and `EchoesJudged` with a job counter |

`PROJECT.json` lists components, runs, mutants, the source lines of every definition, findings, hazards and theorems.
To run: `tlc -config MCPollLoop_quiet.cfg MCPollLoop`, `tlc -config MCServices_services.cfg MCServices`,
`tlapm PollLoop_proofs.tla`, and so on.

## 1. Inventory of the system

| Component | State it keeps | Operations | Talks to | What is hard, what makes it right | Module |
|---|---|---|---|---|---|
| **Poll loop** (`main.py`) | `_prev`, `_last_active_state`, `_fail_start`, `_finish_notify_at`, `_last_snapshot` per printer | fetch, publish, notify, history row, grace, offline | collectors, store, Telegram, registry | the store is also written by the live refresh; failures between two transitions. *A transition is reported; offline is earned and does not flap; the history follows.* | `PollLoop` |
| **State store** (`state_store.py`) | newest status per printer; history rows | upsert, snapshot, queries | every thread | last writer wins. *The card converges to the printer.* | `PollLoop` |
| **Printer commands** (`printer_commands.py`) | awaited replies, in-flight and eject marks, capability verdicts, starts of dryings, refresh deadlines | send, reply, probe, refresh | collectors, store, settings | a probe beside a start; a reply beside its timeout; a mark replaced while its owner fails; a stale reading. *The probe never stops a drying; a mark is given back by its owner only; nothing is sent that spoils a print.* | `CommandSend`, `CommandProbe`, `CommandRefresh`, `CommandRules`, `AmsRules` |
| **Auto-drying engine** (`ams_autodry_engine.py`) | `_states`, `_inflight` under `_lock`; the settings row under `_persist_lock` | tick, stop all, run now, release, card commands | rules, commands, settings, store, journal | five kinds of thread act on one unit. *One command per unit; a stop is neither lost nor overridden nor misread.* | `AutoDryEngine` |
| **Auto-drying rules** (`ams_autodry.py`) | one record per unit | `decide`, `apply_start_result`, `apply_user_start`, `apply_stop` | the engine | months of starts, stops, outages and restarts. *An ended series stays over; the limits hold; no phase hangs.* | `AutoDryUnit` |
| **Job journal** (`job_journal.py`, `job_queries.py`) | a machine per printer; `print_jobs` rows; writes to retry | observe, apply, load_open, backfill, marks | store, poll loop | a failed write, a restart, an outage that spans two prints. *No print has two rows, one is open at most; a row is one print.* | `JobMachine`, `JobStore`, `JobLedger` |
| **Notification tracker** (`notification_tracker.py`) | active rows, flags, flap times | annotate, set_flag, load | poll loop, live refresh, normalizer | a flap, a failing insert, a restart. *`since` is the first sighting; a cancel stays one.* | `NoticeKeeping` |
| **Auto-ignore** (`auto_ignore.py`) | tries and skips per pause | check_once | commands, store | job id 0 is shared by network prints. *At most MAX_TRIES, then a rest.* | `AutoIgnore` |
| **Settings, registry** | write-through cache; maintenance map with a generation; label cache | get, set_many; set_maintenance, maintenance_map, discard | every thread | commit and cache update are two steps. *No read is older than the last answered write.* | `SettingsStore`, `FleetRegistry` |
| **Fleet commands** (`fleet_commands.py`) | one lock per family of commands | run_bulk | commands | sends that outlive the deadline. *Two bulk commands of a family never overlap; the lock comes back.* | `FleetBulk` |
| **Notification actions, mutes** | marks per printer, claims of units; mutes by key | press a button; fleet reset; mute | commands, engine, settings | the printer may have changed since the button was shown; the engine starts what is being stopped | `NoticeActions`, `SettingsStore` |
| **Bambu collector** (`bambu_collector.py`) | client, bridge thread, rebuild backoff, streak of refused logins | fetch, connect, rebuild, close | vendored pybambu | a dead listener. *It is replaced, and never doubled.* | `PrinterLink` |
| **Clients** (`klipper_client.py`, `creality_client.py`, `mks_wifi_client.py`) | a socket, the last telemetry | connect, look up, watch, send | printers | klippy's state comes in four ways, in any order. *The shown state catches up; a living connection stays.* | `KlipperHost`, sends in `CommandRules` |
| **Normalizer, notifications, extras, raw telemetry** | merged reports; tables | mappings | collectors, poll loop | data. *The readings commands rest on are safe ones.* | `StatusRules`, `NoticeKeeping` |
| **AMS drying** (`ams_drying.py`) | tables | limits, blockers | engine, commands | data | `AmsRules` |
| **Telegram** (`telegram_manager.py`, `telegram_bot_async.py`, `proxy_checker.py`) | reporter, bot thread, proxies | save, restart, check, notify | poll loop, API | restarts overlap. *The bot that runs is the saved one, and the only one.* | `TelegramBot` |
| **Authentication, audit** | users, tokens, login failures, audit rows | log in, refresh, log out, change users | API | requests that overlap. *Failures are counted; a session has one heir; an admin is left.* | `Accounts` |
| **HTTP API** | – | routes | all services | its routes are threads of the modules above | several |
| **AMS history, temperature history** | samples on disk | append, query | engine, API | retention only | – |
| **Start-up, configuration, domain models, texts, web page, vendored library, deployment** | – | – | – | sequential, generated, foreign, or no state | – |

Interaction in one paragraph: collectors hold the link to a printer; the poll thread fetches every printer each
`POLL_INTERVAL`, puts a normalized status into the store, feeds the job journal and the tracker and sends messages. A second
thread refreshes the store from live telemetry every two seconds. The auto-drying thread wakes every minute (or when woken),
reads statuses and telemetry, lets the rules decide and sends commands. HTTP threads send commands, change settings and talk
to the engine. Settings and maintenance flags are read by all of them through caches.

## 2. `PollLoop`

One printer: the loop keeps nothing that relates two printers, so the others change nothing. Time is counted in polls.

| Model | Code |
|---|---|
| `PollFetch` | one cycle begins: the fetch in the pool, and the clocks read later are a cycle older |
| `PollOk` | the success branch: notifications, repeat timer, history row, `_prev`, `store.upsert` |
| `PollFailFirst`, `PollFailGrace`, `PollFailOffline` | the failure branch: never seen, inside the grace period, past it |
| `RefreshRead`, `RefreshUpsert` | `live_refresh_once`: the telemetry is read, then written, with nothing held in between |
| `AdminMaintenance`, `SnapshotRead`, `SnapshotWrite` | `set_printer_maintenance`: the flag's commit, then `_maintenance_snapshot` reads the store and writes the switch's history row, with no lock over any two of them |
| `PrinterMoves`, `LinkFlips`, `BotFlips`, `AdminSettings`, `Restart` | the printer, its link, the bot, the admin, the process |
| `prev`, `lastActive`, `failAge`, `finishAt`, `rowAge`, `item`, `row`, `liveRead` | `_prev`, `_last_active_state`, `_fail_start`, `_finish_notify_at`, `_last_snapshot`, the store item, the newest history row, the refresh's local status |

The states `cancelled` and `unknown` are handled by every branch as `idle` is, and are it. Ages are capped where the code
compares them with one threshold only. `snap` is what each switch under way still owes. Ghosts: `silent` (polls since the last good one), `sent`, `owed`, and
`overlaid` (the newest row is a switch's, of a status that a poll had replaced before it was written; section 5.4).

| Run | Question | Bounds |
|---|---|---|
| `poll_quiet` | without the live refresh: is every transition reported (`TransitionHeard`), does the history's newest row follow (`RowFollows`), are repeats spaced (`RepeatsSpaced`)? | one switch of the maintenance mode under way at a time; grace, row period and repeat interval of 2 polls; switches none, all, finish only; no restart |
| `poll_card` | with the live refresh: is offline earned (`OfflineEarned`), does it not flap (`NoFlap`), does the card converge (`PowerOffShown`, `CardConverges`)? | grace 2, one restart; the bot, the maintenance flag and the switches do not reach the card and stay fixed |
| `poll_owed` | the comment at `main.py:421`: is a finish that met a dead bot announced later? **No** (`OwedNotAnchored`) | finish messages only, no restart, no live refresh |
| `poll_swallowed` | the comment at `main.py:398`: does a transition survive an offline poll, with the live refresh on? **No** (`TransitionHeard`) | the same, live refresh on |

Two polls suffice for each period: the code compares an age with one threshold, so below, at and above it all occur; longer
periods only repeat "below". The proofs hold for every period.

*Fairness* (`FairCardSpec`): weak fairness of the poll and of the refresh's write. Both are `while True` loops whose bodies
catch every exception; a fetch has a timeout.

## 3. `AutoDryEngine`

Units on printers, HTTP clients, one tick thread. A thread's program counter (`pc`) says where it is in a request: `rest`,
`decide` (the tick, observations collected, before the lock), `work` (its workers serve units), `write` (inside
`_persist_lock`, states captured). A worker's stage for a unit (`job`) is the code's order of steps:

    wait -> claimed -> live -> send -> yes / no -> noted -> done

that is: waiting for the claim, claimed, re-checked under the lock, checked on live telemetry, sent, answered, result applied
to the unit's state under the lock, claim given back.

| Model | Code |
|---|---|
| `TickCollect`, `TickDecide` | `tick`: `_collect`, then one critical section over all units; starts are claimed in it |
| the steps of a worker | `_execute_start`, `run_now`, `stop_all`, `release`, and `printer_command` of `admin.py` with `note_user_command` for the card's commands |
| `Capture`, `Write` | `_persist`: capture under both locks, write under `_persist_lock` |
| `Restart` | a crash at any point, then `set_sources` and `load_state` |
| `st`, `inflight`, `disk` | `_states`, `_inflight`, the settings row `ams_autodry_state` |

A state's `hold` is `none`, `manual` (a stop of the admin's) or `foreign`: the early end of a foreign drying overwrites it, whoever's it was
(`EndedEarly`), and a drying that is back soon after clears a foreign one (`Undone`, the source's `_undo_early_end`).

Ghosts: `promised` (units whose stop was applied and neither undone nor run out), `usurped` (of them, those whose hold a foreign early end took over), `own` (units
that dry because of us).

Abstractions, on purpose: `settle` counts as `idle` (neither starts anything before the rules want to); a timer that may run out
is an action or a choice; a manual hold has a length (`manual_hold_h > 0`); shadow mode is off; `run_now` and `stop_all` read and claim
in one step; a jump of the remaining time is left out while the drying is ours; a database write succeeds; a stop from a
notification acts on one unit. Journal rows and audit are left out.

| Run | Question | Bounds |
|---|---|---|
| `engine` | is one command per unit under way (`ClaimExclusive`), is an answered stop on disk and in force (`StopPersists`, `StopRespected`), is no drying judged while an accepted command's result is pending (`NotMisjudged`); does every claim come back (`ClaimsReturn`), is every request answered (`Served`)? | one unit, one client and the tick, two requests or switches, one restart, a stored status that may lag (322 875 states) |
| `engine_leftalone` | the docstring of `stop_all` (`ams_autodry_engine.py:552`): is a stopped unit left alone for `manual_hold_h`? **No** (`LeftAlone`): the early end of a foreign drying takes the hold over, its return clears it | one client, one request |
| `engine_maintenance` | the README's maintenance mode: is no start re-checked once the printer is in it? **No** (`NoStartInMaintenance`) | one client, two requests |
| `engine_foreign` | the comment at `admin.py:686`: is our start never taken for a foreign one? **No** with a lagging status (`OurStartNotForeign`) | one client, one request |

A client and the tick give every kind of command beside an automatic start or a check, in every order of their steps, and two requests a stop beside a start
of the admin's. Claims are per unit and the states of two units meet only in the persisted row, so one unit keeps the run small.
The proofs of its safety properties (section 7) hold for any number of units, printers, clients, requests and restarts: what two clients do to each other
rests on them. Liveness is checked with the two threads only.

*Fairness* (`FairSpec`): weak fairness of the tick and of the steps that serve a request, none of making a request. Strong fairness of `Capture`:
a thread blocked on `_persist_lock` gets it, because every holder keeps it for one write and the engine sleeps between its checks.

## 4. `AutoDryUnit`

The rules of one unit over a unit that dries, runs out, is switched off, restarted by someone, or lost from sight.

| Model | Code |
|---|---|
| `Check` and the `Check…` cases | `decide`: maintenance, offline, tracked drying, end of a drying, foreign drying, idle, measure |
| `StartAccepted`, `StartRefused`, `StartDropped` | `apply_start_result` for each result of a send, and a start given up before its send |
| `RunNow`, `UserStart`, `Stop`, `Release` | the admin's requests: `apply_start_result`, `apply_user_start`, `apply_stop`, the engine's `release` |
| `Begins`, `EndKind`, `EndedNormally`, `NeverBegan`, `Undone`, `Outcome`, `MaintReset` | the helpers of the same names or purposes in the source |
| `Hour`, `AmsBegins`, `SwitchedOff`, `OutsiderStarts`, `LinkDrops`, `Crash` … | the AMS, the link, the process |

Time is kept in classes. An hour separates the classes of a drying's remaining time, 0 meaning "within the tolerance of its
end" (10 to 15 minutes in the code); the unit is checked many times an hour while it is in sight, so an hour passes only after
a look (`looked`). Timers whose length matters run out by an action of their own, the others are a choice. Commands are one step
(their interleaving is `AutoDryEngine`'s question). `clear` stands for everything that delays a due start: blocker, window,
printing, `retry_at`, `restart_at`. A drying someone else starts is as long as ours or shorter. Runs and series are counted up to `Cap`, two above
the limit, past every comparison of the code. Not modelled: shadow mode, a jump of the wall clock, faults and
stuck units, the plan of a run (`plan_run`), the statistics behind a start (`rest_stats`, `dry_onset`: here `rested`), a missing
sensor reading.

Ghosts: `why` (how the last drying really ended), `blind` (something happened that no look could show), `swapped` (an outsider's program runs where the rules still
track ours), `over` (why the series may
not go on), `exempt` (the pending repeat makes up for an interruption), `orphan` (a waiting row was forgotten).

| Run | Question | Bounds |
|---|---|---|
| `unit` | do ended series stay over (`SeriesStaysOver`), do the limits hold (`LimitKept`), are ends judged by what happened (`EndsJudged`)? Does settling end (`Settles`), does no tracked drying hang (`RunsEnd`), is a damp unit dried again and again (`Dries`)? | a drying of three hours and more, two runs a day and series, two requests, outages, crashes, switches or changes of the air (87 620 states) |
| `unit_forgotten` | the comment at `ams_autodry.py:764`: does no row wait for its measure for ever? **It does** (`NoRowForgotten`) | one hour, three events |

Two runs give a first run, a repeat and a refused third. A length of three classes gives an end in time, one an hour early and one well before
it, each of them in sight and behind an outage. The third class matters: `EndsJudged` first said that every drying switched off in sight is judged as
switched off, and with two classes no state contradicts it; its proof did. A drying switched off early is *not* judged so when an outage hid part of
it, because the code then trusts no reading (`offline_gap`, `ams_autodry.py:703`); the property now says just that. Two events are any two of a request, an outage, a crash,
an outsider and a switch in any order; what follows from them (starts, ends, timers, returns) is unbounded, and the safety properties are proved for any
number of events and any length (section 7). An outsider's shorter program over our run and a crash are such a pair: they are why `EndsJudged` has its
exception `swapped` (section 5.4).

*Fairness* (`FairSpec`): weak fairness of the engine's check and sends (its loop catches every exception), of the timers, of the passing
of time, and of the restart (`Restart=on-failure` in `deploy/bambudiagnostic.service`). Of the printer: what delays a start passes, and a start tried again and again is accepted
and begins at some time (strong fairness of `StartAccepted`, `AmsBegins`). `Dries` would be false of a printer that refuses for ever, whatever the
code does.

## 5. The services: `MCServices`

Each of the seventeen parts below keeps state of its own: the models share no variable, because the code's services meet only by calls whose
outcome a model chooses (a send succeeds or not, a status is this or that). Interleaving two parts would only multiply their states, so
`Services` is their *sum*: the initial state chooses the part that moves (`part`), the others keep their first state. A property of a
part holds in the sum exactly if it holds of the part.

    Common -> Commands, SharedState, Links, Journal -> Services -> MCServices

`Common` declares what the groups share. A group declares its parts' constants and variables, instantiates them (`Send == INSTANCE CommandSend`, …) and states in one
named assumption what the code justifies of the constants. `MCServices` gives the constants small values. The one run `services` checks all
parts (1 199 079 distinct states, four minutes). Requests and printers may stop at any time and every bound ends the part that reached it, so
deadlock is not checked; no property needs fairness. The senders are interchangeable and symmetric.

| Property | Says | Parts |
|---|---|---|
| `NoDoubleSend` | of two clicks only one moves filament or bed or presses a button, whoever fails beside them | `CommandSend`, `NoticeActions` |
| `ToldTruth` | a sender is told what the printer said of its own command; a failed one blocks nobody; an admin's stop of the drying stands | `CommandSend`, `NoticeActions` |
| `ProbeSpares`, `VerdictKept` | the probe's stop cuts no drying short; what is known of the protection survives silence and restarts | `CommandProbe` |
| `RefreshFollows` | after a command one loop refreshes the card until it shows the outcome | `CommandRefresh` |
| `CommandsSound` | nothing is sent that could spoil a print, choke or burn a hot end, soften a spool or feed a wrong slot | `CommandRules`, `AmsRules`, `NoticeActions` |
| `RowsSound` | a row is the time of one print, its pauses and outages fit into it, rows follow each other; with no write due table and memory agree | `JobMachine`, `JobStore` |
| `LedgerKept` | the table is the abstract ledger, over failed writes, restarts and the replay of the history | `JobStore` implements `JobLedger` |
| `NoticesKept` | a cancel stays a cancel, a flapping code keeps its time | `NoticeKeeping` |
| `NoStorm` | a pause that comes back is not waved through for ever, nor in a maintenance mode its pass has read; refused logins are told once a streak; a living connection is not torn down | `AutoIgnore`, `PrinterLink`, `KlipperHost` |
| `FreshReads`, `PendingTold` | no read is older than the last answered switch; a page without pending changes hides none | `FleetRegistry` |
| `SettingsKept` | two writers lose nothing, the copy in memory is the table's | `SettingsStore` |
| `BotFollows` | the last save decides the bot, two bots never ask at once, the proxy is a listed one | `TelegramBot` |
| `BulkSound` | bulk sends never overlap, nobody is locked out, an answer stays true | `FleetBulk` |
| `LinkSound` | one listener, or about to be; klippy's state is shown and its status flows | `PrinterLink`, `KlipperHost` |
| `AccountsKept` | logins are counted, a session has one heir, an admin is left | `Accounts` |
| `TypeOK` | the type invariant of the part that moves | all |

### 5.1 Commands

| Module | Model | Code | Bounds, and why they are enough |
|---|---|---|---|
| `CommandSend` | `LookAt`, `ClaimSwap`/`ClaimEject`, `Publish`, `Wake`, `TimeOut`, `Unanswered`, `GiveBack`; the printer's `Answer`, `ChangeBegins`/`Ends` | live checks; `_claim_inflight`, `_claim_eject`; `_send_local` up to its wait, its two ends and its `finally`; `_release_*`; `note_local_reply` on the MQTT thread | two senders, three loads, or two commands with an eject among them; guard 2 ticks, reply 1. Three: one fails while a later one holds the mark it would give back |
| `CommandProbe` | `Probe…`, `Arm`, `Start…`, `Signature…`, `Snapshot`/`WriteVerdict`, restart | `probe`, the mark of a start and its publish under one lock, `note_signature`, the persistence outside of it | quiet time 2, two turns of the printer; the threads' own steps unbounded |
| `CommandRefresh` | `CommandSent`; a loop `LoopReads`, `LoopPasses`/`Blind`/`Raises`, `LoopJudges`, `LoopFails` | `_start_fast_refresh`, `_fast_refresh_loop` | two loops, deadlines 2 and 4: below, at and past the least time |
| `CommandRules` | `AskCommand`, `AskIgnore`, `AskLight`, `AskSocket`: one request decided from every report | `send` and its builders for the three kinds of printers, lamps, the sends over a socket | every combination of the reported states the code distinguishes; parameters at, below and past each limit |
| `AmsRules` | `AskSwap`, `AskDry` | the payloads and refusals of load, unload and drying | AMS sets of one to three units, with unread, bare and high-temperature spools, for both firmware protocols |

`StatusRules` holds the readings both decide on: the state of each kind of printer, its filament change, what is loaded where. A guard of several `if`s
that may hold together is an `IF` chain in these modules, as in the code: TLA+'s `CASE` would leave the choice open.

### 5.2 Journal and notifications

| Module | Model | Code | Bounds, and why they are enough |
|---|---|---|---|
| `JobMachine` | `Poll` (observe, confirm, hold, close, merge, split) over a printer that begins, pauses, stops, loses power or sight | `JobMachine.feed` and its helpers, `RawReport`'s job counter | two prints and two troubles in six polls, outages of up to four: shorter and longer than the threshold 2. `print_echo` (below): nine polls, three troubles, a printer without a job counter |
| `JobStore` | `Feed…` (one transaction per poll), `Crash`, `Start`, `Backfill`, `LoadOpen`, `Reload`, `SetVerdict` | `JournalDB.apply`, `_retry`, `load_open`, `_handover`, the backfill of the history, the mark of a print | one print of the past, two of the present, two failed writes or crashes: a failure while a failure is due |
| `NoticeKeeping` | `Poll`, `Restart`, `Clear`; the printer's reports | `annotate`, `set_flag`, `load`, `RawReport.update` | grace 2, four hours, four changes at the printer, two faults: a flap inside and past the grace, a failed write before a restart, a print that begins out of sight |
| `AutoIgnore` | `Pass`, `Judge`, `Press`; `Store`, `Move` | `check_once`: the status and the live context are read, then the maintenance mode, then `note_try`; `ignore_print_error` presses | two tries, retry 2, forget 4, eleven passes: two whole rounds of tries |

The run `print_echo` checks `JobMachine` alone (`MCJobMachine`), for a printer that does not count its prints: does a progress drop tell every print from the one before
(`job_journal.py:1`, 73)? **No** (`EchoesJudged`): the second print starts at 0 %, but shows the first one's time left and layers
and pauses so for the two samples its drop is judged on; when it goes on the progress drops no more, and after eight polls one row holds both.

### 5.3 Shared state

| Module | Model | Code | Bounds, and why they are enough |
|---|---|---|---|
| `FleetRegistry` | `Table` (create, change, delete, restore, discard, restart of the polling), the split calls of `Thread`, hits, `Tick` | the functions of the same purpose; `maintenance_map` (look, read, store if the generation is still its own), `set_maintenance`, the label cache | one printer, two threads, three calls: two switches beside one slow read |
| `SettingsStore` | `Put…`, `Mute…` split at commit and at the copy's update, `Reload` | `set_many`, `set_muted` under `_lock` | two writers, three keys, two per printer, four writes |
| `TelegramBot` | `SaveToken`, `SaveList`, `Apply…`, `Lock`, `Join`, `ReadEnabled`, `Make`, `Poll`, `Exit`, `Check…` | `apply_settings`, `_restart_bot_async` under `_lock`, `_restarting`, the bot's loop, `ProxyChecker` | two saves and three bots: a restart queued behind a restart |
| `FleetBulk` | `Begin`, `StartSend`/`EndSend`, `WaitEnds`, `Cancel`, `Answer` | `run_bulk`: skips, pool, deadline, cancellation, late sends | two callers, two printers, one worker: a send that waits for the worker while the other is late |
| `PrinterLink` | `Connect`, `Bridge…`, `Fetch…`, `Close…`; logins of the listener | `_start_bridge`, `_bridge_run`, `fetch`, `close`, the client's `on_connect` and `on_connect_fail` | streak 3, backoff 2, six events: a rebuild that fails, beside a close |
| `NoticeActions` | `Look`, `Claim`, `ClaimUnit`, `Publish`, `Ends`, `Finally`, `ResetOne`; the engine's start | `_run_live` and the tables, `_claim`/`_release`, the engine's `claim`/`unclaim`, `reset_one` | two clickers, two units, three presses, guard 2 |
| `KlipperHost` | `Connect`, `OnOpen`/`OnClose`, `Status`, `Notice`, `Info`, `Why`, `Objects`, `Watch`, `FetchStale` | the socket's callbacks by kind of message, the watchdog, the guard of `get_data` | three turns of klippy, one lost socket, check 1, stale 2 |
| `Accounts` | `Login`, `Enter`, `Verify`, `Grant`; `Refresh`, `Claim`, `Mint`; `Request`, `Act`; `Logout` | the login under its source's lock, the exchange of a refresh token, the middleware's check and an admin's change after it | two threads, two users, one source, limit 1, two logins, three changes and tokens |

### 5.4 What the ghosts excuse

Some properties are weaker than one would wish, because the code is; each says by a named ghost exactly where. They are what a maintainer
should know:

- `usurped`: the early end of a foreign drying overwrites `hold_until` and `hold_reason` whoever's the hold was (`ams_autodry.py:931`), and a drying that is back
  within `RESTART_S` clears it (746-747). An admin's answered stop is then neither in memory nor on disk: the finding `engine_leftalone`. `StopPersists` and
  `StopRespected` except a unit from the moment its hold was taken over.
- `swapped`: an outsider's program over our run that is no longer than what is left of it shows no jump (`ams_autodry.py:860-861`) and stays ours to the rules. If it runs
  out where no look sees it and the last reading is lost with a crash, the planned end of our run still lies ahead and the end is judged interrupted (703-712, 942-951): a repeat outside the limits.
- `overlaid`: a switch of the maintenance mode reads the store and writes its row with no lock over both (`admin.py:280-284`). A poll in between leaves the newest row at the
  state of before, until the state changes or the row period is over (`RowFollows`). The source calls an extra row harmless (`admin.py:277`); this one may show an old state.
- `midpass`: a pass of the auto-ignore that read the maintenance mode before it was switched on still presses (`auto_ignore.py:144`, 160-161; `ignore_print_error` looks at the
  pause and its code only), though `check_once` says that a listed pause in it "is never pressed and no try is spent" (127-130). It is the gap of the finding `engine_maintenance` again.
- `overlap`, `reversed`: two writes of a verdict, or of one plain setting, that overlap may reach disk (or the copy) in the other order.
- `undone`: `discard_changes` writes a maintenance mode back that a switch changed between its two steps.
- `overtaken`: an error that drops the machine while a write is due leaves that print's row to the next start's hand-over.
- `unseen`, prints without a job counter: two prints that no sample tells apart become one row. `echoed`: so does a print that first shows the counters of
  the one before, when a pause holds them for longer than `_drop` is judged on, or an idle comes between: `_drop` is in memory only and `_close` clears it. That is the
  finding `print_echo` (`EchoesJudged`); without a print so excused `OnePrintPerRow` holds at that run's bounds too (6 090 060 states). It compares prints that follow each other in a row: with a third print between them, seen only as it
  began, two prints no sample confuses may share one. So stated it held beyond the run's bounds (three prints in nine polls, four in eight, 9 800 000 states; six prints in
  twenty polls, 54 900 000 simulated).
- `overrun`: the wait for the old bot's thread runs out, or the thread of the service's start gets the lock after a restart and stops
  no bot: two bots for a while.
- `crossed`: a proxy check outlives a change of the list (`TelegramBot`); a request overlaps a change of its own user and is judged by what it
  read before (`Accounts`).
- `unsaid`: klippy turned and nobody told. Right after a long silence of Moonraker the guard of `get_data` (`klipper_client.py:755`) may drop
  a fresh connection; `LiveKept` excepts just that.
- `missed`: the latch of a cancel is cleared by a report that shows the next print begin (`bambu_raw.py:184`). A print that begins while no report arrives
  inherits the latch, and its failure may be shown as a cancel. `blank` is the poll since which no report shows the failure; within the flap
  grace from there a cancel stays shown, later it may not.
- `reported`: a drying started on the printer's screen that the telemetry has not shown yet may meet the probe's stop.

Also seen, and outside these properties: `KlipperClient.disconnect` is never called; a drying the engine starts between the look at
the drying units and a printer-wide stop is stopped without being noted as the admin's; the lamp's state a press stores may overwrite a newer
push; an eject's look and another sender's claim of a filament change are two steps; a fast refresh that sees no printer or raises ends
although a command widened it meanwhile.

## 6. Seeded faults

A definition `X_Fault` (or `X_Early`, `X_Restarted`, `X_Rearmed`, `X_Past`) is `X` with a plausible bug of that code: a dropped guard, a
missing reset, an off-by-one. Nothing uses it. `PROJECT.json` `mutants` pairs each property with one, and TLC finds the property
violated with `X` replaced by it: every property can fail.

## 7. What is proved

For every value of the constants that the named assumptions allow: `PollAssumption`, `EngineAssumption`, `UnitAssumption`, and of the groups
`CommandsAssumption`, `SharedStateAssumption`, `LinksAssumption`, `JournalAssumption`. These say that periods and bounds are natural numbers (a guard, a quiet
time, a limit at least 1, and where the code orders two periods, their order), that `None` is none of the values it stands beside, and of data the code takes from a
printer what the printer's protocol fixes (an AMS has the number 0 to 3 and up to four slots, an AMS HT 128 to 135 and one; a Klipper answers one frame).
TLC evaluates each of them on the runs.

| Module | Theorem | Says |
|---|---|---|
| `PollLoop_proofs` | `TypeCorrect`, `OfflineIsEarned`, `OfflineDoesNotFlap` | types; `OfflineEarned`; `NoFlap` |
| | `TransitionsAreHeard`, `RepeatsAreSpaced`, `RowsFollow` | without the live refresh: `TransitionHeard`; `RepeatsSpaced`; `RowFollows` |
| `AutoDryEngine_proofs` | `TypeCorrect`, `ClaimsAreExclusive`, `StopsPersist`, `StopsAreRespected`, `NeverMisjudged` | types; `ClaimExclusive`; `StopPersists`; `StopRespected`; `NotMisjudged` |
| `AutoDryUnit_proofs` | `TypeCorrect`, `EndedSeriesStayOver`, `LimitsAreKept`, `EndsAreJudged` | types; `SeriesStaysOver`; `LimitKept`; `EndsJudged` |
| `Services_proofs` | `SendsAreSingle`, `TruthIsTold`, `DryingsAreSpared`, `VerdictsAreKept`, `CardsAreRefreshed`, `CommandsAreSound` | `NoDoubleSend`; `ToldTruth`; `ProbeSpares`; `VerdictKept`; `RefreshFollows`; `CommandsSound` |
| | `ReadersSeeTheSwitch`, `ChangesAreTold`, `SettingsAreKept`, `BulksAreSound`, `AccountsAreKept` | `FreshReads`; `PendingTold`; `SettingsKept`; `BulkSound`; `AccountsKept` |
| | `NothingStorms`, `BotIsTheLastSaved`, `LinksAreSound` | `NoStorm`; `BotFollows`; `LinkSound` |
| | `NoticesAreKept`, `LedgerIsKept`, `TypesAreKept` | `NoticesKept`; `LedgerKept`; `TypeOK` |
| | `RowsAreTimed` | the machine's half of `RowsSound`: times add up, and a printer that counts its prints has a row for each |
| | `RowsAreSaved` | the table's half of `RowsSound`: no print has two rows, and with no write due table and memory agree |
| `SharedState_proofs` | `StoreInvariant`, `PrintsAreSaved`, `PrintsAreLedger` | `StoreInv`; `Saved`; `JobStore` implements `JobLedger` |
| the groups' proofs | `SendTypeCorrect`, `ProbeTypeCorrect`, … `NoticesTypeCorrect` | the type invariant of each part with a state |

**From a part to the sum.** `Commands_proofs`, `SharedState_proofs`, `Links_proofs` and `Journal_proofs` prove a theorem `Part!Spec => …` for each conjunct.
`Services_proofs` shows that every behaviour of `Services` is one of each part (`SendRuns`, `ProbeRuns`, …: a step of the sum is a step of
the part or leaves its variables alone) and puts the conjuncts together.

**Poll loop.** `OfflineEarned` speaks of a silence the loop never measures. `CardInv` adds what ties it to the clock the loop has:
an offline card keeps its `_fail_start` at the threshold (`OfflineLatched`), that clock never runs ahead of the silence
(`FailBehind`), and a printer once seen is in the store (`SeenStored`). `NoFlap` follows from the latch: a failing poll finds the
threshold reached. The other three need `QuietInv`: what the loop remembers of the last poll is what it stored, an offline poll leaves the last live state
remembered (`Remembered`), and a young row holds the state it remembers, unless a switch of the maintenance mode still owes its row or wrote a stale one (`RowKept`). With the live refresh, which writes the store between two polls, the first of these is false: that
is the finding `poll_swallowed`, and why these theorems assume `LiveRefresh = FALSE`, as their run does.

**Engine.** `ClaimExclusive` needs `Settled`: a thread that rests or writes has no worker under way, and a card's command one unit. `StopPersists` is not
inductive because a capture taken before a stop may be written after it. `WriterKnown` (who writes holds the lock), `Held` (a promised unit whose hold nobody took over, one of `Kept`, is held in memory) and
`Saved` (every capture waiting to be written holds those of them whose stop is answered) say why that cannot be. `StopRespected`
follows from `Held` and `Checked` (a unit whose start is past its re-check has no hold), which is inductive because of exclusiveness: only
the claim's owner could have stopped the unit since. `NotMisjudged` follows from exclusiveness, as a check skips claimed units.

**Rules.** `SeriesStaysOver` needs the reason of the end remembered in each phase (`SeriesOver`): no repeat pending when idle,
`closed` when settling, a stop under way while a drying is still tracked; and that a claimed repeat is still wanted at its send (`DueKept`). `LimitKept` needs
`Limits`: a waiting repeat leaves room for one run, and a repeat not seen yet would give its place back; `Counted` keeps that
subtraction above zero. `EndsJudged` compares what the code concludes at an end with how the drying really ended. `JudgeInv` ties the two: the planned end is never later
than the drying's own unless it was swapped (`PlanKept`), and exactly it as long as every change was seen (`Followed`); the last reading of a foreign drying, less the time since, is what
remains (`ReadRight`); a drying switched off by a stop is still being stopped (`StopKnown`). All these were model-checked as invariants before they were proved.

**Sending.** `ToldTruth` needs that a waiter is its own command's and holds nothing but that command's verdict (`CallKnown`). For the ejects, the guard's age
must be tied to the commands' ages: the mark is as young as any eject that may still move the bed; who has claimed it has no such eject
beside it; who still holds it has none but its own, so that giving it back when that one failed frees nothing (`EjectInv`). `SwapInv` is
the same with what the senders have seen: only a change all of whose sender's looks are current counts (`Current`), and a change that ends leaves none
current (`SeenKnown`).

**Probe.** `SpareInv`: a drying of ours is known as such, an armed start carries the mark, what was reported was shown, and a probe that has looked
found the printer free of both; the mark stays young until the printer's telemetry shows the drying. `VerdictInv`: each thread writes one snapshot, the snapshot was memory's, and without an overlap an older one is
never the last.

**Refresh.** `Paired`: an entry and a running loop go together, so a command never widens the entry of a loop that has decided to end; with the
clocks' order (`ClocksKept`) and what a pass knows of the newest command (`PassKnows`) `RefreshFollows` follows.

**Rules of the commands.** These need no invariant, but every case. `HarmlessSend`: a heater is set to 0 only behind the check of a cooldown (`CoolsWhenChecked`), and a report that
passes it is of no running job, whatever the normalizer made of it (`CooledAtRest`): a state promoted to printing stays one, or becomes a pause the check knows as guessed.
`AmsSound`: the slots of a unit are numbered after those of the units before it (`BasesGrow`, by counting), so a slot's cumulative number is only its own (`LocateFinds`) and so is its number for
the older firmware (`TargetsDiffer`); a drying's highest temperature is the least that a loaded spool stands (`TempStood`). The proof of `HarmlessSend` also found the property too strong: a report at
100 % with no time left counts as finished even if layers are missing, and the heaters may be cooled (`normalizer.py`'s reading; `MayPrint` says so now, and the run
includes such a report).

**Presses.** `Owned` (an order whose sender waits is that sender's only one), `MarkInv` (an order that may take effect and is younger than the guard is the one the mark stands for, so that
nobody claims beside it and only its own failure takes the mark away) give `NoDoublePress` and `PressFrees`; `StopInv` (a unit is held by the press that took it, and none whose stop is under
way dries or is about to) gives `StopStands`.

**Registry, settings.** `MapInv`: a map in the cache, or in the hands of a read whose generation is still current, is no older than the last answered
switch; `LabelInv` the same of a label's time; `TableInv` gives `PendingTold`. `MutesInv`: who changes the mutes holds the lock and what it read is still memory's; the table differs from
memory only by what the holder committed. `CopyInv`: the newest plain value is in memory or on its way there, unless two writes overlapped.

**Bulk commands.** `CallerInv`: a caller's sends run only while its family's lock is its own, the sends left at its answer are the running ones, and what its wait saw done has ended.

**Accounts.** `GuessInv`: a source's wrong passwords are among its counted failures, and who verifies one is alone in its source. `HeirInv`: a session is carried on by one good token or by one
exchange that took the last one. `Roled`: while no request overlapped a change of its own user, tokens and requests under way have the user's role of now, so who acts is an admin and is one after it.

**Links.** Of a Bambu link `Bridged` says which of thread, bridge and listener go together, `Awaited` bounds what was waited and what is left of a rebuild's delay. Of a Klipper host the
invariant is about the wire: the last message on it will have the client show klippy's state, or it is shown (`Spoken`); a state nobody told of is never `ready` and no older than the
watchdog's period (`Untold`); a ready klippy's status and pin are known or an answer on its way will see to it (`Served`). The lemmas on sequences (`Has`, `Ends`) say what a message appended or
taken off changes.

**Auto-ignore, bot.** `Remembered`: the tries counted are the last presses, in their order and with their time, and an armed press is spaced from the last one. `OneLives`: without an overrun the one living bot reports or is the one a
restart waits for; `Trails`: with nothing owed it has the saved token.

**Notifications.** `NoticeInv`: while reports arrive the last one is the printer's state (`NoticeWire`); a remembered cancel is this print's, unless the print began out of sight (`NoticeLatch`);
disk and memory agree unless a write was lost (`NoticeDisk`); a flag that was shown, and an entry, leave no earlier than the grace after their cause (`NoticeSeen`, `NoticeSince`).

**Prints.** `JobInv` says of the journal's machine what it has heard and what it keeps: the job that runs and the rows fit into the time that has passed and follow each other (`JobFits`:
a pause that is open covers the gaps inside it, an end lies within the job, a print closed for a while is the last row), `RawReport`'s start of a print is no later than now
(`JobStarts`), and the printer's own state (`JobPrinter`). `FeedTaken` splits `feed` into the six things it can do (a sample of the job, a split, a job opened, a row taken back,
an end, an amended row), and each keeps the fit. `JobCounts` is `OneEach` (each row, the job and the closed print hold samples of one print or of later ones begun out of sight, and rows follow the
prints' order) with the counter: `job_seq` is past the job's as soon as another print is sampled (`Apart`), so a split cannot be missed.

**Table of prints.** `Saved` and the ledger rest on `StoreInv`. `Recorded`: no two rows are of one print or open at once. `Held`: the machine and the retry name jobs the process holds; a job
without a row is due, and its print is newer than all on record, so a row written later still comes in order; one with a row has its print's. `Saving`, unless an error dropped the machine
with a write due (`overtaken`): a job not due is as its row says, and only the machine's open job runs.
A transaction is proved step by step (`Upwards`: what holds at first and after each step holds at the end, shown by the least step that would break it, without induction over an operator):
`TxKnown` and `SavedSoFar` say of one under way which rows are its own and which jobs are written (`Handled`). The order of the steps, the ended prints before the running one (`Sorted`), is
what keeps an open print from being refused by the row it follows. Every kind of poll
hands `apply` jobs and operations that fit (`ApplyReady`), and `Applying` turns them into what holds afterwards (`ApplyDone`), written, refused or failed. The refinement maps each step to the
ledger's: a transaction to rows that only grow or change their result (`Grown`), a verdict to one mark (`MarkedOne`), the replay to the ledger's single replay (`Rebuilt`,
row by row), the rest to stutters.

**Types of the sum.** `TypesAreKept` collects the parts' type invariants. For most parts they follow by the shape of the steps; for the table, the machine, the notifications and the accounts
they need the invariants above (an index is one of a job still held, a time is not in the future).

Layout: type lemmas for the record transformers, one lemma per group of actions, then the invariant and the temporal steps.

*Only model-checked*: all liveness (`PowerOffShown`, `CardConverges`, `ClaimsReturn`, `Served`, `Settles`, `RunsEnd`, `Dries`), which is
outside the prover's reach, and, of `OnePrintPerRow`, the printers without a job counter. Those the machine tells apart by progress, time left and layers over the history of two prints; the
model's progress is a function of the print's length in percent, and the argument needs its values at each length.

## 8. Findings

Seven disagreements between the code and what its comments or documentation say, each with a counterexample run:

- `poll_owed`: a finish seen while the bot is down is anchored as announced by the next poll (`main.py:431`).
- `poll_swallowed`: one failed fetch copies the state the live refresh stored into `_prev`, and the transition is never announced (`main.py:501`).
- `engine_maintenance`: the re-check of an automatic start leaves out the maintenance mode (`ams_autodry_engine.py:408`).
- `engine_foreign`: the claim guards the decision of a check, not the age of what it observed (`ams_autodry_engine.py:359`).
- `engine_leftalone`: the early end of a foreign drying overwrites the hold of an admin's stop, and that drying's return clears it: the engine starts the unit within `manual_hold_h` (`ams_autodry.py:931`).
- `print_echo`: on a printer without a job counter a print that pauses while it still shows the counters of the one before shares that one's row (`job_journal.py:726`).
- `unit_forgotten`: a start right after a stop drops the stop's pending measure; its row stays open (`ams_autodry.py:1132`).

## 9. Plan

What is left, in this order:

1. **Proofs**: `OnePrintPerRow` for printers without a counter.
2. **Liveness of the services**: a saved token gets its bot; a bulk command is answered; a dead listener is replaced. Today their safety half is checked
   (`BotFollows`, `FamilyFreed`, `Rebuilt` bounds the wait).
3. **`AutoDryPlan`**: `plan_run`, `rest_stats`, `dry_onset` as recursive functions against reference definitions.
4. **Composition**: the engine's view of a unit implemented by `AutoDryUnit` (a mapping of phases, holds and stops); `JobMachine` feeding
   `JobStore` in place of the latter's choices; shadow mode and clock jumps in `AutoDryUnit`.
5. **Creality**: the client's lookup of its host, beside `KlipperHost`.

## 10. What is not modelled, and why

- *AMS and temperature history*: samples appended under one lock with a retention; no decision rests on them but the drying statistics.
- *The sockets of Creality and MKS printers*: one connect that may be repeated, one reader; a late close only delays the next connect. Their
  telemetry is a mapping; the states commands rest on are in `StatusRules`.
- *Vendored pybambu and paho, Moonraker, Telegram, SQLite*: foreign; modelled as far as the code uses them (a reply is lost, a login refused, a write fails).
- *Start-up, configuration, deployment*: sequential. *Domain models, texts, HMS catalog, web page*: data and rendering.
- *Within modelled components*: what each leaves out is in its note in `PROJECT.json`: wording, retention, figures that are only shown,
  read-only queries, validation of values, expiry of tokens.

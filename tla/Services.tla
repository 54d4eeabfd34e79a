------------------------------ MODULE Services -------------------------------
(* The services around the poll loop.  They share no state in the models, so   *)
(* interleaving their steps adds nothing: the initial state chooses the part    *)
(* that moves, the others keep their first state.                              *)
EXTENDS Commands, SharedState, Links, Journal

VARIABLE part

Parts == {"send", "probe", "refresh", "rules", "ams", "press", "registry", "settings", "bulk",
          "users", "link", "host", "ignore", "bot", "machine", "store", "notices"}
vars == <<part,
  sendVars, probeVars, refreshVars, asked, wanted, pressVars,
  registryVars, settingsVars, bulkVars, usersVars,
  linkVars, hostVars, ignoreVars, botVars,
  machineVars, storeVars, noticesVars>>

\* Of the first states of a part that does not move one is enough.
Init ==
  /\ part \in Parts
  /\ Send!Init
  /\ Probe!Init
  /\ Refresh!Init
  /\ Rules!Init
  /\ Ams!Init
  /\ Press!Init
  /\ Registry!Init /\ (part = "registry" \/ running = [p \in Registered |-> None])
  /\ Settings!Init
  /\ Bulk!Init
  /\ Users!Init /\ (part = "users" \/ role[CHOOSE u \in People : TRUE] = "admin")
  /\ Link!Init
  /\ Host!Init /\ (part = "host" \/ klippy = "startup")
  /\ Ignore!Init
  /\ Bot!Init /\ (part = "bot" \/ token = None)
  /\ Machine!Init /\ (part = "machine" \/ ~counted)
  /\ Store!Init /\ (part = "store" \/ table = <<>>)
  /\ Notices!Init

\* The parts but the one that moves.
Rest ==
  /\ IF part = "send" THEN TRUE ELSE UNCHANGED sendVars
  /\ IF part = "probe" THEN TRUE ELSE UNCHANGED probeVars
  /\ IF part = "refresh" THEN TRUE ELSE UNCHANGED refreshVars
  /\ IF part = "rules" THEN TRUE ELSE UNCHANGED asked
  /\ IF part = "ams" THEN TRUE ELSE UNCHANGED wanted
  /\ IF part = "press" THEN TRUE ELSE UNCHANGED pressVars
  /\ IF part = "registry" THEN TRUE ELSE UNCHANGED registryVars
  /\ IF part = "settings" THEN TRUE ELSE UNCHANGED settingsVars
  /\ IF part = "bulk" THEN TRUE ELSE UNCHANGED bulkVars
  /\ IF part = "users" THEN TRUE ELSE UNCHANGED usersVars
  /\ IF part = "link" THEN TRUE ELSE UNCHANGED linkVars
  /\ IF part = "host" THEN TRUE ELSE UNCHANGED hostVars
  /\ IF part = "ignore" THEN TRUE ELSE UNCHANGED ignoreVars
  /\ IF part = "bot" THEN TRUE ELSE UNCHANGED botVars
  /\ IF part = "machine" THEN TRUE ELSE UNCHANGED machineVars
  /\ IF part = "store" THEN TRUE ELSE UNCHANGED storeVars
  /\ IF part = "notices" THEN TRUE ELSE UNCHANGED noticesVars

Next ==
  /\ UNCHANGED part /\ Rest
  /\ \/ part = "send" /\ Send!Next
     \/ part = "probe" /\ Probe!Next
     \/ part = "refresh" /\ Refresh!Next
     \/ part = "rules" /\ Rules!Next
     \/ part = "ams" /\ Ams!Next
     \/ part = "press" /\ Press!Next
     \/ part = "registry" /\ Registry!Next
     \/ part = "settings" /\ Settings!Next
     \/ part = "bulk" /\ Bulk!Next
     \/ part = "users" /\ Users!Next
     \/ part = "link" /\ Link!Next
     \/ part = "host" /\ Host!Next
     \/ part = "ignore" /\ Ignore!Next
     \/ part = "bot" /\ Bot!Next
     \/ part = "machine" /\ Machine!Next
     \/ part = "store" /\ Store!Next
     \/ part = "notices" /\ Notices!Next

Spec == Init /\ [][Next]_vars

-----------------------------------------------------------------------------
\* Every variable of the part that moves keeps its type.
TypeOK ==
  CASE part = "send" -> Send!TypeOK
    [] part = "probe" -> Probe!TypeOK
    [] part = "refresh" -> Refresh!TypeOK
    [] part = "machine" -> Machine!TypeOK
    [] part = "store" -> Store!TypeOK
    [] part = "notices" -> Notices!TypeOK
    [] part = "ignore" -> Ignore!TypeOK
    [] part = "registry" -> Registry!TypeOK
    [] part = "settings" -> Settings!TypeOK
    [] part = "bot" -> Bot!TypeOK
    [] part = "bulk" -> Bulk!TypeOK
    [] part = "link" -> Link!TypeOK
    [] part = "press" -> Press!TypeOK
    [] part = "host" -> Host!TypeOK
    [] part = "users" -> Users!TypeOK
    [] OTHER -> TRUE

\* Of two clicks only one moves the filament or the bed, or presses a button of a
\* notification, whoever fails beside them (CommandSend, NoticeActions).
NoDoubleSend == Send!NoSecondSwap /\ Send!NoDoubleEject /\ Press!NoDoublePress

\* What a sender is told is what the printer said of its own command, and a failed
\* one leaves nothing that blocks the next attempt; an admin's stop of the drying
\* stands (CommandSend, NoticeActions).
ToldTruth ==
  /\ part = "send" => Send!ToldTruth /\ Send!FailureFrees
  /\ part = "press" => Press!PressFrees /\ Press!StopStands

\* The probe's harmless stop cuts no drying short (CommandProbe).
ProbeSpares == Probe!ProbeSpares

\* What is known of the firmware's protection survives silence and restarts
\* (CommandProbe).
VerdictKept == part = "probe" => Probe!VerdictKept

\* After a command the card is refreshed until it shows the outcome, by one loop
\* (CommandRefresh).
RefreshFollows == []Refresh!OneLoop /\ Refresh!RefreshFollows

\* No command is sent that could spoil a print, burn or choke a hot end, or feed a
\* filament against what the AMS is doing, nor by a notification's button (CommandRules,
\* AmsRules, NoticeActions).
CommandsSound ==
  /\ part = "rules" => Rules!HarmlessSend
  /\ part = "ams" => Ams!AmsSound
  /\ part = "press" => Press!PressSound

\* A row of the journal holds the time of one print; the times of its pauses and
\* outages fit into it, and prints follow each other (JobMachine); with no write due
\* the table and the journal's memory agree (JobStore).
RowsSound ==
  /\ part = "machine" => Machine!OnePrintPerRow /\ Machine!TimesAddUp
  /\ part = "store" => Store!Saved

\* The table of prints is the ledger its readers expect, over failed writes,
\* restarts and the replay of the history (JobStore implements JobLedger).
LedgerKept == Store!LedgerKept

\* A cancel stays a cancel and a flapping code keeps its time, over lost reports
\* and restarts (NoticeKeeping).
NoticesKept == Notices!CancelKept /\ []Notices!SinceKept

\* Nothing is repeated for ever: a pause that comes back at once is not waved through
\* (AutoIgnore), a streak of refused logins is reported once (PrinterLink), a living
\* connection is not torn down (KlipperHost).
NoStorm == Ignore!NoStorm /\ Link!StreakKept /\ Host!LiveKept

\* Nobody reads a maintenance mode older than the last answered switch, nor a label
\* older than its time (FleetRegistry).
FreshReads == part = "registry" => Registry!FreshReads

\* A page without pending changes hides none (FleetRegistry).
PendingTold == part = "registry" => Registry!PendingTold

\* Two writers of the settings lose nothing, and the copy in memory is the table's
\* (SettingsStore).
SettingsKept == part = "settings" => Settings!MutesKept /\ Settings!CopyTrue

\* Of several saves the last decides the bot, its token and its proxy, and two bots
\* never ask at once (TelegramBot).
BotFollows == part = "bot" => Bot!BotFollows /\ Bot!OneBot /\ Bot!BestListed

\* Two bulk commands never send at once, none locks its family out, and what was
\* answered of a printer stays true (FleetBulk).
BulkSound == part = "bulk" => Bulk!OneBulk /\ Bulk!FamilyFreed /\ Bulk!BulkTold

\* A Bambu printer has one listener, or is about to get one (PrinterLink); what a
\* Klipper host says of its printer is shown (KlipperHost).
LinkSound ==
  /\ part = "link" => Link!OneListener /\ Link!Rebuilt
  /\ part = "host" => Host!HostTold /\ Host!ReadyServed

\* Logins that overlap are counted, a session has one heir, and an admin is left
\* (Accounts).
AccountsKept == part = "users" => Users!GuessesCounted /\ Users!OneHeir /\ Users!AdminRemains
=============================================================================

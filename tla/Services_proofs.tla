--------------------------- MODULE Services_proofs ---------------------------
(***************************************************************************)
(* A part of Services does nothing but steps of its own specification, so   *)
(* what was proved of the parts holds of Services: the properties below are *)
(* the ones a run checks on a small instance, here for every value of the   *)
(* constants that the assumptions of the groups allow.                      *)
(***************************************************************************)
EXTENDS Services, Commands_proofs, SharedState_proofs, Links_proofs, Journal_proofs

-----------------------------------------------------------------------------
\* Every behaviour of Services is one of each of its parts.

LEMMA SendRuns == Spec => Send!Spec
<1>1. Init => Send!Init
  BY DEF Init
<1>2. [Next]_vars => [Send!Next]_(Send!vars)
  BY DEF Next, Rest, vars, sendVars, Send!vars
<1> QED
  BY <1>1, <1>2, PTL DEF Spec, Send!Spec

LEMMA ProbeRuns == Spec => Probe!Spec
<1>1. Init => Probe!Init
  BY DEF Init
<1>2. [Next]_vars => [Probe!Next]_(Probe!vars)
  BY DEF Next, Rest, vars, probeVars, Probe!vars
<1> QED
  BY <1>1, <1>2, PTL DEF Spec, Probe!Spec

LEMMA RefreshRuns == Spec => Refresh!Spec
<1>1. Init => Refresh!Init
  BY DEF Init
<1>2. [Next]_vars => [Refresh!Next]_(Refresh!vars)
  BY DEF Next, Rest, vars, refreshVars, Refresh!vars
<1> QED
  BY <1>1, <1>2, PTL DEF Spec, Refresh!Spec

LEMMA RulesRun == Spec => Rules!Spec
<1>1. Init => Rules!Init
  BY DEF Init
<1>2. [Next]_vars => [Rules!Next]_asked
  BY DEF Next, Rest, vars
<1> QED
  BY <1>1, <1>2, PTL DEF Spec, Rules!Spec

LEMMA AmsRuns == Spec => Ams!Spec
<1>1. Init => Ams!Init
  BY DEF Init
<1>2. [Next]_vars => [Ams!Next]_wanted
  BY DEF Next, Rest, vars
<1> QED
  BY <1>1, <1>2, PTL DEF Spec, Ams!Spec

LEMMA PressRuns == Spec => Press!Spec
<1>1. Init => Press!Init
  BY DEF Init
<1>2. [Next]_vars => [Press!Next]_(Press!vars)
  BY DEF Next, Rest, vars, pressVars, Press!vars
<1> QED
  BY <1>1, <1>2, PTL DEF Spec, Press!Spec

LEMMA RegistryRuns == Spec => Registry!Spec
<1>1. Init => Registry!Init
  BY DEF Init
<1>2. [Next]_vars => [Registry!Next]_(Registry!vars)
  BY DEF Next, Rest, vars, registryVars, Registry!vars
<1> QED
  BY <1>1, <1>2, PTL DEF Spec, Registry!Spec

LEMMA SettingsRuns == Spec => Settings!Spec
<1>1. Init => Settings!Init
  BY DEF Init
<1>2. [Next]_vars => [Settings!Next]_(Settings!vars)
  BY DEF Next, Rest, vars, settingsVars, Settings!vars
<1> QED
  BY <1>1, <1>2, PTL DEF Spec, Settings!Spec

LEMMA BulkRuns == Spec => Bulk!Spec
<1>1. Init => Bulk!Init
  BY DEF Init
<1>2. [Next]_vars => [Bulk!Next]_(Bulk!vars)
  BY DEF Next, Rest, vars, bulkVars, Bulk!vars
<1> QED
  BY <1>1, <1>2, PTL DEF Spec, Bulk!Spec

LEMMA UsersRuns == Spec => Users!Spec
<1>1. Init => Users!Init
  BY DEF Init
<1>2. [Next]_vars => [Users!Next]_(Users!vars)
  BY DEF Next, Rest, vars, usersVars, Users!vars, Users!table, Users!audit
<1> QED
  BY <1>1, <1>2, PTL DEF Spec, Users!Spec

LEMMA LinkRuns == Spec => Link!Spec
<1>1. Init => Link!Init
  BY DEF Init
<1>2. [Next]_vars => [Link!Next]_(Link!vars)
  BY DEF Next, Rest, vars, linkVars, Link!vars
<1> QED
  BY <1>1, <1>2, PTL DEF Spec, Link!Spec

LEMMA HostRuns == Spec => Host!Spec
<1>1. Init => Host!Init
  BY DEF Init
<1>2. [Next]_vars => [Host!Next]_(Host!vars)
  BY DEF Next, Rest, vars, hostVars, Host!vars
<1> QED
  BY <1>1, <1>2, PTL DEF Spec, Host!Spec

LEMMA IgnoreRuns == Spec => Ignore!Spec
<1>1. Init => Ignore!Init
  BY DEF Init
<1>2. [Next]_vars => [Ignore!Next]_(Ignore!vars)
  BY DEF Next, Rest, vars, ignoreVars, Ignore!vars
<1> QED
  BY <1>1, <1>2, PTL DEF Spec, Ignore!Spec

LEMMA BotRuns == Spec => Bot!Spec
<1>1. Init => Bot!Init
  BY DEF Init
<1>2. [Next]_vars => [Bot!Next]_(Bot!vars)
  BY DEF Next, Rest, vars, botVars, Bot!vars
<1> QED
  BY <1>1, <1>2, PTL DEF Spec, Bot!Spec

LEMMA NoticesRuns == Spec => Notices!Spec
<1>1. Init => Notices!Init
  BY DEF Init
<1>2. [Next]_vars => [Notices!Next]_(Notices!vars)
  BY DEF Next, Rest, vars, noticesVars, Notices!vars, Notices!program
<1> QED
  BY <1>1, <1>2, PTL DEF Spec, Notices!Spec

LEMMA MachineRuns == Spec => Machine!Spec
<1>1. Init => Machine!Init
  BY DEF Init
<1>2. [Next]_vars => [Machine!Next]_(Machine!vars)
  BY DEF Next, Rest, vars, machineVars, Machine!vars
<1> QED
  BY <1>1, <1>2, PTL DEF Spec, Machine!Spec

LEMMA StoreRuns == Spec => Store!Spec
<1>1. Init => Store!Init
  BY DEF Init
<1>2. [Next]_vars => [Store!Next]_(Store!vars)
  BY DEF Next, Rest, vars, storeVars, Store!vars, Store!process
<1> QED
  BY <1>1, <1>2, PTL DEF Spec, Store!Spec

-----------------------------------------------------------------------------
\* What holds of the parts holds of Services.

\* Every variable of the part that moves keeps its type: the threads of a command, the
\* caches, the sessions, the connections, the notifications and the journal stay in the
\* states their code can handle, whatever the order of their steps.
THEOREM TypesAreKept == Spec => []TypeOK
<1>1. /\ Spec => []Send!TypeOK
      /\ Spec => []Probe!TypeOK
      /\ Spec => []Refresh!TypeOK
      /\ Spec => []Press!TypeOK
  <2>1. /\ Send!Spec => []Send!TypeOK
        /\ Probe!Spec => []Probe!TypeOK
        /\ Refresh!Spec => []Refresh!TypeOK
        /\ Press!Spec => []Press!TypeOK
    BY SendTypeCorrect, ProbeTypeCorrect, RefreshTypeCorrect, PressTypeCorrect, CommandsAssumption DEF CommandsAssumption
  <2> QED
    BY <2>1, SendRuns, ProbeRuns, RefreshRuns, PressRuns, PTL
<1>2. /\ Spec => []Registry!TypeOK
      /\ Spec => []Settings!TypeOK
      /\ Spec => []Bulk!TypeOK
      /\ Spec => []Users!TypeOK
      /\ Spec => []Store!TypeOK
  <2>1. /\ Registry!Spec => []Registry!TypeOK
        /\ Settings!Spec => []Settings!TypeOK
        /\ Bulk!Spec => []Bulk!TypeOK
        /\ Users!Spec => []Users!TypeOK
        /\ Store!Spec => []Store!TypeOK
    BY RegistryTypeCorrect, SettingsTypeCorrect, BulkTypeCorrect, UsersTypeCorrect, StoreTypeCorrect,
       SharedStateAssumption DEF SharedStateAssumption
  <2> QED
    BY <2>1, RegistryRuns, SettingsRuns, BulkRuns, UsersRuns, StoreRuns, PTL
<1>3. /\ Spec => []Ignore!TypeOK
      /\ Spec => []Link!TypeOK
      /\ Spec => []Host!TypeOK
      /\ Spec => []Bot!TypeOK
  <2>1. /\ Ignore!Spec => []Ignore!TypeOK
        /\ Link!Spec => []Link!TypeOK
        /\ Host!Spec => []Host!TypeOK
        /\ Bot!Spec => []Bot!TypeOK
    BY IgnoreTypeCorrect, LinkTypeCorrect, HostTypeCorrect, BotTypeCorrect, LinksAssumption DEF LinksAssumption
  <2> QED
    BY <2>1, IgnoreRuns, LinkRuns, HostRuns, BotRuns, PTL
<1>4. /\ Spec => []Notices!TypeOK
      /\ Spec => []Machine!TypeOK
  <2>1. /\ Notices!Spec => []Notices!TypeOK
        /\ Machine!Spec => []Machine!TypeOK
    BY NoticesTypeCorrect, MachineTypeCorrect, JournalAssumption DEF JournalAssumption
  <2> QED
    BY <2>1, NoticesRuns, MachineRuns, PTL
<1>5. ASSUME /\ Send!TypeOK /\ Probe!TypeOK /\ Refresh!TypeOK /\ Press!TypeOK
             /\ Registry!TypeOK /\ Settings!TypeOK /\ Bulk!TypeOK /\ Users!TypeOK
             /\ Ignore!TypeOK /\ Link!TypeOK /\ Host!TypeOK /\ Bot!TypeOK
             /\ Notices!TypeOK /\ Machine!TypeOK /\ Store!TypeOK
      PROVE  TypeOK
  BY <1>5 DEF TypeOK
<1> QED
  BY <1>1, <1>2, <1>3, <1>4, <1>5, PTL

\* Of two clicks only one moves the filament or the bed, or presses a button of a
\* notification, however the threads that serve them interleave and whoever of them fails
\* (printer_commands.py, notification_actions.py).
THEOREM SendsAreSingle == Spec => NoDoubleSend
<1>1. Send!Spec => Send!NoSecondSwap
  BY SwapsApart, CommandsAssumption DEF CommandsAssumption
<1>2. Send!Spec => Send!NoDoubleEject
  BY EjectsApart, CommandsAssumption DEF CommandsAssumption
<1>3. Press!Spec => Press!NoDoublePress
  BY PressesApart, CommandsAssumption DEF CommandsAssumption
<1> QED
  BY <1>1, <1>2, <1>3, SendRuns, PressRuns, PTL DEF NoDoubleSend

\* What a sender is told is what the printer said of its own command; a failed command
\* or press leaves nothing that blocks the next one, and an admin's stop of the drying
\* stands (printer_commands.py, notification_actions.py).
THEOREM TruthIsTold == Spec => []ToldTruth
<1>1. Send!Spec => []Send!ToldTruth
  BY ToldIsTrue, CommandsAssumption DEF CommandsAssumption
<1>2. Send!Spec => []Send!FailureFrees
  BY FailuresFree, CommandsAssumption DEF CommandsAssumption
<1>3. Press!Spec => []Press!PressFrees
  BY PressesFree, CommandsAssumption DEF CommandsAssumption
<1>4. Press!Spec => []Press!StopStands
  BY StopsStand, CommandsAssumption DEF CommandsAssumption
<1>5. Send!ToldTruth /\ Send!FailureFrees /\ Press!PressFrees /\ Press!StopStands => ToldTruth
  BY DEF ToldTruth
<1> QED
  BY <1>1, <1>2, <1>3, <1>4, <1>5, SendRuns, PressRuns, PTL

\* The probe of the firmware's protection cuts no drying short, whatever is started while
\* it looks (printer_commands.py, probe_protection).
THEOREM DryingsAreSpared == Spec => ProbeSpares
<1>1. Probe!Spec => Probe!ProbeSpares
  BY ProbeIsHarmless, CommandsAssumption DEF CommandsAssumption
<1> QED
  BY <1>1, ProbeRuns, PTL DEF ProbeSpares

\* What was learned of the firmware's protection survives silence and restarts
\* (printer_commands.py).
THEOREM VerdictsAreKept == Spec => []VerdictKept
<1>1. Probe!Spec => []Probe!VerdictKept
  BY VerdictIsKept, CommandsAssumption DEF CommandsAssumption
<1>2. Probe!VerdictKept => VerdictKept
  BY DEF VerdictKept
<1> QED
  BY <1>1, <1>2, ProbeRuns, PTL

\* No command is sent that could spoil a print, burn or choke a hot end, or feed a
\* filament against what the AMS is doing (printer_commands.py, notification_actions.py).
THEOREM CommandsAreSound == Spec => []CommandsSound
<1>1. Rules!Spec => []Rules!HarmlessSend
  BY SendsAreHarmless, CommandsAssumption DEF CommandsAssumption
<1>2. Ams!Spec => []Ams!AmsSound
  BY AmsIsSafe, CommandsAssumption DEF CommandsAssumption
<1>3. Press!Spec => []Press!PressSound
  BY PressesSound, CommandsAssumption DEF CommandsAssumption
<1>4. Rules!HarmlessSend /\ Ams!AmsSound /\ Press!PressSound => CommandsSound
  BY DEF CommandsSound
<1> QED
  BY <1>1, <1>2, <1>3, <1>4, RulesRun, AmsRuns, PressRuns, PTL

\* After a command one loop refreshes the card, until it shows the outcome of the newest
\* command or its time is over (printer_commands.py, _schedule_refresh).
THEOREM CardsAreRefreshed == Spec => RefreshFollows
<1>1. Refresh!Spec => []Refresh!OneLoop
  BY OneLoopAtATime, CommandsAssumption DEF CommandsAssumption
<1>2. Refresh!Spec => Refresh!RefreshFollows
  BY NewestFollowed, CommandsAssumption DEF CommandsAssumption
<1> QED
  BY <1>1, <1>2, RefreshRuns, PTL DEF RefreshFollows

\* Nobody reads a maintenance mode older than the last answered switch, nor a label older
\* than its time, over caches that are filled while they are emptied (printer_registry.py).
THEOREM ReadersSeeTheSwitch == Spec => []FreshReads
<1>1. Registry!Spec => []Registry!FreshReads
  BY ReadsAreFresh, SharedStateAssumption DEF SharedStateAssumption
<1>2. Registry!FreshReads => FreshReads
  BY DEF FreshReads
<1> QED
  BY <1>1, <1>2, RegistryRuns, PTL

\* A page that shows no pending change hides none (printer_registry.py).
THEOREM ChangesAreTold == Spec => []PendingTold
<1>1. Registry!Spec => []Registry!PendingTold
  BY PendingIsTold, SharedStateAssumption DEF SharedStateAssumption
<1>2. Registry!PendingTold => PendingTold
  BY DEF PendingTold
<1> QED
  BY <1>1, <1>2, RegistryRuns, PTL

\* Two admins who write the settings at once lose nothing, and the copy in memory is the
\* table's (settings_service.py).
THEOREM SettingsAreKept == Spec => []SettingsKept
<1>1. Settings!Spec => []Settings!MutesKept
  BY MutesAreKept, SharedStateAssumption DEF SharedStateAssumption
<1>2. Settings!Spec => []Settings!CopyTrue
  BY CopyIsTrue, SharedStateAssumption DEF SharedStateAssumption
<1>3. Settings!MutesKept /\ Settings!CopyTrue => SettingsKept
  BY DEF SettingsKept
<1> QED
  BY <1>1, <1>2, <1>3, SettingsRuns, PTL

\* Two bulk commands of one family never send at once, none locks its family out, and an
\* answer of a printer stays true (fleet_commands.py).
THEOREM BulksAreSound == Spec => []BulkSound
<1>1. Bulk!Spec => []Bulk!OneBulk
  BY BulksApart, SharedStateAssumption DEF SharedStateAssumption
<1>2. Bulk!Spec => []Bulk!FamilyFreed
  BY FamilyIsFreed, SharedStateAssumption DEF SharedStateAssumption
<1>3. Bulk!Spec => []Bulk!BulkTold
  BY AnswersStayTrue, SharedStateAssumption DEF SharedStateAssumption
<1>4. Bulk!OneBulk /\ Bulk!FamilyFreed /\ Bulk!BulkTold => BulkSound
  BY DEF BulkSound
<1> QED
  BY <1>1, <1>2, <1>3, <1>4, BulkRuns, PTL

\* Logins that overlap are counted, a session has one heir, and an admin is left
\* (api/auth.py, api/admin.py).
THEOREM AccountsAreKept == Spec => []AccountsKept
<1>1. Users!Spec => []Users!GuessesCounted
  BY GuessesAreCounted, SharedStateAssumption DEF SharedStateAssumption
<1>2. Users!Spec => []Users!OneHeir
  BY HeirsAreOne, SharedStateAssumption DEF SharedStateAssumption
<1>3. Users!Spec => []Users!AdminRemains
  BY AdminIsLeft, SharedStateAssumption DEF SharedStateAssumption
<1>4. Users!GuessesCounted /\ Users!OneHeir /\ Users!AdminRemains => AccountsKept
  BY DEF AccountsKept
<1> QED
  BY <1>1, <1>2, <1>3, <1>4, UsersRuns, PTL

\* A pause that comes back at once is not waved through (auto_ignore.py), a streak of
\* refused logins is reported once (bambu_collector.py), a living connection is not torn
\* down (klipper_client.py).
THEOREM NothingStorms == Spec => NoStorm
<1>1. Ignore!Spec => Ignore!NoStorm
  BY PressesAreSpaced, LinksAssumption DEF LinksAssumption
<1>2. Link!Spec => Link!StreakKept
  BY StreaksAreKept, LinksAssumption DEF LinksAssumption
<1>3. Host!Spec => Host!LiveKept
  BY LivesAreKept, LinksAssumption DEF LinksAssumption
<1> QED
  BY <1>1, <1>2, <1>3, IgnoreRuns, LinkRuns, HostRuns, PTL DEF NoStorm

\* A cancelled print stays one and a code that flaps keeps the time it was first shown
\* with, over reports that lost it, a link that drops and restarts (bambu_raw.py,
\* notification_tracker.py).
THEOREM NoticesAreKept == Spec => NoticesKept
<1>1. Notices!Spec => Notices!CancelKept
  BY CancelsAreKept, JournalAssumption DEF JournalAssumption
<1>2. Notices!Spec => []Notices!SinceKept
  BY TimesAreKept, JournalAssumption DEF JournalAssumption
<1> QED
  BY <1>1, <1>2, NoticesRuns, PTL DEF NoticesKept

\* What RowsSound says of the machine: the pauses and the outages of a print fit into
\* its row, the rows of a printer follow each other, and a printer that counts its
\* prints has a row for each (job_journal.py feed, _close).
THEOREM RowsAreTimed == Spec => [](Machine!TimesAddUp /\ (counted => Machine!OnePrintPerRow))
<1>1. Machine!Spec => []Machine!TimesAddUp
  BY JobTimesAddUp, JournalAssumption DEF JournalAssumption
<1>2. Machine!Spec => [](counted => Machine!EchoesJudged /\ Machine!OnePrintPerRow)
  BY CountedJobsAreOne, JournalAssumption DEF JournalAssumption
<1>3. (counted => Machine!EchoesJudged /\ Machine!OnePrintPerRow) => (counted => Machine!OnePrintPerRow)
  OBVIOUS
<1> QED
  BY <1>1, <1>2, <1>3, MachineRuns, PTL

\* The table of prints is the ledger its readers expect: prints come on record in their
\* order and stay, one at most runs, marks stay, and the history is replayed once, over
\* failed writes, errors, restarts and sudden stops (job_journal.py implements JobLedger).
THEOREM LedgerIsKept == Spec => LedgerKept
<1>1. Store!Spec => Store!LedgerKept
  BY PrintsAreLedger, SharedStateAssumption DEF SharedStateAssumption
<1> QED
  BY <1>1, StoreRuns, PTL DEF LedgerKept

\* With no write due the table and the journal's memory agree, and no print has two rows
\* (job_journal.py JournalDB.apply).
THEOREM RowsAreSaved == Spec => []Store!Saved
<1>1. Store!Spec => []Store!Saved
  BY PrintsAreSaved, SharedStateAssumption DEF SharedStateAssumption
<1> QED
  BY <1>1, StoreRuns, PTL

\* Of several saves the last decides the bot, its token and its proxy, and two bots never
\* ask at once (telegram_manager.py).
THEOREM BotIsTheLastSaved == Spec => []BotFollows
<1>1. Bot!Spec => []Bot!BotFollows
  BY BotsFollow, LinksAssumption DEF LinksAssumption
<1>2. Bot!Spec => []Bot!OneBot
  BY BotsAreOne, LinksAssumption DEF LinksAssumption
<1>3. Bot!Spec => []Bot!BestListed
  BY ProxiesAreListed, LinksAssumption DEF LinksAssumption
<1>4. Bot!BotFollows /\ Bot!OneBot /\ Bot!BestListed => BotFollows
  BY DEF BotFollows
<1> QED
  BY <1>1, <1>2, <1>3, <1>4, BotRuns, PTL

\* A Bambu printer has one listener or is about to get one (bambu_collector.py); what a
\* Klipper host says of its printer is shown (klipper_client.py).
THEOREM LinksAreSound == Spec => []LinkSound
<1>1. Link!Spec => []Link!OneListener
  BY ListenersAreOne, LinksAssumption DEF LinksAssumption
<1>2. Link!Spec => []Link!Rebuilt
  BY LinksAreRebuilt, LinksAssumption DEF LinksAssumption
<1>3. Host!Spec => []Host!HostTold
  BY HostsAreTold, LinksAssumption DEF LinksAssumption
<1>4. Host!Spec => []Host!ReadyServed
  BY ReadyIsServed, LinksAssumption DEF LinksAssumption
<1>5. Link!OneListener /\ Link!Rebuilt /\ Host!HostTold /\ Host!ReadyServed => LinkSound
  BY DEF LinkSound
<1> QED
  BY <1>1, <1>2, <1>3, <1>4, <1>5, LinkRuns, HostRuns, PTL
=============================================================================

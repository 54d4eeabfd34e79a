----------------------------- MODULE SharedState -----------------------------
(* What every thread reads and requests change: printer_registry.py,           *)
(* settings_service.py, fleet_commands.py, api/auth.py and the table of        *)
(* job_journal.py.  The parts share no variable; Services lets them move.      *)
EXTENDS Common, Integers, Sequences, FiniteSets

CONSTANTS
  Registered, Readers, Ttl, MaxCalls, MaxTicks,               \* FleetRegistry
  Writers, MuteKeys, MaxPerPrinter, MaxWrites,                    \* SettingsStore
  Callers, Fleet, Conditions, Workers, MaxBulks,              \* FleetBulk
  People, Sources, Limit, MaxTokens, MaxLogins, MaxChanges,   \* Accounts
  Past, Prints, MaxAt, MaxSlips                               \* JobStore

VARIABLES
  row, running, mode, label, modeMap, lastMap, gen, labelMap, thread, calls,
  ticks, switched, renamed, answer, undone,
  stored, memory, muteLock, writer, writes, owed, reversed,
  family, at, send, finished, left, answers, bulks,
  role, changed, tokens, revoked, failures, lock, call, guesses, collided, logins, edits,
  began, objects, open, ended, retry, table, phase, version, slips, overtaken

registryVars == <<row, running, mode, label, modeMap, lastMap, gen, labelMap,
  thread, calls, ticks, switched, renamed, answer, undone>>
settingsVars == <<stored, memory, muteLock, writer, writes, owed, reversed>>
bulkVars == <<family, at, send, finished, left, answers, bulks>>
usersVars == <<role, changed, tokens, revoked, failures, lock, call, guesses,
  collided, logins, edits>>
storeVars == <<began, objects, open, ended, retry, table, phase, version,
  slips, overtaken>>

Registry == INSTANCE FleetRegistry WITH Printers <- Registered, Threads <- Readers, MaxTime <- MaxTicks
Settings == INSTANCE SettingsStore WITH Keys <- MuteKeys
Bulk == INSTANCE FleetBulk WITH rows <- answers
Users == INSTANCE Accounts WITH
  Threads <- Senders, Users <- People, failed <- failures, crossed <- collided, changes <- edits
Store == INSTANCE JobStore

-----------------------------------------------------------------------------
\* Nothing is none of the values it stands beside.
RegistryConstants ==
  /\ Ttl \in Nat
  /\ None \notin Registry!Calls /\ None \notin Registry!Modes /\ None \notin Registry!Labels
  /\ None \notin {"map", "label", "new", "deleted", "modified"}
  /\ None \notin Registry!Rows /\ None \notin Registry!Configs

\* The list of the muted takes a record or more.
SettingsConstants ==
  /\ MaxWrites \in Nat /\ MaxPerPrinter \in Nat \ {0}
  /\ None \notin Settings!Requests /\ None \notin Writers

BulkConstants ==
  /\ MaxBulks \in Nat /\ None \notin Callers
  /\ None \notin {"queued", "running", "ok", "rejected", "refused", "cancelled"}
  /\ None \notin {"confirmed", "sent", "skipped", "dry_run"}

UsersConstants ==
  /\ Limit \in Nat /\ MaxTokens \in Nat /\ MaxLogins \in Nat /\ MaxChanges \in Nat
  /\ None \notin Senders /\ None \notin Users!Roles

\* The prints of a printer are numbered; the first start finds the past ones, at
\* least one.
StoreConstants ==
  /\ Cardinality(Prints) \in Nat /\ Prints = 1..Cardinality(Prints)
  /\ Cardinality(Past) \in Nat \ {0} /\ Past = 1..Cardinality(Past) /\ Past \subseteq Prints
  /\ MaxAt \in Nat /\ MaxSlips \in Nat
  /\ None \notin Nat /\ None \notin {"stopped", "failed", "lost"}
  /\ None \notin Store!Jobs /\ None \notin Store!TableRows

ASSUME SharedStateAssumption ==
  RegistryConstants /\ SettingsConstants /\ BulkConstants /\ UsersConstants /\ StoreConstants

=============================================================================

------------------------------- MODULE Journal -------------------------------
(* What one printer's telemetry is turned into: the prints of job_journal.py   *)
(* and the notifications of normalizer.py and notification_tracker.py.  The    *)
(* parts share no variable; Services lets them move.                           *)
EXTENDS Common, Integers, Sequences

CONSTANTS
  Lost, MaxGap, Soon, Length, MaxPrints, MaxPolls, MaxTrouble,  \* JobMachine
  Grace, MaxHour, MaxEpisodes, MaxFaults                        \* NoticeKeeping

VARIABLES
  now, counted, print, sight, raw, machine, rows, unseen, echoed,
  trouble, hour, bambu, link, report, active, flag, saved, screen, witness, turns, faults

machineVars == <<now, counted, print, sight, raw, machine, rows, unseen,
  echoed, trouble>>
noticesVars == <<hour, bambu, link, report, active, flag, saved, screen,
  witness, turns, faults>>

Machine == INSTANCE JobMachine WITH MaxTime <- MaxPolls
Notices == INSTANCE NoticeKeeping WITH MaxTurns <- MaxEpisodes

-----------------------------------------------------------------------------
\* Nothing is none of the values it stands beside.
NoticesConstants ==
  /\ Grace \in Nat /\ MaxHour \in Nat /\ MaxEpisodes \in Nat /\ MaxFaults \in Nat
  /\ None \notin Nat
  /\ None \notin {"IDLE", "RUNNING", "FAILED", "UNKNOWN", "PAUSE"}
  /\ None \notin {"cancel", "fatal", "pause", "common", "cancelled", "failed"}
  /\ None \notin Notices!Entries /\ None \notin Notices!Flags /\ None \notin Notices!Shown

MachineConstants ==
  /\ Lost \in Nat /\ MaxGap \in Nat /\ Soon \in Nat /\ Length \in Nat \ {0}
  /\ MaxPrints \in Nat /\ MaxPolls \in Nat /\ MaxTrouble \in Nat
  /\ None \notin Nat
  /\ None \notin {"hms", "power", "err", "own", "same", "printing", "paused"}
  /\ None \notin Machine!Jobs /\ None \notin Machine!Closeds /\ None \notin Machine!Drops
  /\ None \notin Machine!JobRows /\ None \notin Machine!Results

ASSUME JournalAssumption == NoticesConstants /\ MachineConstants

=============================================================================

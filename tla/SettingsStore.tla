---------------------------- MODULE SettingsStore ----------------------------
(* settings_service.py and notification_mutes.py: the settings in the         *)
(* database, the copy in memory every thread reads, and the muted             *)
(* notifications, one setting that is read, changed and written back whole.   *)
(*                                                                            *)
(* set_many commits and then brings the copy up to date, two steps between    *)
(* which another thread may run.  `plain` stands for a setting the settings   *)
(* page writes; its values are the numbers of the writes.                     *)
EXTENDS Naturals, FiniteSets

CONSTANTS
  None,
  Writers,       \* the threads that serve the requests
  Keys,          \* the records of one printer
  MaxPerPrinter, \* MAX_PER_PRINTER
  MaxWrites      \* bound: requests begun

VARIABLES
  stored,     \* the table
  memory,     \* _cache; load() has warmed it before any request
  muteLock,   \* notification_mutes._lock
  writer,     \* the request each thread is in, None outside
  writes,
  owed,       \* ghost: the keys muted by the answers given so far
  reversed    \* ghost: a write reached the copy after a later one was committed

vars == <<stored, memory, muteLock, writer, writes, owed, reversed>>

Values == [plain : 0..MaxWrites, mutes : SUBSET Keys]
Requests == [of : {"plain", "mutes"}, at : {"locked", "read", "committed"},
             key : Keys \cup {None}, muted : BOOLEAN, plain : 0..MaxWrites, mutes : SUBSET Keys]

TypeOK ==
  /\ stored \in Values /\ memory \in Values
  /\ muteLock \in Writers \cup {None}
  /\ writer \in [Writers -> Requests \cup {None}]
  /\ writes \in 0..MaxWrites /\ owed \in SUBSET Keys /\ reversed \in BOOLEAN

-----------------------------------------------------------------------------
\* set_many of the settings page; the mutes are not among its keys.
PutCommits(w) ==
  /\ writer[w] = None /\ writes < MaxWrites
  /\ writes' = writes + 1
  /\ stored' = [stored EXCEPT !.plain = writes']
  /\ writer' = [writer EXCEPT ![w] = [of |-> "plain", at |-> "committed", key |-> None,
                                      muted |-> FALSE, plain |-> writes', mutes |-> {}]]
  /\ UNCHANGED <<memory, muteLock, owed, reversed>>

PutUpdates(w) ==
  /\ writer[w] # None /\ writer[w].of = "plain"
  /\ memory' = [memory EXCEPT !.plain = writer[w].plain]
  /\ reversed' = (reversed \/ writer[w].plain # stored.plain)
  /\ writer' = [writer EXCEPT ![w] = None]
  /\ UNCHANGED <<stored, muteLock, writes, owed>>

\* set_muted: one read-modify-write at a time.
LockFree_Fault == TRUE
LockFree == muteLock = None

MuteLocks(w, key, muted) ==
  /\ writer[w] = None /\ writes < MaxWrites /\ LockFree
  /\ writes' = writes + 1
  /\ muteLock' = w
  /\ writer' = [writer EXCEPT ![w] = [of |-> "mutes", at |-> "locked", key |-> key,
                                      muted |-> muted, plain |-> 0, mutes |-> {}]]
  /\ UNCHANGED <<stored, memory, owed, reversed>>

Muting(w, at) == writer[w] # None /\ writer[w].of = "mutes" /\ writer[w].at = at
Unlock(w) == IF muteLock = w THEN None ELSE muteLock

\* current(), then: a repeat changes nothing, a full list refuses.
Repeated(w) == writer[w].muted = (writer[w].key \in memory.mutes)
Full(w) == writer[w].muted /\ Cardinality(memory.mutes) >= MaxPerPrinter

MuteReads(w) ==
  /\ Muting(w, "locked")
  /\ IF Repeated(w) \/ Full(w)
     THEN /\ writer' = [writer EXCEPT ![w] = None]
          /\ muteLock' = Unlock(w)
     ELSE /\ writer' = [writer EXCEPT ![w].at = "read",
                          ![w].mutes = IF writer[w].muted THEN memory.mutes \cup {writer[w].key}
                                       ELSE memory.mutes \ {writer[w].key}]
          /\ UNCHANGED muteLock
  /\ UNCHANGED <<stored, memory, writes, owed, reversed>>

\* A write that fails raises: neither the table nor the copy is touched.
MuteCommits(w, ok) ==
  /\ Muting(w, "read")
  /\ IF ok
     THEN /\ stored' = [stored EXCEPT !.mutes = writer[w].mutes]
          /\ writer' = [writer EXCEPT ![w].at = "committed"]
          /\ UNCHANGED muteLock
     ELSE /\ writer' = [writer EXCEPT ![w] = None]
          /\ muteLock' = Unlock(w)
          /\ UNCHANGED stored
  /\ UNCHANGED <<memory, writes, owed, reversed>>

MuteUpdates(w) ==
  /\ Muting(w, "committed")
  /\ memory' = [memory EXCEPT !.mutes = writer[w].mutes]
  /\ owed' = IF writer[w].muted THEN owed \cup {writer[w].key} ELSE owed \ {writer[w].key}
  /\ writer' = [writer EXCEPT ![w] = None]
  /\ muteLock' = Unlock(w)
  /\ UNCHANGED <<stored, writes, reversed>>

\* load() after a restart: the copy is what the table holds.
Reload ==
  /\ \A w \in Writers : writer[w] = None
  /\ memory # stored
  /\ memory' = stored
  /\ UNCHANGED <<stored, muteLock, writer, writes, owed, reversed>>

Init ==
  /\ stored = [plain |-> 0, mutes |-> {}] /\ memory = stored
  /\ muteLock = None
  /\ writer = [w \in Writers |-> None]
  /\ writes = 0 /\ owed = {} /\ reversed = FALSE

Next ==
  \/ \E w \in Writers :
       \/ PutCommits(w) \/ PutUpdates(w)
       \/ \E key \in Keys, muted \in BOOLEAN : MuteLocks(w, key, muted)
       \/ MuteReads(w) \/ (\E ok \in BOOLEAN : MuteCommits(w, ok)) \/ MuteUpdates(w)
  \/ Reload

Spec == Init /\ [][Next]_vars

-----------------------------------------------------------------------------
Busy(of) == \E w \in Writers : writer[w] # None /\ writer[w].of = of

\* While no mute is under way, the table and the copy hold exactly the keys that
\* the requests answered so far muted: two admins who click at once lose nothing,
\* and the list stays within its limit.
MutesKept ==
  /\ ~Busy("mutes") => stored.mutes = owed /\ memory.mutes = owed
  /\ Cardinality(stored.mutes) <= MaxPerPrinter

\* While no write is under way the program runs with what the table holds,
\* unless two writes of the setting overlapped and reached the copy in the
\* other order than the table.
CopyTrue == ~Busy("plain") => memory.plain = stored.plain \/ reversed
=============================================================================

---------------------------- MODULE FleetRegistry ----------------------------
(* printer_registry.py: the table of the printers, the snapshot the           *)
(* collectors were built from, and the two caches every thread reads through: *)
(* the map of the maintenance modes and the labels.                           *)
(*                                                                            *)
(* A call of a thread is split where another thread may step in between: a    *)
(* read looks at the cache, reads the table and stores what it read; a write  *)
(* commits and invalidates.  One printer stands for all in the caches: the    *)
(* maintenance mode is the number of the switch that set it, the label the    *)
(* number of the write that made it.                                          *)
EXTENDS Naturals, FiniteSets

CONSTANTS
  None,
  Printers,
  Threads,
  Ttl,          \* _LABEL_TTL, in ticks
  MaxCalls,     \* bound: calls begun
  MaxTime       \* bound: ticks

VARIABLES
  row,        \* the table: each printer's configuration, deleted or not, or None
  running,    \* _running: the configurations the collectors were built from
  mode, label,              \* of the one printer, in the table
  modeMap, lastMap, gen,    \* _maint_cache, _maint_good, _maint_gen
  labelMap,                 \* _label_cache: the label and when it was asked for
  thread,     \* the call each thread is in, None outside
  calls, ticks,
  switched, renamed,        \* ghosts: the switches answered; when each label was
  answer,     \* ghost: what a read was told last, and the least it may be told
  undone      \* ghost: a discard wrote back a mode that a switch had changed

vars == <<row, running, mode, label, modeMap, lastMap, gen, labelMap, thread, calls, ticks,
          switched, renamed, answer, undone>>

Configs == {"as started", "edited"}
Rows == [cfg : Configs, deleted : BOOLEAN]
Calls == [op : {"switch", "discard", "map", "label", "rename"}, at : {"begun", "done"},
          gen : Nat, since : Nat, floor : Nat, got : Nat, ok : BOOLEAN]
Modes == [mode : Nat, sure : BOOLEAN]
Labels == [label : Nat, since : Nat]

TableTyped ==
  /\ row \in [Printers -> Rows \cup {None}] /\ running \in [Printers -> Configs \cup {None}]
  /\ calls \in Nat
CachesTyped ==
  /\ mode \in Nat /\ label \in Nat /\ gen \in Nat /\ lastMap \in Nat /\ ticks \in Nat
  /\ modeMap \in Modes \cup {None} /\ labelMap \in Labels \cup {None}
  /\ thread \in [Threads -> Calls \cup {None}]
  /\ switched \in Nat /\ undone \in BOOLEAN
  /\ \A n \in DOMAIN renamed : renamed[n] \in Nat /\ n \in 0..label
  /\ answer \in [of : {"map", "label", None}, got : Nat, floor : Nat]
TypeOK == TableTyped /\ CachesTyped

tableVars == <<row, running>>
ghostVars == <<switched, renamed, undone>>

-----------------------------------------------------------------------------
\* pending_state of a row against the snapshot.
Pending_Fault(p) ==
  CASE row[p] = None -> None
    [] row[p] # None /\ running[p] = None -> "new"
    [] row[p] # None /\ running[p] # None ->
         IF row[p].cfg # running[p] THEN "modified" ELSE None
Pending(p) ==
  CASE row[p] = None -> None
    [] row[p] # None /\ running[p] = None -> "new"
    [] row[p] # None /\ running[p] # None ->
         IF row[p].deleted THEN "deleted"
         ELSE IF row[p].cfg # running[p] THEN "modified" ELSE None

\* load_for_startup: the soft-deleted rows are purged, the rest is polled.
Survivors == [p \in Printers |-> IF row[p] # None /\ row[p].deleted THEN None ELSE row[p]]
Polled == [p \in Printers |-> IF Survivors[p] = None THEN None ELSE Survivors[p].cfg]

Restart ==
  /\ \A t \in Threads : thread[t] = None
  /\ calls < MaxCalls /\ calls' = calls + 1
  /\ row' = Survivors /\ running' = Polled
  /\ modeMap' = None /\ lastMap' = 0 /\ gen' = 0 /\ labelMap' = None
  /\ UNCHANGED <<mode, label, thread, ticks, answer>> /\ UNCHANGED ghostVars

\* create_printer, update_printer, delete_printer (soft for a running printer,
\* for good otherwise) and restore_printer, as one committed write each.
Write(p, new) ==
  /\ calls < MaxCalls /\ calls' = calls + 1
  /\ row' = [row EXCEPT ![p] = new]
  /\ row' # row
  /\ UNCHANGED <<running, mode, label, modeMap, lastMap, gen, labelMap, thread, ticks, answer>>
  /\ UNCHANGED ghostVars

Create(p) == row[p] = None /\ running[p] = None /\ Write(p, [cfg |-> "as started", deleted |-> FALSE])
Update(p, cfg) == row[p] # None /\ Write(p, [row[p] EXCEPT !.cfg = cfg])
Delete(p) == /\ row[p] # None
             /\ Write(p, IF running[p] # None THEN [row[p] EXCEPT !.deleted = TRUE] ELSE None)
Restore(p) == row[p] # None /\ Write(p, [row[p] EXCEPT !.deleted = FALSE])

-----------------------------------------------------------------------------
Begin(t, op, value, floor) ==
  /\ thread[t] = None
  /\ calls < MaxCalls /\ calls' = calls + 1
  /\ thread' = [thread EXCEPT ![t] =
       [op |-> op, at |-> "begun", gen |-> gen, since |-> ticks, floor |-> floor, got |-> value,
        ok |-> TRUE]]

In(t, op, at) == thread[t] # None /\ thread[t].op = op /\ thread[t].at = at
Goes(t, value, ok) == thread' = [thread EXCEPT ![t].at = "done", ![t].got = value, ![t].ok = ok]
Ends(t) == thread' = [thread EXCEPT ![t] = None]

\* set_maintenance: read and write under one write lock ...
SwitchCommits(t) ==
  /\ Begin(t, "switch", mode + 1, 0)
  /\ mode' = mode + 1 /\ mode < MaxCalls
  /\ UNCHANGED <<label, modeMap, lastMap, gen, labelMap, ticks, answer>>
  /\ UNCHANGED tableVars /\ UNCHANGED ghostVars

\* ... then _invalidate_maintenance; the call is answered.
SwitchEnds(t) ==
  /\ In(t, "switch", "begun")
  /\ gen' = gen + 1 /\ modeMap' = None
  /\ switched' = IF thread[t].got > switched THEN thread[t].got ELSE switched
  /\ Ends(t)
  /\ UNCHANGED <<mode, label, lastMap, labelMap, calls, ticks, answer, renamed, undone>>
  /\ UNCHANGED tableVars

\* discard_changes: the modes are read before the transaction begins ...
DiscardLooks(t) ==
  /\ Begin(t, "discard", mode, 0)
  /\ UNCHANGED <<mode, label, modeMap, lastMap, gen, labelMap, ticks, answer>>
  /\ UNCHANGED tableVars /\ UNCHANGED ghostVars

\* ... the snapshot is written back with them ...
DiscardCommits(t) ==
  /\ In(t, "discard", "begun")
  /\ row' = [p \in Printers |-> IF running[p] = None THEN None
                                ELSE [cfg |-> running[p], deleted |-> FALSE]]
  /\ mode' = thread[t].got /\ label' = label + 1
  /\ undone' = (undone \/ mode # thread[t].got)
  /\ Goes(t, label', TRUE)
  /\ UNCHANGED <<running, modeMap, lastMap, gen, labelMap, calls, ticks, switched, renamed, answer>>

\* ... and both caches are dropped.
DiscardEnds(t) ==
  /\ In(t, "discard", "done")
  /\ labelMap' = None /\ gen' = gen + 1 /\ modeMap' = None
  /\ renamed' = [n \in DOMAIN renamed \cup {thread[t].got} |->
                   IF n = thread[t].got THEN ticks ELSE renamed[n]]
  /\ Ends(t)
  /\ UNCHANGED <<mode, label, lastMap, calls, ticks, switched, answer, undone>>
  /\ UNCHANGED tableVars

\* update_printer of the label: the commit, then _invalidate_label.
RenameCommits(t) ==
  /\ Begin(t, "rename", label + 1, 0)
  /\ label' = label + 1 /\ label < MaxCalls
  /\ UNCHANGED <<mode, modeMap, lastMap, gen, labelMap, ticks, answer>>
  /\ UNCHANGED tableVars /\ UNCHANGED ghostVars

RenameEnds(t) ==
  /\ In(t, "rename", "begun")
  /\ labelMap' = None
  /\ renamed' = [n \in DOMAIN renamed \cup {thread[t].got} |->
                   IF n = thread[t].got THEN ticks ELSE renamed[n]]
  /\ Ends(t)
  /\ UNCHANGED <<mode, label, modeMap, lastMap, gen, calls, ticks, switched, answer, undone>>
  /\ UNCHANGED tableVars

-----------------------------------------------------------------------------
\* maintenance_map: a hit answers at once; its time to live only bounds what the
\* invalidation misses, so it is not counted on here.
MapHit ==
  /\ modeMap # None
  /\ answer' = IF modeMap.sure THEN [of |-> "map", got |-> modeMap.mode, floor |-> switched]
               ELSE answer
  /\ answer' # answer
  /\ UNCHANGED <<mode, label, modeMap, lastMap, gen, labelMap, thread, calls, ticks>>
  /\ UNCHANGED tableVars /\ UNCHANGED ghostVars

MapBegins(t) ==
  /\ modeMap = None
  /\ Begin(t, "map", 0, switched)
  /\ UNCHANGED <<mode, label, modeMap, lastMap, gen, labelMap, ticks, answer>>
  /\ UNCHANGED tableVars /\ UNCHANGED ghostVars

MapReads(t, ok) ==
  /\ In(t, "map", "begun")
  /\ Goes(t, IF ok THEN mode ELSE 0, ok)
  /\ UNCHANGED <<mode, label, modeMap, lastMap, gen, labelMap, calls, ticks, answer>>
  /\ UNCHANGED tableVars /\ UNCHANGED ghostVars

\* What was read is cached unless a write landed meanwhile; a read that failed
\* answers the last good map.
Caches_Fault(t) == TRUE
Caches(t) == thread[t].gen = gen

MapEnds(t) ==
  /\ In(t, "map", "done")
  /\ LET call == thread[t]
         data == IF call.ok THEN call.got ELSE lastMap
     IN /\ lastMap' = data
        /\ modeMap' = IF Caches(t) THEN [mode |-> data, sure |-> call.ok] ELSE modeMap
        /\ answer' = IF call.ok THEN [of |-> "map", got |-> data, floor |-> call.floor] ELSE answer
  /\ Ends(t)
  /\ UNCHANGED <<mode, label, gen, labelMap, calls, ticks>>
  /\ UNCHANGED tableVars /\ UNCHANGED ghostVars

\* The label a reader is owed: the newest one answered _LABEL_TTL before.
Owed == LET old == {n \in DOMAIN renamed : renamed[n] + Ttl <= ticks}
        IN IF old = {} THEN 0 ELSE CHOOSE n \in old : \A k \in old : k <= n

LabelLives == labelMap # None /\ ticks < labelMap.since + Ttl

LabelHit ==
  /\ LabelLives
  /\ answer' = [of |-> "label", got |-> labelMap.label, floor |-> Owed]
  /\ answer' # answer
  /\ UNCHANGED <<mode, label, modeMap, lastMap, gen, labelMap, thread, calls, ticks>>
  /\ UNCHANGED tableVars /\ UNCHANGED ghostVars

LabelBegins(t) ==
  /\ ~LabelLives
  /\ Begin(t, "label", 0, Owed)
  /\ UNCHANGED <<mode, label, modeMap, lastMap, gen, labelMap, ticks, answer>>
  /\ UNCHANGED tableVars /\ UNCHANGED ghostVars

LabelReads(t) ==
  /\ In(t, "label", "begun")
  /\ Goes(t, label, TRUE)
  /\ UNCHANGED <<mode, label, modeMap, lastMap, gen, labelMap, calls, ticks, answer>>
  /\ UNCHANGED tableVars /\ UNCHANGED ghostVars

\* Stored with the time the call began, whatever was written meanwhile.
LabelEnds(t) ==
  /\ In(t, "label", "done")
  /\ labelMap' = [label |-> thread[t].got, since |-> thread[t].since]
  /\ answer' = [of |-> "label", got |-> thread[t].got, floor |-> thread[t].floor]
  /\ Ends(t)
  /\ UNCHANGED <<mode, label, modeMap, lastMap, gen, calls, ticks>>
  /\ UNCHANGED tableVars /\ UNCHANGED ghostVars

Tick ==
  /\ ticks < MaxTime /\ ticks' = ticks + 1
  /\ UNCHANGED <<mode, label, modeMap, lastMap, gen, labelMap, thread, calls, answer>>
  /\ UNCHANGED tableVars /\ UNCHANGED ghostVars

Init ==
  /\ running \in [Printers -> {"as started", None}]
  /\ row = [p \in Printers |-> IF running[p] = None THEN None
                               ELSE [cfg |-> running[p], deleted |-> FALSE]]
  /\ mode = 0 /\ label = 0 /\ modeMap = None /\ lastMap = 0 /\ gen = 0 /\ labelMap = None
  /\ thread = [t \in Threads |-> None]
  /\ calls = 0 /\ ticks = 0
  /\ switched = 0 /\ renamed = [n \in {} |-> 0]
  /\ answer = [of |-> None, got |-> 0, floor |-> 0] /\ undone = FALSE

Table ==
  \/ \E p \in Printers : Create(p) \/ (\E cfg \in Configs : Update(p, cfg)) \/ Delete(p) \/ Restore(p)
  \/ Restart

Thread(t) ==
  \/ SwitchCommits(t) \/ SwitchEnds(t)
  \/ DiscardLooks(t) \/ DiscardCommits(t) \/ DiscardEnds(t)
  \/ RenameCommits(t) \/ RenameEnds(t)
  \/ MapBegins(t) \/ (\E ok \in BOOLEAN : MapReads(t, ok)) \/ MapEnds(t)
  \/ LabelBegins(t) \/ LabelReads(t) \/ LabelEnds(t)

Next == Table \/ (\E t \in Threads : Thread(t)) \/ MapHit \/ LabelHit \/ Tick

Spec == Init /\ [][Next]_vars

-----------------------------------------------------------------------------
\* Who asks after a switch of the maintenance mode was answered is told of it,
\* whatever reads and writes overlapped.  A label's time is only looked at when a
\* read begins, which may be slow: the label told is as new as any rename answered
\* _LABEL_TTL before its read began, not before its answer.  Left out: a read that
\* failed, and a switch between the two steps of a discard, which writes the mode of
\* before back.
FreshReads == answer.got >= answer.floor \/ (undone /\ answer.of = "map")

\* When no row is shown as pending, a restart builds the collectors that run now:
\* the page never hides a change that the next restart applies.
PendingTold == (\A p \in Printers : Pending(p) = None) => Polled = running
=============================================================================

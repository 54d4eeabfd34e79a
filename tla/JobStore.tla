------------------------------- MODULE JobStore -------------------------------
(* job_journal.py: how the prints of one printer reach the table print_jobs.    *)
(* The machine's steps are written one transaction per poll; a failed write is  *)
(* kept and written in full with the next; a restart goes on with the print     *)
(* that is open in the table; before that, once, the history is replayed.       *)
(* What the machine decides is a choice here (JobMachine has it).               *)
EXTENDS Integers, FiniteSets, Sequences, Functions

CONSTANTS
  None,
  Past,     \* the prints before the first start
  Prints,   \* bound: all prints, 1..n
  MaxAt,    \* bound: steps of a print
  MaxSlips  \* bound: failed writes, errors and crashes

VARIABLES
  began,      \* the prints that began so far
  objects,    \* the Job objects of the process: row id, print, at, result, _emitted
  open,       \* machine.job, an index of objects
  ended,      \* machine.last_closed, an index of objects
  retry,      \* JournalDB._retry of the printer
  table,      \* print_jobs: rows by id, None once deleted
  phase,      \* "down", "replay", "load" (the hand-over) or "up"
  version,    \* backfill_version is the program's
  slips,
  overtaken   \* a write was due when an error dropped the machine (ghost)

process == <<objects, open, ended, retry>>
vars == <<began, process, table, phase, version, slips, overtaken>>

-----------------------------------------------------------------------------
\* The machine-owned columns: how far the print is, and its result.
Columns == {"at", "result"}
Content(job) == [c \in Columns |-> job[c]]
Object(row, print, at, result) ==
  [row |-> row, print |-> print, at |-> at, result |-> result,
   emitted |-> [c \in Columns |-> IF c = "at" THEN at ELSE result]]

Rows == {id \in DOMAIN table : table[id] # None}
OpenIds(t) == {id \in DOMAIN t : t[id] # None /\ t[id].result = None}

\* _emit: the columns changed since the job's last operation, all of an open's.
Op(job, i) == [job |-> i, columns |-> {c \in Columns : job[c] # job.emitted[c]}]
Emitted(job) == [job EXCEPT !.emitted = Content(job)]

\* _update_job and insert_job in the transaction tx over the objects objs.
Updated(tx, id, job, columns) ==
  LET new == [tx.table[id] EXCEPT !.at = IF "at" \in columns THEN job.at ELSE @,
                                  !.result = IF "result" \in columns THEN job.result ELSE @]
      t == [tx.table EXCEPT ![id] = new]
  IN IF \E a, b \in OpenIds(t) : a # b THEN [tx EXCEPT !.refused = TRUE] ELSE [tx EXCEPT !.table = t]
\* An open print refused by idx_jobs_one_open: the stored one is continued.
Inserted_Fault(tx, objs, i) ==
  [tx EXCEPT !.table = Append(@, [print |-> objs[i].print, at |-> objs[i].at, result |-> objs[i].result,
                                  mark |-> FALSE, source |-> "live"]), !.ids[i] = Len(tx.table) + 1]
Inserted(tx, objs, i) ==
  IF objs[i].result = None /\ OpenIds(tx.table) # {}
  THEN [tx EXCEPT !.conflict = IF @ = None THEN CHOOSE id \in OpenIds(tx.table) : TRUE ELSE @,
                  !.dropped = @ \cup {i}]
  ELSE [tx EXCEPT !.table = Append(@, [print |-> objs[i].print, at |-> objs[i].at,
                                       result |-> objs[i].result, mark |-> FALSE, source |-> "live"]),
                  !.ids[i] = Len(tx.table) + 1]

\* One step of the transaction: an operation's columns, or a job in full.
Written(objs, tx, step) ==
  LET i == step.job
      id == tx.ids[i]
      diff == step.columns # Columns /\ id # None
  IN IF tx.refused \/ i \in {None} \cup tx.dropped \cup tx.full THEN tx
     ELSE IF diff THEN Updated(tx, id, objs[i], step.columns)
     ELSE IF id # None THEN [Updated(tx, id, objs[i], Columns) EXCEPT !.full = @ \cup {i}]
     ELSE [Inserted(tx, objs, i) EXCEPT !.full = @ \cup {i}]

\* The retried jobs in full, the closed ones first, then the operations of the others.
Skip == [job |-> None, columns |-> {}]
InFull(queue, jobs) == [n \in DOMAIN queue |-> IF queue[n] \in jobs THEN [job |-> queue[n], columns |-> Columns] ELSE Skip]
Steps(objs, queue, ops) ==
  LET closed == {i \in Range(queue) : objs[i].result # None}
  IN InFull(queue, closed) \o InFull(queue, Range(queue) \ closed)
       \o [n \in DOMAIN ops |-> IF ops[n].job \in Range(queue) THEN Skip ELSE ops[n]]
\* The jobs of the steps, to be retried.
Kept(steps) ==
  LET jobs[n \in 0..Len(steps)] ==
        IF n = 0 THEN <<>> ELSE IF steps[n] = Skip THEN jobs[n - 1] ELSE Append(jobs[n - 1], steps[n].job)
  IN jobs[Len(steps)]

\* The transaction of the steps.
Begun(objs) ==
  [table |-> table, ids |-> [i \in DOMAIN objs |-> IF objs[i] = None THEN None ELSE objs[i].row],
   full |-> {}, dropped |-> {}, conflict |-> None, refused |-> FALSE]
Transaction(objs, steps) ==
  LET tx[n \in 0..Len(steps)] == IF n = 0 THEN Begun(objs) ELSE Written(objs, tx[n - 1], steps[n])
  IN tx[Len(steps)]

Swept(os, used) ==
  IF used \cap DOMAIN os = {} THEN <<>> ELSE [i \in DOMAIN os |-> IF i \in used THEN os[i] ELSE None]

\* JournalDB.apply of the objects objs and a feed's operations; m is what the
\* machine holds after the feed, works whether the database does.
Apply(objs, m, ops, queue, works) ==
  LET steps == Steps(objs, queue, ops)
      tx == Transaction(objs, steps)
      keep == Kept(steps)
      saved == [i \in DOMAIN objs |->
                  IF objs[i] = None THEN None
                  ELSE [objs[i] EXCEPT !.row = tx.ids[i],
                                       !.emitted = IF i \in tx.full THEN Content(objs[i]) ELSE @]]
      stored == tx.table[tx.conflict]
  IN IF queue = <<>> /\ ops = <<>>
     THEN /\ objects' = Swept(objs, {m.open, m.ended}) /\ retry' = <<>>
          /\ open' = m.open /\ ended' = m.ended /\ UNCHANGED <<table, slips>>
     ELSE IF works /\ ~tx.refused
     THEN /\ table' = tx.table /\ retry' = <<>> /\ UNCHANGED slips
          /\ IF tx.conflict = None
             THEN /\ objects' = Swept(saved, {m.open, m.ended})
                  /\ open' = m.open /\ ended' = m.ended
             ELSE /\ objects' = <<Object(tx.conflict, stored.print, stored.at, None)>>
                  /\ open' = 1 /\ ended' = None
     ELSE /\ tx.refused \/ slips < MaxSlips
          /\ slips' = IF tx.refused THEN slips ELSE slips + 1
          /\ retry' = keep /\ objects' = Swept(objs, {m.open, m.ended} \cup Range(keep))
          /\ open' = m.open /\ ended' = m.ended /\ UNCHANGED table

-----------------------------------------------------------------------------
\* observe: a poll's feed and its operations, written or not.
Observing == phase = "up"
NewPrint == began < Cardinality(Prints)
Feed(objs, m, ops, began1) ==
  /\ Observing /\ began' = began1
  /\ \E works \in BOOLEAN : Apply(objs, m, ops, retry, works)
  /\ UNCHANGED <<phase, version, overtaken>>

Opens(objs) == Append(objs, Object(None, began + 1, 0, None))
Changed(i, at, result) == [objects EXCEPT ![i] = [@ EXCEPT !.at = at, !.result = result]]
Emit(objs, i) == [objs EXCEPT ![i] = Emitted(@)]

FeedNothing == Feed(objects, [open |-> open, ended |-> ended], <<>>, began)
FeedOpen ==
  /\ open = None /\ NewPrint
  /\ LET n == Len(objects) + 1
     IN Feed(Opens(objects), [open |-> n, ended |-> None], <<[job |-> n, columns |-> Columns]>>, began + 1)
FeedUpdate ==
  /\ open # None /\ objects[open].at < MaxAt
  /\ LET objs == Changed(open, objects[open].at + 1, None)
     IN Feed(Emit(objs, open), [open |-> open, ended |-> ended], <<Op(objs[open], open)>>, began)
FeedClose(reopenable) ==
  /\ open # None
  /\ LET objs == Changed(open, objects[open].at, "stopped")
     IN Feed(Emit(objs, open), [open |-> None, ended |-> IF reopenable THEN open ELSE None],
             <<Op(objs[open], open)>>, began)
FeedSplit ==
  /\ open # None /\ NewPrint
  /\ LET objs == Changed(open, objects[open].at, "stopped")
         n == Len(objects) + 1
     IN Feed(Opens(Emit(objs, open)), [open |-> n, ended |-> None],
             <<Op(objs[open], open), [job |-> n, columns |-> Columns]>>, began + 1)
FeedReopen ==
  /\ open = None /\ ended # None
  /\ LET objs == Changed(ended, objects[ended].at, None)
     IN Feed(Emit(objs, ended), [open |-> ended, ended |-> None], <<Op(objs[ended], ended)>>, began)
FeedAmend ==
  /\ open = None /\ ended # None /\ objects[ended].result = "stopped"
  /\ LET objs == Changed(ended, objects[ended].at, "failed")
     IN Feed(Emit(objs, ended), [open |-> None, ended |-> ended], <<Op(objs[ended], ended)>>, began)

\* The machine of the print open in the table, read or not (_reload, load_open).
Restored(objs, readable) ==
  LET found == IF readable THEN OpenIds(table) ELSE {}
      id == CHOOSE i \in found : TRUE
  IN IF found = {} THEN [objects |-> objs, open |-> None]
     ELSE [objects |-> Append(objs, Object(id, table[id].print, table[id].at, None)), open |-> Len(objs) + 1]

Slip == slips < MaxSlips /\ slips' = slips + 1
\* observe fails in the feed: its machine is dropped, the writes due are not.
Reload ==
  /\ Observing /\ Slip
  /\ \E readable \in BOOLEAN :
       LET r == Restored(Swept(objects, Range(retry)), readable)
       IN objects' = r.objects /\ open' = r.open
  /\ ended' = None
  /\ overtaken' = (overtaken \/ retry # <<>>)
  /\ UNCHANGED <<began, retry, table, phase, version>>

Crash ==
  /\ phase # "down" /\ Slip
  /\ phase' = "down" /\ objects' = <<>> /\ open' = None /\ ended' = None /\ retry' = <<>> /\ overtaken' = FALSE
  /\ UNCHANGED <<began, table, version>>

-----------------------------------------------------------------------------
\* start: replay the history first unless that was done; load_open when it was.
Start ==
  /\ phase = "down" /\ phase' = IF version THEN "load" ELSE "replay"
  /\ UNCHANGED <<began, process, table, version, slips, overtaken>>

\* _write_backfill of the prints found, in their order (an id without a row is None): in
\* place of the backfilled ones since then, but for those beside a print that stays;
\* marks come back.
RebuiltTable(found, since, running) ==
  LET replaced == {id \in Rows : table[id].source = "backfill" /\ table[id].result # None
                                 /\ table[id].print >= since}
      kept == {table[id].print : id \in Rows \ replaced}
      marked(p) == \E id \in replaced : table[id].print = p /\ table[id].mark
      new == {p \in found \ kept : p = running => OpenIds(table) = {}}
  IN [id \in DOMAIN table |-> IF id \in replaced THEN None ELSE table[id]]
     \o [p \in 1..began |-> IF p \notin new THEN None
                           ELSE [print |-> p, at |-> MaxAt, mark |-> p # running /\ marked(p), source |-> "backfill",
                                 result |-> IF p = running THEN None ELSE "stopped"]]
\* _replay: of the prints that began, those the history still shows.
Replayed == SUBSET (1..began)
Backfill ==
  /\ phase = "replay" /\ phase' = "load"
  /\ \/ /\ \E found \in Replayed, since \in Past, running \in {None, began} :
             table' = RebuiltTable(found, since, running)
        /\ version' = TRUE /\ UNCHANGED slips
     \/ Slip /\ UNCHANGED <<table, version>>
  /\ UNCHANGED <<began, process, overtaken>>

\* load_open: the open print is continued, or closed as lost for its age.
LoadOpen ==
  /\ phase = "load" /\ phase' = "up" /\ UNCHANGED <<began, version, overtaken>>
  /\ \/ /\ Slip /\ UNCHANGED <<process, table>>
     \/ /\ LET r == Restored(<<>>, TRUE)
           IN objects' = r.objects /\ open' = r.open
        /\ UNCHANGED <<ended, retry, table, slips>>
     \/ /\ OpenIds(table) # {}
        /\ LET r == Restored(<<>>, TRUE)
               lost == [r.objects EXCEPT ![1] = Emitted([@ EXCEPT !.result = "lost"])]
           IN \E works \in BOOLEAN :
                Apply(lost, [open |-> None, ended |-> None],
                      <<[job |-> 1, columns |-> {"result"}]>>, <<>>, works)

\* set_verdict, of a print that has ended, on a connection of its own.
SetVerdict ==
  /\ \E id \in Rows : table[id].result # None /\ \E mark \in BOOLEAN : table' = [table EXCEPT ![id].mark = mark]
  /\ UNCHANGED <<began, process, phase, version, slips, overtaken>>

Init ==
  /\ began = Cardinality(Past)
  /\ objects = <<>> /\ open = None /\ ended = None /\ retry = <<>>
  /\ phase = "down" /\ version = FALSE /\ slips = 0 /\ overtaken = FALSE
  /\ table \in {<<>>} \cup {<<[print |-> 1, at |-> 0, result |-> r, mark |-> r # None /\ source = "backfill",
                             source |-> source]>> : r \in {None, "stopped"}, source \in {"live", "backfill"}}

Next ==
  \/ FeedNothing \/ FeedOpen \/ FeedUpdate \/ FeedSplit \/ FeedReopen \/ FeedAmend
  \/ \E reopenable \in BOOLEAN : FeedClose(reopenable)
  \/ Reload \/ Crash \/ Start \/ Backfill \/ LoadOpen \/ SetVerdict

Spec == Init /\ [][Next]_vars

Results == {"stopped", "failed", "lost"}
Jobs == [row : Nat \cup {None}, print : Prints, at : 0..MaxAt, result : Results \cup {None},
         emitted : [at : 0..MaxAt, result : Results \cup {None}]]
TableRows == [print : Prints, at : 0..MaxAt, result : Results \cup {None}, mark : BOOLEAN, source : {"live", "backfill"}]

TypeOK ==
  /\ began \in 0..Cardinality(Prints) /\ slips \in 0..MaxSlips
  /\ phase \in {"down", "replay", "load", "up"} /\ version \in BOOLEAN /\ overtaken \in BOOLEAN
  /\ table \in Seq(TableRows \cup {None}) /\ objects \in Seq(Jobs \cup {None})
  /\ {open, ended} \ {None} \subseteq DOMAIN objects /\ retry \in Seq(DOMAIN objects)
  /\ \A i \in Range(retry) \cup ({open, ended} \ {None}) : objects[i] # None
  /\ phase # "up" => process = <<<<>>, None, None, <<>>>>

-----------------------------------------------------------------------------
\* The table is the ledger its readers expect (job_queries, the journal's page).
RowOf(p) == {id \in Rows : table[id].print = p}
Shape(rows) == CASE rows = {} -> "absent"
                 [] \E id \in rows : table[id].result = None -> "open"
                 [] OTHER -> "ended"
Ledger == INSTANCE JobLedger WITH
  ledger <- [p \in Prints |-> Shape(RowOf(p))],
  live <- {table[id].print : id \in {i \in Rows : table[i].source = "live"}},
  marked <- {table[id].print : id \in {i \in Rows : table[i].mark}},
  rebuilt <- version
LedgerKept == Ledger!Spec

\* With no write due the table holds each print once, and of the print that runs
\* and the one that may be taken up again what the machine holds.
Saved ==
  /\ \A p \in Prints : Cardinality(RowOf(p)) <= 1
  /\ \A i \in {open, ended} \ {None} :
       retry = <<>> /\ ~overtaken => /\ objects[i].row \in Rows
                       /\ LET row == table[objects[i].row]
                          IN row.print = objects[i].print /\ [c \in Columns |-> row[c]] = Content(objects[i])
=============================================================================

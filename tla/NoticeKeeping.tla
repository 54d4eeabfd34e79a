---------------------------- MODULE NoticeKeeping ----------------------------
(* bambu_raw.py, notification_tracker.py: since when a code stands, and whether *)
(* a FAILED printer was cancelled, over reports that flap, a link that drops,   *)
(* restarts of the program and writes that fail.  One Bambu printer, one HMS    *)
(* code; the time is counted in polls, FLAP_GRACE_S is Grace of them.           *)
EXTENDS StatusRules

CONSTANTS
  Grace,
  MaxHour,   \* bound: polls
  MaxTurns,  \* bound: changes at the printer
  MaxFaults  \* bound: lost links, restarts, failed writes

VARIABLES
  hour,
  bambu,    \* the printer: gcode (gcode_state), pe (print_error), code (in hms[]), vague (its first
            \* reports after a reconnect show gcode_state unknown)
  link,     \* its reports arrive
  report,   \* RawReport: gcode, pe, latched, seen and gone of the code
  active,   \* the tracker's entry of the code [row, first, gone], or None
  flag,     \* its flag "state:cancelled" [row, off], or None
  saved,    \* the active rows on disk: a set of [key, first]
  screen,   \* the last online poll: state, since (of the code), or None after a restart
  witness,  \* ghost: the printer's episode (see below)
  turns, faults

program == <<report, active, flag, screen>>
vars == <<hour, bambu, link, program, saved, witness, turns, faults>>

-----------------------------------------------------------------------------
\* RawReport.update of a full report.
Earlier(t, u) == IF u < t THEN u ELSE t
Start == {"RUNNING"}
Done == {"IDLE", "FINISH"}
NewReport == [gcode |-> None, pe |-> None, latched |-> FALSE, seen |-> None, gone |-> None]

UpdateJob(r, gcode, pe) ==
  LET latched == r.latched \/ (pe = "cancel" /\ r.pe # "cancel")
      starts == gcode \in Start /\ r.gcode # None /\ r.gcode \notin {"RUNNING", "PAUSE"}
  IN [r EXCEPT !.gcode = gcode, !.pe = pe, !.latched = latched /\ gcode \notin Done /\ ~starts]
UpdateHms(r, code) ==
  LET back == r.seen = None \/ (r.gone # None /\ hour - r.gone >= Grace)
      away == IF r.gone = None THEN hour ELSE r.gone
  IN CASE code -> [r EXCEPT !.seen = IF back THEN hour ELSE @, !.gone = None]
       [] ~code /\ r.seen # None /\ hour - away < Grace -> [r EXCEPT !.gone = away]
       [] OTHER -> [r EXCEPT !.seen = None, !.gone = None]
Update(r, b) == UpdateHms(UpdateJob(r, IF b.vague THEN "UNKNOWN" ELSE b.gcode, b.pe), b.code)

-----------------------------------------------------------------------------
\* _insert and _close: one row of the key, written or not.  A flag's row has no time.
Inserted(rows, key, first, works) == IF works THEN rows \cup {[key |-> key, first |-> first]} ELSE rows
Closed(rows, key, row, works) == IF row /\ works THEN {r \in rows : r.key # key} ELSE rows

\* annotate: the code's entry.
Annotated(entry, shown, seen, works) ==
  LET first == IF seen = None THEN hour ELSE Earlier(hour, seen)
  IN IF entry = None THEN IF shown THEN [row |-> works, first |-> first, gone |-> None] ELSE None
     ELSE IF shown THEN [entry EXCEPT !.gone = None]
     ELSE IF entry.gone = None THEN [entry EXCEPT !.gone = hour]
     ELSE IF hour - entry.gone >= Grace THEN None ELSE entry

\* _keep_flag_locked: a flag leaves after the grace, or at once when a job runs.
KeptFlag_Fault(f, state, works) ==
  IF state = "cancelled" THEN [row |-> works, off |-> None] ELSE None
KeptFlag(f, state, works) ==
  LET off == IF f = None \/ f.off = None THEN hour ELSE f.off
  IN IF f = None THEN IF state = "cancelled" THEN [row |-> works, off |-> None] ELSE None
     ELSE IF state = "cancelled" THEN [f EXCEPT !.off = None]
     ELSE IF state \in {"printing", "paused"} \/ hour - off >= Grace THEN None
     ELSE [f EXCEPT !.off = off]

\* _load: the rows left on disk.
LoadEntry(rows) ==
  LET mine == {r \in rows : r.key = "code"}
  IN IF mine = {} THEN None
     ELSE [row |-> TRUE, first |-> CHOOSE t \in {r.first : r \in mine} : \A r \in mine : t <= r.first, gone |-> None]
LoadFlag(rows) == IF \E r \in rows : r.key = "flag" THEN [row |-> TRUE, off |-> None] ELSE None

-----------------------------------------------------------------------------
\* Told: what the polls of this FAILED episode and this run of the code told, in
\* [cause, seen, blank, since, missing, lost, ran, missed]: cancelled or failed,
\* shown as cancelled, the first poll that could not show it, the code's first
\* since, the first poll without it, a write lost, a poll saw the job run, the job
\* began out of sight behind one that was last seen running.
Fault == faults < MaxFaults /\ faults' = faults + 1
Reports(b) == report' = IF link THEN Update(report, b) ELSE report

\* A change at the printer, and the report of it.
Turn(b, w) ==
  /\ turns < MaxTurns /\ turns' = turns + 1
  /\ bambu' = b /\ Reports(b) /\ witness' = w
  /\ UNCHANGED <<hour, link, active, flag, saved, screen, faults>>

Begin ==
  /\ bambu.gcode # "RUNNING"
  /\ Turn([bambu EXCEPT !.gcode = "RUNNING", !.pe = None],
          [witness EXCEPT !.cause = None, !.seen = FALSE, !.ran = FALSE,
                          !.missed = ~link /\ report.gcode = "RUNNING"])
\* The cancel's code comes before FAILED or with it, and goes soon after.
Cancel ==
  /\ bambu.gcode = "RUNNING" /\ link
  /\ \E gcode \in {"RUNNING", "FAILED"} :
       Turn([bambu EXCEPT !.gcode = gcode, !.pe = "cancel"], [witness EXCEPT !.cause = "cancelled"])
Fail ==
  /\ bambu.gcode = "RUNNING"
  /\ \E pe \in {None, "fatal"} :
       Turn([bambu EXCEPT !.gcode = "FAILED", !.pe = IF witness.cause = None THEN pe ELSE @],
            [witness EXCEPT !.cause = IF @ = None THEN "failed" ELSE @])
ErrorGone == bambu.pe # None /\ Turn([bambu EXCEPT !.pe = None], witness)
ErrorComes ==
  bambu.gcode = "FAILED" /\ bambu.pe = None /\ Turn([bambu EXCEPT !.pe = "fatal"], witness)
Rest ==
  /\ bambu.gcode = "FAILED"
  /\ Turn([bambu EXCEPT !.gcode = "IDLE", !.pe = None], [witness EXCEPT !.cause = None, !.seen = FALSE])
CodeFlips == Turn([bambu EXCEPT !.code = ~@], witness)

\* The link drops, and comes back to a printer that may not tell its state at first.
Lose == link /\ Fault /\ link' = FALSE /\ UNCHANGED <<hour, bambu, program, saved, witness, turns>>
Return ==
  /\ ~link /\ link' = TRUE
  /\ \E vague \in BOOLEAN : bambu' = [bambu EXCEPT !.vague = vague]
  /\ report' = Update(report, bambu')
  /\ UNCHANGED <<hour, active, flag, saved, screen, witness, turns, faults>>
Clear ==
  /\ bambu.vague /\ bambu' = [bambu EXCEPT !.vague = FALSE] /\ Reports(bambu')
  /\ UNCHANGED <<hour, link, active, flag, saved, screen, witness, turns, faults>>

\* A poll of an online printer: normalize_bambu with the report and the flag, then
\* annotate and what it writes; an offline or a grace status is skipped.
State(r) == BambuState(r.gcode, r.pe, r.latched, flag # None)
Writes == (active = None) # (active' = None) \/ (flag = None) # (flag' = None)
CodeRows(works) ==
  IF active = None /\ active' # None THEN Inserted(saved, "code", active'.first, works)
  ELSE IF active # None /\ active' = None THEN Closed(saved, "code", active.row, works) ELSE saved
FlagRows(rows, works) ==
  IF flag = None /\ flag' # None THEN Inserted(rows, "flag", 0, works)
  ELSE IF flag # None /\ flag' = None THEN Closed(rows, "flag", flag.row, works) ELSE rows

Missing == IF bambu.code THEN None ELSE IF witness.missing = None THEN hour ELSE witness.missing
Blank ==
  IF ~bambu.vague /\ bambu.pe # "fatal" THEN None ELSE IF witness.blank = None THEN hour ELSE witness.blank
Told(state, works) ==
  [witness EXCEPT
     !.seen = (@ \/ state = "cancelled") /\ ~(Blank # None /\ hour - Blank >= Grace),
     !.blank = Blank,
     !.missing = Missing,
     !.since = IF bambu.code THEN IF @ = None THEN active'.first ELSE @
               ELSE IF hour - Missing >= Grace THEN None ELSE @,
     !.ran = @ \/ state = "printing", !.lost = @ \/ ~works]

Poll ==
  /\ hour < MaxHour /\ hour' = hour + 1 /\ UNCHANGED <<bambu, link, turns>>
  /\ \/ ~link /\ UNCHANGED <<report, active, flag, saved, screen, witness, faults>>
     \/ /\ link /\ report' = Update(report, bambu)
        /\ \E works \in BOOLEAN :
             /\ active' = Annotated(active, bambu.code, report'.seen, works)
             /\ flag' = KeptFlag(flag, State(report'), works)
             /\ works \/ (Writes /\ faults < MaxFaults)
             /\ faults' = IF works THEN faults ELSE faults + 1
             /\ saved' = FlagRows(CodeRows(works), works)
             /\ screen' = [state |-> State(report'), since |-> IF bambu.code THEN active'.first ELSE None]
             /\ witness' = Told(State(report'), works)

\* The program restarts: RawReport starts anew, the tracker reads its rows.
Restart ==
  /\ Fault
  /\ report' = IF link THEN Update(NewReport, bambu) ELSE NewReport
  /\ active' = LoadEntry(saved) /\ flag' = LoadFlag(saved) /\ screen' = None
  /\ witness' = [witness EXCEPT !.since = IF witness.lost THEN None ELSE @,
                                !.seen = @ /\ ~witness.lost,
                                !.ran = @ /\ ~witness.lost]
  /\ UNCHANGED <<hour, bambu, link, saved, turns>>

Init ==
  /\ hour = 0 /\ bambu = [gcode |-> "IDLE", pe |-> None, code |-> FALSE, vague |-> FALSE] /\ link = TRUE
  /\ report = Update(NewReport, bambu) /\ active = None /\ flag = None /\ saved = {} /\ screen = None
  /\ witness = [cause |-> None, seen |-> FALSE, blank |-> None, since |-> None, missing |-> None,
                lost |-> FALSE, ran |-> TRUE, missed |-> FALSE]
  /\ turns = 0 /\ faults = 0

Next ==
  \/ Begin \/ Cancel \/ Fail \/ ErrorGone \/ ErrorComes \/ Rest \/ CodeFlips
  \/ Lose \/ Return \/ Clear \/ Poll \/ Restart

Spec == Init /\ [][Next]_vars

Words == {"IDLE", "RUNNING", "FAILED"}
Errors == {None, "cancel", "fatal"}
Times == Nat \cup {None}
Rows == [key : {"code", "flag"}, first : Nat]
Entries == [row : BOOLEAN, first : Nat, gone : Times]
Flags == [row : BOOLEAN, off : Times]
Shown == [state : {"printing", "paused", "idle", "finished", "error", "cancelled"}, since : Times]
TypeOK ==
  /\ hour \in 0..MaxHour /\ turns \in 0..MaxTurns /\ faults \in 0..MaxFaults
  /\ bambu \in [gcode : Words, pe : Errors, code : BOOLEAN, vague : BOOLEAN] /\ link \in BOOLEAN
  /\ report \in [gcode : Words \cup {"UNKNOWN", None}, pe : Errors, latched : BOOLEAN, seen : Times, gone : Times]
  /\ active \in Entries \cup {None} /\ flag \in Flags \cup {None} /\ screen \in Shown \cup {None}
  /\ saved \subseteq Rows
  /\ witness \in [cause : {None, "cancelled", "failed"}, seen : BOOLEAN, blank : Times, since : Times,
                  missing : Times, lost : BOOLEAN, ran : BOOLEAN, missed : BOOLEAN]
  /\ \A r \in saved : r.first <= hour
  /\ active # None => active.first <= hour

-----------------------------------------------------------------------------
\* A poll does not turn a cancelled print into a failed one over reports that lost
\* the code, a blank state or a restart; nor the failure of a job it saw run into
\* the cancel of the print before, unless the new job began out of sight.
CancelKept ==
  [][hour' # hour /\ link /\ bambu.gcode = "FAILED" /\ ~bambu.vague =>
       /\ screen'.state = "error" /\ witness.seen => bambu.pe = "fatal"
       /\ screen'.state = "cancelled" /\ witness.ran /\ ~witness.missed => witness.cause = "cancelled"]_vars

\* A code that flaps keeps the time it was first shown with, over restarts too.
SinceKept == screen # None /\ screen.since # None /\ witness.since # None => screen.since = witness.since
=============================================================================

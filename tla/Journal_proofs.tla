---------------------------- MODULE Journal_proofs ----------------------------
(***************************************************************************)
(* Proofs about what is kept of the prints: the notifications of a printer, *)
(* for every grace and any order of losses, restarts and failed writes.     *)
(***************************************************************************)
EXTENDS Journal, FiniteSetTheorems, SequenceTheorems, WellFoundedInduction, TLAPS

(***************************************************************************)
(* Part 1.  NoticeKeeping.                                                 *)
(***************************************************************************)
NoticeTime == Nat \cup {None}
NoticeErrors == {None, "cancel", "fatal"}
NoticePrinter == [gcode : {"IDLE", "RUNNING", "FAILED"}, pe : NoticeErrors, code : BOOLEAN, vague : BOOLEAN]
NoticeReport == [gcode : {"IDLE", "RUNNING", "FAILED", "UNKNOWN", None}, pe : NoticeErrors, latched : BOOLEAN,
                 seen : NoticeTime, gone : NoticeTime]
NoticeWitness == [cause : {None, "cancelled", "failed"}, seen : BOOLEAN, blank : NoticeTime, since : NoticeTime,
                  missing : NoticeTime, lost : BOOLEAN, ran : BOOLEAN, missed : BOOLEAN]

\* While the reports arrive the program's last one is the printer's state.
NoticeWire ==
  /\ link => report.gcode = IF bambu.vague THEN "UNKNOWN" ELSE bambu.gcode
  /\ report.gcode = None => ~report.latched

\* A cancel remembered is this print's, unless this print began out of sight.
Excused(w) == w.cause = "cancelled" \/ w.missed
NoticeLatch ==
  /\ bambu.pe = "cancel" => witness.cause = "cancelled"
  /\ report.latched /\ bambu.gcode = "RUNNING" /\ report.gcode = "RUNNING" => Excused(witness)
  /\ report.latched /\ bambu.gcode # "IDLE" /\ witness.ran => Excused(witness)
  /\ flag # None /\ bambu.gcode # "IDLE" /\ witness.ran => Excused(witness)

\* With no write lost the disk holds what memory holds.
RowsOfCode(rs) == {r \in rs : r.key = "code"}
NoticeDisk ==
  ~witness.lost =>
    /\ flag # None <=> \E r \in saved : r.key = "flag"
    /\ RowsOfCode(saved) = IF active = None THEN {} ELSE {[key |-> "code", first |-> active.first]}
    /\ flag # None => flag.row
    /\ active # None => active.row

\* A cancel that was shown has its flag, which leaves no earlier than the grace after.
NoticeSeen ==
  /\ witness.blank # None => witness.blank <= hour
  /\ witness.seen =>
       /\ bambu.gcode = "FAILED" /\ flag # None
       /\ flag.off # None => witness.blank # None /\ witness.blank <= flag.off

\* The time shown is the entry's, which leaves no earlier than the grace after the code.
NoticeSince ==
  /\ witness.missing # None => witness.missing <= hour
  /\ screen # None /\ screen.since # None => active # None /\ active.first = screen.since
  /\ witness.since # None =>
       /\ active # None /\ active.first = witness.since
       /\ active.gone # None => witness.missing # None /\ witness.missing <= active.gone

NoticeInv == Notices!TypeOK /\ NoticeWire /\ NoticeLatch /\ NoticeDisk /\ NoticeSeen /\ NoticeSince

LEMMA NoticeTypes == ASSUME NoticesConstants, Notices!TypeOK
  PROVE  /\ hour \in Nat /\ turns \in Nat /\ faults \in Nat
         /\ bambu \in NoticePrinter /\ link \in BOOLEAN /\ report \in NoticeReport /\ witness \in NoticeWitness
BY DEF NoticesConstants, Notices!TypeOK, NoticePrinter, NoticeReport, NoticeWitness, NoticeTime, NoticeErrors,
       Notices!Words, Notices!Errors, Notices!Times

\* What an update makes of the report: the state is the printer's, a latch is an
\* old one or the code's, and a start clears it.
LEMMA UpdateKnown ==
  ASSUME NoticesConstants, hour \in Nat, NEW r \in NoticeReport, NEW b \in NoticePrinter
  PROVE  /\ Notices!Update(r, b) \in NoticeReport
         /\ Notices!Update(r, b).gcode = IF b.vague THEN "UNKNOWN" ELSE b.gcode
         /\ Notices!Update(r, b).pe = b.pe
         /\ Notices!Update(r, b).latched => r.latched \/ b.pe = "cancel"
         /\ Notices!Update(r, b).latched /\ ~b.vague /\ b.gcode = "RUNNING" => r.gcode \in {None, "RUNNING"}
<1> DEFINE gcode == IF b.vague THEN "UNKNOWN" ELSE b.gcode
           latched == (r.latched \/ (b.pe = "cancel" /\ r.pe # "cancel"))
           starts == gcode \in {"RUNNING"} /\ r.gcode # None /\ r.gcode \notin {"RUNNING", "PAUSE"}
           j == Notices!UpdateJob(r, gcode, b.pe)
<1>1. /\ gcode \in {"IDLE", "RUNNING", "FAILED", "UNKNOWN"} /\ b.pe \in NoticeErrors
      /\ r.latched \in BOOLEAN /\ r.gcode \in {"IDLE", "RUNNING", "FAILED", "UNKNOWN", None}
  BY DEF NoticePrinter, NoticeReport
<1>2. j = [r EXCEPT !.gcode = gcode, !.pe = b.pe, !.latched = latched /\ gcode \notin {"IDLE", "FINISH"} /\ ~starts]
  BY DEF Notices!UpdateJob, Notices!Start, Notices!Done
<1>3. /\ j \in NoticeReport /\ j.gcode = gcode /\ j.pe = b.pe
      /\ j.latched = (latched /\ gcode \notin {"IDLE", "FINISH"} /\ ~starts)
  BY <1>1, <1>2 DEF NoticeReport
<1> HIDE DEF j
<1>4. Notices!Update(r, b) = Notices!UpdateHms(j, b.code)
  BY DEF Notices!Update, j
<1>5. \E s, g \in NoticeTime : Notices!UpdateHms(j, b.code) = [j EXCEPT !.seen = s, !.gone = g]
  <2>1. j.seen \in NoticeTime /\ j.gone \in NoticeTime /\ b.code \in BOOLEAN /\ hour \in NoticeTime /\ None \in NoticeTime
    BY <1>3 DEF NoticeReport, NoticePrinter, NoticeTime
  <2>2. [j EXCEPT !.gone = hour] = [j EXCEPT !.seen = j.seen, !.gone = hour]
    BY <1>3 DEF NoticeReport
  <2>3. [j EXCEPT !.gone = j.gone] = [j EXCEPT !.seen = j.seen, !.gone = j.gone]
    BY <1>3 DEF NoticeReport
  <2>4. CASE b.code
    BY <2>1, <2>4 DEF Notices!UpdateHms
  <2>5. CASE ~b.code
    BY <2>1, <2>2, <2>3, <2>5 DEF Notices!UpdateHms
  <2> QED
    BY <2>1, <2>4, <2>5
<1>6. PICK s \in NoticeTime, g \in NoticeTime : Notices!Update(r, b) = [j EXCEPT !.seen = s, !.gone = g]
  BY <1>4, <1>5
<1>7. /\ Notices!Update(r, b) \in NoticeReport /\ Notices!Update(r, b).gcode = gcode /\ Notices!Update(r, b).pe = b.pe
      /\ Notices!Update(r, b).latched = j.latched
  BY <1>3, <1>6 DEF NoticeReport
<1>8. latched => r.latched \/ b.pe = "cancel"
  OBVIOUS
<1>9. ~b.vague /\ b.gcode = "RUNNING" /\ ~starts => r.gcode \in {None, "RUNNING"}
  BY <1>1
<1> HIDE DEF gcode, latched, starts
<1> QED
  BY <1>3, <1>7, <1>8, <1>9 DEF gcode

\* What the program knows after a report of b, the link up or not.
LEMMA ReportKnown ==
  ASSUME NoticesConstants, Notices!TypeOK, NEW b \in NoticePrinter, Notices!Reports(b)
  PROVE  /\ report' \in NoticeReport
         /\ link => /\ report'.gcode = IF b.vague THEN "UNKNOWN" ELSE b.gcode
                    /\ report'.gcode # None
                    /\ report'.latched => report.latched \/ b.pe = "cancel"
                    /\ report'.latched /\ report'.gcode = "RUNNING" => report.gcode \in {None, "RUNNING"}
         /\ ~link => report' = report
<1>1. report \in NoticeReport /\ hour \in Nat /\ link \in BOOLEAN
  BY NoticeTypes
<1>2. CASE link
  <2>1. report' = Notices!Update(report, b)
    BY <1>2 DEF Notices!Reports
  <2>2. /\ report' \in NoticeReport
        /\ report'.gcode = IF b.vague THEN "UNKNOWN" ELSE b.gcode
        /\ report'.latched => report.latched \/ b.pe = "cancel"
        /\ report'.latched /\ ~b.vague /\ b.gcode = "RUNNING" => report.gcode \in {None, "RUNNING"}
    BY <1>1, <2>1, UpdateKnown
  <2>3. b.vague \in BOOLEAN /\ b.gcode \in {"IDLE", "RUNNING", "FAILED"}
    BY DEF NoticePrinter
  <2>4. report'.gcode # None /\ (report'.gcode = "RUNNING" => ~b.vague /\ b.gcode = "RUNNING")
    BY <2>2, <2>3 DEF NoticesConstants
  <2> QED
    BY <1>2, <2>2, <2>4
<1>3. CASE ~link
  BY <1>1, <1>3 DEF Notices!Reports
<1> QED
  BY <1>2, <1>3

\* A change at the printer: a new print begins, one is forgotten, or the print stays.
LEMMA NoticeTurn ==
  ASSUME NoticesConstants, NoticeInv, NEW b \in NoticePrinter, NEW w \in NoticeWitness, Notices!Turn(b, w),
         w.blank = witness.blank, w.since = witness.since, w.missing = witness.missing, w.lost = witness.lost,
         b.pe = "cancel" => w.cause = "cancelled",
         w.seen => witness.seen /\ b.gcode = "FAILED",
         \/ /\ b.gcode = "RUNNING" /\ bambu.gcode # "RUNNING" /\ ~w.ran
            /\ w.missed = (~link /\ report.gcode = "RUNNING") /\ b.vague = bambu.vague
         \/ b.gcode = "IDLE"
         \/ /\ b.gcode # "IDLE" /\ bambu.gcode # "IDLE" /\ (b.gcode = "RUNNING" => bambu.gcode = "RUNNING")
            /\ w.ran => witness.ran
            /\ Excused(witness) => Excused(w)
  PROVE  NoticeInv'
<1>1. /\ turns < MaxEpisodes /\ turns' = turns + 1 /\ bambu' = b /\ Notices!Reports(b) /\ witness' = w
      /\ hour' = hour /\ link' = link /\ active' = active /\ flag' = flag /\ saved' = saved
      /\ screen' = screen /\ faults' = faults
  BY DEF Notices!Turn
<1>2. Notices!TypeOK
  BY DEF NoticeInv
<1>3. /\ hour \in Nat /\ turns \in Nat /\ bambu \in NoticePrinter /\ link \in BOOLEAN /\ report \in NoticeReport
      /\ witness \in NoticeWitness
  BY <1>2, NoticeTypes
<1>4. /\ report' \in NoticeReport
      /\ link => /\ report'.gcode = IF b.vague THEN "UNKNOWN" ELSE b.gcode
                 /\ report'.gcode # None
                 /\ report'.latched => report.latched \/ b.pe = "cancel"
                 /\ report'.latched /\ report'.gcode = "RUNNING" => report.gcode \in {None, "RUNNING"}
      /\ ~link => report' = report
  BY <1>1, <1>2, ReportKnown
<1>5. Notices!TypeOK'
  <2>1. turns' \in 0..MaxEpisodes
    BY <1>1, <1>3 DEF NoticesConstants
  <2> QED
    BY <1>1, <1>2, <1>4, <2>1
       DEF Notices!TypeOK, NoticePrinter, NoticeReport, NoticeWitness, NoticeTime, NoticeErrors,
           Notices!Words, Notices!Errors, Notices!Times
<1>6. NoticeWire'
  BY <1>1, <1>4 DEF NoticeInv, NoticeWire
<1>7. NoticeDisk' /\ NoticeSince'
  BY <1>1 DEF NoticeInv, NoticeDisk, NoticeSince
<1>8. NoticeSeen'
  BY <1>1 DEF NoticeInv, NoticeSeen
<1>9. NoticeLatch'
  <2>1. report'.latched => report.latched \/ b.pe = "cancel"
    BY <1>4
  <2>2. b.pe = "cancel" => Excused(w)
    BY DEF Excused
  <2>3. CASE b.gcode = "IDLE"
    BY <1>1, <2>3 DEF NoticeLatch
  <2>4. CASE /\ b.gcode = "RUNNING" /\ bambu.gcode # "RUNNING" /\ ~w.ran
             /\ w.missed = (~link /\ report.gcode = "RUNNING") /\ b.vague = bambu.vague
    <3>1. link => report.gcode \notin {None, "RUNNING"}
      BY <1>3, <2>4 DEF NoticeInv, NoticeWire, NoticePrinter, NoticesConstants
    <3>2. link /\ report'.gcode = "RUNNING" => ~report'.latched
      BY <1>4, <3>1
    <3>3. ~link /\ report'.gcode = "RUNNING" => w.missed
      BY <1>4, <2>4
    <3> QED
      BY <1>1, <1>3, <2>4, <3>2, <3>3 DEF NoticeLatch, Excused
  <2>5. CASE /\ b.gcode # "IDLE" /\ bambu.gcode # "IDLE" /\ (b.gcode = "RUNNING" => bambu.gcode = "RUNNING")
             /\ w.ran => witness.ran
             /\ Excused(witness) => Excused(w)
    <3>1. report'.latched /\ b.gcode = "RUNNING" /\ report'.gcode = "RUNNING" => Excused(w)
      <4>1. CASE link
        <5>1. report'.latched /\ report'.gcode = "RUNNING" => report.gcode = "RUNNING" \/ ~report.latched
          BY <1>4, <4>1 DEF NoticeInv, NoticeWire
        <5> QED
          BY <2>1, <2>2, <2>5, <5>1 DEF NoticeInv, NoticeLatch
      <4>2. CASE ~link
        BY <1>4, <2>5, <4>2 DEF NoticeInv, NoticeLatch
      <4> QED
        BY <4>1, <4>2
    <3>2. report'.latched /\ w.ran => Excused(w)
      BY <2>1, <2>2, <2>5 DEF NoticeInv, NoticeLatch
    <3>3. flag # None /\ w.ran => Excused(w)
      BY <2>5 DEF NoticeInv, NoticeLatch
    <3> QED
      BY <1>1, <3>1, <3>2, <3>3 DEF NoticeLatch
  <2> QED
    BY <2>3, <2>4, <2>5
<1> QED
  BY <1>5, <1>6, <1>7, <1>8, <1>9 DEF NoticeInv

\* Every change at the printer is one of those.
LEMMA NoticeTurns ==
  ASSUME NoticesConstants, NoticeInv,
         \/ Notices!Begin \/ Notices!Cancel \/ Notices!Fail \/ Notices!ErrorGone \/ Notices!ErrorComes
         \/ Notices!Rest \/ Notices!CodeFlips
  PROVE  NoticeInv'
<1>1. /\ bambu \in NoticePrinter /\ link \in BOOLEAN /\ report \in NoticeReport /\ witness \in NoticeWitness
  BY NoticeTypes DEF NoticeInv
<1>2. /\ bambu.pe = "cancel" => witness.cause = "cancelled"
      /\ witness.seen => bambu.gcode = "FAILED"
  BY DEF NoticeInv, NoticeLatch, NoticeSeen
<1>3. CASE Notices!Begin
  <2> DEFINE b == [bambu EXCEPT !.gcode = "RUNNING", !.pe = None]
             w == [witness EXCEPT !.cause = None, !.seen = FALSE, !.ran = FALSE,
                                  !.missed = ~link /\ report.gcode = "RUNNING"]
  <2>1. /\ b \in NoticePrinter /\ b.gcode = "RUNNING" /\ b.pe = None /\ b.vague = bambu.vague
    BY <1>1 DEF NoticePrinter, NoticeErrors
  <2>2. /\ w \in NoticeWitness /\ ~w.seen /\ ~w.ran /\ w.missed = (~link /\ report.gcode = "RUNNING")
        /\ w.blank = witness.blank /\ w.since = witness.since /\ w.missing = witness.missing /\ w.lost = witness.lost
    BY <1>1 DEF NoticeWitness
  <2>3. Notices!Turn(b, w) /\ bambu.gcode # "RUNNING"
    BY <1>3 DEF Notices!Begin
  <2>4. b.pe # "cancel"
    BY <2>1 DEF NoticesConstants
  <2> HIDE DEF b, w
  <2> QED
    BY <2>1, <2>2, <2>3, <2>4, NoticeTurn
<1>4. CASE Notices!Cancel
  <2>1. PICK g \in {"RUNNING", "FAILED"} :
          Notices!Turn([bambu EXCEPT !.gcode = g, !.pe = "cancel"], [witness EXCEPT !.cause = "cancelled"])
    BY <1>4 DEF Notices!Cancel
  <2> DEFINE b == [bambu EXCEPT !.gcode = g, !.pe = "cancel"]
             w == [witness EXCEPT !.cause = "cancelled"]
  <2>2. b \in NoticePrinter /\ b.gcode \in {"RUNNING", "FAILED"} /\ bambu.gcode = "RUNNING"
    BY <1>1, <1>4 DEF NoticePrinter, NoticeErrors, Notices!Cancel
  <2>3. /\ w \in NoticeWitness /\ w.seen = witness.seen /\ w.ran = witness.ran /\ w.cause = "cancelled"
        /\ w.blank = witness.blank /\ w.since = witness.since /\ w.missing = witness.missing /\ w.lost = witness.lost
    BY <1>1 DEF NoticeWitness
  <2>4. Notices!Turn(b, w)
    BY <2>1
  <2>5. Excused(w)
    BY <2>3 DEF Excused
  <2>6. ~w.seen
    BY <1>2, <2>2, <2>3
  <2> HIDE DEF b, w
  <2> QED
    BY <2>2, <2>3, <2>4, <2>5, <2>6, NoticeTurn
<1>5. CASE Notices!Fail
  <2>1. PICK p \in {None, "fatal"} :
          Notices!Turn([bambu EXCEPT !.gcode = "FAILED", !.pe = IF witness.cause = None THEN p ELSE @],
                       [witness EXCEPT !.cause = IF @ = None THEN "failed" ELSE @])
    BY <1>5 DEF Notices!Fail
  <2> DEFINE b == [bambu EXCEPT !.gcode = "FAILED", !.pe = IF witness.cause = None THEN p ELSE @]
             w == [witness EXCEPT !.cause = IF @ = None THEN "failed" ELSE @]
  <2>2. /\ b \in NoticePrinter /\ b.gcode = "FAILED" /\ bambu.gcode = "RUNNING"
        /\ b.pe = IF witness.cause = None THEN p ELSE bambu.pe
    BY <1>1, <1>5 DEF NoticePrinter, NoticeErrors, Notices!Fail
  <2>3. /\ w \in NoticeWitness /\ w.seen = witness.seen /\ w.ran = witness.ran /\ w.missed = witness.missed
        /\ w.cause = IF witness.cause = None THEN "failed" ELSE witness.cause
        /\ w.blank = witness.blank /\ w.since = witness.since /\ w.missing = witness.missing /\ w.lost = witness.lost
    BY <1>1 DEF NoticeWitness
  <2>4. Notices!Turn(b, w)
    BY <2>1
  <2>5. None # "cancel" /\ None # "cancelled"
    BY DEF NoticesConstants
  <2>6. b.pe = "cancel" => w.cause = "cancelled"
    BY <1>2, <2>2, <2>3, <2>5
  <2>7. Excused(witness) => Excused(w)
    BY <2>3, <2>5 DEF Excused
  <2> HIDE DEF b, w
  <2> QED
    BY <1>2, <2>2, <2>3, <2>4, <2>6, <2>7, NoticeTurn
<1>6. ASSUME NEW b \in NoticePrinter, Notices!Turn(b, witness), b.gcode = bambu.gcode, b.pe = "cancel" => bambu.pe = "cancel"
      PROVE  NoticeInv'
  <2>1. bambu.gcode \in {"IDLE", "RUNNING", "FAILED"}
    BY <1>1 DEF NoticePrinter
  <2> QED
    BY <1>1, <1>2, <1>6, <2>1, NoticeTurn
<1>7. CASE Notices!ErrorGone
  <2> DEFINE b == [bambu EXCEPT !.pe = None]
  <2>1. b \in NoticePrinter /\ b.gcode = bambu.gcode /\ b.pe # "cancel"
    BY <1>1 DEF NoticePrinter, NoticeErrors, NoticesConstants
  <2> QED
    BY <1>6, <1>7, <2>1 DEF Notices!ErrorGone
<1>8. CASE Notices!ErrorComes
  <2> DEFINE b == [bambu EXCEPT !.pe = "fatal"]
  <2>1. b \in NoticePrinter /\ b.gcode = bambu.gcode /\ b.pe # "cancel"
    BY <1>1 DEF NoticePrinter, NoticeErrors
  <2> QED
    BY <1>6, <1>8, <2>1 DEF Notices!ErrorComes
<1>9. CASE Notices!Rest
  <2> DEFINE b == [bambu EXCEPT !.gcode = "IDLE", !.pe = None]
             w == [witness EXCEPT !.cause = None, !.seen = FALSE]
  <2>1. b \in NoticePrinter /\ b.gcode = "IDLE" /\ b.pe # "cancel"
    BY <1>1 DEF NoticePrinter, NoticeErrors, NoticesConstants
  <2>2. /\ w \in NoticeWitness /\ ~w.seen
        /\ w.blank = witness.blank /\ w.since = witness.since /\ w.missing = witness.missing /\ w.lost = witness.lost
    BY <1>1 DEF NoticeWitness
  <2>3. Notices!Turn(b, w)
    BY <1>9 DEF Notices!Rest
  <2> HIDE DEF b, w
  <2> QED
    BY <2>1, <2>2, <2>3, NoticeTurn
<1>10. CASE Notices!CodeFlips
  <2> DEFINE b == [bambu EXCEPT !.code = ~@]
  <2>1. b \in NoticePrinter /\ b.gcode = bambu.gcode /\ b.pe = bambu.pe
    BY <1>1 DEF NoticePrinter
  <2> QED
    BY <1>6, <1>10, <2>1 DEF Notices!CodeFlips
<1> QED
  BY <1>3, <1>4, <1>5, <1>7, <1>8, <1>9, <1>10

\* The report of a printer that has not changed remembers no other print's cancel.
LEMMA LatchKept ==
  ASSUME NoticesConstants, NoticeInv, NEW b \in NoticePrinter, b.gcode = bambu.gcode, b.pe = bambu.pe
  PROVE  LET r == Notices!Update(report, b)
         IN /\ r \in NoticeReport /\ r.gcode # None
            /\ r.gcode = (IF b.vague THEN "UNKNOWN" ELSE b.gcode)
            /\ r.pe = b.pe
            /\ r.latched /\ b.gcode = "RUNNING" /\ r.gcode = "RUNNING" => Excused(witness)
            /\ r.latched /\ b.gcode # "IDLE" /\ witness.ran => Excused(witness)
<1> DEFINE r == Notices!Update(report, b)
<1>1. /\ hour \in Nat /\ report \in NoticeReport /\ b.gcode \in {"IDLE", "RUNNING", "FAILED"} /\ b.vague \in BOOLEAN
  BY NoticeTypes DEF NoticeInv, NoticePrinter
<1>2. /\ r \in NoticeReport
      /\ r.gcode = (IF b.vague THEN "UNKNOWN" ELSE b.gcode)
      /\ r.pe = b.pe
      /\ r.latched => report.latched \/ b.pe = "cancel"
      /\ r.latched /\ ~b.vague /\ b.gcode = "RUNNING" => report.gcode \in {None, "RUNNING"}
  BY <1>1, UpdateKnown
<1> HIDE DEF r
<1>3. r.gcode # None /\ (r.gcode = "RUNNING" => ~b.vague)
  BY <1>1, <1>2 DEF NoticesConstants
<1>4. b.pe = "cancel" => Excused(witness)
  BY DEF NoticeInv, NoticeLatch, Excused
<1>5. r.latched /\ b.gcode = "RUNNING" /\ r.gcode = "RUNNING" => Excused(witness)
  BY <1>2, <1>3, <1>4 DEF NoticeInv, NoticeLatch, NoticeWire
<1>6. r.latched /\ b.gcode # "IDLE" /\ witness.ran => Excused(witness)
  BY <1>2, <1>4 DEF NoticeInv, NoticeLatch
<1> QED
  BY <1>2, <1>3, <1>5, <1>6 DEF r

\* The link drops or returns, the printer tells its state again.
LEMMA NoticeLink ==
  ASSUME NoticesConstants, NoticeInv, Notices!Lose \/ Notices!Return \/ Notices!Clear
  PROVE  NoticeInv'
<1>1. /\ Notices!TypeOK /\ hour \in Nat /\ faults \in Nat /\ bambu \in NoticePrinter /\ report \in NoticeReport
      /\ link \in BOOLEAN
  BY NoticeTypes DEF NoticeInv
<1>2. CASE Notices!Lose
  <2>1. /\ faults < MaxFaults /\ faults' = faults + 1 /\ link' = FALSE /\ hour' = hour /\ bambu' = bambu
        /\ report' = report /\ active' = active /\ flag' = flag /\ screen' = screen /\ saved' = saved
        /\ witness' = witness /\ turns' = turns
    BY <1>2 DEF Notices!Lose, Notices!Fault, Notices!program
  <2>2. faults' \in 0..MaxFaults
    BY <1>1, <2>1 DEF NoticesConstants
  <2>3. link' \in BOOLEAN
    BY <2>1
  <2>4. Notices!TypeOK'
    BY <1>1, <2>1, <2>2, <2>3 DEF Notices!TypeOK
  <2> QED
    BY <2>1, <2>4 DEF NoticeInv, NoticeWire, NoticeLatch, NoticeDisk, NoticeSeen, NoticeSince
<1>3. ASSUME NEW v \in BOOLEAN, bambu' = [bambu EXCEPT !.vague = v], link' \in BOOLEAN,
             report' = Notices!Update(report, bambu') \/ (~link' /\ report' = report),
             hour' = hour, active' = active, flag' = flag, screen' = screen, saved' = saved, witness' = witness,
             turns' = turns, faults' = faults
      PROVE  NoticeInv'
  <2>1. bambu' \in NoticePrinter /\ bambu'.gcode = bambu.gcode /\ bambu'.pe = bambu.pe /\ bambu'.vague = v
    BY <1>1, <1>3 DEF NoticePrinter
  <2>2. CASE report' = Notices!Update(report, bambu')
    <3>1. /\ report' \in NoticeReport /\ report'.gcode # None
          /\ report'.gcode = (IF bambu'.vague THEN "UNKNOWN" ELSE bambu'.gcode)
          /\ report'.latched /\ bambu'.gcode = "RUNNING" /\ report'.gcode = "RUNNING" => Excused(witness)
          /\ report'.latched /\ bambu'.gcode # "IDLE" /\ witness.ran => Excused(witness)
      BY <2>1, <2>2, LatchKept
    <3>2. Notices!TypeOK'
      BY <1>1, <1>3, <2>1, <3>1
         DEF Notices!TypeOK, NoticePrinter, NoticeReport, NoticeTime, NoticeErrors, Notices!Words, Notices!Errors, Notices!Times
    <3>3. NoticeWire' /\ NoticeLatch'
      BY <1>3, <2>1, <3>1 DEF NoticeInv, NoticeWire, NoticeLatch
    <3> QED
      BY <1>3, <2>1, <3>2, <3>3 DEF NoticeInv, NoticeDisk, NoticeSeen, NoticeSince
  <2>3. CASE ~link' /\ report' = report
    <3>1. Notices!TypeOK'
      BY <1>1, <1>3, <2>1, <2>3 DEF Notices!TypeOK, NoticePrinter, NoticeErrors, Notices!Words, Notices!Errors
    <3>2. NoticeWire' /\ NoticeLatch'
      BY <1>3, <2>1, <2>3 DEF NoticeInv, NoticeWire, NoticeLatch
    <3> QED
      BY <1>3, <2>1, <3>1, <3>2 DEF NoticeInv, NoticeDisk, NoticeSeen, NoticeSince
  <2> QED
    BY <1>3, <2>2, <2>3
<1>4. CASE Notices!Return
  BY <1>3, <1>4 DEF Notices!Return
<1>5. CASE Notices!Clear
  BY <1>1, <1>3, <1>5 DEF Notices!Clear, Notices!Reports
<1> QED
  BY <1>2, <1>4, <1>5

\* Of times there is an earliest.
LEMMA EarliestTime == ASSUME NEW S \in SUBSET Nat, S # {} PROVE \E n \in S : \A k \in S : n <= k
<1> DEFINE Sooner == {p \in Nat \X Nat : p[1] < p[2]}
<1>1. IsWellFoundedOn(Sooner, Nat)
  BY NatLessThanWellFounded DEF OpToRel
<1>2. PICK n \in S : \A k \in S : ~(<<k, n>> \in Sooner)
  BY <1>1, WFMin
<1>3. ASSUME NEW k \in S PROVE n <= k
  <2>1. k \in Nat /\ n \in Nat /\ (<<k, n>> \in Sooner <=> k < n)
    OBVIOUS
  <2> QED
    BY <1>2, <2>1
<1> QED
  BY <1>3

\* What a restart reads: the row on disk, the earliest of its key.
LEMMA LoadKnown ==
  ASSUME NoticesConstants, Notices!TypeOK
  PROVE  /\ Notices!LoadEntry(saved) \in Notices!Entries \cup {None}
         /\ Notices!LoadEntry(saved) # None => Notices!LoadEntry(saved).first <= hour
         /\ \A n \in Nat : RowsOfCode(saved) = {[key |-> "code", first |-> n]} =>
              Notices!LoadEntry(saved) = [row |-> TRUE, first |-> n, gone |-> None]
         /\ RowsOfCode(saved) = {} => Notices!LoadEntry(saved) = None
<1> DEFINE mine == RowsOfCode(saved)
           times == {r.first : r \in mine}
           first == CHOOSE t \in times : \A r \in mine : t <= r.first
<1>1. Notices!LoadEntry(saved) = IF mine = {} THEN None ELSE [row |-> TRUE, first |-> first, gone |-> None]
  BY DEF Notices!LoadEntry, RowsOfCode
<1>2. /\ times \in SUBSET Nat /\ \A r \in mine : r.first \in Nat /\ r.first <= hour
  BY DEF RowsOfCode, Notices!TypeOK, Notices!Rows
<1>3. ASSUME mine # {}
      PROVE  first \in times /\ \A r \in mine : first <= r.first
  <2>1. times # {}
    BY <1>3
  <2>2. PICK n \in times : \A k \in times : n <= k
    BY <1>2, <2>1, EarliestTime
  <2>3. \A r \in mine : n <= r.first
    BY <2>2
  <2> QED
    BY <2>2, <2>3
<1>4. mine # {} => first \in Nat /\ first <= hour
  <2> SUFFICES ASSUME mine # {} PROVE first \in Nat /\ first <= hour
    OBVIOUS
  <2>1. PICK r \in mine : first = r.first
    BY <1>3
  <2> QED
    BY <1>2, <2>1
<1>5. \A n \in Nat : mine = {[key |-> "code", first |-> n]} => mine # {} /\ first = n
  <2> SUFFICES ASSUME NEW n \in Nat, mine = {[key |-> "code", first |-> n]} PROVE mine # {} /\ first = n
    OBVIOUS
  <2>1. mine # {} /\ times = {n}
    OBVIOUS
  <2> QED
    BY <1>3, <2>1
<1> HIDE DEF mine, first
<1>6. Notices!LoadEntry(saved) \in Notices!Entries \cup {None}
  BY <1>1, <1>4 DEF Notices!Entries, Notices!Times
<1>7. Notices!LoadEntry(saved) # None => Notices!LoadEntry(saved).first <= hour
  BY <1>1, <1>4
<1>8. \A n \in Nat : mine = {[key |-> "code", first |-> n]} =>
        Notices!LoadEntry(saved) = [row |-> TRUE, first |-> n, gone |-> None]
  BY <1>1, <1>5
<1>9. mine = {} => Notices!LoadEntry(saved) = None
  BY <1>1
<1> QED
  BY <1>6, <1>7, <1>8, <1>9 DEF mine

\* A restart knows the cancel and the time if every write arrived.
LEMMA NoticeRestart == ASSUME NoticesConstants, NoticeInv, Notices!Restart PROVE NoticeInv'
<1> DEFINE w == [witness EXCEPT !.since = IF witness.lost THEN None ELSE @, !.seen = @ /\ ~witness.lost,
                                !.ran = @ /\ ~witness.lost]
<1>1. /\ Notices!TypeOK /\ hour \in Nat /\ faults \in Nat /\ bambu \in NoticePrinter /\ report \in NoticeReport
      /\ link \in BOOLEAN /\ witness \in NoticeWitness
  BY NoticeTypes DEF NoticeInv
<1>2. /\ faults < MaxFaults /\ faults' = faults + 1 /\ link' = link /\ hour' = hour /\ bambu' = bambu
      /\ report' = (IF link THEN Notices!Update(Notices!NewReport, bambu) ELSE Notices!NewReport)
      /\ active' = Notices!LoadEntry(saved) /\ flag' = Notices!LoadFlag(saved) /\ screen' = None /\ saved' = saved
      /\ witness' = w /\ turns' = turns
  BY DEF Notices!Restart, Notices!Fault
<1>3. /\ w \in NoticeWitness /\ w.cause = witness.cause /\ w.missed = witness.missed /\ w.lost = witness.lost
      /\ w.blank = witness.blank /\ w.missing = witness.missing
      /\ w.since = (IF witness.lost THEN None ELSE witness.since)
      /\ w.seen = (witness.seen /\ ~witness.lost) /\ w.ran = (witness.ran /\ ~witness.lost)
  BY <1>1 DEF NoticeWitness, NoticeTime
<1> HIDE DEF w
<1>4. /\ report' \in NoticeReport
      /\ link => report'.gcode = (IF bambu.vague THEN "UNKNOWN" ELSE bambu.gcode)
      /\ report'.gcode = None => ~report'.latched
      /\ report'.latched => bambu.pe = "cancel"
  <2> DEFINE n == Notices!NewReport
  <2>1. n \in NoticeReport /\ n.gcode = None /\ ~n.latched
    BY DEF Notices!NewReport, NoticeReport, NoticeErrors, NoticeTime
  <2> HIDE DEF n
  <2>2. /\ Notices!Update(n, bambu) \in NoticeReport
        /\ Notices!Update(n, bambu).gcode = IF bambu.vague THEN "UNKNOWN" ELSE bambu.gcode
        /\ Notices!Update(n, bambu).latched => n.latched \/ bambu.pe = "cancel"
    BY <1>1, <2>1, UpdateKnown
  <2>3. Notices!Update(n, bambu).gcode # None
    BY <1>1, <2>2 DEF NoticePrinter, NoticesConstants
  <2> QED
    BY <1>1, <1>2, <2>1, <2>2, <2>3 DEF n
<1>5. flag' = IF \E r \in saved : r.key = "flag" THEN [row |-> TRUE, off |-> None] ELSE None
  BY <1>2 DEF Notices!LoadFlag
<1>6. flag' \in Notices!Flags \cup {None} /\ (flag' # None => flag'.row /\ flag'.off = None)
  BY <1>5 DEF Notices!Flags, Notices!Times
<1>7. ~witness.lost => (flag' # None <=> flag # None)
  <2>1. [row |-> TRUE, off |-> None] \in Notices!Flags
    BY DEF Notices!Flags, Notices!Times
  <2>2. [row |-> TRUE, off |-> None] # None
    BY <2>1 DEF NoticesConstants
  <2> QED
    BY <1>5, <2>2 DEF NoticeInv, NoticeDisk
<1>8. /\ active' \in Notices!Entries \cup {None} /\ (active' # None => active'.first <= hour)
      /\ active # None /\ ~witness.lost => active' = [row |-> TRUE, first |-> active.first, gone |-> None]
      /\ active = None /\ ~witness.lost => active' = None
  BY <1>1, <1>2, LoadKnown DEF NoticeInv, NoticeDisk, Notices!TypeOK, Notices!Entries
<1>9. active # None /\ ~witness.lost =>
        active' # None /\ active'.row /\ active'.first = active.first /\ active'.gone = None
  <2> SUFFICES ASSUME active # None, ~witness.lost
               PROVE  active' # None /\ active'.row /\ active'.first = active.first /\ active'.gone = None
    OBVIOUS
  <2>1. active.first \in Nat
    BY <1>1 DEF Notices!TypeOK, Notices!Entries
  <2>2. active' = [row |-> TRUE, first |-> active.first, gone |-> None]
    BY <1>8
  <2>3. active' \in Notices!Entries
    BY <2>1, <2>2 DEF Notices!Entries, Notices!Times
  <2> QED
    BY <2>2, <2>3 DEF NoticesConstants
<1>10. Notices!TypeOK'
  <2>1. faults' \in 0..MaxFaults
    BY <1>1, <1>2 DEF NoticesConstants
  <2> QED
    BY <1>1, <1>2, <1>3, <1>4, <1>6, <1>8, <2>1
       DEF Notices!TypeOK, NoticeReport, NoticeWitness, NoticeTime, NoticeErrors, Notices!Words, Notices!Errors, Notices!Times
<1>11. NoticeWire'
  BY <1>2, <1>4 DEF NoticeWire
<1>12. NoticeLatch'
  BY <1>2, <1>3, <1>4, <1>7 DEF NoticeInv, NoticeLatch, Excused
<1>13. NoticeDisk'
  BY <1>2, <1>3, <1>6, <1>7, <1>8, <1>9 DEF NoticeInv, NoticeDisk
<1>14. NoticeSeen'
  BY <1>2, <1>3, <1>6, <1>7 DEF NoticeInv, NoticeSeen
<1>15. NoticeSince'
  BY <1>2, <1>3, <1>9 DEF NoticeInv, NoticeSince
<1> QED
  BY <1>10, <1>11, <1>12, <1>13, <1>14, <1>15 DEF NoticeInv

\* The state a poll shows of what the report knows.
LEMMA StateKnown ==
  ASSUME NoticesConstants, NEW g \in {"IDLE", "RUNNING", "FAILED", "UNKNOWN"}, NEW pe \in NoticeErrors,
         NEW l \in BOOLEAN, NEW f \in BOOLEAN
  PROVE  LET cancelled == g = "FAILED" /\ (pe = "cancel" \/ (pe # "fatal" /\ (l \/ (pe = None /\ f))))
         IN Notices!BambuState(g, pe, l, f) =
              IF cancelled THEN "cancelled"
              ELSE CASE g = "FAILED" -> "error" [] g = "RUNNING" -> "printing" [] OTHER -> "idle"
<1> DEFINE cancelled == g = "FAILED" /\ (pe = "cancel" \/ (pe # "fatal" /\ (l \/ (pe = None /\ f))))
<1>1. Notices!RealError(pe) <=> pe = "fatal"
  BY DEF Notices!RealError, Notices!PeLevels, NoticeErrors, NoticesConstants
<1>2. Notices!Cancelled(g, pe, l, f) <=> cancelled
  BY <1>1 DEF Notices!Cancelled
<1>3. Notices!MapState(g) = CASE g = "FAILED" -> "error" [] g = "RUNNING" -> "printing" [] g = "IDLE" -> "idle" [] OTHER -> "unknown"
  <2>1. CASE g = "IDLE"
    BY <2>1 DEF Notices!MapState
  <2>2. CASE g = "RUNNING"
    BY <2>2 DEF Notices!MapState
  <2>3. CASE g = "FAILED"
    BY <2>3 DEF Notices!MapState
  <2>4. CASE g = "UNKNOWN"
    BY <2>4 DEF Notices!MapState
  <2> QED
    BY <2>1, <2>2, <2>3, <2>4
<1> HIDE DEF cancelled
<1>4. CASE cancelled
  BY <1>2, <1>4 DEF Notices!BambuState, cancelled
<1>5. CASE ~cancelled
  BY <1>2, <1>3, <1>5 DEF Notices!BambuState, cancelled
<1> QED
  BY <1>4, <1>5

\* only a report of a running program is shown as printing
LEMMA PrintingRuns ==
  ASSUME NoticesConstants, NEW g \in {"IDLE", "RUNNING", "FAILED", "UNKNOWN"}, NEW pe \in NoticeErrors,
         NEW l \in BOOLEAN, NEW f \in BOOLEAN, Notices!BambuState(g, pe, l, f) = "printing"
  PROVE  g = "RUNNING"
<1> DEFINE cancelled == g = "FAILED" /\ (pe = "cancel" \/ (pe # "fatal" /\ (l \/ (pe = None /\ f))))
           plain == CASE g = "FAILED" -> "error" [] g = "RUNNING" -> "printing" [] OTHER -> "idle"
<1>1. Notices!BambuState(g, pe, l, f) = IF cancelled THEN "cancelled" ELSE plain
  BY StateKnown
<1>2. ~cancelled /\ plain = "printing"
  <2> HIDE DEF cancelled, plain
  <2> QED
    BY <1>1
<1>3. plain = "printing" => g = "RUNNING"
  <2>1. CASE g = "FAILED"
    BY <2>1
  <2>2. CASE g = "RUNNING"
    BY <2>2
  <2>3. CASE g # "FAILED" /\ g # "RUNNING"
    BY <2>3
  <2> QED
    BY <2>1, <2>2, <2>3
<1> QED
  BY <1>2, <1>3

\* What annotate makes of the entry.
LEMMA EntryKnown ==
  ASSUME NoticesConstants, hour \in Nat, NEW e \in Notices!Entries \cup {None}, e # None => e.first <= hour,
         NEW stands \in BOOLEAN, NEW seen \in NoticeTime, NEW works \in BOOLEAN
  PROVE  LET n == Notices!Annotated(e, stands, seen, works)
         IN /\ n \in Notices!Entries \cup {None}
            /\ n # None => n.first <= hour
            /\ e = None /\ n # None => n.row = works
            /\ e # None /\ n # None => n.row = e.row /\ n.first = e.first
            /\ stands => n # None /\ n.gone = None
            /\ ~stands /\ e # None /\ n # None =>
                 IF e.gone = None THEN n.gone = hour ELSE n.gone = e.gone
            /\ ~stands /\ e # None /\ n = None => e.gone # None /\ hour - e.gone >= Grace
            /\ ~stands /\ e = None => n = None
<1> DEFINE first == IF seen = None THEN hour ELSE Notices!Earlier(hour, seen)
           n == Notices!Annotated(e, stands, seen, works)
           new == [row |-> works, first |-> first, gone |-> None]
           back == [e EXCEPT !.gone = None]
           away == [e EXCEPT !.gone = hour]
<1>1. first \in Nat /\ first <= hour
  <2>1. CASE seen = None
    BY <2>1
  <2>2. CASE seen # None
    <3>1. seen \in Nat
      BY <2>2 DEF NoticeTime
    <3>2. Notices!Earlier(hour, seen) \in Nat /\ Notices!Earlier(hour, seen) <= hour
      BY <3>1 DEF Notices!Earlier
    <3> QED
      BY <2>2, <3>2
  <2> QED
    BY <2>1, <2>2
<1>2. n = IF e = None THEN IF stands THEN new ELSE None
          ELSE IF stands THEN back
          ELSE IF e.gone = None THEN away
          ELSE IF hour - e.gone >= Grace THEN None ELSE e
  BY DEF Notices!Annotated
<1> HIDE DEF n, new, back, away
<1>3. CASE e = None
  <2>1. CASE stands
    <3>1. n = new
      BY <1>2, <1>3, <2>1
    <3> HIDE DEF first
    <3>2. n \in Notices!Entries /\ n.first = first /\ n.row = works /\ n.gone = None
      BY <1>1, <3>1 DEF new, Notices!Entries, Notices!Times
    <3>3. n # None
      BY <3>2 DEF NoticesConstants
    <3> QED
      BY <1>1, <1>3, <2>1, <3>2, <3>3 DEF n
  <2>2. CASE ~stands
    <3>1. n = None
      BY <1>2, <1>3, <2>2
    <3> QED
      BY <1>3, <2>2, <3>1 DEF n
  <2> QED
    BY <2>1, <2>2
<1>4. CASE e # None
  <2>1. e \in Notices!Entries
    BY <1>4
  <2>2. \A g \in NoticeTime : LET m == [e EXCEPT !.gone = g]
          IN m \in Notices!Entries /\ m # None /\ m.row = e.row /\ m.first = e.first /\ m.gone = g
    <3> SUFFICES ASSUME NEW g \in NoticeTime
                 PROVE  LET m == [e EXCEPT !.gone = g]
                        IN m \in Notices!Entries /\ m # None /\ m.row = e.row /\ m.first = e.first /\ m.gone = g
      OBVIOUS
    <3>1. LET m == [e EXCEPT !.gone = g] IN m \in Notices!Entries /\ m.row = e.row /\ m.first = e.first /\ m.gone = g
      BY <2>1 DEF Notices!Entries, Notices!Times, NoticeTime
    <3> QED
      BY <3>1 DEF NoticesConstants
  <2>3. hour \in NoticeTime /\ None \in NoticeTime /\ hour # None
    BY DEF NoticeTime, NoticesConstants
  <2>4. CASE stands
    <3>1. n = back
      BY <1>2, <1>4, <2>4
    <3> QED
      BY <1>4, <2>2, <2>3, <2>4, <3>1 DEF n, back
  <2>5. CASE ~stands /\ e.gone = None
    <3>1. n = away
      BY <1>2, <1>4, <2>5
    <3> QED
      BY <1>4, <2>2, <2>3, <2>5, <3>1 DEF n, away
  <2>6. CASE ~stands /\ e.gone # None /\ hour - e.gone >= Grace
    <3>1. n = None
      BY <1>2, <1>4, <2>6
    <3> QED
      BY <1>4, <2>6, <3>1 DEF n
  <2>7. CASE ~stands /\ e.gone # None /\ ~(hour - e.gone >= Grace)
    <3>1. n = e
      BY <1>2, <1>4, <2>7
    <3> QED
      BY <1>4, <2>1, <2>7, <3>1 DEF n
  <2> QED
    BY <2>4, <2>5, <2>6, <2>7
<1> QED
  BY <1>3, <1>4

\* What _keep_flag_locked makes of the flag.
LEMMA FlagKnown ==
  ASSUME NoticesConstants, hour \in Nat, NEW f \in Notices!Flags \cup {None}, NEW shows, NEW works \in BOOLEAN
  PROVE  LET n == Notices!KeptFlag(f, shows, works)
             off == IF f.off = None THEN hour ELSE f.off
         IN /\ n \in Notices!Flags \cup {None}
            /\ f = None /\ n # None => n.row = works
            /\ f # None /\ n # None => n.row = f.row
            /\ shows = "cancelled" => n # None /\ n.off = None
            /\ shows # "cancelled" /\ f = None => n = None
            /\ shows # "cancelled" /\ f # None /\ n # None => n.off = off
            /\ shows # "cancelled" /\ f # None /\ n = None => shows \in {"printing", "paused"} \/ hour - off >= Grace
            /\ shows = "printing" => n = None
<1> DEFINE n == Notices!KeptFlag(f, shows, works)
           off == IF f = None \/ f.off = None THEN hour ELSE f.off
           new == [row |-> works, off |-> None]
           back == [f EXCEPT !.off = None]
           away == [f EXCEPT !.off = off]
<1>1. n = IF f = None THEN IF shows = "cancelled" THEN new ELSE None
          ELSE IF shows = "cancelled" THEN back
          ELSE IF shows \in {"printing", "paused"} \/ hour - off >= Grace THEN None
          ELSE away
  BY DEF Notices!KeptFlag
<1> HIDE DEF n, back, away
<1>2. new \in Notices!Flags /\ new.row = works /\ new.off = None
  BY DEF Notices!Flags, Notices!Times
<1> HIDE DEF new
<1>3. new # None
  BY <1>2 DEF NoticesConstants
<1>4. CASE f = None /\ shows = "cancelled"
  <2>1. n = new
    BY <1>1, <1>4
  <2> QED
    BY <1>2, <1>3, <1>4, <2>1 DEF n
<1>5. CASE f = None /\ shows # "cancelled"
  <2>1. n = None
    BY <1>1, <1>5
  <2> QED
    BY <1>5, <2>1 DEF n
<1>6. CASE f # None
  <2>1. f \in Notices!Flags
    BY <1>6
  <2>2. off \in NoticeTime /\ None \in NoticeTime /\ off = IF f.off = None THEN hour ELSE f.off
    BY <1>6, <2>1 DEF Notices!Flags, Notices!Times, NoticeTime
  <2>3. \A g \in NoticeTime : LET m == [f EXCEPT !.off = g] IN m \in Notices!Flags /\ m # None /\ m.row = f.row /\ m.off = g
    <3> SUFFICES ASSUME NEW g \in NoticeTime
                 PROVE  LET m == [f EXCEPT !.off = g] IN m \in Notices!Flags /\ m # None /\ m.row = f.row /\ m.off = g
      OBVIOUS
    <3>1. LET m == [f EXCEPT !.off = g] IN m \in Notices!Flags /\ m.row = f.row /\ m.off = g
      BY <2>1 DEF Notices!Flags, Notices!Times, NoticeTime
    <3> QED
      BY <3>1 DEF NoticesConstants
  <2> HIDE DEF off
  <2>4. CASE shows = "cancelled"
    <3>1. n = back
      BY <1>1, <1>6, <2>4
    <3> QED
      BY <1>6, <2>2, <2>3, <2>4, <3>1 DEF n, back
  <2>5. CASE shows # "cancelled" /\ (shows \in {"printing", "paused"} \/ hour - off >= Grace)
    <3>1. n = None
      BY <1>1, <1>6, <2>5
    <3> QED
      BY <1>6, <2>2, <2>5, <3>1 DEF n
  <2>6. CASE shows # "cancelled" /\ ~(shows \in {"printing", "paused"} \/ hour - off >= Grace)
    <3>1. n = away
      BY <1>1, <1>6, <2>6
    <3> QED
      BY <1>6, <2>2, <2>3, <2>6, <3>1 DEF n, away
  <2> QED
    BY <2>4, <2>5, <2>6
<1> QED
  BY <1>4, <1>5, <1>6

\* What a poll of a printer whose reports arrive sees, shows, keeps and writes.
LEMMA PollSteps ==
  ASSUME NoticesConstants, NoticeInv, Notices!Poll, link
  PROVE  /\ hour < MaxHour /\ hour' = hour + 1 /\ bambu' = bambu /\ link' = link /\ turns' = turns
         /\ report' = Notices!Update(report, bambu)
         /\ screen' = [state |-> Notices!State(report'), since |-> IF bambu.code THEN active'.first ELSE None]
         /\ \E works \in BOOLEAN :
              /\ active' = Notices!Annotated(active, bambu.code, report'.seen, works)
              /\ flag' = Notices!KeptFlag(flag, Notices!State(report'), works)
              /\ works \/ faults < MaxFaults
              /\ faults' = IF works THEN faults ELSE faults + 1
              /\ saved' = Notices!FlagRows(Notices!CodeRows(works), works)
              /\ witness'.lost = (witness.lost \/ ~works)
         /\ witness' \in NoticeWitness /\ witness'.cause = witness.cause /\ witness'.missed = witness.missed
         /\ witness'.blank = Notices!Blank /\ witness'.missing = Notices!Missing
         /\ witness'.seen = ((witness.seen \/ Notices!State(report') = "cancelled") /\ ~(Notices!Blank # None /\ hour - Notices!Blank >= Grace))
         /\ witness'.ran = (witness.ran \/ Notices!State(report') = "printing")
         /\ witness'.since = IF bambu.code THEN IF witness.since = None THEN active'.first ELSE witness.since
                             ELSE IF hour - Notices!Missing >= Grace THEN None ELSE witness.since
<1>1. /\ hour \in Nat /\ bambu \in NoticePrinter /\ report \in NoticeReport /\ witness \in NoticeWitness
      /\ active \in Notices!Entries \cup {None} /\ (active # None => active.first <= hour)
  BY NoticeTypes DEF NoticeInv, Notices!TypeOK
<1>2. /\ hour < MaxHour /\ hour' = hour + 1 /\ bambu' = bambu /\ link' = link /\ turns' = turns
      /\ report' = Notices!Update(report, bambu)
  BY DEF Notices!Poll
<1>3. PICK works \in BOOLEAN :
        /\ active' = Notices!Annotated(active, bambu.code, report'.seen, works)
        /\ flag' = Notices!KeptFlag(flag, Notices!State(report'), works)
        /\ works \/ faults < MaxFaults
        /\ faults' = IF works THEN faults ELSE faults + 1
        /\ saved' = Notices!FlagRows(Notices!CodeRows(works), works)
        /\ screen' = [state |-> Notices!State(report'), since |-> IF bambu.code THEN active'.first ELSE None]
        /\ witness' = Notices!Told(Notices!State(report'), works)
  BY DEF Notices!Poll
<1>4. bambu.code => active' # None /\ active' \in Notices!Entries
  <2>1. report'.seen \in NoticeTime
    <3>1. report' \in NoticeReport
      BY <1>1, <1>2, LatchKept
    <3> QED
      BY <3>1 DEF NoticeReport
  <2>2. bambu.code \in BOOLEAN
    BY <1>1 DEF NoticePrinter
  <2>3. active' = Notices!Annotated(active, bambu.code, report'.seen, works)
    BY <1>3
  <2> DEFINE n == Notices!Annotated(active, bambu.code, report'.seen, works)
  <2>4. n \in Notices!Entries \cup {None} /\ (bambu.code => n # None /\ n.gone = None)
    BY <1>1, <2>1, <2>2, EntryKnown
  <2> HIDE DEF n
  <2> QED
    BY <2>3, <2>4 DEF n
<1>5. Notices!Blank \in NoticeTime /\ Notices!Missing \in NoticeTime /\ (bambu.code => active'.first \in NoticeTime)
  BY <1>1, <1>4 DEF Notices!Blank, Notices!Missing, NoticeTime, NoticeWitness, Notices!Entries
<1> DEFINE seen == (witness.seen \/ Notices!State(report') = "cancelled") /\ ~(Notices!Blank # None /\ hour - Notices!Blank >= Grace)
           first == IF bambu.code THEN IF witness.since = None THEN active'.first ELSE witness.since
                    ELSE IF hour - Notices!Missing >= Grace THEN None ELSE witness.since
           ran == witness.ran \/ Notices!State(report') = "printing"
           lost == witness.lost \/ ~works
<1>6. witness' = [witness EXCEPT !.seen = seen, !.blank = Notices!Blank, !.missing = Notices!Missing, !.since = first,
                                 !.ran = ran, !.lost = lost]
  BY <1>3 DEF Notices!Told
<1>7. seen \in BOOLEAN /\ ran \in BOOLEAN /\ lost \in BOOLEAN
  BY <1>1 DEF NoticeWitness
<1>8. first \in NoticeTime
  BY <1>1, <1>5 DEF NoticeWitness, NoticeTime
<1> HIDE DEF seen, first, ran, lost
<1>9. /\ witness' \in NoticeWitness /\ witness'.cause = witness.cause /\ witness'.missed = witness.missed
      /\ witness'.blank = Notices!Blank /\ witness'.missing = Notices!Missing /\ witness'.seen = seen /\ witness'.since = first
      /\ witness'.ran = ran /\ witness'.lost = lost
  BY <1>1, <1>5, <1>6, <1>7, <1>8 DEF NoticeWitness
<1>10. witness'.lost = (witness.lost \/ ~works)
  BY <1>9 DEF lost
<1> QED
  BY <1>2, <1>3, <1>9, <1>10 DEF seen, first, ran

\* The state it shows, and of whom.
LEMMA PollShows ==
  ASSUME NoticesConstants, NoticeInv, Notices!Poll, link
  PROVE  /\ screen'.state = Notices!State(report')
         /\ Notices!State(report') \in {"printing", "idle", "error", "cancelled"}
         /\ Notices!State(report') = "printing" => bambu.gcode = "RUNNING"
         /\ Notices!State(report') = "cancelled" =>
              bambu.gcode = "FAILED" /\ (witness.ran => Excused(witness))
         /\ flag # None /\ bambu.gcode = "FAILED" /\ Notices!State(report') # "cancelled" =>
              (bambu.vague \/ bambu.pe = "fatal") /\ Notices!State(report') \in {"idle", "error"}
<1> DEFINE shows == Notices!State(report')
<1>1. /\ bambu \in NoticePrinter /\ bambu.gcode \in {"IDLE", "RUNNING", "FAILED"} /\ bambu.pe \in NoticeErrors
      /\ bambu.vague \in BOOLEAN
  BY NoticeTypes DEF NoticeInv, NoticePrinter
<1>2. /\ report' = Notices!Update(report, bambu)
      /\ screen' = [state |-> shows, since |-> IF bambu.code THEN active'.first ELSE None]
  BY PollSteps
<1>3. /\ report' \in NoticeReport /\ report'.gcode # None
      /\ report'.gcode = (IF bambu.vague THEN "UNKNOWN" ELSE bambu.gcode)
      /\ report'.pe = bambu.pe
      /\ report'.latched /\ bambu.gcode # "IDLE" /\ witness.ran => Excused(witness)
  BY <1>1, <1>2, LatchKept
<1> DEFINE g == report'.gcode
           l == report'.latched
           f == flag # None
           cancelled == g = "FAILED" /\ (bambu.pe = "cancel" \/ (bambu.pe # "fatal" /\ (l \/ (bambu.pe = None /\ f))))
<1>4. g \in {"IDLE", "RUNNING", "FAILED", "UNKNOWN"} /\ l \in BOOLEAN /\ f \in BOOLEAN
  BY <1>3 DEF NoticeReport
<1>5. shows = Notices!BambuState(g, bambu.pe, l, f)
  BY <1>3 DEF Notices!State
<1>6. shows = IF cancelled THEN "cancelled"
              ELSE CASE g = "FAILED" -> "error" [] g = "RUNNING" -> "printing" [] OTHER -> "idle"
  <2> HIDE DEF g, l, f, shows
  <2> QED
    BY <1>1, <1>4, <1>5, StateKnown
<1>7. screen'.state = shows
  BY <1>2
<1>8. bambu.pe = "cancel" => Excused(witness)
  BY DEF NoticeInv, NoticeLatch, Excused
<1>9. flag # None /\ bambu.gcode # "IDLE" /\ witness.ran => Excused(witness)
  BY DEF NoticeInv, NoticeLatch
<1>10. /\ g = "FAILED" => ~bambu.vague /\ bambu.gcode = "FAILED"
       /\ g = "RUNNING" => ~bambu.vague /\ bambu.gcode = "RUNNING"
       /\ bambu.gcode = "FAILED" /\ ~bambu.vague => g = "FAILED"
       /\ bambu.gcode = "FAILED" => g \in {"FAILED", "UNKNOWN"}
  BY <1>1, <1>3
<1>11. l /\ bambu.gcode # "IDLE" /\ witness.ran => Excused(witness)
  BY <1>3
<1> HIDE DEF g, l, shows
<1>12. CASE cancelled
  BY <1>6, <1>7, <1>8, <1>9, <1>10, <1>11, <1>12 DEF shows
<1>13. CASE ~cancelled
  <2>1. shows \in {"printing", "idle", "error"} /\ (shows = "printing" => g = "RUNNING") /\ (g # "RUNNING" => shows # "printing")
    BY <1>6, <1>13
  <2>2. flag # None /\ bambu.gcode = "FAILED" => bambu.vague \/ bambu.pe = "fatal"
    BY <1>1, <1>10, <1>13 DEF NoticeErrors
  <2> QED
    BY <1>7, <1>10, <2>1, <2>2 DEF shows
<1> QED
  BY <1>12, <1>13

\* A poll keeps the latch of the print before from a job it saw run.
LEMMA PollLatch == ASSUME NoticesConstants, NoticeInv, Notices!Poll, link PROVE NoticeWire' /\ NoticeLatch'
<1> DEFINE shows == Notices!State(report')
<1>1. /\ bambu' = bambu /\ link' = link /\ report' = Notices!Update(report, bambu)
      /\ witness'.cause = witness.cause /\ witness'.missed = witness.missed
      /\ witness'.ran = (witness.ran \/ shows = "printing")
  BY PollSteps
<1>2. /\ shows = "printing" => bambu.gcode = "RUNNING"
      /\ shows = "cancelled" => bambu.gcode = "FAILED" /\ (witness.ran => Excused(witness))
  BY PollShows
<1>3. /\ bambu \in NoticePrinter /\ hour \in Nat /\ flag \in Notices!Flags \cup {None} /\ report \in NoticeReport
  BY NoticeTypes DEF NoticeInv, Notices!TypeOK
<1>4. /\ report' \in NoticeReport /\ report'.gcode # None
      /\ report'.gcode = (IF bambu.vague THEN "UNKNOWN" ELSE bambu.gcode)
      /\ report'.latched /\ bambu.gcode = "RUNNING" /\ report'.gcode = "RUNNING" => Excused(witness)
      /\ report'.latched /\ bambu.gcode # "IDLE" /\ witness.ran => Excused(witness)
  BY <1>1, <1>3, LatchKept
<1>5. PICK works \in BOOLEAN : flag' = Notices!KeptFlag(flag, shows, works)
  BY PollSteps
<1>6. /\ shows # "cancelled" /\ flag = None => flag' = None
      /\ shows = "printing" => flag' = None
  <2> HIDE DEF shows
  <2> QED
    BY <1>3, <1>5, FlagKnown
<1>7. NoticeWire'
  BY <1>1, <1>4 DEF NoticeWire
<1>8. Excused(witness') <=> Excused(witness)
  BY <1>1 DEF Excused
<1>9. shows = "printing" => report'.gcode = "RUNNING"
  <2> DEFINE g == report'.gcode
             pe == report'.pe
             l == report'.latched
             f == flag # None
  <2>1. g \in {"IDLE", "RUNNING", "FAILED", "UNKNOWN"} /\ pe \in NoticeErrors /\ l \in BOOLEAN /\ f \in BOOLEAN
    BY <1>4 DEF NoticeReport
  <2>2. shows = Notices!BambuState(g, pe, l, f)
    BY DEF Notices!State
  <2> HIDE DEF g, pe, l, f, shows
  <2>3. shows = "printing" => g = "RUNNING"
    BY <2>1, <2>2, PrintingRuns
  <2> QED
    BY <2>3 DEF g
<1>10. report'.latched /\ bambu.gcode # "IDLE" /\ witness'.ran => Excused(witness)
  BY <1>1, <1>2, <1>4, <1>9
<1>11. flag' # None /\ bambu.gcode # "IDLE" /\ witness'.ran => Excused(witness)
  BY <1>1, <1>2, <1>6 DEF NoticeInv, NoticeLatch
<1>12. bambu.pe = "cancel" => witness.cause = "cancelled"
  BY DEF NoticeInv, NoticeLatch
<1>13. NoticeLatch'
  BY <1>1, <1>4, <1>8, <1>10, <1>11, <1>12 DEF NoticeLatch
<1> QED
  BY <1>7, <1>13

\* A poll keeps the flag of a cancel it showed until the grace after it could not.
LEMMA PollSeen == ASSUME NoticesConstants, NoticeInv, Notices!Poll, link PROVE NoticeSeen'
<1> DEFINE shows == Notices!State(report')
           blank == Notices!Blank
           off == IF flag.off = None THEN hour ELSE flag.off
<1>1. /\ bambu' = bambu /\ hour' = hour + 1 /\ witness'.blank = blank
      /\ witness'.seen = ((witness.seen \/ shows = "cancelled") /\ ~(blank # None /\ hour - blank >= Grace))
  BY PollSteps
<1>2. /\ shows \in {"printing", "idle", "error", "cancelled"}
      /\ shows = "cancelled" => bambu.gcode = "FAILED"
      /\ flag # None /\ bambu.gcode = "FAILED" /\ shows # "cancelled" =>
           (bambu.vague \/ bambu.pe = "fatal") /\ shows \in {"idle", "error"}
  BY PollShows
<1>3. /\ hour \in Nat /\ flag \in Notices!Flags \cup {None} /\ witness.blank \in Nat \cup {None} /\ Grace \in Nat
      /\ None \notin Nat
  BY NoticeTypes DEF NoticeInv, Notices!TypeOK, NoticeWitness, NoticeTime, NoticesConstants
<1>4. PICK works \in BOOLEAN : flag' = Notices!KeptFlag(flag, shows, works)
  BY PollSteps
<1>5. /\ shows = "cancelled" => flag' # None /\ flag'.off = None
      /\ shows # "cancelled" /\ flag # None /\ flag' # None => flag'.off = off
      /\ shows # "cancelled" /\ flag # None /\ flag' = None => shows \in {"printing", "paused"} \/ hour - off >= Grace
  <2> HIDE DEF shows
  <2> QED
    BY <1>3, <1>4, FlagKnown
<1>6. /\ blank = (IF ~bambu.vague /\ bambu.pe # "fatal" THEN None ELSE IF witness.blank = None THEN hour ELSE witness.blank)
  BY DEF Notices!Blank
<1>7. /\ witness.blank # None => witness.blank <= hour
      /\ witness.seen => /\ bambu.gcode = "FAILED" /\ flag # None
                         /\ flag.off # None => witness.blank # None /\ witness.blank <= flag.off
  BY DEF NoticeInv, NoticeSeen
<1> HIDE DEF shows, blank
<1>8. blank # None => blank \in Nat /\ blank <= hour
  BY <1>3, <1>6, <1>7
<1>9. ASSUME witness'.seen
      PROVE  /\ bambu.gcode = "FAILED" /\ flag' # None
             /\ flag'.off # None => blank # None /\ blank <= flag'.off
  <2>1. CASE shows = "cancelled"
    BY <1>2, <1>5, <2>1
  <2>2. CASE shows # "cancelled"
    <3>1. witness.seen /\ ~(blank # None /\ hour - blank >= Grace)
      BY <1>1, <1>9, <2>2
    <3>2. /\ bambu.gcode = "FAILED" /\ flag # None /\ (bambu.vague \/ bambu.pe = "fatal") /\ shows \in {"idle", "error"}
      BY <1>2, <1>7, <2>2, <3>1
    <3>3. flag.off = None \/ flag.off \in Nat
      BY <1>3, <3>2 DEF Notices!Flags, Notices!Times
    <3>4. blank # None /\ blank \in Nat /\ off \in Nat /\ blank <= off
      BY <1>3, <1>6, <1>7, <1>8, <3>1, <3>2, <3>3
    <3>5. ~(hour - off >= Grace)
      BY <1>3, <3>1, <3>4
    <3> HIDE DEF off
    <3>6. flag' # None /\ flag'.off = off
      BY <1>5, <2>2, <3>2, <3>5
    <3> QED
      BY <3>2, <3>4, <3>6
  <2> QED
    BY <2>1, <2>2
<1>10. blank # None => blank <= hour'
  BY <1>1, <1>3, <1>8
<1> QED
  BY <1>1, <1>9, <1>10 DEF NoticeSeen

\* A poll keeps the time the code was first shown with until the grace after it.
LEMMA PollSince == ASSUME NoticesConstants, NoticeInv, Notices!Poll, link PROVE NoticeSince'
<1> DEFINE missing == Notices!Missing
<1>1. /\ bambu' = bambu /\ hour' = hour + 1 /\ witness'.missing = missing
      /\ report' = Notices!Update(report, bambu)
      /\ screen'.since = IF bambu.code THEN active'.first ELSE None
      /\ witness'.since = IF bambu.code THEN IF witness.since = None THEN active'.first ELSE witness.since
                          ELSE IF hour - missing >= Grace THEN None ELSE witness.since
  BY PollSteps
<1>2. /\ hour \in Nat /\ active \in Notices!Entries \cup {None} /\ witness.missing \in Nat \cup {None} /\ Grace \in Nat
      /\ None \notin Nat /\ bambu \in NoticePrinter /\ bambu.code \in BOOLEAN /\ (active # None => active.first <= hour)
  BY NoticeTypes DEF NoticeInv, Notices!TypeOK, NoticeWitness, NoticeTime, NoticesConstants, NoticePrinter
<1>3. PICK works \in BOOLEAN : active' = Notices!Annotated(active, bambu.code, report'.seen, works)
  BY PollSteps
<1> DEFINE seen == report'.seen
<1>4. seen \in NoticeTime
  <2>1. report' \in NoticeReport
    BY <1>1, <1>2, LatchKept
  <2> QED
    BY <2>1 DEF NoticeReport
<1> HIDE DEF seen
<1>5. active' = Notices!Annotated(active, bambu.code, seen, works)
  BY <1>3 DEF seen
<1> DEFINE n == Notices!Annotated(active, bambu.code, seen, works)
<1>6. /\ active # None /\ n # None => n.first = active.first
      /\ bambu.code => n # None /\ n.gone = None
      /\ ~bambu.code /\ active # None /\ n # None => IF active.gone = None THEN n.gone = hour ELSE n.gone = active.gone
      /\ ~bambu.code /\ active # None /\ n = None => active.gone # None /\ hour - active.gone >= Grace
  BY <1>2, <1>4, EntryKnown
<1> HIDE DEF n
<1>7. /\ active # None /\ active' # None => active'.first = active.first
      /\ bambu.code => active' # None /\ active'.gone = None
      /\ ~bambu.code /\ active # None /\ active' # None =>
           IF active.gone = None THEN active'.gone = hour ELSE active'.gone = active.gone
      /\ ~bambu.code /\ active # None /\ active' = None => active.gone # None /\ hour - active.gone >= Grace
  BY <1>5, <1>6 DEF n
<1>8. missing = IF bambu.code THEN None ELSE IF witness.missing = None THEN hour ELSE witness.missing
  BY DEF Notices!Missing
<1>9. /\ witness.missing # None => witness.missing <= hour
      /\ witness.since # None =>
           /\ active # None /\ active.first = witness.since
           /\ active.gone # None => witness.missing # None /\ witness.missing <= active.gone
  BY DEF NoticeInv, NoticeSince
<1> HIDE DEF missing
<1>10. missing # None => missing \in Nat /\ missing <= hour
  BY <1>2, <1>8, <1>9
<1>11. missing # None => missing <= hour'
  BY <1>1, <1>2, <1>10
<1>12. screen'.since # None => active' # None /\ active'.first = screen'.since
  BY <1>1, <1>7
<1>13. ASSUME witness'.since # None
       PROVE  /\ active' # None /\ active'.first = witness'.since
              /\ active'.gone # None => missing # None /\ missing <= active'.gone
  <2>1. CASE bambu.code
    BY <1>1, <1>7, <1>9, <2>1
  <2>2. CASE ~bambu.code
    <3>1. witness'.since = witness.since /\ ~(hour - missing >= Grace) /\ witness.since # None
      BY <1>1, <1>13, <2>2
    <3>2. active # None /\ active.first = witness.since /\ missing \in Nat
      BY <1>8, <1>9, <1>10, <1>2, <2>2, <3>1
    <3>3. active.gone = None \/ active.gone \in Nat
      BY <1>2, <3>2 DEF Notices!Entries, Notices!Times
    <3>4. active.gone # None => missing <= active.gone
      BY <1>8, <1>9, <2>2, <3>1
    <3>5. active' # None
      <4> SUFFICES ASSUME active' = None PROVE FALSE
        OBVIOUS
      <4>1. active.gone \in Nat /\ hour - active.gone >= Grace /\ missing <= active.gone
        BY <1>7, <2>2, <3>2, <3>3, <3>4
      <4> QED
        BY <1>2, <3>1, <3>2, <4>1
    <3>6. active'.gone = IF active.gone = None THEN hour ELSE active.gone
      BY <1>7, <2>2, <3>2, <3>5
    <3>7. missing # None /\ missing <= active'.gone
      BY <1>2, <1>10, <3>2, <3>4, <3>6
    <3> QED
      BY <1>7, <3>1, <3>2, <3>5, <3>7
  <2> QED
    BY <1>2, <2>1, <2>2
<1> QED
  BY <1>1, <1>11, <1>12, <1>13 DEF NoticeSince

\* What a poll writes is what it changed in memory; a write lost is remembered.
LEMMA PollDisk == ASSUME NoticesConstants, NoticeInv, Notices!Poll, link PROVE NoticeDisk'
<1> DEFINE shows == Notices!State(report')
<1>1. /\ hour \in Nat /\ active \in Notices!Entries \cup {None} /\ flag \in Notices!Flags \cup {None}
      /\ bambu.code \in BOOLEAN /\ witness \in NoticeWitness /\ (active # None => active.first <= hour)
  BY NoticeTypes DEF NoticeInv, Notices!TypeOK, NoticePrinter
<1>2. report'.seen \in NoticeTime
  <2>1. report' \in NoticeReport
    BY NoticeTypes, PollSteps, LatchKept DEF NoticeInv
  <2> QED
    BY <2>1 DEF NoticeReport
<1>3. PICK works \in BOOLEAN :
        /\ active' = Notices!Annotated(active, bambu.code, report'.seen, works)
        /\ flag' = Notices!KeptFlag(flag, shows, works)
        /\ saved' = Notices!FlagRows(Notices!CodeRows(works), works)
        /\ witness'.lost = (witness.lost \/ ~works)
  BY PollSteps
<1>4. /\ active = None /\ active' # None => active'.row = works
      /\ active # None /\ active' # None => active'.row = active.row /\ active'.first = active.first
  <2> DEFINE seen == report'.seen
             n == Notices!Annotated(active, bambu.code, seen, works)
  <2>1. seen \in NoticeTime
    BY <1>2
  <2>2. active' = n
    BY <1>3
  <2> HIDE DEF seen
  <2>3. /\ active = None /\ n # None => n.row = works
        /\ active # None /\ n # None => n.row = active.row /\ n.first = active.first
    BY <1>1, <2>1, EntryKnown
  <2> HIDE DEF n
  <2> QED
    BY <2>2, <2>3
<1>5. /\ flag = None /\ flag' # None => flag'.row = works
      /\ flag # None /\ flag' # None => flag'.row = flag.row
  <2> HIDE DEF shows
  <2> QED
    BY <1>1, <1>3, FlagKnown
<1>6. SUFFICES ASSUME ~witness'.lost PROVE NoticeDisk'
  BY DEF NoticeDisk
<1>7. works /\ ~witness.lost
  BY <1>1, <1>3, <1>6 DEF NoticeWitness
<1> DEFINE codes == Notices!CodeRows(works)
           new == [key |-> "code", first |-> active'.first]
           off == [key |-> "flag", first |-> 0]
<1>8. /\ flag # None <=> \E r \in saved : r.key = "flag"
      /\ RowsOfCode(saved) = IF active = None THEN {} ELSE {[key |-> "code", first |-> active.first]}
      /\ flag # None => flag.row
      /\ active # None => active.row
  BY <1>7 DEF NoticeInv, NoticeDisk
<1>9. codes = IF active = None /\ active' # None THEN saved \cup {new}
              ELSE IF active # None /\ active' = None THEN {r \in saved : r.key # "code"} ELSE saved
  BY <1>7, <1>8 DEF Notices!CodeRows, Notices!Inserted, Notices!Closed
<1>10. saved' = IF flag = None /\ flag' # None THEN codes \cup {off}
                ELSE IF flag # None /\ flag' = None THEN {r \in codes : r.key # "flag"} ELSE codes
  BY <1>3, <1>7, <1>8 DEF Notices!FlagRows, Notices!Inserted, Notices!Closed
<1>11. new.key = "code" /\ off.key = "flag" /\ "code" # "flag"
  OBVIOUS
<1> HIDE DEF codes, new, off
<1>12. RowsOfCode(codes) = IF active' = None THEN {} ELSE {new}
  <2>1. CASE active = None /\ active' # None
    BY <1>8, <1>9, <1>11, <2>1 DEF RowsOfCode
  <2>2. CASE active # None /\ active' = None
    BY <1>9, <2>2 DEF RowsOfCode
  <2>3. CASE active # None /\ active' # None
    BY <1>4, <1>8, <1>9, <2>3 DEF new
  <2>4. CASE active = None /\ active' = None
    BY <1>8, <1>9, <2>4
  <2> QED
    BY <2>1, <2>2, <2>3, <2>4
<1>13. (\E r \in codes : r.key = "flag") <=> (\E r \in saved : r.key = "flag")
  BY <1>9, <1>11
<1>14. RowsOfCode(saved') = RowsOfCode(codes)
  BY <1>10, <1>11 DEF RowsOfCode
<1>15. (\E r \in saved' : r.key = "flag") <=> flag' # None
  <2>1. CASE flag = None /\ flag' # None
    BY <1>10, <1>11, <2>1
  <2>2. CASE flag # None /\ flag' = None
    BY <1>10, <2>2
  <2>3. CASE (flag = None) = (flag' = None)
    BY <1>8, <1>10, <1>13, <2>3
  <2> QED
    BY <2>1, <2>2, <2>3
<1>16. /\ flag' # None => flag'.row
       /\ active' # None => active'.row
  BY <1>4, <1>5, <1>7, <1>8
<1> QED
  BY <1>12, <1>14, <1>15, <1>16 DEF NoticeDisk, RowsOfCode, new

LEMMA PollTypes == ASSUME NoticesConstants, NoticeInv, Notices!Poll, link PROVE Notices!TypeOK'
<1> DEFINE shows == Notices!State(report')
<1>1. /\ Notices!TypeOK /\ hour \in Nat /\ faults \in Nat /\ MaxHour \in Nat /\ MaxFaults \in Nat
      /\ active \in Notices!Entries \cup {None} /\ flag \in Notices!Flags \cup {None}
      /\ bambu.code \in BOOLEAN /\ bambu \in NoticePrinter /\ (active # None => active.first <= hour)
  BY NoticeTypes DEF NoticeInv, Notices!TypeOK, NoticePrinter, NoticesConstants
<1>2. /\ hour < MaxHour /\ hour' = hour + 1 /\ bambu' = bambu /\ link' = link /\ turns' = turns
      /\ screen' = [state |-> shows, since |-> IF bambu.code THEN active'.first ELSE None]
      /\ witness' \in NoticeWitness /\ report' = Notices!Update(report, bambu)
  BY PollSteps
<1>3. report' \in NoticeReport /\ report'.seen \in NoticeTime
  <2>1. report' \in NoticeReport
    BY <1>1, <1>2, LatchKept
  <2> QED
    BY <2>1 DEF NoticeReport
<1>4. PICK works \in BOOLEAN :
        /\ active' = Notices!Annotated(active, bambu.code, report'.seen, works)
        /\ flag' = Notices!KeptFlag(flag, shows, works)
        /\ works \/ faults < MaxFaults
        /\ faults' = IF works THEN faults ELSE faults + 1
        /\ saved' = Notices!FlagRows(Notices!CodeRows(works), works)
  BY PollSteps
<1>5. /\ active' \in Notices!Entries \cup {None} /\ (active' # None => active'.first <= hour)
      /\ bambu.code => active' # None
  <2> DEFINE seen == report'.seen
             n == Notices!Annotated(active, bambu.code, seen, works)
  <2>1. seen \in NoticeTime
    BY <1>3
  <2>2. active' = n
    BY <1>4
  <2> HIDE DEF seen
  <2>3. n \in Notices!Entries \cup {None} /\ (n # None => n.first <= hour) /\ (bambu.code => n # None)
    BY <1>1, <2>1, EntryKnown
  <2> HIDE DEF n
  <2> QED
    BY <2>2, <2>3
<1>6. flag' \in Notices!Flags \cup {None}
  <2> HIDE DEF shows
  <2> QED
    BY <1>1, <1>4, FlagKnown
<1>7. active' # None => active'.first \in Nat
  BY <1>5 DEF Notices!Entries
<1>8. screen' \in Notices!Shown
  <2>1. shows \in {"printing", "idle", "error", "cancelled"}
    BY PollShows
  <2>2. (IF bambu.code THEN active'.first ELSE None) \in Notices!Times
    BY <1>5, <1>7 DEF Notices!Times
  <2> HIDE DEF shows
  <2> QED
    BY <1>2, <2>1, <2>2 DEF Notices!Shown
<1>9. hour' \in 0..MaxHour /\ faults' \in 0..MaxFaults
  <2>1. faults \in 0..MaxFaults
    BY <1>1 DEF Notices!TypeOK
  <2>2. faults' = faults \/ (faults' = faults + 1 /\ faults < MaxFaults)
    BY <1>4
  <2> QED
    BY <1>1, <1>2, <2>1, <2>2
<1>10. \A r \in saved' : r \in Notices!Rows /\ r.first <= hour
  <2> DEFINE codes == Notices!CodeRows(works)
             Good(r) == r \in Notices!Rows /\ r.first <= hour
  <2>1. \A r \in saved : Good(r)
    BY <1>1 DEF Notices!TypeOK
  <2>2. active' # None => Good([key |-> "code", first |-> active'.first])
    BY <1>5, <1>7 DEF Notices!Rows
  <2>3. Good([key |-> "flag", first |-> 0])
    BY <1>1 DEF Notices!Rows
  <2> HIDE DEF Good
  <2>4. \A r \in codes : Good(r)
    BY <2>1, <2>2 DEF Notices!CodeRows, Notices!Inserted, Notices!Closed
  <2> HIDE DEF codes
  <2>5. \A r \in saved' : Good(r)
    <3>1. saved' = Notices!FlagRows(codes, works)
      BY <1>4 DEF codes
    <3> QED
      BY <2>3, <2>4, <3>1 DEF Notices!FlagRows, Notices!Inserted, Notices!Closed
  <2> QED
    BY <2>5 DEF Good
<1>11. saved' \subseteq Notices!Rows /\ (\A r \in saved' : r.first <= hour') /\ (active' # None => active'.first <= hour')
  <2>1. \A n \in Nat : n <= hour => n <= hour'
    BY <1>1, <1>2
  <2>2. \A r \in saved' : r.first \in Nat
    BY <1>10 DEF Notices!Rows
  <2> QED
    BY <1>5, <1>7, <1>10, <2>1, <2>2
<1>12. /\ bambu' \in [gcode : Notices!Words, pe : Notices!Errors, code : BOOLEAN, vague : BOOLEAN] /\ link' \in BOOLEAN
       /\ turns' \in 0..MaxEpisodes
  BY <1>1, <1>2 DEF Notices!TypeOK
<1>13. /\ report' \in [gcode : Notices!Words \cup {"UNKNOWN", None}, pe : Notices!Errors, latched : BOOLEAN,
                       seen : Notices!Times, gone : Notices!Times]
       /\ witness' \in [cause : {None, "cancelled", "failed"}, seen : BOOLEAN, blank : Notices!Times, since : Notices!Times,
                        missing : Notices!Times, lost : BOOLEAN, ran : BOOLEAN, missed : BOOLEAN]
  BY <1>2, <1>3 DEF NoticeReport, NoticeWitness, NoticeTime, NoticeErrors, Notices!Words, Notices!Errors, Notices!Times
<1> QED
  BY <1>5, <1>6, <1>8, <1>9, <1>11, <1>12, <1>13 DEF Notices!TypeOK

LEMMA NoticePoll == ASSUME NoticesConstants, NoticeInv, Notices!Poll PROVE NoticeInv'
<1>1. CASE link
  BY <1>1, PollTypes, PollLatch, PollDisk, PollSeen, PollSince DEF NoticeInv
<1>2. CASE ~link
  <2>1. /\ hour < MaxHour /\ hour' = hour + 1 /\ bambu' = bambu /\ link' = link /\ turns' = turns /\ report' = report
        /\ active' = active /\ flag' = flag /\ saved' = saved /\ screen' = screen /\ witness' = witness /\ faults' = faults
    BY <1>2 DEF Notices!Poll
  <2>2. /\ hour \in Nat /\ Notices!TypeOK /\ witness.blank \in Nat \cup {None} /\ witness.missing \in Nat \cup {None}
        /\ MaxHour \in Nat
    BY NoticeTypes DEF NoticeInv, NoticeWitness, NoticeTime, NoticesConstants
  <2>3. hour' \in 0..MaxHour /\ \A n \in Nat : n <= hour => n <= hour'
    BY <2>1, <2>2
  <2>4. (\A r \in saved : r.first \in Nat) /\ (active # None => active.first \in Nat)
    BY <2>2 DEF Notices!TypeOK, Notices!Rows, Notices!Entries
  <2>5. (\A r \in saved' : r.first <= hour') /\ (active' # None => active'.first <= hour')
    BY <2>1, <2>2, <2>3, <2>4 DEF Notices!TypeOK
  <2>6. Notices!TypeOK'
    BY <2>1, <2>2, <2>3, <2>5 DEF Notices!TypeOK
  <2>7. NoticeSeen' /\ NoticeSince'
    BY <2>1, <2>2, <2>3 DEF NoticeInv, NoticeSeen, NoticeSince
  <2> QED
    BY <2>1, <2>6, <2>7 DEF NoticeInv, NoticeWire, NoticeLatch, NoticeDisk
<1> QED
  BY <1>1, <1>2 DEF Notices!Poll

LEMMA NoticeStarts == ASSUME NoticesConstants, Notices!Init PROVE NoticeInv
<1> DEFINE n == Notices!NewReport
<1>1. /\ hour = 0 /\ bambu = [gcode |-> "IDLE", pe |-> None, code |-> FALSE, vague |-> FALSE] /\ link = TRUE
      /\ report = Notices!Update(n, bambu) /\ active = None /\ flag = None /\ saved = {} /\ screen = None
      /\ witness = [cause |-> None, seen |-> FALSE, blank |-> None, since |-> None, missing |-> None,
                    lost |-> FALSE, ran |-> TRUE, missed |-> FALSE]
      /\ turns = 0 /\ faults = 0
  BY DEF Notices!Init
<1>2. bambu \in NoticePrinter /\ n \in NoticeReport /\ ~n.latched /\ witness \in NoticeWitness
  BY <1>1 DEF NoticePrinter, NoticeReport, NoticeWitness, NoticeErrors, NoticeTime, Notices!NewReport
<1> HIDE DEF n
<1>3. report \in NoticeReport /\ report.gcode = "IDLE" /\ (report.latched => bambu.pe = "cancel")
  BY <1>1, <1>2, UpdateKnown
<1>4. 0 \in 0..MaxHour /\ 0 \in 0..MaxEpisodes /\ 0 \in 0..MaxFaults
  BY DEF NoticesConstants
<1>5. Notices!TypeOK
  BY <1>1, <1>2, <1>3, <1>4
     DEF Notices!TypeOK, NoticePrinter, NoticeReport, NoticeWitness, NoticeTime, NoticeErrors, Notices!Words, Notices!Errors,
         Notices!Times
<1>6. NoticeWire
  BY <1>1, <1>3 DEF NoticeWire, NoticesConstants
<1>7. NoticeLatch
  BY <1>1, <1>3 DEF NoticeLatch, NoticesConstants
<1>8. NoticeDisk /\ NoticeSeen /\ NoticeSince
  BY <1>1 DEF NoticeDisk, NoticeSeen, NoticeSince, RowsOfCode
<1> QED
  BY <1>5, <1>6, <1>7, <1>8 DEF NoticeInv

LEMMA NoticeSteps == ASSUME NoticesConstants, NoticeInv, [Notices!Next]_(Notices!vars) PROVE NoticeInv'
<1>1. CASE UNCHANGED Notices!vars
  BY <1>1 DEF NoticeInv, Notices!TypeOK, NoticeWire, NoticeLatch, NoticeDisk, NoticeSeen, NoticeSince, Notices!vars,
              Notices!program
<1>2. CASE Notices!Next
  BY <1>2, NoticeTurns, NoticeLink, NoticePoll, NoticeRestart, Zenon DEF Notices!Next
<1> QED
  BY <1>1, <1>2

\* Every state of the notifications: the report is the printer's while its reports
\* arrive, a remembered cancel is this print's, and disk and memory agree.
THEOREM NoticesHold == ASSUME NoticesConstants PROVE Notices!Spec => []NoticeInv
<1>1. Notices!Init => NoticeInv
  BY NoticeStarts
<1>2. NoticeInv /\ [Notices!Next]_(Notices!vars) => NoticeInv'
  BY NoticeSteps
<1> QED
  BY <1>1, <1>2, PTL DEF Notices!Spec

\* Type correctness: no time of the tracker or on its disk lies in the future.
THEOREM NoticesTypeCorrect == ASSUME NoticesConstants PROVE Notices!Spec => []Notices!TypeOK
<1>1. NoticeInv => Notices!TypeOK
  BY DEF NoticeInv
<1> QED
  BY <1>1, NoticesHold, PTL

\* _bambu_cancelled, _keep_flag_locked: a cancelled print stays one over reports
\* that lost the code, a blank state and a restart, for any grace; and the failure of
\* a job the program saw run is no cancel.
THEOREM CancelsAreKept == ASSUME NoticesConstants PROVE Notices!Spec => Notices!CancelKept
<1> DEFINE P == hour' # hour /\ link /\ bambu.gcode = "FAILED" /\ ~bambu.vague =>
                  /\ screen'.state = "error" /\ witness.seen => bambu.pe = "fatal"
                  /\ screen'.state = "cancelled" /\ witness.ran /\ ~witness.missed => witness.cause = "cancelled"
<1>1. NoticeInv /\ [Notices!Next]_(Notices!vars) => [P]_(Notices!vars)
  <2> SUFFICES ASSUME NoticeInv, Notices!Next, hour' # hour, link, bambu.gcode = "FAILED", ~bambu.vague
               PROVE  /\ screen'.state = "error" /\ witness.seen => bambu.pe = "fatal"
                      /\ screen'.state = "cancelled" /\ witness.ran /\ ~witness.missed => witness.cause = "cancelled"
    OBVIOUS
  <2>1. CASE Notices!Poll
    <3>1. /\ screen'.state = "cancelled" => (witness.ran => Excused(witness))
          /\ flag # None /\ screen'.state # "cancelled" => bambu.pe = "fatal"
      BY <2>1, PollShows
    <3>2. witness.seen => flag # None
      BY DEF NoticeInv, NoticeSeen
    <3> QED
      BY <3>1, <3>2 DEF Excused
  <2>2. CASE ~Notices!Poll
    BY <2>2 DEF Notices!Next, Notices!Begin, Notices!Cancel, Notices!Fail, Notices!ErrorGone, Notices!ErrorComes,
                Notices!Rest, Notices!CodeFlips, Notices!Turn, Notices!Lose, Notices!Return, Notices!Clear, Notices!Restart
  <2> QED
    BY <2>1, <2>2
<1> QED
  BY <1>1, NoticesHold, PTL DEF Notices!Spec, Notices!CancelKept

\* annotate, RawReport.update: a code that flaps keeps the time it was first shown
\* with, over lost reports and restarts, until the grace has passed without it.
THEOREM TimesAreKept == ASSUME NoticesConstants PROVE Notices!Spec => []Notices!SinceKept
<1>1. NoticeInv => Notices!SinceKept
  BY DEF NoticeInv, NoticeSince, Notices!SinceKept
<1> QED
  BY <1>1, NoticesHold, PTL

(***************************************************************************)
(* Part 2.  JobMachine.                                                    *)
(***************************************************************************)
JobSamples == [ts : Nat, state : Machine!Active \cup Machine!Idle, print : Nat, code : Machine!Codes,
               p : Machine!Time, eta : Machine!Time, layer : Machine!Time, name : {None, "own", "same"},
               seq : Machine!Time, begun : Nat]
\* A sample of a print that runs.
Runs(s) == /\ s \in JobSamples /\ s.state \in Machine!Active
           /\ s.p \in Nat /\ s.eta \in Nat /\ s.layer \in Nat /\ s.name \in {"own", "same"}

\* The pauses and outages of a job fit into its time side by side, the open pause
\* without the gaps inside it counted too.
JobSound(j) ==
  /\ j \in Machine!Jobs /\ j.started <= j.seen
  /\ j.paused + j.offline <= j.seen - j.started
  /\ j.pauseAt # None => /\ j.state = "paused"
                         /\ j.paused + j.offline + (j.seen - j.pauseAt - j.gap) <= j.seen - j.started

\* A pause that ends adds its time to the print it belongs to.
LEMMA ClosingAPause ==
  ASSUME MachineConstants, NEW j \in Machine!Jobs, NEW end \in Nat, NEW c, c = Machine!PauseClosed(j, end)
  PROVE  /\ c \in Machine!Jobs /\ c.pauseAt = None
         /\ c.started = j.started /\ c.seen = j.seen /\ c.offline = j.offline /\ c.prints = j.prints
         /\ c.lp = j.lp /\ c.le = j.le /\ c.state = j.state /\ c.powerAt = j.powerAt
         /\ c.paused \in Nat /\ (j.pauseAt = None => c.paused = j.paused)
         /\ j.pauseAt # None => c.paused = j.paused \/ c.paused = j.paused + (end - j.pauseAt - j.gap)
<1> USE DEF Machine!Jobs, Machine!Time
<1>1. CASE j.pauseAt = None
  BY <1>1 DEF Machine!PauseClosed
<1>2. CASE j.pauseAt # None
  <2> DEFINE more == Machine!High(0, end - j.pauseAt - j.gap)
             d == [j EXCEPT !.paused = @ + more, !.pauseAt = None, !.gap = 0, !.why = None]
  <2>1. more \in Nat /\ (more = 0 \/ more = end - j.pauseAt - j.gap)
    BY <1>2 DEF Machine!High
  <2>2. c = d
    BY <1>2 DEF Machine!PauseClosed
  <2> HIDE DEF more
  <2>3. j.paused + more \in Nat
    BY <2>1
  <2>4. d \in Machine!Jobs /\ d.paused = j.paused + more
    BY <2>3 DEF Machine!Codes
  <2> QED
    BY <1>2, <2>1, <2>2, <2>4
<1> QED
  BY <1>1, <1>2

\* The code a pause shows first names its cause.
LEMMA NamingAPause ==
  ASSUME MachineConstants, NEW j \in Machine!Jobs, NEW s, Runs(s), NEW c, c = Machine!PauseReason(j, s)
  PROVE  /\ c \in Machine!Jobs /\ c.pauseAt = j.pauseAt /\ c.gap = j.gap
         /\ c.started = j.started /\ c.seen = j.seen /\ c.offline = j.offline /\ c.prints = j.prints
         /\ c.paused = j.paused /\ c.state = j.state
<1> DEFINE most == IF j.lp = None THEN s.p ELSE Machine!High(j.lp, s.p)
           power == IF s.code = "power" THEN most ELSE j.powerAt
           d == [j EXCEPT !.why = s.code, !.powerAt = power]
<1>1. most \in Nat
  BY DEF Runs, Machine!High, Machine!Jobs, Machine!Time
<1>2. power \in Machine!Time
  BY <1>1 DEF Machine!Jobs, Machine!Time
<1>3. c \in {j, d}
  BY DEF Machine!PauseReason
<1> HIDE DEF power
<1>4. d \in Machine!Jobs /\ s.code \in Machine!Codes
  BY <1>2 DEF Runs, JobSamples, Machine!Jobs
<1> QED
  BY <1>3, <1>4 DEF Machine!Jobs

\* A pause that opens starts at its own sample.
LEMMA OpeningAPause ==
  ASSUME MachineConstants, NEW j \in Machine!Jobs, NEW s, Runs(s), NEW c, c = Machine!PauseOpened(j, s)
  PROVE  /\ c \in Machine!Jobs /\ c.pauseAt = (IF s.code = "power" THEN j.seen ELSE s.ts) /\ c.gap = 0
         /\ c.started = j.started /\ c.seen = j.seen /\ c.offline = j.offline /\ c.prints = j.prints
         /\ c.paused = j.paused /\ c.state = j.state
<1> DEFINE at == IF s.code = "power" THEN j.seen ELSE s.ts
           d == [j EXCEPT !.pauseAt = at, !.gap = 0, !.why = None, !.powerAt = None]
<1>1. at \in Nat
  BY DEF Runs, JobSamples, Machine!Jobs
<1>2. c = Machine!PauseReason(d, s)
  BY DEF Machine!PauseOpened
<1> HIDE DEF at
<1>3. /\ d \in Machine!Jobs /\ d.pauseAt = at /\ d.gap = 0
      /\ d.started = j.started /\ d.seen = j.seen /\ d.offline = j.offline /\ d.prints = j.prints
      /\ d.paused = j.paused /\ d.state = j.state
  BY <1>1 DEF Machine!Jobs, Machine!Time, Machine!Codes
<1> HIDE DEF d
<1>4. /\ c \in Machine!Jobs /\ c.pauseAt = d.pauseAt /\ c.gap = d.gap
      /\ c.started = d.started /\ c.seen = d.seen /\ c.offline = d.offline /\ c.prints = d.prints
      /\ c.paused = d.paused /\ c.state = d.state
  BY <1>2, <1>3, NamingAPause
<1> QED
  BY <1>3, <1>4 DEF at

\* _absorb: a sample leaves the job's start alone, and its times in order.
LEMMA AbsorbSound ==
  ASSUME MachineConstants, NEW j, JobSound(j), NEW s, Runs(s), j.seen <= s.ts, NEW c, c = Machine!Absorb(j, s)
  PROVE  /\ JobSound(c) /\ c.started = j.started /\ c.seen = s.ts
         /\ c.lp \in Nat /\ c.le \in Nat /\ c.prints = j.prints \cup {<<s.print, s.p>>}
<1> DEFINE silent == Machine!High(0, s.ts - j.seen)
           gap == silent >= Lost
           pausing == s.state = "paused" /\ j.state # "paused"
           off == IF gap /\ ~(pausing /\ s.code = "power") THEN j.offline + silent ELSE j.offline
           hole == IF gap /\ j.state = "paused" THEN j.gap + silent ELSE j.gap
           away == [j EXCEPT !.offline = off, !.gap = hole]
           heeded == IF pausing THEN Machine!PauseOpened(away, s)
                    ELSE IF j.state = "paused" /\ s.state = "printing" THEN Machine!PauseClosed(away, s.ts)
                    ELSE IF j.state = "paused" /\ j.why = None THEN Machine!PauseReason(away, s) ELSE away
           named == IF heeded.name = None THEN s.name ELSE heeded.name
           end == [heeded EXCEPT !.lp = s.p, !.le = s.eta, !.layer = s.layer, !.name = named,
                     !.state = s.state, !.seen = s.ts, !.prints = heeded.prints \cup {<<s.print, s.p>>}]
<1>1. /\ j \in Machine!Jobs /\ s.ts \in Nat /\ s.state \in {"printing", "paused"}
      /\ silent \in Nat /\ silent = s.ts - j.seen /\ gap \in BOOLEAN
  BY DEF JobSound, Runs, JobSamples, Machine!High, Machine!Active, Machine!Jobs, MachineConstants
<1>2. c = end
  BY DEF Machine!Absorb
<1>3. /\ j.started \in Nat /\ j.seen \in Nat /\ j.paused \in Nat /\ j.offline \in Nat /\ j.gap \in Nat
      /\ j.pauseAt \in Nat \cup {None}
  BY <1>1 DEF Machine!Jobs, Machine!Time
<1> HIDE DEF silent, gap
<1>4. off \in Nat /\ hole \in Nat
  BY <1>1, <1>3
<1> HIDE DEF off, hole
<1>5. /\ away \in Machine!Jobs /\ away.offline = off /\ away.gap = hole
      /\ away.started = j.started /\ away.seen = j.seen /\ away.prints = j.prints /\ away.paused = j.paused
      /\ away.pauseAt = j.pauseAt /\ away.state = j.state
  BY <1>1, <1>4 DEF Machine!Jobs
<1> HIDE DEF away, end, heeded
<1>6. /\ heeded \in Machine!Jobs /\ heeded.started = j.started /\ heeded.prints = j.prints /\ heeded.offline = off
      /\ heeded.paused + heeded.offline <= s.ts - j.started
      /\ heeded.pauseAt # None => /\ s.state = "paused"
                                 /\ heeded.paused + heeded.offline + (s.ts - heeded.pauseAt - heeded.gap) <= s.ts - j.started
  <2>1. CASE pausing
    <3>1. heeded = Machine!PauseOpened(away, s)
      BY <2>1 DEF heeded
    <3>2. /\ heeded \in Machine!Jobs /\ heeded.pauseAt = (IF s.code = "power" THEN away.seen ELSE s.ts)
          /\ heeded.gap = 0 /\ heeded.started = away.started /\ heeded.offline = away.offline
          /\ heeded.prints = away.prints /\ heeded.paused = away.paused
      BY <1>5, <3>1, OpeningAPause
    <3>3. heeded.paused = j.paused /\ heeded.offline = off
      BY <1>5, <3>2
    <3>4. CASE s.code = "power"
      <4>1. off = j.offline /\ heeded.pauseAt = j.seen
        BY <1>5, <2>1, <3>2, <3>4 DEF off
      <4> QED
        BY <1>1, <1>3, <1>5, <2>1, <3>2, <3>3, <4>1 DEF JobSound
    <3>5. CASE s.code # "power"
      <4>1. off \in {j.offline, j.offline + silent} /\ heeded.pauseAt = s.ts
        BY <1>5, <3>2, <3>5 DEF off
      <4> QED
        BY <1>1, <1>3, <1>5, <2>1, <3>2, <3>3, <4>1 DEF JobSound
    <3> QED
      BY <3>4, <3>5
  <2>2. CASE ~pausing
    <3>1. /\ off = IF gap THEN j.offline + silent ELSE j.offline
          /\ j.state = "paused" => hole = IF gap THEN j.gap + silent ELSE j.gap
      BY <2>2 DEF off, hole
    <3>2. CASE j.state = "paused" /\ s.state = "printing"
      <4>1. heeded = Machine!PauseClosed(away, s.ts)
        BY <2>2, <3>2 DEF heeded
      <4>2. /\ heeded \in Machine!Jobs /\ heeded.pauseAt = None /\ heeded.started = away.started
            /\ heeded.offline = away.offline /\ heeded.prints = away.prints /\ heeded.paused \in Nat
            /\ away.pauseAt = None => heeded.paused = away.paused
            /\ away.pauseAt # None => \/ heeded.paused = away.paused
                                      \/ heeded.paused = away.paused + (s.ts - away.pauseAt - away.gap)
        <5>1. away \in Machine!Jobs /\ s.ts \in Nat
          BY <1>1, <1>5
        <5> QED
          BY <4>1, <5>1, ClosingAPause
      <4>3. heeded.paused = j.paused \/ (j.pauseAt # None /\ heeded.paused = j.paused + (s.ts - j.pauseAt - hole))
        BY <1>5, <4>2
      <4> QED
        BY <1>1, <1>3, <1>5, <3>1, <3>2, <4>2, <4>3 DEF JobSound
    <3>3. CASE j.state = "paused" /\ s.state = "paused"
      <4>1. heeded \in {away, Machine!PauseReason(away, s)}
        BY <2>2, <3>3 DEF heeded
      <4>2. /\ heeded \in Machine!Jobs /\ heeded.pauseAt = away.pauseAt /\ heeded.gap = away.gap
            /\ heeded.started = away.started /\ heeded.offline = away.offline /\ heeded.prints = away.prints
            /\ heeded.paused = away.paused
        BY <1>5, <4>1, NamingAPause
      <4> QED
        BY <1>1, <1>3, <1>5, <3>1, <3>3, <4>2 DEF JobSound
    <3>4. CASE j.state # "paused"
      <4>1. heeded = away /\ j.pauseAt = None
        BY <2>2, <3>4 DEF heeded, JobSound
      <4> QED
        BY <1>1, <1>3, <1>5, <3>1, <4>1 DEF JobSound
    <3> QED
      BY <1>1, <3>2, <3>3, <3>4
  <2> QED
    BY <2>1, <2>2
<1>7. named \in {None, "own", "same"} /\ s.p \in Nat /\ s.eta \in Nat /\ s.layer \in Nat
  BY <1>6 DEF Runs, Machine!Jobs
<1>8. heeded.prints \cup {<<s.print, s.p>>} \in Machine!Samples
  BY <1>6, <1>7 DEF Machine!Jobs, Machine!Samples, Runs, JobSamples
<1> HIDE DEF named
<1>9. /\ end \in Machine!Jobs /\ end.started = heeded.started /\ end.seen = s.ts /\ end.lp = s.p /\ end.le = s.eta
      /\ end.state = s.state /\ end.pauseAt = heeded.pauseAt /\ end.gap = heeded.gap /\ end.paused = heeded.paused
      /\ end.offline = heeded.offline /\ end.prints = heeded.prints \cup {<<s.print, s.p>>}
  BY <1>1, <1>6, <1>7, <1>8 DEF end, Machine!Jobs, Machine!Time, Machine!Active
<1> QED
  BY <1>1, <1>2, <1>3, <1>6, <1>7, <1>9 DEF JobSound

\* _close: the row of a job that ended no earlier than it was seen.
LEMMA RowSound ==
  ASSUME MachineConstants, NEW j, JobSound(j), NEW base \in Machine!Results, NEW end \in Nat, j.seen <= end,
         NEW r, r = Machine!Row(j, base, end)
  PROVE  /\ r \in Machine!JobRows /\ r.started = j.started /\ r.ended = end /\ r.prints = j.prints
         /\ r.started <= r.ended /\ r.paused + r.offline <= r.ended - r.started
<1> DEFINE c == Machine!PauseClosed(j, end)
<1>1. /\ j \in Machine!Jobs /\ j.started \in Nat /\ j.seen \in Nat /\ j.paused \in Nat /\ j.offline \in Nat
      /\ j.gap \in Nat /\ j.pauseAt \in Nat \cup {None}
  BY DEF JobSound, Machine!Jobs, Machine!Time
<1>2. /\ c \in Machine!Jobs /\ c.started = j.started /\ c.offline = j.offline /\ c.prints = j.prints /\ c.paused \in Nat
      /\ j.pauseAt = None => c.paused = j.paused
      /\ j.pauseAt # None => c.paused = j.paused \/ c.paused = j.paused + (end - j.pauseAt - j.gap)
  BY <1>1, ClosingAPause
<1>3. Machine!Result(j, base) \in Machine!Results
  BY DEF Machine!Result, Machine!Results
<1>4. r = [started |-> c.started, ended |-> end, paused |-> c.paused, offline |-> c.offline,
           result |-> Machine!Result(j, base), prints |-> c.prints]
  BY DEF Machine!Row
<1>5. c.prints \in Machine!Samples
  BY <1>2 DEF Machine!Jobs
<1> HIDE DEF c
<1>6. r \in Machine!JobRows
  BY <1>1, <1>2, <1>3, <1>4, <1>5 DEF Machine!JobRows
<1>7. c.paused + c.offline <= end - c.started
  BY <1>1, <1>2 DEF JobSound
<1> QED
  BY <1>1, <1>2, <1>4, <1>6, <1>7 DEF JobSound

\* classify_split, classify_terminal: an end lies between the last sample and now.
LEMMA SplitEnds ==
  ASSUME MachineConstants, NEW j, JobSound(j), j.le \in Nat, NEW at \in Nat, j.seen <= at,
         NEW e, e = Machine!SplitEnd(j, at)
  PROVE  e.result \in Machine!Results /\ e.ended \in Nat /\ j.seen <= e.ended /\ e.ended <= at
<1>1. j.seen \in Nat
  BY DEF JobSound, Machine!Jobs
<1> QED
  BY <1>1 DEF Machine!SplitEnd, Machine!Low, Machine!Results

\* A sample of a print that is over ends the job at a time the job covers (_terminal).
LEMMA TerminalEnds ==
  ASSUME MachineConstants, NEW j, JobSound(j), j.le \in Nat, NEW s \in JobSamples, s.state \in Machine!Idle,
         j.seen <= s.ts, NEW e, e = Machine!TerminalEnd(j, s)
  PROVE  e.result \in Machine!Results /\ e.ended \in Nat /\ j.seen <= e.ended /\ e.ended <= s.ts
<1>1. j.seen \in Nat /\ s.ts \in Nat
  BY DEF JobSound, Machine!Jobs, JobSamples
<1>2. CASE s.state = "finished"
  BY <1>1, <1>2 DEF Machine!TerminalEnd, Machine!Low, Machine!Results
<1>3. CASE s.state = "cancelled"
  BY <1>1, <1>3 DEF Machine!TerminalEnd, Machine!AllDone, Machine!Results
<1>4. CASE s.state = "error"
  BY <1>1, <1>4 DEF Machine!TerminalEnd, Machine!AllDone, Machine!Results
<1>5. CASE s.state = "idle"
  BY <1>1, <1>5 DEF Machine!TerminalEnd, Machine!AllDone, Machine!Results
<1> QED
  BY <1>2, <1>3, <1>4, <1>5 DEF Machine!Idle

\* _start_of: the start the printer told of, if it lies after what was seen.
LEMMA StartFound ==
  ASSUME MachineConstants, NEW m, NEW s \in JobSamples, NEW last \in Nat \cup {None}, NEW t, t = Machine!StartOf(m, s, last)
  PROVE  /\ t \in Nat /\ t <= s.ts
         /\ t = s.ts \/ (t = s.begun /\ s.seq # None /\ m.seq # None /\ s.seq > m.seq /\ (last = None \/ s.begun >= last))
BY DEF Machine!StartOf, JobSamples, MachineConstants

\* A job begun from a running sample is sound.
LEMMA FreshSound ==
  ASSUME MachineConstants, NEW s, NEW t \in Nat, NEW j, j = Machine!Job(s, t)
  PROVE  JobSound(j) /\ j.started = t /\ j.seen = t /\ j.prints = {}
<1>1. j \in Machine!Jobs
  BY DEF Machine!Job, Machine!Jobs, Machine!Time, Machine!Codes, Machine!Samples
<1> QED
  BY <1>1 DEF Machine!Job, JobSound

Known(j, t) == JobSound(j) /\ j.lp \in Nat /\ j.le \in Nat /\ j.seen <= t

\* What holds of the machine alone.
MachineKnown(m, t) ==
  /\ m \in Machine!MachineStates
  /\ m.job # None => Known(m.job, t) /\ m.closed = None
  /\ m.closed # None => Known(m.closed.job, t)
  /\ m.job = None => m.drop = None
  /\ m.drop # None => /\ Known(m.drop.snap, m.drop.at) /\ m.drop.snap.started = m.job.started
                      /\ m.drop.at <= m.job.seen

\* What a feed of the sample s makes of the machine m and the rows rs: n and ns.
Same(m, s) == ~(s.seq # None /\ m.seq # None /\ s.seq > m.seq)
Continues(m, s, n, rs, ns) ==
  /\ m.job # None /\ Same(m, s) /\ n.job = Machine!Absorb(m.job, s) /\ n.closed = None
  /\ \/ n.drop = None
     \/ m.drop # None /\ m.drop.left # 1 /\ n.drop = [m.drop EXCEPT !.left = @ - 1]
     \/ n.drop = [snap |-> m.job, at |-> s.ts, left |-> 2]
  /\ ns = rs
Splits(m, s, n, rs, ns, whole, res, end, onset) ==
  /\ m.job # None /\ (whole = m.job \/ (m.drop # None /\ whole = m.drop.snap))
  /\ whole.seen <= end /\ end <= onset /\ onset <= s.ts
  /\ n.job = Machine!Absorb(Machine!Job(s, onset), s) /\ n.closed = None /\ n.drop = None
  /\ ns = Append(rs, Machine!Row(whole, res, end))
Reopens(m, s, n, rs, ns) ==
  /\ m.job = None /\ m.closed # None /\ Same(m, s)
  /\ n.job = Machine!Absorb(m.closed.job, s) /\ n.closed = None /\ n.drop = None
  /\ ns = SubSeq(rs, 1, Len(rs) - 1)
Opens(m, s, n, rs, ns, onset) ==
  /\ m.job = None /\ onset <= s.ts
  /\ onset = s.ts \/ (onset = s.begun /\ s.seq # None /\ m.seq # None /\ s.seq > m.seq)
  /\ n.job = Machine!Absorb(Machine!Job(s, onset), s) /\ n.closed = None /\ n.drop = None
  /\ ns = rs
EndsAt(m, s, n, rs, ns, res, end) ==
  /\ m.job # None /\ n.job = None /\ n.drop = None /\ n.closed = Machine!Kept(m.job, res, s)
  /\ m.job.seen <= end /\ end <= s.ts
  /\ ns = Append(rs, Machine!Row(m.job, res, end))
Amends(m, s, n, rs, ns, res) ==
  /\ m.job = None /\ n.job = None /\ n.drop = None /\ m.closed # None
  /\ n.closed = None \/ \E base \in Machine!Reopenable : n.closed = [m.closed EXCEPT !.base = base]
  /\ ns = [rs EXCEPT ![Len(rs)].result = res]
Rests(m, s, n, rs, ns) == m.job = None /\ n.job = None /\ n.drop = None /\ n.closed \in {m.closed, None} /\ ns = rs

\* What a step writes to the rows, by its kind: the row of the job that ended,
LEMMA RowsAdded == ASSUME NEW rs, NEW step, step.reopen = FALSE, step.amend = None, step.close # None
  PROVE  Machine!Written(rs, step) = Append(rs, step.close)
BY DEF Machine!Written, Machine!Closed
\* nothing,
LEMMA RowsLeft == ASSUME NEW rs, NEW step, step.reopen = FALSE, step.amend = None, step.close = None
  PROVE  Machine!Written(rs, step) = rs
BY DEF Machine!Written, Machine!Closed
\* the last row taken back,
LEMMA RowTakenBack == ASSUME NEW rs, NEW step, step.reopen = TRUE
  PROVE  Machine!Written(rs, step) = SubSeq(rs, 1, Len(rs) - 1)
BY DEF Machine!Written
\* the last row amended.
LEMMA RowAmended == ASSUME NEW rs, NEW step, step.reopen = FALSE, step.amend # None, step.close = None
  PROVE  Machine!Written(rs, step) = [rs EXCEPT ![Len(rs)].result = step.amend]
BY DEF Machine!Written, Machine!Closed

\* The shape of a machine and of a step.
IsMachine(m) == m = [job |-> m.job, closed |-> m.closed, drop |-> m.drop, seq |-> m.seq]
IsStep(f) == /\ f = [machine |-> f.machine, close |-> f.close, reopen |-> f.reopen, amend |-> f.amend]
             /\ IsMachine(f.machine)

\* What feed does of a running sample, by what the machine holds.
LEMMA FeedsAJob ==
  ASSUME MachineConstants, NEW m, NEW s, Runs(s), MachineKnown(m, s.ts), m.job # None, NEW rs,
         NEW f, f = Machine!ActiveWithJob(m, s)
  PROVE  /\ IsStep(f) /\ f.machine.seq = m.seq
         /\ \/ Continues(m, s, f.machine, rs, Machine!Written(rs, f))
            \/ \E whole \in Machine!Jobs, res \in Machine!Results, end \in Nat, onset \in Nat :
                 Splits(m, s, f.machine, rs, Machine!Written(rs, f), whole, res, end, onset)
<1> DEFINE job == m.job
           new == Machine!IsNew(job, s, m.seq)
           late == ~new /\ m.drop # None /\ Machine!StartsOver(m.drop.snap, s)
           at == IF late THEN m.drop.at ELSE None
           whole == Machine!SplitJob(m, s, job, at)
           onset == IF at = None THEN Machine!StartOf(m, s, job.seen) ELSE at
           split == Machine!SplitEnd(whole, IF at = None THEN s.ts ELSE at)
           end == IF at = None /\ onset = s.begun THEN Machine!Low(split.ended, onset) ELSE split.ended
           judged == IF m.drop # None THEN IF m.drop.left = 1 THEN None ELSE [m.drop EXCEPT !.left = @ - 1]
                     ELSE IF s.p <= 5 /\ job.lp - s.p >= 3 THEN [snap |-> job, at |-> s.ts, left |-> 2]
                     ELSE None
<1>1. f = IF new \/ late
          THEN [Machine!Step(Machine!Opened(m, s, onset)) EXCEPT !.close = Machine!Row(whole, split.result, end)]
          ELSE Machine!Step([m EXCEPT !.job = Machine!Absorb(job, s), !.drop = judged])
  BY DEF Machine!ActiveWithJob
<1>2. /\ Known(job, s.ts) /\ job \in Machine!Jobs /\ job.seen \in Nat /\ s \in JobSamples /\ s.ts \in Nat /\ s.begun \in Nat
      /\ m.closed = None
  BY DEF MachineKnown, Known, JobSound, Runs, JobSamples, Machine!Jobs
<1>3. CASE new \/ late
  <2>1. /\ JobSound(whole) /\ whole.le \in Nat
        /\ whole = m.job \/ (m.drop # None /\ whole = m.drop.snap)
        /\ at = None => whole = m.job
        /\ at # None => /\ at \in Nat /\ at <= s.ts /\ whole.seen <= at
    <3>1. CASE late
      <4>1. /\ m.drop.at \in Nat /\ Known(m.drop.snap, m.drop.at) /\ m.drop.at <= m.job.seen
        BY <3>1 DEF MachineKnown, Machine!MachineStates, Machine!Drops
      <4>2. at = m.drop.at /\ at # None /\ whole = m.drop.snap
        BY <3>1, <4>1 DEF Machine!SplitJob, MachineConstants
      <4> QED
        BY <1>2, <3>1, <4>1, <4>2 DEF Known
    <3>2. CASE ~late
      BY <1>2, <3>2 DEF Machine!SplitJob, Known
    <3> QED
      BY <3>1, <3>2
  <2>2. /\ onset \in Nat /\ onset <= s.ts
        /\ at = None => onset = s.ts \/ (onset = s.begun /\ onset >= job.seen)
        /\ at # None => onset = at
    <3>1. at = None => Machine!StartOf(m, s, job.seen) \in Nat /\ Machine!StartOf(m, s, job.seen) <= s.ts
                       /\ (Machine!StartOf(m, s, job.seen) = s.ts
                           \/ (Machine!StartOf(m, s, job.seen) = s.begun /\ s.begun >= job.seen))
      BY <1>2, StartFound DEF MachineConstants
    <3> HIDE DEF at
    <3> QED
      BY <2>1, <3>1
  <2> DEFINE upto == IF at = None THEN s.ts ELSE at
  <2>3. upto \in Nat /\ whole.seen <= upto
    BY <1>2, <2>1 DEF Known
  <2>4. split.result \in Machine!Results /\ split.ended \in Nat /\ whole.seen <= split.ended /\ split.ended <= upto
    <3> HIDE DEF upto, whole
    <3>1. split = Machine!SplitEnd(whole, upto)
      BY DEF upto
    <3> QED
      BY <2>1, <2>3, <3>1, SplitEnds
  <2> HIDE DEF at, whole, onset, split, new, late
  <2>5. end \in Nat /\ whole.seen <= end /\ end <= onset
    BY <1>2, <2>1, <2>2, <2>4 DEF Machine!Low
  <2> HIDE DEF end, judged, upto
  <2>6. f = [machine |-> Machine!Opened(m, s, onset), close |-> Machine!Row(whole, split.result, end), reopen |-> FALSE,
             amend |-> None]
    BY <1>1, <1>3 DEF Machine!Step
  <2>7. Machine!Row(whole, split.result, end) \in Machine!JobRows
    BY <2>1, <2>4, <2>5, RowSound
  <2>8. Machine!Written(rs, f) = Append(rs, Machine!Row(whole, split.result, end))
    <3>1. f.reopen = FALSE /\ f.amend = None /\ f.close = Machine!Row(whole, split.result, end) /\ f.close # None
      BY <2>6, <2>7 DEF MachineConstants
    <3> QED
      BY <3>1, RowsAdded
  <2>9. /\ f.machine.job = Machine!Absorb(Machine!Job(s, onset), s) /\ f.machine.closed = None /\ f.machine.drop = None
        /\ f.machine.seq = m.seq /\ IsStep(f)
    <3>1. m \in Machine!MachineStates
      BY DEF MachineKnown
    <3>2. f.machine = [m EXCEPT !.job = Machine!Absorb(Machine!Job(s, onset), s), !.closed = None, !.drop = None]
      BY <2>6 DEF Machine!Opened
    <3>3. f.machine.job = Machine!Absorb(Machine!Job(s, onset), s) /\ f.machine.closed = None /\ f.machine.drop = None /\ f.machine.seq = m.seq /\ IsMachine(f.machine)
      <4>a. f.machine.job = Machine!Absorb(Machine!Job(s, onset), s) /\ f.machine.closed = None /\ f.machine.drop = None /\ f.machine.seq = m.seq
        BY <3>1, <3>2 DEF Machine!MachineStates
      <4>b. IsMachine(f.machine)
        BY <3>1, <3>2 DEF Machine!MachineStates, IsMachine
      <4> QED
        BY <4>a, <4>b
    <3> QED
      BY <2>6, <3>3 DEF IsStep
  <2>10. whole \in Machine!Jobs
    BY <2>1 DEF JobSound
  <2> QED
    BY <2>1, <2>2, <2>4, <2>5, <2>8, <2>9, <2>10 DEF Splits
<1>4. CASE ~(new \/ late)
  <2>1. f = Machine!Step([m EXCEPT !.job = Machine!Absorb(job, s), !.drop = judged])
    BY <1>1, <1>4
  <2>2. Same(m, s)
    BY <1>4 DEF Machine!IsNew, Same
  <2>3. Machine!Written(rs, f) = rs
    <3>1. f.reopen = FALSE /\ f.amend = None /\ f.close = None
      BY <2>1 DEF Machine!Step
    <3> QED
      BY <3>1, RowsLeft
  <2>4. \/ judged = None
        \/ m.drop # None /\ m.drop.left # 1 /\ judged = [m.drop EXCEPT !.left = @ - 1]
        \/ judged = [snap |-> m.job, at |-> s.ts, left |-> 2]
    OBVIOUS
  <2> HIDE DEF judged
  <2>5. /\ f.machine.job = Machine!Absorb(job, s) /\ f.machine.closed = m.closed /\ f.machine.drop = judged
        /\ f.machine.seq = m.seq /\ IsStep(f)
    <3>1. m \in Machine!MachineStates
      BY DEF MachineKnown
    <3>2. f.machine = [m EXCEPT !.job = Machine!Absorb(job, s), !.drop = judged]
      BY <2>1 DEF Machine!Step
    <3> HIDE DEF job
    <3>3. f.machine.job = Machine!Absorb(job, s) /\ f.machine.closed = m.closed /\ f.machine.drop = judged /\ f.machine.seq = m.seq /\ IsMachine(f.machine)
      <4>a. f.machine.job = Machine!Absorb(job, s) /\ f.machine.closed = m.closed /\ f.machine.drop = judged /\ f.machine.seq = m.seq
        BY <3>1, <3>2 DEF Machine!MachineStates
      <4>b. IsMachine(f.machine)
        BY <3>1, <3>2 DEF Machine!MachineStates, IsMachine
      <4> QED
        BY <4>a, <4>b
    <3>4. f = [machine |-> f.machine, close |-> None, reopen |-> FALSE, amend |-> None]
      BY <2>1 DEF Machine!Step
    <3> QED
      BY <3>3, <3>4 DEF IsStep
  <2> QED
    BY <1>2, <2>2, <2>3, <2>4, <2>5 DEF Continues
<1> QED
  BY <1>3, <1>4

\* What feed does of a sample that is no print: it ends one, amends a row or rests.
LEMMA FeedsNoJob ==
  ASSUME MachineConstants, NEW m, NEW s, Runs(s), MachineKnown(m, s.ts), m.job = None, NEW rs,
         NEW f, f = Machine!ActiveWithoutJob(m, s)
  PROVE  /\ IsStep(f) /\ f.machine.seq = m.seq
         /\ \/ Reopens(m, s, f.machine, rs, Machine!Written(rs, f))
            \/ \E onset \in Nat : Opens(m, s, f.machine, rs, Machine!Written(rs, f), onset)
<1> DEFINE c == m.closed
           same == Machine!AliveAt(c, s.ts) /\ ~c.final /\ ~Machine!IsNew(c.job, s, m.seq)
                   /\ (s.ts - c.at <= Lost \/ Machine!Resumes(c, s))
           onset == Machine!StartOf(m, s, None)
<1>1. f = IF same
          THEN [Machine!Step([m EXCEPT !.job = Machine!Absorb(c.job, s), !.closed = None]) EXCEPT !.reopen = TRUE]
          ELSE Machine!Step(Machine!Opened(m, s, onset))
  BY DEF Machine!ActiveWithoutJob
<1>2. m \in Machine!MachineStates /\ m.drop = None
  BY DEF MachineKnown
<1>4. CASE same
  <2>1. c # None /\ Same(m, s)
    BY <1>4 DEF Machine!AliveAt, Machine!IsNew, Same
  <2>2. f = [machine |-> [m EXCEPT !.job = Machine!Absorb(c.job, s), !.closed = None], close |-> None, reopen |-> TRUE,
             amend |-> None]
    BY <1>1, <1>4 DEF Machine!Step
  <2>3. f.machine.job = Machine!Absorb(c.job, s) /\ f.machine.closed = None /\ f.machine.drop = None /\ f.machine.seq = m.seq /\ IsMachine(f.machine)
    <3>1. f.machine = [m EXCEPT !.job = Machine!Absorb(c.job, s), !.closed = None]
      BY <2>2
    <3>2. m \in Machine!MachineStates /\ m.drop = None
      BY <1>2
    <3>a. f.machine.job = Machine!Absorb(c.job, s) /\ f.machine.closed = None /\ f.machine.drop = None /\ f.machine.seq = m.seq
      BY <3>1, <3>2 DEF Machine!MachineStates
    <3>b. IsMachine(f.machine)
      BY <3>1, <3>2 DEF Machine!MachineStates, IsMachine
    <3> QED
      BY <3>a, <3>b
  <2>4. IsStep(f)
    BY <2>2, <2>3 DEF IsStep
  <2>5. Machine!Written(rs, f) = SubSeq(rs, 1, Len(rs) - 1)
    <3>1. f.reopen = TRUE
      BY <2>2
    <3> QED
      BY <3>1, RowTakenBack
  <2> QED
    BY <2>1, <2>3, <2>4, <2>5 DEF Reopens
<1>5. CASE ~same
  <2>1. /\ onset \in Nat /\ onset <= s.ts
        /\ onset = s.ts \/ (onset = s.begun /\ s.seq # None /\ m.seq # None /\ s.seq > m.seq)
    BY StartFound DEF Runs
  <2> HIDE DEF onset, same
  <2>2. f = [machine |-> Machine!Opened(m, s, onset), close |-> None, reopen |-> FALSE, amend |-> None]
    BY <1>1, <1>5 DEF Machine!Step
  <2>3. f.machine.job = Machine!Absorb(Machine!Job(s, onset), s) /\ f.machine.closed = None /\ f.machine.drop = None /\ f.machine.seq = m.seq /\ IsMachine(f.machine)
    <3>1. f.machine = [m EXCEPT !.job = Machine!Absorb(Machine!Job(s, onset), s), !.closed = None, !.drop = None]
      BY <2>2 DEF Machine!Opened
    <3>2. m \in Machine!MachineStates
      BY <1>2
    <3>a. f.machine.job = Machine!Absorb(Machine!Job(s, onset), s) /\ f.machine.closed = None /\ f.machine.drop = None /\ f.machine.seq = m.seq
      BY <3>1, <3>2 DEF Machine!MachineStates
    <3>b. IsMachine(f.machine)
      BY <3>1, <3>2 DEF Machine!MachineStates, IsMachine
    <3> QED
      BY <3>a, <3>b
  <2>4. IsStep(f)
    BY <2>2, <2>3 DEF IsStep
  <2>5. Machine!Written(rs, f) = rs
    <3>1. f.reopen = FALSE /\ f.amend = None /\ f.close = None
      BY <2>2
    <3> QED
      BY <3>1, RowsLeft
  <2> QED
    BY <2>1, <2>3, <2>4, <2>5 DEF Opens
<1> QED
  BY <1>4, <1>5

\* What feed does of a finished or a failed print.
LEMMA FeedsAnEnd ==
  ASSUME MachineConstants, NEW m, NEW s \in JobSamples, s.state \in Machine!Idle, MachineKnown(m, s.ts), NEW rs,
         NEW f, f = Machine!Terminal(m, s)
  PROVE  /\ IsStep(f) /\ f.machine.seq = m.seq
         /\ \/ \E res \in Machine!Results, end \in Nat : EndsAt(m, s, f.machine, rs, Machine!Written(rs, f), res, end)
            \/ \E res \in Machine!Results : Amends(m, s, f.machine, rs, Machine!Written(rs, f), res)
            \/ Rests(m, s, f.machine, rs, Machine!Written(rs, f))
<1> DEFINE e == Machine!TerminalEnd(m.job, s)
           c == m.closed
           better == CASE s.state = "finished" -> "finished" [] s.state = "cancelled" -> "cancelled"
                       [] s.state = "error" /\ s.code # None -> "failed" [] OTHER -> None
           amends == Machine!AliveAt(c, s.ts) /\ s.ts - c.at <= Lost /\ c.base = "stopped" /\ better # None
           now1 == IF better \in Machine!Reopenable THEN [c EXCEPT !.base = better] ELSE None
           kept == IF Machine!AliveAt(c, s.ts) THEN c ELSE None
<1>1. /\ m.job # None => f = [Machine!Step([m EXCEPT !.job = None, !.drop = None, !.closed = Machine!Kept(m.job, e.result, s)])
                                EXCEPT !.close = Machine!Row(m.job, e.result, e.ended)]
      /\ m.job = None /\ amends => f = [Machine!Step([m EXCEPT !.closed = now1]) EXCEPT !.amend = Machine!Result(c.job, better)]
      /\ m.job = None /\ ~amends => f = Machine!Step([m EXCEPT !.closed = kept])
  BY DEF Machine!Terminal
<1>2. m \in Machine!MachineStates
  BY DEF MachineKnown
<1>4. CASE m.job # None
  <2>1. JobSound(m.job) /\ m.job.le \in Nat /\ m.job.seen <= s.ts
    BY <1>4 DEF MachineKnown, Known
  <2>2. e.result \in Machine!Results /\ e.ended \in Nat /\ m.job.seen <= e.ended /\ e.ended <= s.ts
    BY <2>1, TerminalEnds
  <2> DEFINE r == Machine!Row(m.job, e.result, e.ended)
             k == Machine!Kept(m.job, e.result, s)
  <2> HIDE DEF e
  <2>3. r \in Machine!JobRows
    BY <2>1, <2>2, RowSound
  <2>4. f = [Machine!Step([m EXCEPT !.job = None, !.drop = None, !.closed = k]) EXCEPT !.close = r]
    BY <1>1, <1>4
  <2> HIDE DEF r, k
  <2>5. f = [machine |-> [m EXCEPT !.job = None, !.drop = None, !.closed = k], close |-> r, reopen |-> FALSE, amend |-> None]
    BY <2>4 DEF Machine!Step
  <2>6. f.machine.job = None /\ f.machine.closed = k /\ f.machine.drop = None /\ f.machine.seq = m.seq /\ IsMachine(f.machine)
    <3>1. f.machine = [m EXCEPT !.job = None, !.drop = None, !.closed = k]
      BY <2>5
    <3>2. m \in Machine!MachineStates
      BY <1>2
    <3>a. f.machine.job = None /\ f.machine.closed = k /\ f.machine.drop = None /\ f.machine.seq = m.seq
      BY <3>1, <3>2 DEF Machine!MachineStates
    <3>b. IsMachine(f.machine)
      BY <3>1, <3>2 DEF Machine!MachineStates, IsMachine
    <3> QED
      BY <3>a, <3>b
  <2>7. IsStep(f)
    BY <2>5, <2>6 DEF IsStep
  <2>8. f.reopen = FALSE /\ f.amend = None /\ f.close = r /\ r # None
    BY <2>3, <2>5 DEF MachineConstants
  <2>9. Machine!Written(rs, f) = Append(rs, r)
    BY <2>8, RowsAdded
  <2>10. EndsAt(m, s, f.machine, rs, Machine!Written(rs, f), e.result, e.ended)
    BY <1>4, <2>2, <2>6, <2>9 DEF EndsAt, r, k
  <2> QED
    BY <2>2, <2>6, <2>7, <2>10
<1>5. CASE m.job = None /\ amends
  <2>1. m.closed # None /\ m.drop = None
    BY <1>5 DEF Machine!AliveAt, MachineKnown
  <2>2. better \in {"finished", "cancelled", "failed"}
    <3>1. better # None
      BY <1>5
    <3>2. better \in {"finished", "cancelled", "failed", None}
      <4>1. CASE s.state = "finished"
        BY <4>1
      <4>2. CASE s.state = "cancelled"
        BY <4>2
      <4>3. CASE s.state = "error"
        BY <4>3
      <4>4. CASE s.state = "idle"
        BY <4>4
      <4> QED
        BY <4>1, <4>2, <4>3, <4>4 DEF Machine!Idle
    <3> QED
      BY <3>1, <3>2
  <2> HIDE DEF better, amends
  <2> DEFINE res == Machine!Result(c.job, better)
  <2>3. res \in Machine!Results
    BY <2>2 DEF Machine!Result, Machine!Results
  <2>4. now1 = None \/ \E base \in Machine!Reopenable : now1 = [m.closed EXCEPT !.base = base]
    OBVIOUS
  <2>5. f = [Machine!Step([m EXCEPT !.closed = now1]) EXCEPT !.amend = res]
    BY <1>1, <1>5
  <2> HIDE DEF now1, res
  <2>6. f = [machine |-> [m EXCEPT !.closed = now1], close |-> None, reopen |-> FALSE, amend |-> res]
    BY <2>5 DEF Machine!Step
  <2>7. f.machine.job = None /\ f.machine.closed = now1 /\ f.machine.drop = None /\ f.machine.seq = m.seq /\ IsMachine(f.machine)
    <3>a. f.machine.job = None /\ f.machine.closed = now1 /\ f.machine.drop = None /\ f.machine.seq = m.seq
      BY <1>2, <1>5, <2>1, <2>6 DEF Machine!MachineStates
    <3>b. IsMachine(f.machine)
      BY <1>2, <1>5, <2>1, <2>6 DEF Machine!MachineStates, IsMachine
    <3> QED
      BY <3>a, <3>b
  <2>8. IsStep(f)
    BY <2>6, <2>7 DEF IsStep
  <2>9. f.reopen = FALSE /\ f.amend = res /\ res # None /\ f.close = None
    BY <2>3, <2>6 DEF MachineConstants
  <2>10. Machine!Written(rs, f) = [rs EXCEPT ![Len(rs)].result = res]
    BY <2>9, RowAmended
  <2>11. Amends(m, s, f.machine, rs, Machine!Written(rs, f), res)
    BY <1>5, <2>1, <2>4, <2>7, <2>10 DEF Amends
  <2> QED
    BY <2>3, <2>7, <2>8, <2>11
<1>6. CASE m.job = None /\ ~amends
  <2>1. m.drop = None
    BY <1>6 DEF MachineKnown
  <2>2. kept \in {None, m.closed}
    OBVIOUS
  <2>3. f = Machine!Step([m EXCEPT !.closed = kept])
    BY <1>1, <1>6
  <2> HIDE DEF kept, amends
  <2>4. f = [machine |-> [m EXCEPT !.closed = kept], close |-> None, reopen |-> FALSE, amend |-> None]
    BY <2>3 DEF Machine!Step
  <2>5. f.machine.job = None /\ f.machine.closed = kept /\ f.machine.drop = None /\ f.machine.seq = m.seq /\ IsMachine(f.machine)
    <3>a. f.machine.job = None /\ f.machine.closed = kept /\ f.machine.drop = None /\ f.machine.seq = m.seq
      BY <1>2, <1>6, <2>1, <2>4 DEF Machine!MachineStates
    <3>b. IsMachine(f.machine)
      BY <1>2, <1>6, <2>1, <2>4 DEF Machine!MachineStates, IsMachine
    <3> QED
      BY <3>a, <3>b
  <2>6. IsStep(f)
    BY <2>4, <2>5 DEF IsStep
  <2>7. Machine!Written(rs, f) = rs
    <3>1. f.reopen = FALSE /\ f.amend = None /\ f.close = None
      BY <2>4
    <3> QED
      BY <3>1, RowsLeft
  <2>8. Rests(m, s, f.machine, rs, Machine!Written(rs, f))
    BY <1>6, <2>2, <2>5, <2>7 DEF Rests
  <2> QED
    BY <2>5, <2>6, <2>8
<1> QED
  BY <1>4, <1>5, <1>6

\* The rows of a printer, each within its time, follow each other.
RowFits(r, t) == /\ r \in Machine!JobRows /\ r.started <= r.ended /\ r.ended <= t
                 /\ r.paused + r.offline <= r.ended - r.started
RowsFit(rs, t) ==
  /\ rs \in Seq(Machine!JobRows)
  /\ \A i \in DOMAIN rs : RowFits(rs[i], t)
  /\ \A i, k \in DOMAIN rs : i < k => rs[i].ended <= rs[k].started
FollowsOn(j, rs, n) == \A i \in 1..n : rs[i].ended <= j.started
JobFits(m, rs, t) ==
  /\ MachineKnown(m, t) /\ RowsFit(rs, t)
  /\ m.job # None => FollowsOn(m.job, rs, Len(rs))
  /\ m.closed # None => rs # <<>> /\ FollowsOn(m.closed.job, rs, Len(rs) - 1)

\* What a feed does to the rows: one more, one less, or the last one's result.
Longer(ns, rs) == ns # <<>> /\ Len(ns) = Len(rs) + 1 /\ \A i \in 1..Len(rs) : ns[i] = rs[i]
Shorter(ns, rs) == Len(ns) = Len(rs) - 1 /\ \A i \in 1..(Len(rs) - 1) : ns[i] = rs[i]
Amended(ns, rs) == /\ Len(ns) = Len(rs) /\ ns # <<>>
                   /\ \A i \in 1..Len(rs) : ns[i].ended = rs[i].ended /\ ns[i].prints = rs[i].prints

\* The rows stay in order when one is appended that starts after the last,
LEMMA RowAppended ==
  ASSUME NEW rs, NEW t, RowsFit(rs, t), NEW r, RowFits(r, t), FollowsOn(r, rs, Len(rs))
  PROVE  RowsFit(Append(rs, r), t) /\ Longer(Append(rs, r), rs)
<1> DEFINE ns == Append(rs, r)
<1>1. rs \in Seq(Machine!JobRows) /\ r \in Machine!JobRows
  BY DEF RowsFit, RowFits
<1>2. /\ ns \in Seq(Machine!JobRows) /\ Len(rs) \in Nat /\ Len(ns) = Len(rs) + 1 /\ DOMAIN rs = 1..Len(rs)
      /\ DOMAIN ns = 1..(Len(rs) + 1)
      /\ ns[Len(rs) + 1] = r /\ \A i \in 1..Len(rs) : ns[i] = rs[i]
  BY <1>1
<1> HIDE DEF ns
<1>3. \A i \in DOMAIN ns : RowFits(ns[i], t)
  BY <1>2 DEF RowsFit
<1>4. ASSUME NEW i \in DOMAIN ns, NEW k \in DOMAIN ns, i < k PROVE ns[i].ended <= ns[k].started
  <2>1. i \in 1..Len(rs) /\ (k \in 1..Len(rs) \/ k = Len(rs) + 1)
    BY <1>2, <1>4
  <2> QED
    BY <1>2, <1>4, <2>1 DEF RowsFit, FollowsOn
<1>5. ns # <<>>
  BY <1>2
<1>6. RowsFit(ns, t) /\ Longer(ns, rs)
  BY <1>2, <1>3, <1>4, <1>5 DEF RowsFit, Longer
<1> QED
  BY <1>6 DEF ns

\* when the last is taken back,
LEMMA RowCut ==
  ASSUME NEW rs, NEW t, RowsFit(rs, t), rs # <<>>
  PROVE  RowsFit(SubSeq(rs, 1, Len(rs) - 1), t) /\ Shorter(SubSeq(rs, 1, Len(rs) - 1), rs)
<1> DEFINE ns == SubSeq(rs, 1, Len(rs) - 1)
<1>1. rs \in Seq(Machine!JobRows)
  BY DEF RowsFit
<1>2. Len(rs) \in Nat /\ Len(rs) >= 1 /\ DOMAIN rs = 1..Len(rs)
  BY <1>1, EmptySeq
<1>3. /\ ns \in Seq(Machine!JobRows) /\ Len(ns) = Len(rs) - 1 /\ DOMAIN ns = 1..(Len(rs) - 1)
      /\ \A i \in 1..(Len(rs) - 1) : ns[i] = rs[i]
  <2>1. ns \in Seq(Machine!JobRows) /\ Len(ns) = Len(rs) - 1 /\ \A i \in 1..(Len(rs) - 1) : ns[i] = rs[i]
    BY <1>1, <1>2
  <2>2. DOMAIN ns = 1..Len(ns)
    BY <2>1
  <2> QED
    BY <2>1, <2>2
<1> HIDE DEF ns
<1>4. Shorter(ns, rs)
  BY <1>2, <1>3 DEF Shorter
<1>5. RowsFit(ns, t)
  <2>1. ASSUME NEW i \in DOMAIN ns PROVE ns[i] = rs[i] /\ i \in DOMAIN rs /\ RowFits(ns[i], t)
    <3>1. ns[i] = rs[i] /\ i \in DOMAIN rs
      BY <1>2, <1>3
    <3> QED
      BY <3>1 DEF RowsFit
  <2>2. ASSUME NEW i \in DOMAIN ns, NEW k \in DOMAIN ns, i < k PROVE ns[i].ended <= ns[k].started
    BY <2>1, <2>2 DEF RowsFit
  <2> QED
    BY <1>3, <2>1, <2>2 DEF RowsFit
<1> QED
  BY <1>4, <1>5 DEF ns

\* and when the last is changed within its time.
LEMMA RowChanged ==
  ASSUME NEW rs, NEW t, RowsFit(rs, t), rs # <<>>, NEW res \in Machine!Results,
         NEW ns, ns = [rs EXCEPT ![Len(rs)].result = res]
  PROVE  RowsFit(ns, t) /\ Amended(ns, rs)
<1>1. rs \in Seq(Machine!JobRows)
  BY DEF RowsFit
<1>2. Len(rs) \in Nat /\ Len(rs) >= 1 /\ DOMAIN rs = 1..Len(rs)
  BY <1>1, EmptySeq
<1> DEFINE r == [rs[Len(rs)] EXCEPT !.result = res]
<1>3. /\ rs[Len(rs)] \in Machine!JobRows /\ r \in Machine!JobRows
      /\ r.started = rs[Len(rs)].started /\ r.ended = rs[Len(rs)].ended /\ r.prints = rs[Len(rs)].prints
      /\ r.paused = rs[Len(rs)].paused /\ r.offline = rs[Len(rs)].offline
  <2>1. rs[Len(rs)] \in Machine!JobRows
    BY <1>1, <1>2
  <2> QED
    BY <2>1 DEF Machine!JobRows
<1>4. ns = [rs EXCEPT ![Len(rs)] = r]
  OBVIOUS
<1> HIDE DEF r
<1>5. /\ ns \in Seq(Machine!JobRows) /\ DOMAIN ns = 1..Len(rs) /\ Len(ns) = Len(rs)
      /\ \A i \in 1..Len(rs) : ns[i] = IF i = Len(rs) THEN r ELSE rs[i]
  BY <1>1, <1>2, <1>3, <1>4
<1>6. \A i \in 1..Len(rs) : /\ ns[i].started = rs[i].started /\ ns[i].ended = rs[i].ended /\ ns[i].prints = rs[i].prints
                            /\ ns[i].paused = rs[i].paused /\ ns[i].offline = rs[i].offline
  BY <1>3, <1>5
<1>7. \A i \in DOMAIN ns : RowFits(ns[i], t)
  <2> TAKE i \in DOMAIN ns
  <2>1. ns[i] \in Machine!JobRows /\ i \in DOMAIN rs
    BY <1>2, <1>5
  <2>2. RowFits(rs[i], t)
    BY <2>1 DEF RowsFit
  <2> QED
    BY <1>2, <1>6, <2>1, <2>2 DEF RowFits
<1>8. \A i, k \in DOMAIN ns : i < k => ns[i].ended <= ns[k].started
  BY <1>2, <1>5, <1>6 DEF RowsFit
<1>9. ns # <<>>
  BY <1>2, <1>5
<1> QED
  BY <1>5, <1>6, <1>7, <1>8, <1>9 DEF RowsFit, Amended

\* The seven shapes of a feed keep the machine and the rows in step.
LEMMA JobNamed == ASSUME MachineConstants, NEW j, JobSound(j)
  PROVE  j \in Machine!Jobs /\ j # None /\ j.started \in Nat /\ j.seen \in Nat /\ j.started <= j.seen
BY DEF JobSound, Machine!Jobs, MachineConstants

\* The rows end before the job's last sample and before now.
LEMMA RowsBefore ==
  ASSUME NEW rs, NEW t, RowsFit(rs, t), t \in Nat
  PROVE  \A i \in 1..Len(rs) : /\ i \in DOMAIN rs /\ rs[i].started \in Nat /\ rs[i].ended \in Nat
                               /\ rs[i].started <= rs[i].ended /\ rs[i].ended <= t
BY DEF RowsFit, RowFits, Machine!JobRows

\* A machine that keeps the types of its parts is one.
LEMMA MachineMade ==
  ASSUME NEW n, IsMachine(n), n.seq \in Machine!Time, n.job \in Machine!Jobs \cup {None},
         n.closed \in Machine!Closeds \cup {None}, n.drop \in Machine!Drops \cup {None}
  PROVE  n \in Machine!MachineStates
BY DEF IsMachine, Machine!MachineStates

\* Each kind of step leaves a job and rows that fit: the print goes on,
LEMMA ContinueFits ==
  ASSUME MachineConstants, NEW m, NEW s, Runs(s), NEW rs, JobFits(m, rs, s.ts),
         NEW n, IsMachine(n), n.seq \in Machine!Time, NEW ns, Continues(m, s, n, rs, ns)
  PROVE  JobFits(n, ns, s.ts)
<1>1. m.job # None /\ Known(m.job, s.ts) /\ m \in Machine!MachineStates /\ RowsFit(rs, s.ts) /\ FollowsOn(m.job, rs, Len(rs))
  BY DEF JobFits, MachineKnown, Continues
<1>2. JobSound(m.job) /\ m.job.seen <= s.ts /\ m.job.lp \in Nat /\ m.job.le \in Nat /\ s.ts \in Nat
  BY <1>1 DEF Known, Runs, JobSamples
<1>3. /\ JobSound(n.job) /\ n.job.started = m.job.started /\ n.job.seen = s.ts /\ n.job.lp \in Nat /\ n.job.le \in Nat
  <2>1. n.job = Machine!Absorb(m.job, s)
    BY DEF Continues
  <2> QED
    BY <1>2, <2>1, AbsorbSound
<1>4. Known(n.job, s.ts) /\ n.job # None /\ n.job \in Machine!Jobs
  BY <1>2, <1>3, JobNamed DEF Known
<1>5. /\ n.drop \in Machine!Drops \cup {None}
      /\ n.drop # None => /\ Known(n.drop.snap, n.drop.at) /\ n.drop.snap.started = n.job.started
                          /\ n.drop.at <= n.job.seen
  <2>1. CASE n.drop = None
    BY <2>1
  <2>2. CASE m.drop # None /\ m.drop.left # 1 /\ n.drop = [m.drop EXCEPT !.left = @ - 1]
    <3>1. m.drop \in Machine!Drops
      BY <1>1, <2>2 DEF Machine!MachineStates
    <3>2. n.drop \in Machine!Drops /\ n.drop.snap = m.drop.snap /\ n.drop.at = m.drop.at /\ m.drop.at \in Nat
      BY <2>2, <3>1 DEF Machine!Drops
    <3>3. Known(m.drop.snap, m.drop.at) /\ m.drop.snap.started = m.job.started /\ m.drop.at <= m.job.seen
      BY <2>2 DEF JobFits, MachineKnown
    <3>4. m.job.seen \in Nat
      BY <1>2, JobNamed
    <3> QED
      BY <1>2, <1>3, <3>2, <3>3, <3>4
  <2>3. CASE n.drop = [snap |-> m.job, at |-> s.ts, left |-> 2]
    <3>1. n.drop.snap = m.job /\ n.drop.at = s.ts /\ m.job \in Machine!Jobs
      BY <1>2, <2>3, JobNamed
    <3>2. n.drop \in Machine!Drops
      BY <1>2, <2>3, <3>1 DEF Machine!Drops
    <3> QED
      BY <1>1, <1>2, <1>3, <3>1, <3>2
  <2> QED
    BY <2>1, <2>2, <2>3 DEF Continues
<1>6. n.closed = None /\ ns = rs
  BY DEF Continues
<1>7. n \in Machine!MachineStates
  BY <1>4, <1>5, <1>6, MachineMade
<1>8. FollowsOn(n.job, ns, Len(ns))
  BY <1>1, <1>3, <1>6 DEF FollowsOn
<1> QED
  BY <1>1, <1>4, <1>5, <1>6, <1>7, <1>8 DEF JobFits, MachineKnown

\* A new job over rows that ended before it.
LEMMA OpenedFits ==
  ASSUME MachineConstants, NEW s, Runs(s), NEW rs, RowsFit(rs, s.ts), NEW onset \in Nat, onset <= s.ts,
         \A i \in 1..Len(rs) : rs[i].ended <= onset,
         NEW n, IsMachine(n), n.seq \in Machine!Time,
         n.job = Machine!Absorb(Machine!Job(s, onset), s), n.closed = None, n.drop = None
  PROVE  JobFits(n, rs, s.ts) /\ n.job.prints = {<<s.print, s.p>>} /\ n.job # None
<1> DEFINE j == Machine!Job(s, onset)
<1>1. JobSound(j) /\ j.started = onset /\ j.seen = onset /\ j.prints = {}
  BY FreshSound
<1> HIDE DEF j
<1>2. /\ JobSound(n.job) /\ n.job.started = j.started /\ n.job.seen = s.ts
      /\ n.job.lp \in Nat /\ n.job.le \in Nat /\ n.job.prints = j.prints \cup {<<s.print, s.p>>}
  <2>1. n.job = Machine!Absorb(j, s) /\ j.seen <= s.ts
    BY <1>1 DEF j
  <2> QED
    BY <1>1, <2>1, AbsorbSound
<1>3. n.job # None /\ n.job \in Machine!Jobs /\ s.ts \in Nat
  BY <1>2, JobNamed DEF Runs, JobSamples
<1>4. n \in Machine!MachineStates
  BY <1>3, MachineMade
<1>5. FollowsOn(n.job, rs, Len(rs))
  BY <1>1, <1>2 DEF FollowsOn
<1>6. Known(n.job, s.ts)
  BY <1>2, <1>3 DEF Known
<1> QED
  BY <1>1, <1>2, <1>3, <1>4, <1>5, <1>6 DEF JobFits, MachineKnown

\* A row written for a job that the rows follow.
LEMMA RowWritten ==
  ASSUME MachineConstants, NEW rs, NEW t \in Nat, RowsFit(rs, t), NEW j, JobSound(j), FollowsOn(j, rs, Len(rs)),
         NEW res \in Machine!Results, NEW end \in Nat, j.seen <= end, end <= t,
         NEW r, r = Machine!Row(j, res, end)
  PROVE  /\ RowsFit(Append(rs, r), t) /\ Longer(Append(rs, r), rs)
         /\ \A i \in 1..Len(Append(rs, r)) : Append(rs, r)[i].ended <= end
         /\ Append(rs, r)[Len(Append(rs, r))].prints = j.prints
<1>1. /\ r \in Machine!JobRows /\ r.started = j.started /\ r.ended = end /\ r.prints = j.prints
      /\ r.started <= r.ended /\ r.paused + r.offline <= r.ended - r.started
  BY RowSound
<1> DEFINE ns == Append(rs, r)
<1>3. RowFits(r, t) /\ FollowsOn(r, rs, Len(rs))
  BY <1>1 DEF RowFits, FollowsOn
<1>4. RowsFit(ns, t) /\ Longer(ns, rs)
  BY <1>3, RowAppended
<1>5. ns[Len(ns)] = r /\ Len(ns) = Len(rs) + 1 /\ Len(rs) \in Nat
  <2>1. rs \in Seq(Machine!JobRows)
    BY DEF RowsFit
  <2> QED
    BY <1>1, <2>1
<1> HIDE DEF ns
<1>6. j.started \in Nat /\ j.seen \in Nat /\ j.started <= j.seen
  BY JobNamed
<1>7. \A i \in 1..Len(ns) : ns[i].ended <= end
  <2> TAKE i \in 1..Len(ns)
  <2>1. CASE i = Len(ns)
    BY <1>1, <1>5, <2>1
  <2>2. CASE i \in 1..Len(rs)
    <3>1. ns[i] = rs[i] /\ rs[i].ended <= j.started /\ rs[i].ended \in Nat
      BY <1>4, <2>2, RowsBefore DEF FollowsOn, Longer
    <3> QED
      BY <1>6, <3>1
  <2> QED
    BY <1>5, <2>1, <2>2
<1>8. ns[Len(ns)].prints = j.prints
  BY <1>1, <1>5
<1> QED
  BY <1>4, <1>7, <1>8 DEF ns

\* The job or the one a drop was judged on.
LEMMA WholeKnown ==
  ASSUME MachineConstants, NEW m, NEW t \in Nat, NEW rs, JobFits(m, rs, t), m.job # None,
         NEW whole, whole = m.job \/ (m.drop # None /\ whole = m.drop.snap)
  PROVE  JobSound(whole) /\ FollowsOn(whole, rs, Len(rs))
<1>1. CASE whole = m.job
  BY <1>1 DEF JobFits, MachineKnown, Known
<1>2. CASE m.drop # None /\ whole = m.drop.snap
  <2>1. Known(m.drop.snap, m.drop.at) /\ m.drop.snap.started = m.job.started /\ FollowsOn(m.job, rs, Len(rs))
    BY <1>2 DEF JobFits, MachineKnown
  <2> QED
    BY <1>2, <2>1 DEF Known, FollowsOn
<1> QED
  BY <1>1, <1>2

SplitTells(s, n, ns, whole) ==
  ns[Len(ns)].prints = whole.prints /\ n.job # None /\ n.job.prints = {<<s.print, s.p>>}
\* a second print splits the job,
LEMMA SplitFits ==
  ASSUME MachineConstants, NEW m, NEW s, Runs(s), NEW rs, JobFits(m, rs, s.ts),
         NEW n, IsMachine(n), n.seq \in Machine!Time, NEW ns,
         NEW whole \in Machine!Jobs, NEW res \in Machine!Results, NEW end \in Nat, NEW onset \in Nat,
         Splits(m, s, n, rs, ns, whole, res, end, onset)
  PROVE  /\ JobFits(n, ns, s.ts) /\ Longer(ns, rs)
         /\ SplitTells(s, n, ns, whole)
<1>1. /\ m.job # None /\ (whole = m.job \/ (m.drop # None /\ whole = m.drop.snap))
      /\ whole.seen <= end /\ end <= onset /\ onset <= s.ts
      /\ n.job = Machine!Absorb(Machine!Job(s, onset), s) /\ n.closed = None /\ n.drop = None
      /\ ns = Append(rs, Machine!Row(whole, res, end))
  BY DEF Splits
<1>2. JobSound(whole) /\ FollowsOn(whole, rs, Len(rs)) /\ RowsFit(rs, s.ts) /\ s.ts \in Nat
  <2>1. s.ts \in Nat
    BY DEF Runs, JobSamples
  <2> QED
    BY <1>1, <2>1, WholeKnown DEF JobFits
<1>3. end <= s.ts
  BY <1>1, <1>2
<1>4. /\ RowsFit(ns, s.ts) /\ Longer(ns, rs)
      /\ \A i \in 1..Len(ns) : ns[i].ended <= end
      /\ ns[Len(ns)].prints = whole.prints
  <2>1. RowsFit(rs, s.ts) /\ JobSound(whole) /\ FollowsOn(whole, rs, Len(rs)) /\ s.ts \in Nat
    BY <1>2
  <2>2. whole.seen <= end /\ end <= s.ts
    BY <1>1, <1>3
  <2> DEFINE r == Machine!Row(whole, res, end)
  <2>3. ns = Append(rs, r)
    BY <1>1
  <2> HIDE DEF r
  <2>4. /\ RowsFit(Append(rs, r), s.ts) /\ Longer(Append(rs, r), rs)
        /\ \A i \in 1..Len(Append(rs, r)) : Append(rs, r)[i].ended <= end
        /\ Append(rs, r)[Len(Append(rs, r))].prints = whole.prints
    BY <2>1, <2>2, RowWritten DEF r
  <2> QED
    BY <2>3, <2>4, Zenon
<1>5. \A i \in 1..Len(ns) : ns[i].ended <= onset
  <2> TAKE i \in 1..Len(ns)
  <2>1. ns[i].ended <= end /\ ns[i].ended \in Nat
    BY <1>2, <1>4, RowsBefore
  <2> QED
    BY <1>1, <2>1
<1>6. JobFits(n, ns, s.ts) /\ n.job.prints = {<<s.print, s.p>>} /\ n.job # None
  <2>1. RowsFit(ns, s.ts) /\ onset <= s.ts
    BY <1>1, <1>4
  <2>2. n.job = Machine!Absorb(Machine!Job(s, onset), s) /\ n.closed = None /\ n.drop = None
    BY <1>1
  <2> QED
    BY <1>5, <2>1, <2>2, OpenedFits
<1> QED
  BY <1>4, <1>6 DEF SplitTells

\* a row closed too early is taken back,
LEMMA ReopenFits ==
  ASSUME MachineConstants, NEW m, NEW s, Runs(s), NEW rs, JobFits(m, rs, s.ts),
         NEW n, IsMachine(n), n.seq \in Machine!Time, NEW ns, Reopens(m, s, n, rs, ns)
  PROVE  /\ JobFits(n, ns, s.ts) /\ rs # <<>> /\ Shorter(ns, rs)
         /\ n.job # None /\ n.job.prints = m.closed.job.prints \cup {<<s.print, s.p>>}
<1>1. /\ m.closed # None /\ n.job = Machine!Absorb(m.closed.job, s) /\ n.closed = None /\ n.drop = None
      /\ ns = SubSeq(rs, 1, Len(rs) - 1)
  BY DEF Reopens
<1>2. Known(m.closed.job, s.ts) /\ rs # <<>> /\ FollowsOn(m.closed.job, rs, Len(rs) - 1) /\ RowsFit(rs, s.ts)
  BY <1>1 DEF JobFits, MachineKnown
<1>3. RowsFit(ns, s.ts) /\ Shorter(ns, rs)
  BY <1>1, <1>2, RowCut
<1>4. /\ JobSound(n.job) /\ n.job.started = m.closed.job.started /\ n.job.seen = s.ts
      /\ n.job.lp \in Nat /\ n.job.le \in Nat /\ n.job.prints = m.closed.job.prints \cup {<<s.print, s.p>>}
  <2>1. JobSound(m.closed.job) /\ m.closed.job.seen <= s.ts
    BY <1>2 DEF Known
  <2> QED
    BY <1>1, <2>1, AbsorbSound
<1>5. n.job # None /\ n.job \in Machine!Jobs /\ s.ts \in Nat
  BY <1>4, JobNamed DEF Runs, JobSamples
<1>6. n \in Machine!MachineStates
  BY <1>1, <1>5, MachineMade
<1>7. FollowsOn(n.job, ns, Len(ns))
  BY <1>2, <1>3, <1>4 DEF FollowsOn, Shorter
<1>8. Known(n.job, s.ts)
  BY <1>4, <1>5 DEF Known
<1> QED
  BY <1>1, <1>2, <1>3, <1>4, <1>5, <1>6, <1>7, <1>8 DEF JobFits, MachineKnown

\* the print ends,
LEMMA EndFits ==
  ASSUME MachineConstants, NEW m, NEW s \in JobSamples, NEW rs, JobFits(m, rs, s.ts),
         NEW n, IsMachine(n), n.seq \in Machine!Time, NEW ns,
         NEW res \in Machine!Results, NEW end \in Nat, EndsAt(m, s, n, rs, ns, res, end)
  PROVE  /\ JobFits(n, ns, s.ts) /\ Longer(ns, rs)
         /\ ns[Len(ns)].prints = m.job.prints /\ (n.closed # None => n.closed.job = m.job)
<1>1. /\ m.job # None /\ n.job = None /\ n.drop = None /\ n.closed = Machine!Kept(m.job, res, s)
      /\ m.job.seen <= end /\ end <= s.ts /\ ns = Append(rs, Machine!Row(m.job, res, end)) /\ s.ts \in Nat
  BY DEF EndsAt, JobSamples
<1>2. Known(m.job, s.ts) /\ JobSound(m.job) /\ FollowsOn(m.job, rs, Len(rs)) /\ RowsFit(rs, s.ts)
  BY <1>1 DEF JobFits, MachineKnown, Known
<1>3. /\ RowsFit(ns, s.ts) /\ Longer(ns, rs)
      /\ ns[Len(ns)].prints = m.job.prints
  <2>1. RowsFit(rs, s.ts) /\ JobSound(m.job) /\ FollowsOn(m.job, rs, Len(rs)) /\ s.ts \in Nat
    BY <1>1, <1>2
  <2>2. m.job.seen <= end /\ end <= s.ts
    BY <1>1
  <2> DEFINE r == Machine!Row(m.job, res, end)
  <2>3. ns = Append(rs, r)
    BY <1>1
  <2> HIDE DEF r
  <2>4. /\ RowsFit(Append(rs, r), s.ts) /\ Longer(Append(rs, r), rs)
        /\ Append(rs, r)[Len(Append(rs, r))].prints = m.job.prints
    BY <2>1, <2>2, RowWritten DEF r
  <2> QED
    BY <2>3, <2>4, Zenon
<1>4. n.closed \in Machine!Closeds \cup {None} /\ (n.closed # None => n.closed.job = m.job)
  <2>1. CASE res \notin Machine!Reopenable
    BY <1>1, <2>1 DEF Machine!Kept
  <2>2. CASE res \in Machine!Reopenable
    <3>1. n.closed = [job |-> m.job, at |-> s.ts, base |-> res, final |-> s.state = "error" /\ counted,
                      blank |-> s.state = "idle" /\ res \in {"stopped", "lost"} /\ m.job.lp > 5]
      BY <1>1, <2>2 DEF Machine!Kept
    <3>2. m.job \in Machine!Jobs
      BY <1>2, JobNamed
    <3>3. (s.state = "error" /\ counted) \in BOOLEAN
          /\ (s.state = "idle" /\ res \in {"stopped", "lost"} /\ m.job.lp > 5) \in BOOLEAN
      OBVIOUS
    <3> QED
      BY <1>1, <2>2, <3>1, <3>2, <3>3 DEF Machine!Closeds
  <2> QED
    BY <2>1, <2>2
<1>5. n \in Machine!MachineStates
  BY <1>1, <1>4, MachineMade
<1>6. FollowsOn(m.job, ns, Len(ns) - 1) /\ ns # <<>>
  <2>1. rs \in Seq(Machine!JobRows) /\ Len(rs) \in Nat
    BY <1>2 DEF RowsFit
  <2> QED
    BY <1>2, <1>3, <2>1 DEF FollowsOn, Longer
<1> QED
  BY <1>1, <1>2, <1>3, <1>4, <1>5, <1>6 DEF JobFits, MachineKnown

\* the last row is amended,
LEMMA AmendFits ==
  ASSUME MachineConstants, NEW m, NEW s \in JobSamples, NEW rs, JobFits(m, rs, s.ts),
         NEW n, IsMachine(n), n.seq \in Machine!Time, NEW ns, NEW res \in Machine!Results, Amends(m, s, n, rs, ns, res)
  PROVE  /\ JobFits(n, ns, s.ts) /\ Amended(ns, rs)
         /\ n.closed # None => m.closed # None /\ n.closed.job = m.closed.job
<1>1. /\ n.job = None /\ n.drop = None /\ m.closed # None
      /\ n.closed = None \/ \E base \in Machine!Reopenable : n.closed = [m.closed EXCEPT !.base = base]
      /\ ns = [rs EXCEPT ![Len(rs)].result = res]
  BY DEF Amends
<1>2. /\ Known(m.closed.job, s.ts) /\ rs # <<>> /\ FollowsOn(m.closed.job, rs, Len(rs) - 1) /\ RowsFit(rs, s.ts)
      /\ m \in Machine!MachineStates
  BY <1>1 DEF JobFits, MachineKnown
<1>3. RowsFit(ns, s.ts) /\ Amended(ns, rs)
  <2>1. RowsFit(rs, s.ts) /\ rs # <<>>
    BY <1>2
  <2>2. ns = [rs EXCEPT ![Len(rs)].result = res]
    BY <1>1
  <2> QED
    BY <2>1, <2>2, RowChanged
<1>4. n.closed \in Machine!Closeds \cup {None} /\ (n.closed # None => n.closed.job = m.closed.job)
  <2>1. m.closed \in Machine!Closeds
    BY <1>1, <1>2 DEF Machine!MachineStates
  <2>2. ASSUME NEW base \in Machine!Reopenable, n.closed = [m.closed EXCEPT !.base = base]
        PROVE  n.closed \in Machine!Closeds /\ n.closed.job = m.closed.job
    BY <2>1, <2>2 DEF Machine!Closeds
  <2> QED
    BY <1>1, <2>2
<1>5. n \in Machine!MachineStates
  BY <1>1, <1>4, MachineMade
<1>6. FollowsOn(m.closed.job, ns, Len(ns) - 1)
  <2>1. rs \in Seq(Machine!JobRows) /\ Len(rs) \in Nat
    BY <1>2 DEF RowsFit
  <2> QED
    BY <1>2, <1>3, <2>1 DEF FollowsOn, Amended
<1>7. ns # <<>>
  BY <1>3 DEF Amended
<1> QED
  BY <1>1, <1>2, <1>3, <1>4, <1>5, <1>6, <1>7 DEF JobFits, MachineKnown

\* or nothing is written.
LEMMA RestFits ==
  ASSUME MachineConstants, NEW m, NEW s \in JobSamples, NEW rs, JobFits(m, rs, s.ts),
         NEW n, IsMachine(n), n.seq \in Machine!Time, NEW ns, Rests(m, s, n, rs, ns)
  PROVE  JobFits(n, ns, s.ts)
<1>1. n.job = None /\ n.drop = None /\ n.closed \in {m.closed, None} /\ ns = rs /\ m \in Machine!MachineStates
  BY DEF Rests, JobFits, MachineKnown
<1>2. n \in Machine!MachineStates
  <2>1. n.closed \in Machine!Closeds \cup {None}
    BY <1>1 DEF Machine!MachineStates
  <2> QED
    BY <1>1, <2>1, MachineMade
<1> QED
  BY <1>1, <1>2 DEF JobFits, MachineKnown

\* What one feed does, one of seven things.
Feeds(m, s, n, rs, ns) ==
  \/ /\ Runs(s)
     /\ \/ Continues(m, s, n, rs, ns)
        \/ \E whole \in Machine!Jobs, res \in Machine!Results, end \in Nat, onset \in Nat :
             Splits(m, s, n, rs, ns, whole, res, end, onset)
        \/ Reopens(m, s, n, rs, ns)
        \/ \E onset \in Nat : Opens(m, s, n, rs, ns, onset)
  \/ /\ s.state \in Machine!Idle
     /\ \/ \E res \in Machine!Results, end \in Nat : EndsAt(m, s, n, rs, ns, res, end)
        \/ \E res \in Machine!Results : Amends(m, s, n, rs, ns, res)
        \/ Rests(m, s, n, rs, ns)

\* A sample of the same print is fed as itself.
LEMMA SameFeed ==
  ASSUME NEW m, NEW s, NEW n, NEW k, k.job = n.job, k.closed = n.closed, k.drop = n.drop, NEW rs, NEW ns,
         Feeds(m, s, n, rs, ns)
  PROVE  Feeds(m, s, k, rs, ns)
<1>1. CASE Runs(s) /\ Continues(m, s, n, rs, ns)
  BY <1>1 DEF Feeds, Continues
<1>2. CASE Runs(s) /\ \E whole \in Machine!Jobs, res \in Machine!Results, end \in Nat, onset \in Nat :
                        Splits(m, s, n, rs, ns, whole, res, end, onset)
  <2>1. PICK whole \in Machine!Jobs, res \in Machine!Results, end \in Nat, onset \in Nat :
               Splits(m, s, n, rs, ns, whole, res, end, onset)
    BY <1>2
  <2>2. Splits(m, s, k, rs, ns, whole, res, end, onset)
    BY <2>1 DEF Splits
  <2> QED
    BY <1>2, <2>2 DEF Feeds
<1>3. CASE Runs(s) /\ Reopens(m, s, n, rs, ns)
  BY <1>3 DEF Feeds, Reopens
<1>4. CASE Runs(s) /\ \E onset \in Nat : Opens(m, s, n, rs, ns, onset)
  BY <1>4 DEF Feeds, Opens
<1>5. CASE s.state \in Machine!Idle /\ \E res \in Machine!Results, end \in Nat : EndsAt(m, s, n, rs, ns, res, end)
  BY <1>5 DEF Feeds, EndsAt
<1>6. CASE s.state \in Machine!Idle /\ \E res \in Machine!Results : Amends(m, s, n, rs, ns, res)
  BY <1>6 DEF Feeds, Amends
<1>7. CASE s.state \in Machine!Idle /\ Rests(m, s, n, rs, ns)
  BY <1>7 DEF Feeds, Rests
<1> QED
  BY <1>1, <1>2, <1>3, <1>4, <1>5, <1>6, <1>7 DEF Feeds

\* Every sample feed takes is one of these steps.
LEMMA FeedTaken ==
  ASSUME MachineConstants, NEW m, NEW s \in JobSamples, s.state \in Machine!Active => Runs(s), MachineKnown(m, s.ts),
         NEW rs, NEW f, f = Machine!Fed(m, s)
  PROVE  /\ IsMachine(f.machine) /\ f.machine.seq = (IF s.seq # None THEN s.seq ELSE m.seq)
         /\ Feeds(m, s, f.machine, rs, Machine!Written(rs, f))
<1> DEFINE g == IF s.state \in Machine!Active
                THEN IF m.job # None THEN Machine!ActiveWithJob(m, s) ELSE Machine!ActiveWithoutJob(m, s)
                ELSE Machine!Terminal(m, s)
           x == IF s.seq # None THEN s.seq ELSE m.seq
<1>1. IsStep(g) /\ g.machine.seq = m.seq /\ Feeds(m, s, g.machine, rs, Machine!Written(rs, g))
  <2>1. CASE s.state \in Machine!Active /\ m.job # None
    <3>1. g = Machine!ActiveWithJob(m, s) /\ Runs(s)
      BY <2>1
    <3> HIDE DEF g
    <3>2. /\ IsStep(g) /\ g.machine.seq = m.seq
          /\ \/ Continues(m, s, g.machine, rs, Machine!Written(rs, g))
             \/ \E whole \in Machine!Jobs, res \in Machine!Results, end \in Nat, onset \in Nat :
                  Splits(m, s, g.machine, rs, Machine!Written(rs, g), whole, res, end, onset)
      BY <2>1, <3>1, FeedsAJob
    <3> QED
      BY <3>1, <3>2 DEF Feeds
  <2>2. CASE s.state \in Machine!Active /\ m.job = None
    <3>1. g = Machine!ActiveWithoutJob(m, s) /\ Runs(s)
      BY <2>2
    <3> HIDE DEF g
    <3>2. /\ IsStep(g) /\ g.machine.seq = m.seq
          /\ \/ Reopens(m, s, g.machine, rs, Machine!Written(rs, g))
             \/ \E onset \in Nat : Opens(m, s, g.machine, rs, Machine!Written(rs, g), onset)
      BY <2>2, <3>1, FeedsNoJob
    <3> QED
      BY <3>1, <3>2 DEF Feeds
  <2>3. CASE s.state \notin Machine!Active
    <3>1. g = Machine!Terminal(m, s) /\ s.state \in Machine!Idle
      BY <2>3 DEF JobSamples
    <3> HIDE DEF g
    <3>2. /\ IsStep(g) /\ g.machine.seq = m.seq
          /\ \/ \E res \in Machine!Results, end \in Nat : EndsAt(m, s, g.machine, rs, Machine!Written(rs, g), res, end)
             \/ \E res \in Machine!Results : Amends(m, s, g.machine, rs, Machine!Written(rs, g), res)
             \/ Rests(m, s, g.machine, rs, Machine!Written(rs, g))
      BY <3>1, FeedsAnEnd
    <3> QED
      BY <3>1, <3>2 DEF Feeds
  <2> QED
    BY <2>1, <2>2, <2>3
<1>2. f = [g EXCEPT !.machine.seq = IF s.seq # None THEN s.seq ELSE @]
  BY DEF Machine!Fed
<1> HIDE DEF g
<1>3. f = [g EXCEPT !.machine = [g.machine EXCEPT !.seq = x]]
  BY <1>1, <1>2
<1>4. /\ f.machine = [g.machine EXCEPT !.seq = x]
      /\ f.close = g.close /\ f.reopen = g.reopen /\ f.amend = g.amend
  <2>1. g = [machine |-> g.machine, close |-> g.close, reopen |-> g.reopen, amend |-> g.amend]
    BY <1>1 DEF IsStep
  <2> QED
    BY <1>3, <2>1
<1>5. /\ IsMachine(f.machine) /\ f.machine.seq = x
      /\ f.machine.job = g.machine.job /\ f.machine.closed = g.machine.closed /\ f.machine.drop = g.machine.drop
  <2>1. IsMachine(g.machine)
    BY <1>1 DEF IsStep
  <2> QED
    BY <1>4, <2>1 DEF IsMachine
<1>6. Machine!Written(rs, f) = Machine!Written(rs, g)
  BY <1>4 DEF Machine!Written, Machine!Closed
<1>7. Feeds(m, s, f.machine, rs, Machine!Written(rs, f))
  BY <1>1, <1>5, <1>6, SameFeed
<1> QED
  BY <1>5, <1>7

\* The printer told of a start that was not read yet: it lies after all that was seen.
JobHeard(m, rs, s) ==
  s.seq # None /\ m.seq # None /\ s.seq > m.seq =>
    /\ \A i \in 1..Len(rs) : rs[i].ended <= s.begun
    /\ m.job # None => m.job.seen <= s.begun

\* A sample fed leaves a job and rows that fit.
LEMMA FedFits ==
  ASSUME MachineConstants, NEW m, NEW s \in JobSamples, NEW rs, JobFits(m, rs, s.ts), JobHeard(m, rs, s),
         NEW n, IsMachine(n), n.seq \in Machine!Time, NEW ns, Feeds(m, s, n, rs, ns)
  PROVE  /\ JobFits(n, ns, s.ts) /\ Len(ns) <= Len(rs) + 1
         /\ m.job = None => Len(ns) <= Len(rs)
<1>1. rs \in Seq(Machine!JobRows) /\ Len(rs) \in Nat /\ s.ts \in Nat
  BY DEF JobFits, RowsFit, JobSamples
<1>2. CASE Runs(s) /\ Continues(m, s, n, rs, ns)
  <2>1. JobFits(n, ns, s.ts)
    BY <1>2, ContinueFits
  <2> QED
    BY <1>1, <1>2, <2>1 DEF Continues
<1>3. CASE Runs(s) /\ \E whole \in Machine!Jobs, res \in Machine!Results, end \in Nat, onset \in Nat :
                        Splits(m, s, n, rs, ns, whole, res, end, onset)
  <2>1. PICK whole \in Machine!Jobs, res \in Machine!Results, end \in Nat, onset \in Nat :
               Splits(m, s, n, rs, ns, whole, res, end, onset)
    BY <1>3
  <2>2. JobFits(n, ns, s.ts) /\ Longer(ns, rs)
    BY <1>3, <2>1, SplitFits
  <2>3. m.job # None
    BY <2>1 DEF Splits
  <2> QED
    BY <1>1, <2>2, <2>3 DEF Longer
<1>4. CASE Runs(s) /\ Reopens(m, s, n, rs, ns)
  <2>1. JobFits(n, ns, s.ts) /\ Shorter(ns, rs)
    BY <1>4, ReopenFits
  <2> QED
    BY <1>1, <2>1 DEF Shorter
<1>5. CASE Runs(s) /\ \E onset \in Nat : Opens(m, s, n, rs, ns, onset)
  <2>1. PICK onset \in Nat : Opens(m, s, n, rs, ns, onset)
    BY <1>5
  <2>2. /\ onset <= s.ts /\ n.job = Machine!Absorb(Machine!Job(s, onset), s) /\ n.closed = None /\ n.drop = None
        /\ ns = rs
        /\ onset = s.ts \/ (onset = s.begun /\ s.seq # None /\ m.seq # None /\ s.seq > m.seq)
    BY <2>1 DEF Opens
  <2>3. RowsFit(rs, s.ts)
    BY DEF JobFits
  <2>4. \A i \in 1..Len(rs) : rs[i].ended <= onset
    BY <1>1, <2>2, <2>3, RowsBefore DEF JobHeard
  <2>5. JobFits(n, rs, s.ts)
    BY <1>5, <2>2, <2>3, <2>4, OpenedFits
  <2> QED
    BY <1>1, <2>2, <2>5
<1>6. CASE s.state \in Machine!Idle /\ \E res \in Machine!Results, end \in Nat : EndsAt(m, s, n, rs, ns, res, end)
  <2>1. PICK res \in Machine!Results, end \in Nat : EndsAt(m, s, n, rs, ns, res, end)
    BY <1>6
  <2>2. JobFits(n, ns, s.ts) /\ Longer(ns, rs)
    BY <2>1, EndFits
  <2> QED
    BY <1>1, <2>1, <2>2 DEF Longer, EndsAt
<1>7. CASE s.state \in Machine!Idle /\ \E res \in Machine!Results : Amends(m, s, n, rs, ns, res)
  <2>1. PICK res \in Machine!Results : Amends(m, s, n, rs, ns, res)
    BY <1>7
  <2>2. JobFits(n, ns, s.ts) /\ Amended(ns, rs)
    BY <2>1, AmendFits
  <2> QED
    BY <1>1, <2>2 DEF Amended
<1>8. CASE s.state \in Machine!Idle /\ Rests(m, s, n, rs, ns)
  <2>1. JobFits(n, ns, s.ts)
    BY <1>8, RestFits
  <2> QED
    BY <1>1, <1>8, <2>1 DEF Rests
<1> QED
  BY <1>2, <1>3, <1>4, <1>5, <1>6, <1>7, <1>8 DEF Feeds

\* A machine emptied after a long silence holds no job.
LEMMA Emptied ==
  ASSUME NEW m \in Machine!MachineStates, NEW k, k = [m EXCEPT !.job = None, !.drop = None, !.closed = None]
  PROVE  IsMachine(k)
BY DEF Machine!MachineStates, IsMachine

\* expire: the print is closed as lost at its last sample.
LEMMA ExpireFits ==
  ASSUME MachineConstants, NEW m, NEW t \in Nat, NEW rs, JobFits(m, rs, t),
         NEW e, e = Machine!Expire(m, t), NEW ns, ns = Machine!Closed(rs, e)
  PROVE  /\ JobFits(e.machine, ns, t) /\ IsMachine(e.machine) /\ e.machine.seq = m.seq
         /\ (e.machine = m /\ ns = rs)
            \/ (/\ m.job # None /\ e.machine.job = None /\ e.machine.closed = None /\ e.machine.drop = None /\ Longer(ns, rs)
                /\ ns[Len(ns)].prints = m.job.prints
                /\ \A i \in 1..Len(ns) : ns[i].ended <= m.job.seen)
<1>1. m \in Machine!MachineStates /\ RowsFit(rs, t)
  BY DEF JobFits, MachineKnown
<1>2. CASE ~Machine!Expired(m, t)
  <2>1. e = [machine |-> m, close |-> None, reopen |-> FALSE, amend |-> None]
    BY <1>2 DEF Machine!Expire, Machine!Step
  <2>2. e.machine = m /\ ns = rs
    BY <2>1 DEF Machine!Closed
  <2>3. IsMachine(m)
    BY <1>1 DEF Machine!MachineStates, IsMachine
  <2> QED
    BY <2>2, <2>3
<1>3. CASE Machine!Expired(m, t)
  <2> DEFINE k == [m EXCEPT !.job = None, !.drop = None, !.closed = None]
             r == Machine!Row(m.job, "lost", m.job.seen)
  <2>1. m.job # None
    BY <1>3 DEF Machine!Expired
  <2>2. Known(m.job, t) /\ JobSound(m.job) /\ m.job.seen \in Nat /\ m.job.seen <= t /\ FollowsOn(m.job, rs, Len(rs))
    <3>1. Known(m.job, t) /\ JobSound(m.job) /\ m.job.seen <= t /\ FollowsOn(m.job, rs, Len(rs))
      BY <2>1 DEF JobFits, MachineKnown, Known
    <3> QED
      BY <3>1, JobNamed
  <2>3. e = [machine |-> k, close |-> r, reopen |-> FALSE, amend |-> None]
    BY <1>3 DEF Machine!Expire, Machine!Step
  <2>4. k.job = None /\ k.closed = None /\ k.drop = None /\ k.seq = m.seq
    BY <1>1 DEF Machine!MachineStates
  <2>5. IsMachine(k)
    BY <1>1, Emptied
  <2> HIDE DEF k, r
  <2>6. /\ RowsFit(Append(rs, r), t) /\ Longer(Append(rs, r), rs)
        /\ \A i \in 1..Len(Append(rs, r)) : Append(rs, r)[i].ended <= m.job.seen
        /\ Append(rs, r)[Len(Append(rs, r))].prints = m.job.prints
    <3>1. "lost" \in Machine!Results
      BY DEF Machine!Results
    <3> QED
      BY <1>1, <2>2, <3>1, RowWritten DEF r
  <2>7. e.machine = k /\ e.close = r
    BY <2>3
  <2>8. r # None
    <3>1. "lost" \in Machine!Results
      BY DEF Machine!Results
    <3>2. r \in Machine!JobRows
      BY <2>2, <3>1, RowSound DEF r
    <3> QED
      BY <3>2 DEF MachineConstants
  <2>9. ns = Append(rs, r)
    BY <2>7, <2>8 DEF Machine!Closed
  <2>10. k \in Machine!MachineStates
    <3>1. k.seq \in Machine!Time
      BY <1>1, <2>4 DEF Machine!MachineStates
    <3> QED
      BY <2>4, <2>5, <3>1, MachineMade
  <2>11. /\ RowsFit(ns, t) /\ Longer(ns, rs) /\ ns[Len(ns)].prints = m.job.prints
         /\ \A i \in 1..Len(ns) : ns[i].ended <= m.job.seen
    BY <2>6, <2>9, Zenon
  <2>12. JobFits(k, ns, t)
    BY <2>4, <2>10, <2>11 DEF JobFits, MachineKnown
  <2> QED
    BY <2>1, <2>4, <2>5, <2>7, <2>11, <2>12
<1> QED
  BY <1>2, <1>3

JobPrints == [number : 0..MaxPrints, run : 0..Length, doing : Machine!Active \cup Machine!Idle, code : Machine!Codes,
              echo : 0..Length \cup {None}]
JobRaw == [last : {"idle", "work"}, count : Nat, begun : 0..MaxPolls]

\* The starts the machine has not read yet lie after all it has seen.
JobStarts == machine.seq # None /\ raw.count > machine.seq =>
               /\ \A i \in 1..Len(rows) : rows[i].ended <= raw.begun
               /\ machine.job # None => machine.job.seen <= raw.begun
\* The printer goes on while its print is not done; without a counter none was read.
JobPrinter == /\ raw.begun <= now
              /\ print.doing \in Machine!Active => print.run < Length
              /\ ~counted => machine.seq = None
JobInv == Machine!TypeOK /\ JobFits(machine, rows, now) /\ JobStarts /\ JobPrinter

\* The types of the machine, of its rows and of the clock.
LEMMA JobTypes == ASSUME MachineConstants, Machine!TypeOK
  PROVE  /\ now \in Nat /\ now <= MaxPolls /\ trouble \in Nat /\ counted \in BOOLEAN /\ sight \in {"up", "down", "blank"}
         /\ print \in JobPrints /\ raw \in JobRaw /\ raw.count \in Nat /\ raw.begun \in Nat
         /\ print.number \in Nat /\ print.run \in Nat /\ print.run <= Length
<1>1. print \in JobPrints /\ raw \in JobRaw /\ now \in 0..MaxPolls /\ trouble \in 0..MaxTrouble
  BY DEF Machine!TypeOK, JobPrints, JobRaw
<1>2. counted \in BOOLEAN /\ sight \in {"up", "down", "blank"}
  BY DEF Machine!TypeOK
<1>3. /\ print.number \in 0..MaxPrints /\ print.run \in 0..Length
      /\ raw.count \in Nat /\ raw.begun \in 0..MaxPolls
  BY <1>1 DEF JobPrints, JobRaw
<1> QED
  BY <1>1, <1>2, <1>3 DEF MachineConstants

\* The progress a printer shows is a number.
LEMMA ProgressKnown == ASSUME MachineConstants, NEW e \in Nat, e < Length \/ e = Length PROVE Machine!Progress(e) \in Nat
<1>1. ((e * 100) \div Length) \in Nat
  BY DEF MachineConstants
<1> QED
  BY <1>1 DEF Machine!Progress

\* A sample of what the printer does.
LEMMA SampleKnown ==
  ASSUME MachineConstants, Machine!TypeOK, NEW blank \in BOOLEAN, NEW s, s = Machine!Sample(now, print, blank)
  PROVE  /\ s \in JobSamples /\ s.ts = now /\ s.begun = raw.begun /\ s.seq = (IF counted THEN raw.count ELSE None)
         /\ s.print = print.number
         /\ s.state = (IF blank THEN "idle" ELSE print.doing)
         /\ s.state \in Machine!Active => Runs(s) /\ s.p = Machine!Progress(print.run)
<1> DEFINE shows == ~blank /\ print.doing # "idle"
           p == IF shows THEN Machine!Progress(print.run) ELSE None
           eta == IF shows THEN IF print.echo = None THEN Length - print.run ELSE Length - print.echo ELSE None
           layer == IF shows THEN IF print.echo = None THEN 5 * print.run ELSE 5 * print.echo ELSE None
           name == IF shows THEN Machine!Name(print.number) ELSE None
           seq == IF counted THEN raw.count ELSE None
           code == IF blank THEN None ELSE print.code
           stated == IF blank THEN "idle" ELSE print.doing
<1>1. /\ now \in Nat /\ print \in JobPrints /\ raw.count \in Nat /\ raw.begun \in Nat
      /\ print.number \in Nat /\ print.run \in Nat /\ print.run <= Length
  BY JobTypes
<1>2. s = [ts |-> now, state |-> stated, print |-> print.number, code |-> code, p |-> p, eta |-> eta, layer |-> layer,
           name |-> name, seq |-> seq, begun |-> raw.begun]
  BY DEF Machine!Sample
<1>3. Machine!Progress(print.run) \in Nat
  BY <1>1, ProgressKnown DEF MachineConstants
<1>4. (print.echo \in Nat /\ print.echo <= Length) \/ print.echo = None
  BY <1>1 DEF JobPrints, MachineConstants
<1>5. /\ p \in Machine!Time /\ eta \in Machine!Time /\ layer \in Machine!Time
      /\ shows => p = Machine!Progress(print.run) /\ p \in Nat /\ eta \in Nat /\ layer \in Nat
  BY <1>1, <1>3, <1>4 DEF Machine!Time, MachineConstants
<1>6. /\ name \in {None, "own", "same"} /\ (shows => name \in {"own", "same"})
      /\ seq \in Machine!Time /\ code \in Machine!Codes /\ stated \in Machine!Active \cup Machine!Idle
  BY <1>1 DEF Machine!Name, Machine!Time, Machine!Codes, JobPrints, Machine!Idle
<1>7. stated \in Machine!Active => shows
  BY DEF Machine!Active
<1> HIDE DEF shows, p, eta, layer, name, seq, code, stated
<1>8. s \in JobSamples
  BY <1>1, <1>2, <1>5, <1>6 DEF JobSamples
<1>9. s.state \in Machine!Active => Runs(s) /\ s.p = Machine!Progress(print.run)
  BY <1>2, <1>5, <1>6, <1>7, <1>8 DEF Runs
<1>10. s.ts = now /\ s.begun = raw.begun /\ s.seq = seq /\ s.print = print.number /\ s.state = stated
  BY <1>2
<1> QED
  BY <1>8, <1>9, <1>10 DEF seq, stated

\* RawReport counts a start at the moment it is seen.
LEMMA StartNoted ==
  ASSUME MachineConstants, Machine!TypeOK, raw.begun <= now, NEW doing, NEW r, r = Machine!NoteJobStart(raw, doing, now)
  PROVE  /\ r \in JobRaw /\ r.begun <= now
         /\ r.last = (IF doing \in Machine!Idle THEN "idle" ELSE "work")
         /\ \/ r.count = raw.count /\ r.begun = raw.begun
            \/ r.count = raw.count + 1 /\ r.begun = now
<1>1. now \in Nat /\ now <= MaxPolls /\ raw \in JobRaw /\ raw.count \in Nat /\ raw.begun \in Nat
  BY JobTypes
<1> DEFINE does == IF doing \in Machine!Idle THEN "idle" ELSE "work"
<1>2. does \in {"idle", "work"}
  OBVIOUS
<1> HIDE DEF does
<1>3. CASE raw.last = "idle" /\ does = "work"
  <2>1. r = [last |-> does, count |-> raw.count + 1, begun |-> now]
    BY <1>3 DEF Machine!NoteJobStart, does
  <2>2. now \in 0..MaxPolls
    BY <1>1 DEF MachineConstants
  <2> QED
    BY <1>1, <1>2, <2>1, <2>2 DEF JobRaw, does
<1>4. CASE ~(raw.last = "idle" /\ does = "work")
  <2>1. r = [raw EXCEPT !.last = does]
    BY <1>4 DEF Machine!NoteJobStart, does
  <2> QED
    BY <1>1, <1>2, <2>1 DEF JobRaw, does
<1> QED
  BY <1>3, <1>4

\* What fits at a time fits at a later one.
LEMMA FitsLater ==
  ASSUME NEW m, NEW rs, NEW t \in Nat, JobFits(m, rs, t), MachineConstants PROVE JobFits(m, rs, t + 1)
<1>1. RowsFit(rs, t + 1)
  <2>1. \A i \in DOMAIN rs : RowFits(rs[i], t + 1)
    BY DEF JobFits, RowsFit, RowFits, Machine!JobRows
  <2> QED
    BY <2>1 DEF JobFits, RowsFit
<1>2. \A j : Known(j, t) => Known(j, t + 1)
  <2> TAKE j
  <2>1. ASSUME Known(j, t) PROVE j.seen \in Nat
    BY <2>1, JobNamed DEF Known
  <2> QED
    BY <2>1 DEF Known
<1>3. MachineKnown(m, t + 1)
  BY <1>2 DEF JobFits, MachineKnown
<1> QED
  BY <1>1, <1>3 DEF JobFits

\* The printer alone: only its own state and what RawReport has of it change.
PrinterMove(doing) ==
  /\ UNCHANGED <<now, counted, machine, rows>>
  /\ print' \in JobPrints /\ (print'.doing \in Machine!Active => print'.run < Length)
  /\ sight' \in {"up", "down", "blank"} /\ trouble' \in 0..MaxTrouble /\ unseen' \subseteq 0..MaxPrints
  /\ echoed' = echoed
  /\ raw' = raw \/ raw' = Machine!NoteJobStart(raw, doing, now)

\* A step of the printer leaves the invariant.
LEMMA PrinterSteps == ASSUME MachineConstants, JobInv, NEW doing, PrinterMove(doing) PROVE JobInv'
<1>0. /\ UNCHANGED <<now, counted, machine, rows>>
      /\ print' \in JobPrints /\ (print'.doing \in Machine!Active => print'.run < Length)
      /\ sight' \in {"up", "down", "blank"} /\ trouble' \in 0..MaxTrouble /\ unseen' \subseteq 0..MaxPrints
      /\ echoed' = echoed
      /\ raw' = raw \/ raw' = Machine!NoteJobStart(raw, doing, now)
  BY DEF PrinterMove
<1>1. Machine!TypeOK /\ raw.begun <= now /\ raw \in JobRaw /\ now \in Nat
  BY JobTypes DEF JobInv, JobPrinter
<1>2. /\ raw' \in JobRaw /\ raw'.begun <= now
      /\ \/ raw'.count = raw.count /\ raw'.begun = raw.begun
         \/ raw'.count = raw.count + 1 /\ raw'.begun = now
  BY <1>0, <1>1, StartNoted
<1>3. Machine!TypeOK'
  BY <1>0, <1>1, <1>2 DEF Machine!TypeOK, JobPrints, JobRaw
<1>4. JobFits(machine, rows, now)'
  BY <1>0 DEF JobInv
<1>5. JobStarts'
  <2>1. RowsFit(rows, now) /\ (machine.job # None => machine.job.seen <= now)
    BY DEF JobInv, JobFits, MachineKnown, Known
  <2>2. \A i \in 1..Len(rows) : rows[i].ended <= now
    BY <1>1, <2>1, RowsBefore
  <2> QED
    BY <1>0, <1>2, <2>1, <2>2 DEF JobInv, JobStarts
<1>6. JobPrinter'
  BY <1>0, <1>2 DEF JobInv, JobPrinter
<1> QED
  BY <1>3, <1>4, <1>5, <1>6 DEF JobInv

\* What the printer does by itself are such steps.
LEMMA PrinterMoves ==
  ASSUME MachineConstants, JobInv, NEW step,
         step = "begin" => \E late \in BOOLEAN : Machine!Begin(late),
         step = "pause" => \E code \in {None, "hms"} : Machine!Pause(code),
         step = "resume" => Machine!Resume,
         step = "stop" => \E how \in {"cancelled", "idle", "error"}, code \in {None, "err"} : Machine!Stop(how, code),
         step = "power" => Machine!PowerLoss,
         step = "lose" => Machine!Lose,
         step = "return" => Machine!Return,
         step \in {"begin", "pause", "resume", "stop", "power", "lose", "return"}
  PROVE  JobInv'
<1>1. /\ print \in JobPrints /\ sight \in {"up", "down", "blank"} /\ trouble \in 0..MaxTrouble
      /\ unseen \subseteq 0..MaxPrints /\ (print.doing \in Machine!Active => print.run < Length)
  BY DEF JobInv, Machine!TypeOK, JobPrints, JobPrinter
<1>2. trouble \in Nat /\ print.run \in 0..Length /\ print.number \in 0..MaxPrints
  BY <1>1 DEF JobPrints, MachineConstants
<1>3. ASSUME NEW late \in BOOLEAN, Machine!Begin(late) PROVE JobInv'
  <2>1. /\ print' = [number |-> print.number + 1, run |-> 0, doing |-> "printing", code |-> None,
                     echo |-> IF late THEN print.run ELSE None]
        /\ print.number < MaxPrints /\ UNCHANGED <<now, counted, machine, rows, echoed>> /\ UNCHANGED <<sight, trouble>>
        /\ unseen' = unseen \/ unseen' = unseen \cup {print'.number}
        /\ raw' = raw \/ raw' = Machine!NoteJobStart(raw, print'.doing, now)
    BY <1>3 DEF Machine!Begin, Machine!Quiet, Machine!Reported
  <2>2. print' \in JobPrints /\ print'.run < Length /\ print'.number \in 0..MaxPrints
    BY <1>2, <2>1 DEF JobPrints, Machine!Active, Machine!Codes, MachineConstants
  <2>3. unseen' \subseteq 0..MaxPrints
    BY <1>1, <2>1, <2>2
  <2>4. PrinterMove(print'.doing)
    BY <1>1, <2>1, <2>2, <2>3 DEF PrinterMove
  <2> QED
    BY <2>4, PrinterSteps
<1>4. ASSUME NEW code \in {None, "hms"}, Machine!Pause(code) PROVE JobInv'
  <2>1. /\ print' = [print EXCEPT !.doing = "paused", !.code = code] /\ print.doing = "printing"
        /\ UNCHANGED <<now, counted, machine, rows, echoed>> /\ UNCHANGED <<sight, unseen>>
        /\ trouble < MaxTrouble /\ trouble' = trouble + 1
        /\ raw' = raw \/ raw' = Machine!NoteJobStart(raw, print'.doing, now)
    BY <1>4 DEF Machine!Pause, Machine!Quiet, Machine!Reported, Machine!Mishap
  <2>2. print' \in JobPrints /\ print'.run < Length
    <3>1. /\ "paused" \in Machine!Active /\ "printing" \in Machine!Active
          /\ {"cancelled", "idle", "error"} \subseteq Machine!Idle /\ {None, "hms", "err", "power"} \subseteq Machine!Codes
      BY DEF Machine!Active, Machine!Idle, Machine!Codes
    <3>2. print \in JobPrints /\ print.run < Length
      BY <1>1, <2>1, <3>1
    <3> QED
      BY <2>1, <3>1, <3>2 DEF JobPrints
  <2>3. trouble' \in 0..MaxTrouble
    BY <1>2, <2>1 DEF MachineConstants
  <2>4. PrinterMove(print'.doing)
    BY <1>1, <2>1, <2>2, <2>3 DEF PrinterMove
  <2> QED
    BY <2>4, PrinterSteps
<1>5. ASSUME Machine!Resume PROVE JobInv'
  <2>1. /\ print' = [print EXCEPT !.doing = "printing", !.code = None] /\ print.doing = "paused"
        /\ UNCHANGED <<now, counted, machine, rows, echoed>> /\ UNCHANGED <<sight, unseen, trouble>>
        /\ raw' = raw \/ raw' = Machine!NoteJobStart(raw, print'.doing, now)
    BY <1>5 DEF Machine!Resume, Machine!Quiet, Machine!Reported
  <2>2. print' \in JobPrints /\ print'.run < Length
    <3>1. /\ "paused" \in Machine!Active /\ "printing" \in Machine!Active
          /\ {"cancelled", "idle", "error"} \subseteq Machine!Idle /\ {None, "hms", "err", "power"} \subseteq Machine!Codes
      BY DEF Machine!Active, Machine!Idle, Machine!Codes
    <3>2. print \in JobPrints /\ print.run < Length
      BY <1>1, <2>1, <3>1
    <3> QED
      BY <2>1, <3>1, <3>2 DEF JobPrints
  <2>4. PrinterMove(print'.doing)
    BY <1>1, <2>1, <2>2 DEF PrinterMove
  <2> QED
    BY <2>4, PrinterSteps
<1>6. ASSUME NEW how \in {"cancelled", "idle", "error"}, NEW code \in {None, "err"}, Machine!Stop(how, code) PROVE JobInv'
  <2>1. /\ print' = [print EXCEPT !.doing = how, !.code = code, !.echo = None] /\ print.doing \in Machine!Active
        /\ UNCHANGED <<now, counted, machine, rows, echoed>> /\ UNCHANGED <<sight, unseen>>
        /\ trouble < MaxTrouble /\ trouble' = trouble + 1
        /\ raw' = raw \/ raw' = Machine!NoteJobStart(raw, print'.doing, now)
    BY <1>6 DEF Machine!Stop, Machine!Quiet, Machine!Reported, Machine!Mishap
  <2>2. print' \in JobPrints /\ print'.run < Length
    <3>1. /\ "paused" \in Machine!Active /\ "printing" \in Machine!Active
          /\ {"cancelled", "idle", "error"} \subseteq Machine!Idle /\ {None, "hms", "err", "power"} \subseteq Machine!Codes
      BY DEF Machine!Active, Machine!Idle, Machine!Codes
    <3>2. print \in JobPrints /\ print.run < Length
      BY <1>1, <2>1, <3>1
    <3> QED
      BY <2>1, <3>1, <3>2 DEF JobPrints
  <2>3. trouble' \in 0..MaxTrouble
    BY <1>2, <2>1 DEF MachineConstants
  <2>4. PrinterMove(print'.doing)
    BY <1>1, <2>1, <2>2, <2>3 DEF PrinterMove
  <2> QED
    BY <2>4, PrinterSteps
<1>7. ASSUME Machine!PowerLoss PROVE JobInv'
  <2>1. /\ print' = [print EXCEPT !.doing = "paused", !.code = "power"] /\ print.doing = "printing"
        /\ UNCHANGED <<now, counted, machine, rows, echoed>> /\ UNCHANGED <<raw, unseen>> /\ sight' = "down"
        /\ trouble < MaxTrouble /\ trouble' = trouble + 1
    BY <1>7 DEF Machine!PowerLoss, Machine!Quiet, Machine!Mishap
  <2>2. print' \in JobPrints /\ print'.run < Length
    <3>1. /\ "paused" \in Machine!Active /\ "printing" \in Machine!Active
          /\ {"cancelled", "idle", "error"} \subseteq Machine!Idle /\ {None, "hms", "err", "power"} \subseteq Machine!Codes
      BY DEF Machine!Active, Machine!Idle, Machine!Codes
    <3>2. print \in JobPrints /\ print.run < Length
      BY <1>1, <2>1, <3>1
    <3> QED
      BY <2>1, <3>1, <3>2 DEF JobPrints
  <2>3. trouble' \in 0..MaxTrouble
    BY <1>2, <2>1 DEF MachineConstants
  <2>4. PrinterMove(print'.doing)
    BY <1>1, <2>1, <2>2, <2>3 DEF PrinterMove
  <2> QED
    BY <2>4, PrinterSteps
<1>8. ASSUME Machine!Lose PROVE JobInv'
  <2>1. /\ UNCHANGED <<now, counted, machine, rows, echoed>> /\ UNCHANGED <<print, raw, unseen>> /\ sight' \in {"down", "blank"}
        /\ trouble < MaxTrouble /\ trouble' = trouble + 1
    BY <1>8 DEF Machine!Lose, Machine!Quiet, Machine!Mishap
  <2>3. trouble' \in 0..MaxTrouble
    BY <1>2, <2>1 DEF MachineConstants
  <2>4. PrinterMove(print.doing)
    BY <1>1, <2>1, <2>3 DEF PrinterMove
  <2> QED
    BY <2>4, PrinterSteps
<1>9. ASSUME Machine!Return PROVE JobInv'
  <2>1. /\ UNCHANGED <<now, counted, machine, rows, echoed>> /\ UNCHANGED <<print, unseen, trouble>> /\ sight' = "up"
        /\ raw' = Machine!NoteJobStart(raw, print.doing, now)
    BY <1>9 DEF Machine!Return, Machine!Quiet
  <2>4. PrinterMove(print.doing)
    BY <1>1, <2>1 DEF PrinterMove
  <2> QED
    BY <2>4, PrinterSteps
<1> QED
  BY <1>3, <1>4, <1>5, <1>6, <1>7, <1>8, <1>9

\* The printer runs on for a poll.
LEMMA PrintRuns ==
  ASSUME MachineConstants, print \in JobPrints, print.doing \in Machine!Active => print.run < Length,
         NEW p, p = Machine!RunOn
  PROVE  /\ p \in JobPrints /\ p.number = print.number
         /\ p.doing \in Machine!Active => p.run < Length
<1>1. print.run \in 0..Length /\ print.run \in Nat
  BY DEF JobPrints, MachineConstants
<1>2. CASE print.doing # "printing"
  BY <1>2 DEF Machine!RunOn
<1>3. CASE print.doing = "printing"
  <2> DEFINE doing == IF print.run + 1 = Length THEN "finished" ELSE print.doing
  <2>1. p = [print EXCEPT !.run = print.run + 1, !.doing = doing, !.echo = None]
    BY <1>3 DEF Machine!RunOn
  <2>2. print.run + 1 \in 0..Length /\ doing \in Machine!Active \cup Machine!Idle
        /\ (doing \in Machine!Active => print.run + 1 < Length)
    BY <1>1, <1>3 DEF Machine!Active, Machine!Idle, MachineConstants
  <2> HIDE DEF doing
  <2> QED
    BY <2>1, <2>2 DEF JobPrints
<1> QED
  BY <1>2, <1>3

\* What a poll feeds and what comes of it.
LEMMA PollFeeds ==
  ASSUME MachineConstants, JobInv, Machine!Poll
  PROVE  /\ sight = "down" => raw' = raw
         /\ JobFits(machine, rows, now)' /\ JobStarts' /\ machine'.seq \in Machine!Time
         /\ ~counted => machine'.seq = machine.seq
         /\ Len(rows') <= Len(rows) + 1
<1> DEFINE s == Machine!Sample(now, print, sight = "blank")
           e == Machine!Expire(machine, now)
           rs == Machine!Closed(rows, e)
           f == Machine!Fed(e.machine, s)
<1>1. /\ now \in Nat /\ now' = now + 1 /\ Machine!TypeOK /\ raw.begun <= now /\ JobFits(machine, rows, now)
      /\ raw.count \in Nat /\ raw.begun \in Nat
  BY JobTypes DEF JobInv, JobPrinter, Machine!Poll
<1>2. /\ JobFits(e.machine, rs, now) /\ IsMachine(e.machine) /\ e.machine.seq = machine.seq
      /\ (e.machine = machine /\ rs = rows)
         \/ (/\ machine.job # None /\ e.machine.job = None /\ e.machine.closed = None /\ Longer(rs, rows)
             /\ \A i \in 1..Len(rs) : rs[i].ended <= machine.job.seen)
  BY <1>1, ExpireFits
<1>3. /\ s \in JobSamples /\ s.ts = now /\ s.begun = raw.begun /\ s.seq = (IF counted THEN raw.count ELSE None)
      /\ s.state \in Machine!Active => Runs(s)
  <2>1. (sight = "blank") \in BOOLEAN
    OBVIOUS
  <2> QED
    BY <1>1, <2>1, SampleKnown
<1>4. /\ machine' = IF sight = "down" THEN e.machine ELSE f.machine
      /\ rows' = Machine!Written(rs, IF sight = "down" THEN Machine!Step(e.machine) ELSE f)
      /\ sight = "down" => raw' = raw
      /\ sight # "down" => raw' = Machine!NoteJobStart(raw, print'.doing, now)
  <2>1. (IF sight = "down" THEN Machine!Step(e.machine) ELSE f).machine = IF sight = "down" THEN e.machine ELSE f.machine
    BY DEF Machine!Step
  <2> HIDE DEF s, e, rs, f
  <2>2. /\ machine' = (IF sight = "down" THEN Machine!Step(e.machine) ELSE f).machine
        /\ rows' = Machine!Written(rs, IF sight = "down" THEN Machine!Step(e.machine) ELSE f)
    BY DEF Machine!Poll, s, e, rs, f
  <2>3. raw' = IF sight = "down" THEN raw ELSE Machine!NoteJobStart(raw, print'.doing, now)
    BY DEF Machine!Poll, Machine!Reported
  <2> QED
    BY <2>1, <2>2, <2>3
<1> HIDE DEF s, e, rs, f
<1>5. /\ machine.seq \in Machine!Time /\ Len(rs) <= Len(rows) + 1 /\ Len(rows) \in Nat /\ Len(rs) \in Nat
      /\ e.machine # machine => Len(rs) = Len(rows) + 1 /\ e.machine.job = None
      /\ e.machine = machine => rs = rows
  <2>1. rows \in Seq(Machine!JobRows) /\ rs \in Seq(Machine!JobRows) /\ machine \in Machine!MachineStates
    BY <1>1, <1>2 DEF JobFits, RowsFit, MachineKnown
  <2>2. machine.seq \in Machine!Time
    BY <2>1 DEF Machine!MachineStates
  <2> QED
    BY <1>2, <2>1, <2>2 DEF Longer
<1>6. machine.seq # None /\ raw.count > machine.seq =>
        /\ \A i \in 1..Len(rs) : rs[i].ended <= raw.begun
        /\ e.machine.job # None => e.machine.job.seen <= raw.begun
  <2> SUFFICES ASSUME machine.seq # None, raw.count > machine.seq
               PROVE  /\ \A i \in 1..Len(rs) : rs[i].ended <= raw.begun
                      /\ e.machine.job # None => e.machine.job.seen <= raw.begun
    OBVIOUS
  <2>1. /\ \A i \in 1..Len(rows) : rows[i].ended <= raw.begun
        /\ machine.job # None => machine.job.seen <= raw.begun
    BY DEF JobInv, JobStarts
  <2>2. CASE e.machine = machine /\ rs = rows
    BY <2>1, <2>2
  <2>3. CASE ~(e.machine = machine /\ rs = rows)
    <3>1. machine.job # None /\ e.machine.job = None /\ \A i \in 1..Len(rs) : rs[i].ended <= machine.job.seen
      BY <1>2, <2>3
    <3>2. machine.job.seen <= raw.begun /\ machine.job.seen \in Nat
      <4>1. Known(machine.job, now)
        BY <1>1, <3>1 DEF JobFits, MachineKnown
      <4> QED
        BY <2>1, <3>1, <4>1, JobNamed DEF Known
    <3>3. \A i \in 1..Len(rs) : rs[i].ended \in Nat
      BY <1>1, <1>2, RowsBefore DEF JobFits
    <3> QED
      BY <1>1, <3>1, <3>2, <3>3
  <2> QED
    BY <2>2, <2>3
<1>7. CASE sight = "down"
  <2>1. machine' = e.machine /\ rows' = rs /\ raw' = raw
    <3>1. rows' = Machine!Written(rs, Machine!Step(e.machine))
      BY <1>4, <1>7
    <3> QED
      BY <1>4, <1>7, <3>1 DEF Machine!Written, Machine!Closed, Machine!Step
  <2>2. JobFits(machine, rows, now)'
    BY <1>1, <1>2, <2>1, FitsLater
  <2>3. JobStarts'
    BY <1>2, <1>6, <2>1 DEF JobStarts
  <2> QED
    BY <1>2, <1>5, <2>1, <2>2, <2>3
<1>8. CASE sight # "down"
  <2>1. machine' = f.machine /\ rows' = Machine!Written(rs, f) /\ raw' = Machine!NoteJobStart(raw, print'.doing, now)
    BY <1>4, <1>8
  <2>2. MachineKnown(e.machine, s.ts) /\ JobFits(e.machine, rs, s.ts)
    BY <1>2, <1>3 DEF JobFits
  <2>3. /\ IsMachine(machine') /\ machine'.seq = (IF s.seq # None THEN s.seq ELSE e.machine.seq)
        /\ Feeds(e.machine, s, machine', rs, rows')
    <3>1. f = Machine!Fed(e.machine, s)
      BY DEF f
    <3> QED
      BY <1>3, <2>1, <2>2, <3>1, FeedTaken
  <2>4. machine'.seq \in Machine!Time /\ machine'.seq = (IF counted THEN raw.count ELSE machine.seq)
    BY <1>1, <1>2, <1>3, <1>5, <2>3 DEF Machine!Time, MachineConstants
  <2>5. JobHeard(e.machine, rs, s)
    BY <1>2, <1>3, <1>6 DEF JobHeard, MachineConstants
  <2>6. JobFits(machine', rows', now) /\ Len(rows') <= Len(rs) + 1 /\ (e.machine.job = None => Len(rows') <= Len(rs))
    <3>1. /\ JobFits(machine', rows', s.ts) /\ Len(rows') <= Len(rs) + 1
          /\ (e.machine.job = None => Len(rows') <= Len(rs))
      BY <1>3, <2>2, <2>3, <2>4, <2>5, FedFits
    <3> QED
      BY <1>3, <3>1
  <2>7. JobFits(machine, rows, now)'
    BY <1>1, <2>6, FitsLater
  <2>8. JobStarts'
    <3>1. \/ raw'.count = raw.count
          \/ raw'.count = raw.count + 1 /\ raw'.begun = now
      BY <1>1, <2>1, StartNoted
    <3>2. \A i \in 1..Len(rows') : rows'[i].ended <= now
      BY <1>1, <2>6, RowsBefore DEF JobFits
    <3>3. machine'.job # None => machine'.job.seen <= now
      BY <2>6 DEF JobFits, MachineKnown, Known
    <3>4. ~counted => machine'.seq = None
      BY <2>4 DEF JobInv, JobPrinter
    <3> QED
      BY <1>1, <2>4, <3>1, <3>2, <3>3, <3>4 DEF JobStarts
  <2>9. Len(rows') <= Len(rows) + 1
    <3>1. rows' \in Seq(Machine!JobRows)
      BY <2>6 DEF JobFits, RowsFit
    <3> QED
      BY <1>5, <2>6, <3>1
  <2> QED
    BY <1>8, <2>4, <2>7, <2>8, <2>9
<1> QED
  BY <1>7, <1>8

\* A poll leaves the times of the job and of its rows.
LEMMA PollTimes ==
  ASSUME MachineConstants, JobInv, Machine!Poll
  PROVE  JobInv'
<1>1. /\ Machine!TypeOK /\ now \in Nat /\ now < MaxPolls /\ now' = now + 1 /\ UNCHANGED <<counted, sight, trouble>>
      /\ print' = Machine!RunOn /\ unseen' \in {unseen, unseen \cup {print.number}} /\ print \in JobPrints
      /\ echoed' \in {echoed, echoed \cup {print.number}}
      /\ print.number \in 0..MaxPrints /\ raw.begun <= now
  BY JobTypes DEF JobInv, JobPrinter, Machine!Poll, Machine!TypeOK, JobPrints
<1>2. /\ JobFits(machine, rows, now)' /\ JobStarts' /\ (~counted => machine'.seq = machine.seq)
      /\ Len(rows') <= Len(rows) + 1
  BY PollFeeds
<1>3. print' \in JobPrints /\ (print'.doing \in Machine!Active => print'.run < Length)
  BY <1>1, PrintRuns DEF JobInv, JobPrinter
<1>4. raw' \in JobRaw /\ raw'.begun <= now
  <2>1. raw \in JobRaw /\ (raw' = raw \/ raw' = Machine!NoteJobStart(raw, print'.doing, now))
    BY <1>1, JobTypes DEF Machine!Poll, Machine!Reported
  <2> QED
    BY <1>1, <2>1, StartNoted
<1>5. /\ machine' \in Machine!MachineStates /\ rows' \in Seq(Machine!JobRows)
      /\ machine'.job # None => machine'.closed = None
      /\ machine'.job = None => machine'.drop = None
  BY <1>2 DEF JobFits, MachineKnown, RowsFit
<1>6. Len(rows') <= now' /\ now' \in 0..MaxPolls
  <2>1. Len(rows) <= now /\ rows \in Seq(Machine!JobRows)
    BY <1>1 DEF Machine!TypeOK
  <2> QED
    BY <1>1, <1>2, <1>5, <2>1 DEF MachineConstants
<1>7. Machine!TypeOK'
  <2>1. unseen' \subseteq 0..MaxPrints /\ echoed' \subseteq 0..MaxPrints
    BY <1>1 DEF Machine!TypeOK
  <2> QED
    BY <1>1, <1>3, <1>4, <1>5, <1>6, <2>1 DEF Machine!TypeOK, JobPrints, JobRaw
<1>8. JobPrinter'
  <2>1. raw'.begun \in Nat
    BY <1>4 DEF JobRaw, MachineConstants
  <2> QED
    BY <1>1, <1>2, <1>3, <1>4, <2>1 DEF JobInv, JobPrinter
<1> QED
  BY <1>2, <1>7, <1>8 DEF JobInv

\* The invariant holds at first,
LEMMA JobStartsOff == ASSUME MachineConstants, Machine!Init PROVE JobInv
<1>1. rows = <<>> /\ Len(rows) = 0 /\ rows \in Seq(Machine!JobRows) /\ DOMAIN rows = {}
  BY DEF Machine!Init
<1>2. machine \in Machine!MachineStates /\ machine.job = None /\ machine.closed = None /\ machine.drop = None /\ machine.seq = None
  BY DEF Machine!Init, Machine!MachineStates, Machine!Time
<1>3. Machine!TypeOK
  BY <1>1, <1>2 DEF Machine!Init, Machine!TypeOK, Machine!Active, Machine!Idle, Machine!Codes, MachineConstants
<1>4. JobFits(machine, rows, now)
  BY <1>1, <1>2 DEF JobFits, MachineKnown, RowsFit
<1>5. JobStarts /\ JobPrinter
  BY <1>2 DEF JobStarts, JobPrinter, Machine!Init, Machine!Active
<1> QED
  BY <1>3, <1>4, <1>5 DEF JobInv

\* and every step leaves it.
LEMMA JobSteps == ASSUME MachineConstants, JobInv, [Machine!Next]_(Machine!vars) PROVE JobInv'
<1>1. CASE Machine!Poll
  BY <1>1, PollTimes
<1>2. CASE \E late \in BOOLEAN : Machine!Begin(late)
  BY <1>2, PrinterMoves
<1>3. CASE \E code \in {None, "hms"} : Machine!Pause(code)
  BY <1>3, PrinterMoves
<1>4. CASE Machine!Resume
  BY <1>4, PrinterMoves
<1>5. CASE \E how \in {"cancelled", "idle", "error"}, code \in {None, "err"} : Machine!Stop(how, code)
  BY <1>5, PrinterMoves
<1>6. CASE Machine!PowerLoss
  BY <1>6, PrinterMoves
<1>7. CASE Machine!Lose
  BY <1>7, PrinterMoves
<1>8. CASE Machine!Return
  BY <1>8, PrinterMoves
<1>9. CASE UNCHANGED Machine!vars
  BY <1>9 DEF Machine!vars, JobInv, Machine!TypeOK, JobStarts, JobPrinter
<1> QED
  BY <1>1, <1>2, <1>3, <1>4, <1>5, <1>6, <1>7, <1>8, <1>9 DEF Machine!Next

\* job_journal.py feed, _terminal, _close, expire: the invariant of the journal's machine, for
\* every drop limit, length of a print and order of samples, outages and silences.
THEOREM JobsHold == ASSUME MachineConstants PROVE Machine!Spec => []JobInv
<1>1. Machine!Init => JobInv
  BY JobStartsOff
<1>2. JobInv /\ [Machine!Next]_(Machine!vars) => JobInv'
  BY JobSteps
<1> QED
  BY <1>1, <1>2, PTL DEF Machine!Spec

\* job_journal.py: the machine, its job, its rows and the samples it is fed have their types.
THEOREM MachineTypeCorrect == ASSUME MachineConstants PROVE Machine!Spec => []Machine!TypeOK
<1>1. JobInv => Machine!TypeOK
  BY DEF JobInv
<1> QED
  BY <1>1, JobsHold, PTL

\* job_journal.py feed, _close, reopen: the rows of a printer follow each other, and the
\* pauses and the outages of a print fit into it side by side, the one that runs included.
THEOREM JobTimesAddUp == ASSUME MachineConstants PROVE Machine!Spec => []Machine!TimesAddUp
<1>1. ASSUME JobInv PROVE Machine!TimesAddUp
  <2>1. RowsFit(rows, now) /\ now \in Nat /\ (machine.job # None => FollowsOn(machine.job, rows, Len(rows)))
    BY <1>1, JobTypes DEF JobInv, JobFits
  <2>2. rows \in Seq(Machine!JobRows)
    BY <2>1 DEF RowsFit
  <2>3. \A r \in Machine!Range(rows) : r.started <= r.ended /\ r.paused + r.offline <= r.ended - r.started
    BY <2>1, <2>2 DEF RowsFit, RowFits, Machine!Range
  <2>4. \A i, k \in DOMAIN rows : i < k => rows[i].ended <= rows[k].started
    BY <2>1 DEF RowsFit
  <2>5. rows # <<>> /\ machine.job # None => rows[Len(rows)].ended <= machine.job.started
    BY <2>1, <2>2 DEF FollowsOn
  <2> QED
    BY <2>3, <2>4, <2>5 DEF Machine!TimesAddUp
<1>2. JobInv => Machine!TimesAddUp
  BY <1>1
<1> QED
  BY <1>2, JobsHold, PTL

\* The samples of one print or of prints that began out of sight, up to the print num;
\* those of the n rows before are of no later print.
ToldApart(P, u) == \A x, y \in P : x[1] < y[1] => y[1] \in u
Upto(P, num) == \A x \in P : x[1] <= num
Following(P, rs, n) == \A i \in 1..n : \A x \in rs[i].prints, y \in P : x[1] <= y[1]
One(P, rs, n, num, u) == P \in Machine!Samples /\ ToldApart(P, u) /\ Upto(P, num) /\ Following(P, rs, n)
\* A sample of the print num is in P.
HasSample(P, num) == \E x \in P : x[1] = num

OneEach(m, rs, num, u) ==
  /\ \A i \in 1..Len(rs) : One(rs[i].prints, rs, i - 1, num, u)
  /\ m.job # None => One(m.job.prints, rs, Len(rs), num, u)
  /\ m.closed # None => m.closed.job.prints = rs[Len(rs)].prints
  /\ m.drop # None => m.drop.snap.prints \subseteq m.job.prints
WasFed(m, rs, num) ==
  \/ m.job # None /\ HasSample(m.job.prints, num)
  \/ \E i \in 1..Len(rs) : HasSample(rs[i].prints, num)

\* The number of a sample of a print.
LEMMA SampleNumber == ASSUME NEW P \in Machine!Samples, NEW x \in P PROVE x[1] \in Nat
BY DEF Machine!Samples

\* A set of samples that is of one print is so in every part of it,
LEMMA OnePart == ASSUME NEW P, NEW Q \in SUBSET P, NEW rs, NEW n, NEW num, NEW u, One(P, rs, n, num, u)
  PROVE  One(Q, rs, n, num, u)
<1>1. Q \in Machine!Samples
  BY DEF One, Machine!Samples
<1> QED
  BY <1>1 DEF One, ToldApart, Upto, Following

\* of more unseen prints,
LEMMA OneOver ==
  ASSUME NEW P, NEW rs, NEW n, NEW num, NEW u, One(P, rs, n, num, u), NEW ns, NEW k,
         \A i \in 1..k : i \in 1..n /\ ns[i].prints = rs[i].prints
  PROVE  One(P, ns, k, num, u)
BY DEF One, Following

\* and with one sample more of the print it is of.
LEMMA OneGrown ==
  ASSUME NEW P, NEW rs, NEW n, NEW num \in Nat, NEW u, One(P, rs, n, num, u), NEW p \in Nat,
         \A i \in 1..n : Upto(rs[i].prints, num) /\ rs[i].prints \in Machine!Samples,
         P = {} \/ num \in u \/ HasSample(P, num) \/ \E i \in 1..n : HasSample(rs[i].prints, num),
         NEW Q, Q = P \cup {<<num, p>>}
  PROVE  One(Q, rs, n, num, u) /\ HasSample(Q, num)
<1>1. P \in Machine!Samples /\ ToldApart(P, u) /\ Upto(P, num) /\ Following(P, rs, n)
  BY DEF One
<1>2. \A x \in P : x[1] \in Nat /\ x[1] <= num
  BY <1>1, SampleNumber DEF Upto
<1>3. Q \in Machine!Samples
  BY <1>1 DEF Machine!Samples
<1> DEFINE new == <<num, p>>
<1>4. new[1] = num /\ Q = P \cup {new}
  OBVIOUS
<1> HIDE DEF new
<1>5. Upto(Q, num) /\ HasSample(Q, num)
  BY <1>1, <1>4 DEF Upto, HasSample
<1>6. Following(Q, rs, n)
  BY <1>1, <1>4 DEF Following, Upto
<1>7. ToldApart(Q, u)
  <2> SUFFICES ASSUME NEW x \in Q, NEW y \in Q, x[1] < y[1] PROVE y[1] \in u
    BY DEF ToldApart
  <2>1. x[1] \in Nat /\ y[1] \in Nat /\ x[1] <= num /\ y[1] <= num
    BY <1>2, <1>4
  <2>2. x \in P
    BY <1>4, <2>1
  <2>3. CASE y \in P
    BY <1>1, <2>2, <2>3 DEF ToldApart
  <2>4. CASE y = new
    <3>1. CASE num \in u
      BY <1>4, <2>4, <3>1
    <3>2. CASE HasSample(P, num)
      BY <1>1, <1>4, <2>2, <2>4, <3>2 DEF HasSample, ToldApart
    <3>3. CASE \E i \in 1..n : HasSample(rs[i].prints, num)
      <4>1. num <= x[1]
        BY <1>1, <2>2, <3>3 DEF HasSample, Following
      <4> QED
        BY <1>4, <2>1, <2>4, <4>1
    <3> QED
      BY <2>2, <3>1, <3>2, <3>3
  <2> QED
    BY <1>4, <2>3, <2>4
<1> QED
  BY <1>3, <1>5, <1>6, <1>7 DEF One

\* The same, when the print sampled is the one that runs.
LEMMA OneMore ==
  ASSUME NEW P, NEW rs, NEW n, NEW num \in Nat, NEW u, One(P, rs, n, num, u), NEW k \in Nat, num <= k, NEW v, u \subseteq v
  PROVE  One(P, rs, n, k, v)
<1>1. \A x \in P : x[1] \in Nat
  BY SampleNumber DEF One
<1> QED
  BY <1>1 DEF One, ToldApart, Upto

\* A feed of a print that was fed before, or that began out of sight, or that is told apart.
Apart(m, rs, s, u) ==
  ~WasFed(m, rs, s.print) /\ s.print \notin u => ~Same(m, s) \/ (m.job = None /\ m.closed = None)

\* Rows that fit are rows of the journal.
LEMMA RowsTyped == ASSUME NEW m, NEW rs, NEW t, JobFits(m, rs, t)
  PROVE  rs \in Seq(Machine!JobRows) /\ Len(rs) \in Nat /\ \A i \in 1..Len(rs) : rs[i].prints \in Machine!Samples
<1>1. rs \in Seq(Machine!JobRows)
  BY DEF JobFits, RowsFit
<1>2. \A i \in 1..Len(rs) : rs[i] \in Machine!JobRows
  BY <1>1
<1> QED
  BY <1>1, <1>2 DEF Machine!JobRows

\* Each kind of step leaves every row with one print: the print goes on,
LEMMA OneContinues ==
  ASSUME MachineConstants, NEW m, NEW s, Runs(s), NEW rs, JobFits(m, rs, s.ts), NEW u, OneEach(m, rs, s.print, u),
         Apart(m, rs, s, u), NEW n, NEW ns, Continues(m, s, n, rs, ns)
  PROVE  OneEach(n, ns, s.print, u) /\ WasFed(n, ns, s.print)
<1>1. /\ m.job # None /\ Same(m, s) /\ n.job = Machine!Absorb(m.job, s) /\ n.closed = None /\ ns = rs
      /\ s.print \in Nat /\ s.p \in Nat
  BY DEF Continues, Runs, JobSamples
<1>2. JobSound(n.job) /\ n.job.prints = m.job.prints \cup {<<s.print, s.p>>} /\ n.job # None
  <2>1. JobSound(m.job) /\ m.job.seen <= s.ts
    BY <1>1 DEF JobFits, MachineKnown, Known
  <2>2. JobSound(n.job) /\ n.job.prints = m.job.prints \cup {<<s.print, s.p>>}
    BY <1>1, <2>1, AbsorbSound
  <2> QED
    BY <2>2, JobNamed
<1>3. One(m.job.prints, rs, Len(rs), s.print, u)
  BY <1>1 DEF OneEach
<1>4. \A i \in 1..Len(rs) : Upto(rs[i].prints, s.print) /\ rs[i].prints \in Machine!Samples
  BY RowsTyped DEF OneEach, One
<1>5. s.print \in u \/ HasSample(m.job.prints, s.print) \/ \E i \in 1..Len(rs) : HasSample(rs[i].prints, s.print)
  BY <1>1 DEF Apart, WasFed
<1>6. One(n.job.prints, rs, Len(rs), s.print, u) /\ HasSample(n.job.prints, s.print)
  BY <1>1, <1>2, <1>3, <1>4, <1>5, OneGrown
<1>7. n.drop # None => n.drop.snap.prints \subseteq n.job.prints
  <2>1. CASE m.drop # None /\ m.drop.left # 1 /\ n.drop = [m.drop EXCEPT !.left = @ - 1]
    <3>1. m.drop \in Machine!Drops /\ m.drop.snap.prints \subseteq m.job.prints
      BY <2>1 DEF JobFits, MachineKnown, Machine!MachineStates, OneEach
    <3>2. n.drop.snap = m.drop.snap
      BY <2>1, <3>1 DEF Machine!Drops
    <3> QED
      BY <1>2, <3>1, <3>2
  <2>2. CASE n.drop = [snap |-> m.job, at |-> s.ts, left |-> 2]
    <3>1. n.drop.snap = m.job
      BY <2>2
    <3> QED
      BY <1>2, <3>1
  <2> QED
    BY <2>1, <2>2 DEF Continues
<1> QED
  BY <1>1, <1>2, <1>6, <1>7 DEF OneEach, WasFed

\* A row written for samples that the rows follow.
LEMMA OneWritten ==
  ASSUME NEW m, NEW rs, NEW t, JobFits(m, rs, t), NEW num \in Nat, NEW u, OneEach(m, rs, num, u),
         NEW P, One(P, rs, Len(rs), num, u), NEW ns, ns \in Seq(Machine!JobRows), Longer(ns, rs), ns[Len(ns)].prints = P
  PROVE  /\ \A i \in 1..Len(ns) : One(ns[i].prints, ns, i - 1, num, u)
         /\ \A i \in 1..Len(rs) : ns[i].prints = rs[i].prints
<1>1. Len(rs) \in Nat /\ Len(ns) = Len(rs) + 1 /\ \A i \in 1..Len(rs) : ns[i] = rs[i]
  BY RowsTyped DEF Longer
<1>2. ASSUME NEW i \in 1..Len(ns) PROVE One(ns[i].prints, ns, i - 1, num, u)
  <2>1. CASE i \in 1..Len(rs)
    <3>1. One(rs[i].prints, rs, i - 1, num, u) /\ ns[i] = rs[i]
      BY <1>1, <2>1 DEF OneEach
    <3>2. \A k \in 1..(i - 1) : k \in 1..(i - 1) /\ ns[k].prints = rs[k].prints
      BY <1>1, <2>1
    <3>3. One(rs[i].prints, ns, i - 1, num, u)
      BY <3>1, <3>2, OneOver
    <3> QED
      BY <3>1, <3>3
  <2>2. CASE i = Len(ns)
    <3>1. i - 1 = Len(rs) /\ ns[i].prints = P
      BY <1>1, <2>2
    <3>2. \A k \in 1..(i - 1) : k \in 1..Len(rs) /\ ns[k].prints = rs[k].prints
      BY <1>1, <3>1
    <3>3. One(P, ns, i - 1, num, u)
      BY <3>2, OneOver
    <3> QED
      BY <3>1, <3>3
  <2> QED
    BY <1>1, <2>1, <2>2
<1> QED
  BY <1>1, <1>2

\* A new job's one sample over rows of no later print.
LEMMA OneFresh ==
  ASSUME NEW rs, NEW num \in Nat, NEW u, NEW p \in Nat,
         \A i \in 1..Len(rs) : Upto(rs[i].prints, num) /\ rs[i].prints \in Machine!Samples
  PROVE  One({<<num, p>>}, rs, Len(rs), num, u) /\ HasSample({<<num, p>>}, num)
<1>1. One({}, rs, Len(rs), num, u)
  BY DEF One, Machine!Samples, ToldApart, Upto, Following
<1> QED
  BY <1>1, OneGrown

\* a second print splits the job,
LEMMA OneSplits ==
  ASSUME MachineConstants, NEW m, NEW s, Runs(s), NEW rs, JobFits(m, rs, s.ts), NEW u, OneEach(m, rs, s.print, u),
         NEW n, IsMachine(n), n.seq \in Machine!Time, NEW ns,
         NEW whole \in Machine!Jobs, NEW res \in Machine!Results, NEW end \in Nat, NEW onset \in Nat,
         Splits(m, s, n, rs, ns, whole, res, end, onset)
  PROVE  OneEach(n, ns, s.print, u) /\ WasFed(n, ns, s.print)
<1>1. /\ m.job # None /\ (whole = m.job \/ (m.drop # None /\ whole = m.drop.snap))
      /\ n.closed = None /\ n.drop = None /\ s.print \in Nat /\ s.p \in Nat
  BY DEF Splits, Runs, JobSamples
<1>2. /\ JobFits(n, ns, s.ts) /\ Longer(ns, rs) /\ ns[Len(ns)].prints = whole.prints
      /\ n.job # None /\ n.job.prints = {<<s.print, s.p>>}
  <2>1. JobFits(n, ns, s.ts) /\ Longer(ns, rs) /\ SplitTells(s, n, ns, whole)
    BY SplitFits
  <2> QED
    BY <2>1 DEF SplitTells
<1>3. One(whole.prints, rs, Len(rs), s.print, u)
  <2>1. One(m.job.prints, rs, Len(rs), s.print, u) /\ whole.prints \in SUBSET m.job.prints
    BY <1>1 DEF OneEach
  <2> QED
    BY <2>1, OnePart
<1>4. \A i \in 1..Len(ns) : One(ns[i].prints, ns, i - 1, s.print, u)
  BY <1>1, <1>2, <1>3, RowsTyped, OneWritten
<1>5. One(n.job.prints, ns, Len(ns), s.print, u) /\ HasSample(n.job.prints, s.print)
  <2>1. \A i \in 1..Len(ns) : Upto(ns[i].prints, s.print) /\ ns[i].prints \in Machine!Samples
    BY <1>4 DEF One
  <2>2. One({<<s.print, s.p>>}, ns, Len(ns), s.print, u) /\ HasSample({<<s.print, s.p>>}, s.print)
    BY <1>1, <2>1, OneFresh
  <2> QED
    BY <1>2, <2>2
<1> QED
  BY <1>1, <1>2, <1>4, <1>5 DEF OneEach, WasFed

\* a job is opened,
LEMMA OneOpens ==
  ASSUME MachineConstants, NEW m, NEW s, Runs(s), NEW rs, JobFits(m, rs, s.ts), NEW u, OneEach(m, rs, s.print, u),
         NEW n, NEW ns, NEW onset \in Nat, Opens(m, s, n, rs, ns, onset)
  PROVE  OneEach(n, ns, s.print, u) /\ WasFed(n, ns, s.print)
<1>1. /\ n.job = Machine!Absorb(Machine!Job(s, onset), s) /\ n.closed = None /\ n.drop = None /\ ns = rs /\ onset <= s.ts
      /\ s.print \in Nat /\ s.p \in Nat
  BY DEF Opens, Runs, JobSamples
<1>2. n.job # None /\ n.job.prints = {<<s.print, s.p>>}
  <2> DEFINE j == Machine!Job(s, onset)
  <2>1. JobSound(j) /\ j.seen = onset /\ j.prints = {}
    BY FreshSound
  <2>2. n.job = Machine!Absorb(j, s) /\ j.seen <= s.ts
    BY <1>1, <2>1
  <2> HIDE DEF j
  <2>3. JobSound(n.job) /\ n.job.prints = j.prints \cup {<<s.print, s.p>>}
    BY <2>1, <2>2, AbsorbSound
  <2> QED
    BY <2>1, <2>3, JobNamed
<1>3. One(n.job.prints, ns, Len(ns), s.print, u) /\ HasSample(n.job.prints, s.print)
  <2>1. \A i \in 1..Len(rs) : Upto(rs[i].prints, s.print) /\ rs[i].prints \in Machine!Samples
    BY DEF OneEach, One
  <2>2. One({<<s.print, s.p>>}, rs, Len(rs), s.print, u) /\ HasSample({<<s.print, s.p>>}, s.print)
    BY <1>1, <2>1, OneFresh
  <2> QED
    BY <1>1, <1>2, <2>2
<1> QED
  BY <1>1, <1>2, <1>3 DEF OneEach, WasFed

\* a row closed too early is taken back,
LEMMA OneReopens ==
  ASSUME MachineConstants, NEW m, NEW s, Runs(s), NEW rs, JobFits(m, rs, s.ts), NEW u, OneEach(m, rs, s.print, u),
         Apart(m, rs, s, u), NEW n, IsMachine(n), n.seq \in Machine!Time, NEW ns, Reopens(m, s, n, rs, ns)
  PROVE  OneEach(n, ns, s.print, u) /\ WasFed(n, ns, s.print)
<1>1. /\ m.job = None /\ m.closed # None /\ Same(m, s) /\ n.closed = None /\ n.drop = None
      /\ s.print \in Nat /\ s.p \in Nat
  BY DEF Reopens, Runs, JobSamples
<1>2. /\ JobFits(n, ns, s.ts) /\ Shorter(ns, rs) /\ rs # <<>>
      /\ n.job # None /\ n.job.prints = m.closed.job.prints \cup {<<s.print, s.p>>}
  BY ReopenFits
<1> DEFINE k == Len(rs)
<1>3. k \in Nat /\ k >= 1 /\ Len(ns) = k - 1 /\ \A i \in 1..(k - 1) : ns[i] = rs[i]
  <2>1. rs \in Seq(Machine!JobRows) /\ Len(rs) \in Nat
    BY RowsTyped
  <2> QED
    BY <1>2, <2>1, EmptySeq DEF Shorter
<1>4. m.closed.job.prints = rs[k].prints /\ One(rs[k].prints, rs, k - 1, s.print, u)
  BY <1>1, <1>3 DEF OneEach
<1>5. One(n.job.prints, rs, k - 1, s.print, u) /\ HasSample(n.job.prints, s.print)
  <2>1. \A i \in 1..(k - 1) : Upto(rs[i].prints, s.print) /\ rs[i].prints \in Machine!Samples
    <3> TAKE i \in 1..(k - 1)
    <3>1. i \in 1..Len(rs)
      BY <1>3
    <3>2. One(rs[i].prints, rs, i - 1, s.print, u)
      BY <3>1 DEF OneEach
    <3> QED
      BY <3>2 DEF One
  <2>2. s.print \in u \/ HasSample(rs[k].prints, s.print) \/ \E i \in 1..(k - 1) : HasSample(rs[i].prints, s.print)
    <3>1. CASE s.print \in u
      BY <3>1
    <3>2. CASE s.print \notin u
      <4>1. PICK i \in 1..k : HasSample(rs[i].prints, s.print)
        BY <1>1, <3>2 DEF Apart, WasFed
      <4>2. i = k \/ i \in 1..(k - 1)
        BY <1>3
      <4> QED
        BY <4>1, <4>2
    <3> QED
      BY <3>1, <3>2
  <2>3. n.job.prints = rs[k].prints \cup {<<s.print, s.p>>}
    BY <1>2, <1>4
  <2> QED
    BY <1>1, <1>4, <2>1, <2>2, <2>3, OneGrown
<1>6. One(n.job.prints, ns, Len(ns), s.print, u)
  <2>1. \A i \in 1..(k - 1) : i \in 1..(k - 1) /\ ns[i].prints = rs[i].prints
    BY <1>3
  <2>2. One(n.job.prints, ns, k - 1, s.print, u)
    BY <1>5, <2>1, OneOver
  <2> QED
    BY <1>3, <2>2
<1>7. ASSUME NEW i \in 1..Len(ns) PROVE One(ns[i].prints, ns, i - 1, s.print, u)
  <2>1. i \in 1..k /\ ns[i] = rs[i] /\ \A h \in 1..(i - 1) : h \in 1..(i - 1) /\ ns[h].prints = rs[h].prints
    BY <1>3
  <2>2. One(rs[i].prints, rs, i - 1, s.print, u)
    BY <2>1 DEF OneEach
  <2>3. One(rs[i].prints, ns, i - 1, s.print, u)
    BY <2>1, <2>2, OneOver
  <2> QED
    BY <2>1, <2>3
<1> QED
  BY <1>1, <1>2, <1>5, <1>6, <1>7 DEF OneEach, WasFed

\* The job becomes a row, at its end or when it expires.
LEMMA OneClosed ==
  ASSUME NEW m, NEW rs, NEW t, JobFits(m, rs, t), NEW num \in Nat, NEW u, OneEach(m, rs, num, u), m.job # None,
         NEW n, n.job = None, n.drop = None, n.closed # None => n.closed.job = m.job,
         NEW ns, ns \in Seq(Machine!JobRows), Longer(ns, rs), ns[Len(ns)].prints = m.job.prints
  PROVE  OneEach(n, ns, num, u) /\ (WasFed(m, rs, num) => WasFed(n, ns, num))
<1>1. One(m.job.prints, rs, Len(rs), num, u)
  BY DEF OneEach
<1>2. /\ \A i \in 1..Len(ns) : One(ns[i].prints, ns, i - 1, num, u)
      /\ \A i \in 1..Len(rs) : ns[i].prints = rs[i].prints
  BY <1>1, OneWritten
<1>3. Len(ns) \in 1..Len(ns) /\ \A i \in 1..Len(rs) : i \in 1..Len(ns)
  BY RowsTyped DEF Longer
<1>4. WasFed(m, rs, num) => WasFed(n, ns, num)
  BY <1>2, <1>3 DEF WasFed
<1> QED
  BY <1>2, <1>4 DEF OneEach

\* or nothing is added.
LEMMA OneRests ==
  ASSUME NEW m, NEW rs, NEW num, NEW u, OneEach(m, rs, num, u), m.job = None, NEW n, n.job = None, n.drop = None,
         n.closed # None => m.closed # None /\ n.closed.job = m.closed.job,
         NEW ns, Len(ns) = Len(rs), \A i \in 1..Len(rs) : ns[i].prints = rs[i].prints,
         Len(rs) \in Nat, m.closed # None => Len(rs) \in 1..Len(rs)
  PROVE  OneEach(n, ns, num, u) /\ (WasFed(m, rs, num) => WasFed(n, ns, num))
<1>1. ASSUME NEW i \in 1..Len(ns) PROVE One(ns[i].prints, ns, i - 1, num, u)
  <2>1. One(rs[i].prints, rs, i - 1, num, u) /\ ns[i].prints = rs[i].prints
    BY DEF OneEach
  <2>2. \A h \in 1..(i - 1) : h \in 1..(i - 1) /\ ns[h].prints = rs[h].prints
    OBVIOUS
  <2>3. One(rs[i].prints, ns, i - 1, num, u)
    BY <2>1, <2>2, OneOver
  <2> QED
    BY <2>1, <2>3
<1>2. n.closed # None => n.closed.job.prints = ns[Len(ns)].prints
  BY DEF OneEach
<1>3. WasFed(m, rs, num) => WasFed(n, ns, num)
  BY DEF WasFed
<1> QED
  BY <1>1, <1>2, <1>3 DEF OneEach

\* A machine that remembers its last row has one.
LEMMA RowsPresent == ASSUME NEW m, NEW rs, NEW t, JobFits(m, rs, t), m.closed # None PROVE Len(rs) \in 1..Len(rs)
<1>1. rs \in Seq(Machine!JobRows) /\ rs # <<>>
  BY DEF JobFits, RowsFit
<1> QED
  BY <1>1, EmptySeq

\* A sample fed leaves every row with one print.
LEMMA FeedOne ==
  ASSUME MachineConstants, NEW m, NEW s \in JobSamples, NEW rs, JobFits(m, rs, s.ts), NEW u, OneEach(m, rs, s.print, u),
         Runs(s) => Apart(m, rs, s, u), NEW n, IsMachine(n), n.seq \in Machine!Time, NEW ns,
         ns \in Seq(Machine!JobRows), Feeds(m, s, n, rs, ns)
  PROVE  /\ OneEach(n, ns, s.print, u)
         /\ WasFed(m, rs, s.print) => WasFed(n, ns, s.print)
         /\ Runs(s) => WasFed(n, ns, s.print)
<1>0. s.print \in Nat /\ (s.state \in Machine!Idle => ~Runs(s)) /\ Len(rs) \in Nat
  BY RowsTyped DEF JobSamples, Runs, Machine!Idle, Machine!Active
<1>1. CASE Runs(s) /\ Continues(m, s, n, rs, ns)
  BY <1>1, OneContinues
<1>2. CASE Runs(s) /\ \E whole \in Machine!Jobs, res \in Machine!Results, end \in Nat, onset \in Nat :
                        Splits(m, s, n, rs, ns, whole, res, end, onset)
  <2>1. PICK whole \in Machine!Jobs, res \in Machine!Results, end \in Nat, onset \in Nat :
               Splits(m, s, n, rs, ns, whole, res, end, onset)
    BY <1>2
  <2>2. OneEach(n, ns, s.print, u) /\ WasFed(n, ns, s.print)
    BY <1>2, <2>1, OneSplits
  <2> QED
    BY <2>2
<1>3. CASE Runs(s) /\ Reopens(m, s, n, rs, ns)
  BY <1>3, OneReopens
<1>4. CASE Runs(s) /\ \E onset \in Nat : Opens(m, s, n, rs, ns, onset)
  BY <1>4, OneOpens
<1>5. CASE s.state \in Machine!Idle /\ \E res \in Machine!Results, end \in Nat : EndsAt(m, s, n, rs, ns, res, end)
  <2>1. PICK res \in Machine!Results, end \in Nat : EndsAt(m, s, n, rs, ns, res, end)
    BY <1>5
  <2>2. Longer(ns, rs) /\ ns[Len(ns)].prints = m.job.prints /\ (n.closed # None => n.closed.job = m.job)
    BY <2>1, EndFits
  <2>3. m.job # None /\ n.job = None /\ n.drop = None
    BY <2>1 DEF EndsAt
  <2>4. OneEach(n, ns, s.print, u) /\ (WasFed(m, rs, s.print) => WasFed(n, ns, s.print))
    BY <1>0, <2>2, <2>3, OneClosed
  <2> QED
    BY <1>0, <1>5, <2>4
<1>6. CASE s.state \in Machine!Idle /\ \E res \in Machine!Results : Amends(m, s, n, rs, ns, res)
  <2>1. PICK res \in Machine!Results : Amends(m, s, n, rs, ns, res)
    BY <1>6
  <2>2. Amended(ns, rs) /\ (n.closed # None => m.closed # None /\ n.closed.job = m.closed.job)
    BY <2>1, AmendFits
  <2>3. m.job = None /\ n.job = None /\ n.drop = None
    BY <2>1 DEF Amends
  <2>4. Len(ns) = Len(rs) /\ \A i \in 1..Len(rs) : ns[i].prints = rs[i].prints
    BY <2>2 DEF Amended
  <2>5. OneEach(n, ns, s.print, u) /\ (WasFed(m, rs, s.print) => WasFed(n, ns, s.print))
    BY <1>0, <2>2, <2>3, <2>4, RowsPresent, OneRests
  <2> QED
    BY <1>0, <1>6, <2>5
<1>7. CASE s.state \in Machine!Idle /\ Rests(m, s, n, rs, ns)
  <2>1. m.job = None /\ n.job = None /\ n.drop = None /\ n.closed \in {m.closed, None} /\ ns = rs
    BY <1>7 DEF Rests
  <2>2. n.closed # None => m.closed # None /\ n.closed.job = m.closed.job
    BY <2>1
  <2>3. Len(ns) = Len(rs) /\ \A i \in 1..Len(rs) : ns[i].prints = rs[i].prints
    BY <2>1
  <2>4. OneEach(n, ns, s.print, u) /\ (WasFed(m, rs, s.print) => WasFed(n, ns, s.print))
    BY <1>0, <2>1, <2>2, <2>3, RowsPresent, OneRests
  <2> QED
    BY <1>0, <1>7, <2>4
<1> QED
  BY <1>1, <1>2, <1>3, <1>4, <1>5, <1>6, <1>7 DEF Feeds

\* With a counter: what is counted, what is read of it, and the prints told apart.
JobCounts == counted =>
  /\ OneEach(machine, rows, print.number, unseen)
  /\ machine.seq = None => machine.job = None /\ machine.closed = None
  /\ machine.seq # None => machine.seq <= raw.count
  /\ sight # "down" => raw.last = (IF print.doing \in Machine!Idle THEN "idle" ELSE "work")
  /\ ~WasFed(machine, rows, print.number) /\ print.number \notin unseen /\ print.doing \in Machine!Active =>
       machine.seq = None \/ raw.count > machine.seq

\* The same of a sample dropped or fed.
LEMMA FedOrNot == ASSUME MachineConstants, NEW t, JobFits(machine, rows, t), NEW num
  PROVE  Machine!NeverFed(num) <=> ~WasFed(machine, rows, num)
<1>1. rows \in Seq(Machine!JobRows)
  BY RowsTyped
<1>2. Machine!Range(rows) = {rows[i] : i \in 1..Len(rows)}
  BY <1>1 DEF Machine!Range
<1> QED
  BY <1>2 DEF Machine!NeverFed, WasFed, HasSample

\* What is of one print stays so when more is unseen.
LEMMA OneEachMore ==
  ASSUME NEW m, NEW rs, NEW num \in Nat, NEW u, OneEach(m, rs, num, u), NEW k \in Nat, num <= k, NEW v, u \subseteq v
  PROVE  OneEach(m, rs, k, v)
BY OneMore DEF OneEach

\* Nothing but the printer's state and the count changes, and no print begins.
LEMMA CountKept ==
  ASSUME MachineConstants, JobInv, JobCounts, UNCHANGED <<counted, machine, rows, unseen>>,
         print'.number = print.number, print'.doing \in Machine!Active => print.doing \in Machine!Active,
         \/ raw' = raw /\ (sight' # "down" => sight # "down" /\ print' = print)
         \/ raw' = Machine!NoteJobStart(raw, print'.doing, now)
  PROVE  JobCounts'
<1>1. raw.count \in Nat /\ raw'.count \in Nat /\ raw'.count >= raw.count
      /\ (sight' # "down" => raw'.last = (IF print'.doing \in Machine!Idle THEN "idle" ELSE "work") \/ ~counted)
  <2>1. Machine!TypeOK /\ raw.begun <= now /\ raw.count \in Nat
    BY JobTypes DEF JobInv, JobPrinter
  <2>2. CASE raw' = raw /\ (sight' # "down" => sight # "down" /\ print' = print)
    BY <2>1, <2>2 DEF JobCounts
  <2>3. CASE raw' = Machine!NoteJobStart(raw, print'.doing, now)
    BY <2>1, <2>3, StartNoted
  <2> QED
    BY <2>2, <2>3
<1>2. machine.seq \in Nat \cup {None}
  BY DEF JobInv, JobFits, MachineKnown, Machine!MachineStates, Machine!Time
<1> QED
  BY <1>1, <1>2 DEF JobCounts, MachineConstants

\* A print that begins leaves every row with one print.
LEMMA BeginCounts ==
  ASSUME MachineConstants, JobInv, JobCounts, NEW late \in BOOLEAN, Machine!Begin(late) PROVE JobCounts'
<1> SUFFICES ASSUME counted PROVE JobCounts'
  BY DEF JobCounts, Machine!Begin, Machine!Quiet
<1>1. /\ print.doing \in Machine!Idle /\ print'.number = print.number + 1 /\ print'.doing = "printing"
      /\ UNCHANGED <<now, counted, machine, rows>> /\ sight' = sight
      /\ unseen' = IF sight = "down" THEN unseen \cup {print'.number} ELSE unseen
      /\ raw' = IF sight = "down" THEN raw ELSE Machine!NoteJobStart(raw, print'.doing, now)
  BY DEF Machine!Begin, Machine!Quiet, Machine!Reported
<1>2. print.number \in Nat /\ raw.count \in Nat /\ raw \in JobRaw
  BY JobTypes DEF JobInv
<1>3. sight # "down" => raw'.count = raw.count + 1 /\ raw'.last = "work"
  <2> SUFFICES ASSUME sight # "down" PROVE raw'.count = raw.count + 1 /\ raw'.last = "work"
    OBVIOUS
  <2>1. raw.last = "idle" /\ raw' = Machine!NoteJobStart(raw, "printing", now)
    BY <1>1 DEF JobCounts
  <2>2. raw' = [last |-> "work", count |-> raw.count + 1, begun |-> now]
    BY <2>1 DEF Machine!NoteJobStart, Machine!Idle
  <2> QED
    BY <2>2
<1>4. OneEach(machine, rows, print'.number, unseen')
  <2>1. OneEach(machine, rows, print.number, unseen) /\ unseen \subseteq unseen'
    BY <1>1 DEF JobCounts
  <2> QED
    BY <1>1, <1>2, <2>1, OneEachMore
<1>5. machine.seq \in Nat \cup {None}
  BY DEF JobInv, JobFits, MachineKnown, Machine!MachineStates, Machine!Time
<1>6. sight = "down" => raw' = raw /\ print'.number \in unseen'
  BY <1>1
<1>7. sight # "down" => raw'.last = (IF print'.doing \in Machine!Idle THEN "idle" ELSE "work")
  BY <1>1, <1>3 DEF Machine!Idle
<1>8. /\ machine.seq = None => machine.job = None /\ machine.closed = None
      /\ machine.seq # None => machine.seq <= raw.count
  BY DEF JobCounts
<1> QED
  BY <1>1, <1>2, <1>3, <1>4, <1>5, <1>6, <1>7, <1>8 DEF JobCounts

\* A poll leaves every row with one print.
LEMMA PollCounts == ASSUME MachineConstants, JobInv, JobCounts, Machine!Poll PROVE JobCounts'
<1> SUFFICES ASSUME counted PROVE JobCounts'
  BY DEF JobCounts, Machine!Poll
<1> DEFINE s == Machine!Sample(now, print, sight = "blank")
           e == Machine!Expire(machine, now)
           rs == Machine!Closed(rows, e)
           f == Machine!Fed(e.machine, s)
           num == print.number
<1>1. /\ now \in Nat /\ Machine!TypeOK /\ raw.begun <= now /\ JobFits(machine, rows, now)
      /\ raw.count \in Nat /\ raw.begun \in Nat /\ num \in Nat /\ print \in JobPrints
  BY JobTypes DEF JobInv, JobPrinter
<1>2. /\ JobFits(e.machine, rs, now) /\ IsMachine(e.machine) /\ e.machine.seq = machine.seq
      /\ (e.machine = machine /\ rs = rows)
         \/ (/\ machine.job # None /\ e.machine.job = None /\ e.machine.closed = None /\ e.machine.drop = None
             /\ Longer(rs, rows) /\ rs[Len(rs)].prints = machine.job.prints)
  BY <1>1, ExpireFits
<1>3. /\ s \in JobSamples /\ s.ts = now /\ s.seq = raw.count /\ s.print = num
      /\ s.state = (IF sight = "blank" THEN "idle" ELSE print.doing)
      /\ s.state \in Machine!Active => Runs(s)
  <2>1. (sight = "blank") \in BOOLEAN
    OBVIOUS
  <2> QED
    BY <1>1, <2>1, SampleKnown
<1>4. /\ machine' = IF sight = "down" THEN e.machine ELSE f.machine
      /\ rows' = IF sight = "down" THEN rs ELSE Machine!Written(rs, f)
      /\ raw' = IF sight = "down" THEN raw ELSE Machine!NoteJobStart(raw, print'.doing, now)
      /\ UNCHANGED <<counted, sight>> /\ print' = Machine!RunOn
      /\ unseen \subseteq unseen'
      /\ Machine!NeverFed(num) /\ sight = "blank" => num \in unseen'
  <2>1. (IF sight = "down" THEN Machine!Step(e.machine) ELSE f).machine = IF sight = "down" THEN e.machine ELSE f.machine
    BY DEF Machine!Step
  <2>2. Machine!Written(rs, Machine!Step(e.machine)) = rs
    BY DEF Machine!Written, Machine!Closed, Machine!Step
  <2> HIDE DEF s, e, rs, f
  <2>3. /\ machine' = (IF sight = "down" THEN Machine!Step(e.machine) ELSE f).machine
        /\ rows' = Machine!Written(rs, IF sight = "down" THEN Machine!Step(e.machine) ELSE f)
    BY DEF Machine!Poll, s, e, rs, f
  <2>4. /\ raw' = IF sight = "down" THEN raw ELSE Machine!NoteJobStart(raw, print'.doing, now)
        /\ UNCHANGED <<counted, sight>> /\ print' = Machine!RunOn
    BY DEF Machine!Poll, Machine!Reported
  <2>5. unseen \subseteq unseen' /\ (Machine!NeverFed(num) /\ sight = "blank" => num \in unseen')
    BY DEF Machine!Poll
  <2> QED
    BY <2>1, <2>2, <2>3, <2>4, <2>5
<1> HIDE DEF s, e, rs, f
<1>5. print'.number = num /\ (print'.doing \in Machine!Active => print.doing \in Machine!Active)
  <2>1. print'.number = num
    BY <1>1, <1>4, PrintRuns DEF JobInv, JobPrinter
  <2>2. print'.doing \in Machine!Active => print.doing \in Machine!Active
    <3>1. CASE print.doing # "printing"
      BY <1>4, <3>1 DEF Machine!RunOn
    <3>2. CASE print.doing = "printing"
      BY <3>2 DEF Machine!Active
    <3> QED
      BY <3>1, <3>2
  <2> QED
    BY <2>1, <2>2
<1> HIDE DEF num
<1>6. OneEach(machine, rows, num, unseen)
  BY DEF JobCounts, num
<1>7. OneEach(e.machine, rs, num, unseen) /\ (WasFed(machine, rows, num) => WasFed(e.machine, rs, num))
  <2>1. CASE e.machine = machine /\ rs = rows
    BY <1>6, <2>1
  <2>2. CASE ~(e.machine = machine /\ rs = rows)
    <3>1. /\ machine.job # None /\ e.machine.job = None /\ e.machine.closed = None /\ e.machine.drop = None
          /\ Longer(rs, rows) /\ rs[Len(rs)].prints = machine.job.prints
      BY <1>2, <2>2
    <3>2. rs \in Seq(Machine!JobRows)
      BY <1>2, RowsTyped
    <3> QED
      BY <1>1, <1>6, <3>1, <3>2, OneClosed
  <2> QED
    BY <2>1, <2>2
<1>8. machine.seq \in Nat \cup {None} /\ None \notin Nat
  BY <1>1 DEF JobFits, MachineKnown, Machine!MachineStates, Machine!Time, MachineConstants
<1>9. CASE sight = "down"
  <2>1. machine' = e.machine /\ rows' = rs /\ raw' = raw /\ sight' = "down" /\ machine'.seq = machine.seq
    BY <1>2, <1>4, <1>9
  <2>2. OneEach(machine', rows', print'.number, unseen')
    <3>1. OneEach(machine', rows', num, unseen')
      BY <1>1, <1>4, <1>7, <2>1, OneEachMore
    <3> QED
      BY <1>5, <3>1
  <2>3. machine'.seq = None => machine'.job = None /\ machine'.closed = None
    BY <1>2, <2>1 DEF JobCounts
  <2>4. machine'.seq # None => machine'.seq <= raw'.count
    BY <2>1 DEF JobCounts
  <2>5. ~WasFed(machine', rows', print'.number) /\ print'.number \notin unseen' /\ print'.doing \in Machine!Active =>
          machine'.seq = None \/ raw'.count > machine'.seq
    <3>1. WasFed(machine, rows, num) => WasFed(machine', rows', num)
      BY <1>7, <2>1
    <3>2. ~WasFed(machine, rows, num) /\ num \notin unseen /\ print.doing \in Machine!Active =>
            machine.seq = None \/ raw.count > machine.seq
      BY DEF JobCounts, num
    <3> QED
      BY <1>4, <1>5, <2>1, <3>1, <3>2
  <2> QED
    BY <1>4, <2>1, <2>2, <2>3, <2>4, <2>5 DEF JobCounts
<1>10. CASE sight # "down"
  <2>1. /\ machine' = f.machine /\ rows' = Machine!Written(rs, f) /\ sight' = sight
        /\ raw' = Machine!NoteJobStart(raw, print'.doing, now)
    BY <1>4, <1>10
  <2>2. JobFits(e.machine, rs, s.ts) /\ MachineKnown(e.machine, s.ts)
    BY <1>2, <1>3 DEF JobFits
  <2>3. /\ IsMachine(machine') /\ machine'.seq = raw.count /\ Feeds(e.machine, s, machine', rs, rows')
    <3>1. f = Machine!Fed(e.machine, s)
      BY DEF f
    <3>2. /\ IsMachine(machine') /\ machine'.seq = (IF s.seq # None THEN s.seq ELSE e.machine.seq)
          /\ Feeds(e.machine, s, machine', rs, rows')
      BY <1>3, <2>1, <2>2, <3>1, FeedTaken
    <3> QED
      BY <1>1, <1>3, <1>8, <3>2
  <2>4. machine'.seq \in Machine!Time /\ rows' \in Seq(Machine!JobRows)
    <3>1. JobFits(machine, rows, now)'
      BY PollFeeds
    <3>2. rows' \in Seq(Machine!JobRows)
      BY <3>1, RowsTyped
    <3> QED
      BY <1>1, <2>3, <3>2 DEF Machine!Time
  <2>5. Runs(s) => print.doing \in Machine!Active /\ sight # "blank"
    BY <1>3 DEF Runs, Machine!Active
  <2>6. Runs(s) => Apart(e.machine, rs, s, unseen)
    <3> SUFFICES ASSUME Runs(s), ~WasFed(e.machine, rs, num), num \notin unseen
                 PROVE  ~Same(e.machine, s) \/ (e.machine.job = None /\ e.machine.closed = None)
      BY <1>3 DEF Apart
    <3>1. machine.seq = None \/ raw.count > machine.seq
      BY <1>7, <2>5 DEF JobCounts, num
    <3>2. CASE machine.seq = None
      BY <1>2, <3>2 DEF JobCounts
    <3>3. CASE machine.seq # None /\ raw.count > machine.seq
      BY <1>1, <1>2, <1>3, <1>8, <3>3 DEF Same
    <3> QED
      BY <3>1, <3>2, <3>3
  <2>7. /\ OneEach(machine', rows', num, unseen)
        /\ WasFed(e.machine, rs, num) => WasFed(machine', rows', num)
        /\ Runs(s) => WasFed(machine', rows', num)
    <3>1. OneEach(e.machine, rs, s.print, unseen)
      BY <1>3, <1>7
    <3>2. /\ OneEach(machine', rows', s.print, unseen)
          /\ WasFed(e.machine, rs, s.print) => WasFed(machine', rows', s.print)
          /\ Runs(s) => WasFed(machine', rows', s.print)
      BY <1>3, <2>2, <2>3, <2>4, <2>6, <3>1, FeedOne
    <3> QED
      BY <1>3, <3>2
  <2>8. OneEach(machine', rows', print'.number, unseen')
    <3>1. OneEach(machine', rows', num, unseen')
      BY <1>1, <1>4, <2>7, OneEachMore
    <3> QED
      BY <1>5, <3>1
  <2>9. /\ raw'.count \in Nat /\ raw'.count >= raw.count
        /\ raw'.last = (IF print'.doing \in Machine!Idle THEN "idle" ELSE "work")
    BY <1>1, <2>1, StartNoted
  <2>10. print'.doing \in Machine!Active => WasFed(machine', rows', num) \/ num \in unseen'
    <3> SUFFICES ASSUME print'.doing \in Machine!Active, ~WasFed(machine', rows', num) PROVE num \in unseen'
      OBVIOUS
    <3>1. sight = "blank"
      BY <1>3, <1>5, <2>7
    <3>2. Machine!NeverFed(num)
      BY <1>1, <1>7, <2>7, FedOrNot
    <3> QED
      BY <1>4, <3>1, <3>2
  <2>11. machine'.seq # None /\ machine'.seq <= raw'.count
    BY <1>1, <1>8, <2>3, <2>9
  <2> QED
    BY <1>5, <2>8, <2>9, <2>10, <2>11 DEF JobCounts
<1> QED
  BY <1>9, <1>10

\* Every row has one print at first,
LEMMA CountsStartOff == ASSUME MachineConstants, Machine!Init PROVE JobCounts
<1>1. rows = <<>> /\ Len(rows) = 0
  BY DEF Machine!Init
<1>2. machine.job = None /\ machine.closed = None /\ machine.drop = None /\ machine.seq = None
  BY DEF Machine!Init
<1>3. raw.last = "idle" /\ print.doing = "idle"
  BY DEF Machine!Init
<1> QED
  BY <1>1, <1>2, <1>3 DEF JobCounts, OneEach, Machine!Idle

\* and every step leaves it so.
LEMMA CountSteps == ASSUME MachineConstants, JobInv, JobCounts, [Machine!Next]_(Machine!vars) PROVE JobCounts'
<1>1. CASE Machine!Poll
  BY <1>1, PollCounts
<1>2. CASE \E late \in BOOLEAN : Machine!Begin(late)
  BY <1>2, BeginCounts
<1> DEFINE Still == UNCHANGED <<counted, machine, rows, unseen>> /\ print'.number = print.number
           Same1 == raw' = raw /\ (sight' # "down" => sight # "down" /\ print' = print)
           Noted == raw' = Machine!NoteJobStart(raw, print'.doing, now)
<1>0. print \in JobPrints
  BY JobTypes DEF JobInv
<1>3. CASE \E code \in {None, "hms"} : Machine!Pause(code)
  <2>1. PICK code \in {None, "hms"} : Machine!Pause(code)
    BY <1>3
  <2>2. print' = [print EXCEPT !.doing = "paused", !.code = code] /\ print.doing = "printing" /\ sight' = sight
    BY <2>1 DEF Machine!Pause
  <2>3. print'.number = print.number /\ print.doing \in Machine!Active
    BY <1>0, <2>2 DEF JobPrints, Machine!Active
  <2>4. Still /\ (Same1 \/ Noted)
    BY <2>1, <2>2, <2>3 DEF Machine!Pause, Machine!Quiet, Machine!Reported
  <2> QED
    BY <2>3, <2>4, CountKept
<1>4. CASE Machine!Resume
  <2>2. print' = [print EXCEPT !.doing = "printing", !.code = None] /\ print.doing = "paused" /\ sight' = sight
    BY <1>4 DEF Machine!Resume
  <2>3. print'.number = print.number /\ print.doing \in Machine!Active
    BY <1>0, <2>2 DEF JobPrints, Machine!Active
  <2>4. Still /\ (Same1 \/ Noted)
    BY <1>4, <2>2, <2>3 DEF Machine!Resume, Machine!Quiet, Machine!Reported
  <2> QED
    BY <2>3, <2>4, CountKept
<1>5. CASE \E how \in {"cancelled", "idle", "error"}, code \in {None, "err"} : Machine!Stop(how, code)
  <2>1. PICK how \in {"cancelled", "idle", "error"}, code \in {None, "err"} : Machine!Stop(how, code)
    BY <1>5
  <2>2. print' = [print EXCEPT !.doing = how, !.code = code, !.echo = None] /\ print.doing \in Machine!Active
        /\ sight' = sight
    BY <2>1 DEF Machine!Stop
  <2>3. print'.number = print.number
    BY <1>0, <2>2 DEF JobPrints
  <2>4. Still /\ (Same1 \/ Noted)
    BY <2>1, <2>2, <2>3 DEF Machine!Stop, Machine!Quiet, Machine!Reported
  <2> QED
    BY <2>2, <2>4, CountKept
<1>6. CASE Machine!PowerLoss
  <2>2. print' = [print EXCEPT !.doing = "paused", !.code = "power"] /\ print.doing = "printing" /\ sight' = "down"
    BY <1>6 DEF Machine!PowerLoss
  <2>3. print'.number = print.number /\ print.doing \in Machine!Active
    BY <1>0, <2>2 DEF JobPrints, Machine!Active
  <2>4. Still /\ Same1
    BY <1>6, <2>2, <2>3 DEF Machine!PowerLoss, Machine!Quiet
  <2> QED
    BY <2>3, <2>4, CountKept
<1>7. CASE Machine!Lose
  <2>1. Still /\ Same1 /\ print' = print
    BY <1>7 DEF Machine!Lose, Machine!Quiet
  <2> QED
    BY <2>1, CountKept
<1>8. CASE Machine!Return
  <2>1. Still /\ Noted /\ print' = print
    BY <1>8 DEF Machine!Return, Machine!Quiet
  <2> QED
    BY <2>1, CountKept
<1>9. CASE UNCHANGED Machine!vars
  BY <1>9 DEF Machine!vars, JobCounts
<1> QED
  BY <1>1, <1>2, <1>3, <1>4, <1>5, <1>6, <1>7, <1>8, <1>9 DEF Machine!Next

\* job_journal.py feed, _new_print, reopen: for a printer that counts its prints (job_seq) a
\* row holds one print, or the later of two began out of sight; an echo of the one before
\* takes nothing from it.
THEOREM CountedJobsAreOne ==
  ASSUME MachineConstants
  PROVE  Machine!Spec => [](counted => Machine!EchoesJudged /\ Machine!OnePrintPerRow)
<1>1. Machine!Init => JobCounts
  BY CountsStartOff
<1>2. JobInv /\ JobCounts /\ [Machine!Next]_(Machine!vars) => JobCounts'
  BY CountSteps
<1>3. ASSUME JobInv, JobCounts, counted PROVE Machine!EchoesJudged /\ Machine!OnePrintPerRow
  <2>1. rows \in Seq(Machine!JobRows) /\ \A i \in 1..Len(rows) : ToldApart(rows[i].prints, unseen)
    BY <1>3, RowsTyped DEF JobInv, JobCounts, OneEach, One
  <2>2. Machine!Range(rows) = {rows[i] : i \in 1..Len(rows)}
    BY <2>1 DEF Machine!Range
  <2> QED
    BY <2>1, <2>2 DEF Machine!EchoesJudged, Machine!OnePrintPerRow, Machine!ToldApart, ToldApart
<1>4. JobInv /\ JobCounts => (counted => Machine!EchoesJudged /\ Machine!OnePrintPerRow)
  BY <1>3
<1> QED
  BY <1>1, <1>2, <1>4, JobsHold, PTL DEF Machine!Spec

=============================================================================

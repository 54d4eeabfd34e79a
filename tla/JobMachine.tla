------------------------------ MODULE JobMachine ------------------------------
(* job_journal.py: the machine that turns the samples of one printer into      *)
(* prints, over a printer that prints, pauses, loses power, is lost from sight *)
(* and starts the next print.  Time is counted in polls; the thresholds are    *)
(* parameters.  Left out: the plan, error texts and HMS codes, the print time  *)
(* of Klipper and Creality, frozen telemetry, the maintenance mark.            *)
EXTENDS Integers, SequencesExt

CONSTANTS
  None,
  Lost,       \* JOBS_LOST_GAP_S and JOBS_TERM_GRACE_S, which are equal
  MaxGap,     \* JOBS_MAX_GAP_S
  Soon,       \* a countdown this short counts as finished
  Length,     \* a print's length
  MaxPrints,  \* bound: prints
  MaxTime,    \* bound: polls
  MaxTrouble  \* bound: pauses, blips, power losses, outages and stops

VARIABLES
  now,
  counted,    \* the printer's kind: Bambu, with job_seq, or one without
  print,      \* the printer's own print: its number, time run, what it does
  sight,      \* what the poll sees: "up", "down", or "blank", an idle without a job
  raw,        \* RawReport: the state seen last, the starts counted, the last one's time
  machine,    \* JobMachine: job, closed, drop, seq
  rows,       \* the rows closed, a reopened one taken out again
  unseen,     \* prints begun out of sight or behind a blank idle (ghost)
  echoed,     \* prints whose echo of the one before was kept (ghost)
  trouble     \* what the bound counts

vars == <<now, counted, print, sight, raw, machine, rows, unseen, echoed, trouble>>

-----------------------------------------------------------------------------
\* What the printer reports: progress, time left, layers, and a name of its own for
\* every third print (the others share one).  Early in a print its time left and
\* layer may still be those of the print before (echo).
Layers == 5 * Length
Progress(e) ==
  IF e = 0 THEN 0 ELSE IF e = 1 THEN 4 ELSE IF e = Length - 1 THEN 96
  ELSE IF e >= Length THEN 100 ELSE (e * 100) \div Length
Name(n) == IF n % 3 = 0 THEN "own" ELSE "same"

Sample(t, pr, blank) ==
  LET shows == ~blank /\ pr.doing # "idle"
  IN [ts |-> t, state |-> IF blank THEN "idle" ELSE pr.doing,
      print |-> pr.number, code |-> IF blank THEN None ELSE pr.code,
      p |-> IF shows THEN Progress(pr.run) ELSE None,
      eta |-> IF shows THEN IF pr.echo = None THEN Length - pr.run ELSE Length - pr.echo ELSE None,
      layer |-> IF shows THEN IF pr.echo = None THEN 5 * pr.run ELSE 5 * pr.echo ELSE None,
      name |-> IF shows THEN Name(pr.number) ELSE None,
      seq |-> IF counted THEN raw.count ELSE None, begun |-> raw.begun]

\* _note_job_start: leaving idle for work is a start, the first state seen is none.
Idle == {"idle", "finished", "cancelled", "error"}
NoteJobStart(r, doing, t) ==
  LET does == IF doing \in Idle THEN "idle" ELSE "work"
  IN IF r.last = "idle" /\ does = "work"
     THEN [last |-> does, count |-> r.count + 1, begun |-> t] ELSE [r EXCEPT !.last = does]

Active == {"printing", "paused"}
Job(s, started) ==
  [started |-> started, seen |-> started, lp |-> None, le |-> None, layer |-> None,
   name |-> None, state |-> None, pauseAt |-> None, gap |-> 0, why |-> None,
   paused |-> 0, offline |-> 0, powerAt |-> None, prints |-> {}]

Low(a, b) == IF a < b THEN a ELSE b
High(a, b) == IF a > b THEN a ELSE b

\* _reset_reason: the sample starts over from where the print was.
StartsOver(job, s) ==
  LET longer == job.le # None /\ s.eta > job.le
      goesOn == /\ job.powerAt # None
                /\ job.layer \in 5..(Layers - 1) /\ s.layer >= job.layer - 2
  IN /\ job.lp # None /\ s.p <= 5 /\ job.lp - s.p >= 3
     /\ ~goesOn
     /\ \/ job.lp >= 95
        \/ job.lp - s.p >= 20 /\ longer
        \/ job.layer >= 5 /\ s.layer <= 1 /\ longer

\* new_job_reason.
IsNew_Fault(job, s, seq) == (job.name # None /\ job.name # s.name) \/ StartsOver(job, s)
IsNew(job, s, seq) ==
  \/ s.seq # None /\ seq # None /\ s.seq > seq
  \/ job.name # None /\ job.name # s.name
  \/ StartsOver(job, s)

\* classify_split and classify_terminal: the result and the end.
SplitEnd(job, at) ==
  IF job.lp # None /\ (job.lp >= 95 \/ (job.lp > 5 /\ job.le \in 1..Soon))
  THEN [result |-> "finished", ended |-> Low(at, job.seen + job.le)]
  ELSE [result |-> IF at - job.seen >= Lost THEN "lost" ELSE "stopped", ended |-> job.seen]

\* _all_done: nothing left to print, and no layer where the layers are known.
AllDone(job) == job.lp >= 99 /\ job.le = 0 /\ (job.layer = 0 \/ job.layer >= Layers)

TerminalEnd(job, s) ==
  LET gap == s.ts - job.seen >= Lost
      end == IF gap THEN job.seen ELSE s.ts
  IN CASE s.state = "finished" ->
            [result |-> "finished", ended |-> IF gap THEN Low(s.ts, job.seen + job.le) ELSE s.ts]
       [] s.state = "cancelled" -> [result |-> "cancelled", ended |-> end]
       [] s.state = "error" ->
            [result |-> IF s.code # None THEN "failed"
                        ELSE IF AllDone(job) THEN "finished" ELSE "stopped", ended |-> end]
       [] OTHER ->
            [result |-> IF gap THEN "lost" ELSE IF job.lp >= 99 THEN "finished" ELSE "stopped", ended |-> end]

\* _power_loss: no progress since a pause for a power loss.
Result(job, base) ==
  IF base # "finished" /\ job.powerAt # None /\ job.lp < job.powerAt + 1 THEN "power_loss" ELSE base

\* _pause_close: the time of the open pause without the gaps inside it.
PauseClosed(job, end) ==
  IF job.pauseAt = None THEN job
  ELSE [job EXCEPT !.paused = @ + High(0, end - job.pauseAt - job.gap),
                   !.pauseAt = None, !.gap = 0, !.why = None]

\* _pause_open and _pause_reason.
PauseReason(job, s) ==
  IF s.code = None THEN job
  ELSE [job EXCEPT !.why = s.code,
          !.powerAt = IF s.code = "power" THEN IF job.lp = None THEN s.p ELSE High(job.lp, s.p) ELSE @]
PauseOpened(job, s) ==
  PauseReason([job EXCEPT !.pauseAt = IF s.code = "power" THEN job.seen ELSE s.ts,
                          !.gap = 0, !.why = None, !.powerAt = None], s)

\* _absorb: an active sample of the job.
Absorb(job, s) ==
  LET silent == High(0, s.ts - job.seen)
      gap == silent >= Lost
      pausing == s.state = "paused" /\ job.state # "paused"
      away == [job EXCEPT !.offline = IF gap /\ ~(pausing /\ s.code = "power") THEN @ + silent ELSE @,
                          !.gap = IF gap /\ job.state = "paused" THEN @ + silent ELSE @]
      noted == IF pausing THEN PauseOpened(away, s)
               ELSE IF job.state = "paused" /\ s.state = "printing" THEN PauseClosed(away, s.ts)
               ELSE IF job.state = "paused" /\ job.why = None THEN PauseReason(away, s) ELSE away
  IN [noted EXCEPT !.lp = s.p, !.le = s.eta, !.layer = s.layer,
                   !.name = IF @ = None THEN s.name ELSE @,
                   !.state = s.state, !.seen = s.ts, !.prints = @ \cup {<<s.print, s.p>>}]

-----------------------------------------------------------------------------
Reopenable == {"stopped", "failed", "lost"}

\* _close: the row, and what is kept of it for a reopen or an amend.
Row(job, base, end) ==
  LET j == PauseClosed(job, end)
  IN [started |-> j.started, ended |-> end, paused |-> j.paused, offline |-> j.offline,
      result |-> Result(job, base), prints |-> j.prints]
Kept(job, base, s) ==
  IF base \notin Reopenable THEN None
  ELSE [job |-> job, at |-> s.ts, base |-> base, final |-> s.state = "error" /\ counted,
        blank |-> s.state = "idle" /\ base \in {"stopped", "lost"} /\ job.lp > 5]

\* Closed prints are forgotten after the grace, a blank idle's only after a day.
AliveAt(closed, t) ==
  closed # None /\ t - closed.at <= (IF closed.blank THEN MaxGap ELSE Lost)

\* _Closed.resumes: the same print comes back where it was.
Resumes(closed, s) ==
  closed.blank /\ s.p >= closed.job.lp - 1 /\ closed.job.name # None /\ s.name = closed.job.name

\* _start_of.
StartOf(m, s, last) ==
  IF s.seq # None /\ m.seq # None /\ s.seq > m.seq /\ s.begun \in (s.ts - Lost)..s.ts
     /\ (last = None \/ s.begun >= last)
  THEN s.begun ELSE s.ts

Opened(m, s, started) == [m EXCEPT !.job = Absorb(Job(s, started), s), !.closed = None, !.drop = None]

\* What a feed does: the machine after it, the row it closed or None, the row it
\* took back or amended.
Step(m) == [machine |-> m, close |-> None, reopen |-> FALSE, amend |-> None]

\* _active with a job: a boundary on this sample, or one that a progress drop was.
SplitJob(m, s, job, at) == IF at = None THEN job ELSE m.drop.snap
ActiveWithJob(m, s) ==
  LET job == m.job
      new == IsNew(job, s, m.seq)
      late == ~new /\ m.drop # None /\ StartsOver(m.drop.snap, s)
      at == IF late THEN m.drop.at ELSE None
      whole == SplitJob(m, s, job, at)
      started == IF at = None THEN StartOf(m, s, job.seen) ELSE at
      split == SplitEnd(whole, IF at = None THEN s.ts ELSE at)
      end == IF at = None /\ started = s.begun THEN Low(split.ended, started) ELSE split.ended
      judged == IF m.drop # None THEN IF m.drop.left = 1 THEN None ELSE [m.drop EXCEPT !.left = @ - 1]
                ELSE IF s.p <= 5 /\ job.lp - s.p >= 3 THEN [snap |-> job, at |-> s.ts, left |-> 2]
                ELSE None
  IN IF new \/ late
     THEN [Step(Opened(m, s, started)) EXCEPT !.close = Row(whole, split.result, end)]
     ELSE Step([m EXCEPT !.job = Absorb(job, s), !.drop = judged])

\* _active without one: the closed print reopens, or a new one begins.
ActiveWithoutJob(m, s) ==
  LET c == m.closed
      same == AliveAt(c, s.ts) /\ ~c.final /\ ~IsNew(c.job, s, m.seq)
              /\ (s.ts - c.at <= Lost \/ Resumes(c, s))
  IN IF same THEN [Step([m EXCEPT !.job = Absorb(c.job, s), !.closed = None]) EXCEPT !.reopen = TRUE]
     ELSE Step(Opened(m, s, StartOf(m, s, None)))

\* _terminal: the print ends, or _amend refines a «stopped» one.
Terminal(m, s) ==
  LET end == TerminalEnd(m.job, s)
      c == m.closed
      better == CASE s.state = "finished" -> "finished" [] s.state = "cancelled" -> "cancelled"
                  [] s.state = "error" /\ s.code # None -> "failed" [] OTHER -> None
  IN IF m.job # None
     THEN [Step([m EXCEPT !.job = None, !.drop = None, !.closed = Kept(m.job, end.result, s)])
             EXCEPT !.close = Row(m.job, end.result, end.ended)]
     ELSE IF AliveAt(c, s.ts) /\ s.ts - c.at <= Lost /\ c.base = "stopped" /\ better # None
     THEN [Step([m EXCEPT !.closed = IF better \in Reopenable THEN [c EXCEPT !.base = better] ELSE None])
             EXCEPT !.amend = Result(c.job, better)]
     ELSE Step([m EXCEPT !.closed = IF AliveAt(c, s.ts) THEN c ELSE None])

\* expire: no data for JOBS_MAX_GAP_S.
Expired(m, t) == m.job # None /\ t - m.job.seen > MaxGap
Expire(m, t) ==
  IF Expired(m, t)
  THEN [Step([m EXCEPT !.job = None, !.drop = None, !.closed = None])
          EXCEPT !.close = Row(m.job, "lost", m.job.seen)]
  ELSE Step(m)

\* feed of a sample with a state, after expire.
Fed(m, s) ==
  LET step == IF s.state \in Active
              THEN IF m.job # None THEN ActiveWithJob(m, s) ELSE ActiveWithoutJob(m, s)
              ELSE Terminal(m, s)
  IN [step EXCEPT !.machine.seq = IF s.seq # None THEN s.seq ELSE @]

\* What the rows of the table become.
Closed(rs, step) == IF step.close = None THEN rs ELSE Append(rs, step.close)
Written(rs, step) ==
  LET n == Len(rs) IN
  IF step.reopen THEN SubSeq(rs, 1, n - 1)
  ELSE Closed(IF step.amend = None THEN rs ELSE [rs EXCEPT ![n].result = step.amend], step)

-----------------------------------------------------------------------------
Quiet == <<now, counted, machine, rows, echoed>>
Mishap == trouble < MaxTrouble /\ trouble' = trouble + 1
\* Every report reaches RawReport on the MQTT thread while the link is up.
Reported == raw' = IF sight = "down" THEN raw ELSE NoteJobStart(raw, print'.doing, now)

Begin(late) ==
  /\ print.doing \in Idle /\ print.number < MaxPrints
  /\ late => print.run > 0
  /\ print' = [number |-> print.number + 1, run |-> 0, doing |-> "printing", code |-> None,
               echo |-> IF late THEN print.run ELSE None]
  /\ unseen' = IF sight = "down" \/ (late /\ ~counted /\ machine.job = None) THEN unseen \cup {print'.number} ELSE unseen
  /\ Reported /\ UNCHANGED <<Quiet, sight, trouble>>

Pause(code) ==
  /\ print.doing = "printing" /\ Mishap
  /\ print' = [print EXCEPT !.doing = "paused", !.code = code]
  /\ Reported /\ UNCHANGED <<Quiet, sight, unseen>>

Resume ==
  /\ print.doing = "paused" /\ sight # "down"
  /\ print' = [print EXCEPT !.doing = "printing", !.code = None]
  /\ Reported /\ UNCHANGED <<Quiet, sight, unseen, trouble>>

\* The print ends before its time, an error with or without a code.
Stop(how, code) ==
  /\ print.doing \in Active /\ Mishap
  /\ print' = [print EXCEPT !.doing = how, !.code = code, !.echo = None]
  /\ Reported /\ UNCHANGED <<Quiet, sight, unseen>>

\* The power goes: off until it comes back, paused where it was.
PowerLoss ==
  /\ print.doing = "printing" /\ sight = "up" /\ Mishap
  /\ print' = [print EXCEPT !.doing = "paused", !.code = "power"]
  /\ sight' = "down"
  /\ UNCHANGED <<Quiet, raw, unseen>>

Lose ==
  /\ sight = "up" /\ Mishap
  /\ sight' \in {"down", "blank"}
  /\ UNCHANGED <<Quiet, print, raw, unseen>>
Return ==
  /\ sight # "up" /\ sight' = "up"
  /\ raw' = NoteJobStart(raw, print.doing, now)
  /\ UNCHANGED <<Quiet, print, unseen, trouble>>

\* One poll: the print has run on, and its sample is fed.
RunOn ==
  IF print.doing # "printing" THEN print
  ELSE [print EXCEPT !.run = @ + 1, !.doing = IF print.run + 1 = Length THEN "finished" ELSE @,
                     !.echo = None]
\* No sample of this print was fed: a start behind a blank idle, whose job_seq is
\* used up there, or (no job_seq) one in an outage is out of sight too.
NeverFed(n) ==
  \A r \in Range(rows) \cup ({machine.job} \ {None}) : \A seen \in r.prints : seen[1] # n

\* Without job_seq a print that first shows the counters of the one before is told
\* apart by its next samples, unless a pause shows them for longer than a drop is
\* judged on, or an idle comes between.
EchoKept ==
  /\ ~counted /\ machine.job # None
  /\ <<print.number, 0>> \in machine.job.prints /\ <<print.number, 4>> \notin machine.job.prints
  /\ sight = "blank" \/ (print.echo # None /\ print.doing = "paused")

Poll ==
  /\ now < MaxTime
  /\ now' = now + 1
  /\ print' = RunOn
  /\ Reported
  /\ LET sample == Sample(now, print, sight = "blank")
         expired == Expire(machine, now)
         step == IF sight = "down" THEN Step(expired.machine) ELSE Fed(expired.machine, sample)
     IN /\ machine' = step.machine
        /\ rows' = Written(Closed(rows, expired), step)
  /\ unseen' = IF NeverFed(print.number) /\ (sight = "blank" \/ (sight = "down" /\ ~counted))
               THEN unseen \cup {print.number} ELSE unseen
  /\ echoed' = IF EchoKept THEN echoed \cup {print.number} ELSE echoed
  /\ UNCHANGED <<counted, sight, trouble>>

Init ==
  /\ now = 0 /\ counted \in BOOLEAN
  /\ print = [number |-> 0, run |-> 0, doing |-> "idle", code |-> None, echo |-> None]
  /\ sight = "up"
  /\ raw = [last |-> "idle", count |-> 0, begun |-> 0]
  /\ machine = [job |-> None, closed |-> None, drop |-> None, seq |-> None]
  /\ rows = <<>> /\ unseen = {} /\ echoed = {} /\ trouble = 0

Next ==
  \/ \E late \in BOOLEAN : Begin(late)
  \/ \E code \in {None, "hms"} : Pause(code)
  \/ Resume
  \/ \E how \in {"cancelled", "idle"} : Stop(how, None)
  \/ \E code \in {None, "err"} : Stop("error", code)
  \/ PowerLoss \/ Lose \/ Return \/ Poll

Spec == Init /\ [][Next]_vars

Time == Nat \cup {None}
Codes == {None, "hms", "power", "err"}
Samples == SUBSET (Nat \X Nat)
Jobs == [started : Nat, seen : Nat, lp : Time, le : Time, layer : Time, name : {None, "own", "same"},
         state : Active \cup {None}, pauseAt : Time, gap : Nat, why : Codes, paused : Nat, offline : Nat,
         powerAt : Time, prints : Samples]
Results == {"finished", "cancelled", "failed", "power_loss", "stopped", "lost"}
Closeds == [job : Jobs, at : Nat, base : Reopenable, final : BOOLEAN, blank : BOOLEAN]
Drops == [snap : Jobs, at : Nat, left : 1..2]
MachineStates == [job : Jobs \cup {None}, closed : Closeds \cup {None}, drop : Drops \cup {None}, seq : Time]
JobRows == [started : Nat, ended : Nat, paused : Nat, offline : Nat, result : Results, prints : Samples]

TypeOK ==
  /\ now \in 0..MaxTime /\ trouble \in 0..MaxTrouble /\ sight \in {"up", "down", "blank"}
  /\ counted \in BOOLEAN /\ unseen \subseteq 0..MaxPrints /\ echoed \subseteq 0..MaxPrints
  /\ print \in [number : 0..MaxPrints, run : 0..Length, doing : Active \cup Idle, code : Codes,
                 echo : 0..Length \cup {None}]
  /\ raw \in [last : {"idle", "work"}, count : Nat, begun : 0..MaxTime]
  /\ machine \in MachineStates
  /\ machine.job # None => machine.closed = None
  /\ machine.job = None => machine.drop = None
  /\ rows \in Seq(JobRows) /\ Len(rows) <= now

-----------------------------------------------------------------------------

\* A row holds the time of one print: of two prints that follow each other in one row
\* the later began out of sight (unseen), or (no job_seq, one name for both) one of
\* them was not seen at the progress that tells them apart, half done the first, just
\* begun the second, or is one of the others.
ToldApart(others) ==
  \A r \in Range(rows) : \A n, k \in r.prints :
    n[1] < k[1] /\ ~(\E j \in r.prints : n[1] < j[1] /\ j[1] < k[1]) =>
      \/ k[1] \in unseen \cup others
      \/ ~counted /\ Name(n[1]) = Name(k[1])
         /\ (<<n[1], 50>> \notin r.prints \/ <<k[1], 4>> \notin r.prints)

\* So it is, but for a print whose echo of the one before was kept (echoed).
OnePrintPerRow == ToldApart(echoed)

\* The module's first line: one row per print.  A progress drop is judged again on
\* the next samples, as the time left and the layers may come late.
EchoesJudged == ToldApart({})

\* The rows of a printer follow each other, and the pauses and the outages of a
\* print fit into it side by side.
TimesAddUp ==
  /\ \A r \in Range(rows) : r.started <= r.ended /\ r.paused + r.offline <= r.ended - r.started
  /\ \A i, k \in DOMAIN rows : i < k => rows[i].ended <= rows[k].started
  /\ rows # <<>> /\ machine.job # None => rows[Len(rows)].ended <= machine.job.started
=============================================================================

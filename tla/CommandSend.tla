----------------------------- MODULE CommandSend -----------------------------
(* printer_commands.py: how the threads that serve requests send a Bambu      *)
(* printer a filament change (load / unload) or an eject, and how its reply   *)
(* finds the one that waits for it.                                           *)
(*                                                                            *)
(* A sender looks at the live telemetry, claims the mark of its command,      *)
(* publishes, waits for the reply and gives the mark back when the command    *)
(* failed.  Time is counted in ticks; a sender is not held up for a tick      *)
(* between its claim and its publish, nor once its reply is in.               *)
EXTENDS Naturals, FiniteSets

CONSTANTS
  None,
  Senders,
  MaxCommands,   \* bound: loads and unloads published with no eject among them
  MaxMixed,      \* bound: commands published otherwise
  MaxDone,       \* bound: filament changes the printer finishes
  Window,        \* INFLIGHT_SECONDS and EJECT_GUARD_SECONDS, in ticks
  Wait           \* REPLY_TIMEOUT, in ticks

VARIABLES
  stage,      \* where each sender stands
  look,       \* what it read before: the kind of its command, changes_done, its number
  command,    \* the commands published so far, by sequence_id
  awaited,    \* _local_awaited: what the reply said, None yet, by sequence_id
  swapMark,   \* _ams_inflight of the printer
  ejectMark,  \* _eject_marks of the printer
  busy, done  \* the printer: a filament change runs; RawReport's changes_done

vars == <<stage, look, command, awaited, swapMark, ejectMark, busy, done>>

Kinds == {"swap", "eject"}
Verdicts == {"ok", "refused"}
Published == DOMAIN command
Nothing == [kind |-> None, seen |-> 0, seq |-> 0]

TypeOK ==
  /\ stage \in [Senders -> {"rest", "looked", "claimed", "waiting", "late", "failed"}]
  /\ look \in [Senders -> [kind : Kinds \cup {None}, seen : 0..MaxDone, seq : 0..MaxCommands]]
  /\ Published = 1..Cardinality(Published)
  /\ \A q \in Published :
       command[q] \in [seq : 1..MaxCommands, kind : Kinds, seen : 0..MaxDone, age : 0..Window,
                       verdict : Verdicts \cup {"out", "unsent"},
                       told : {None, "confirmed", "sent", "rejected"}]
  /\ DOMAIN awaited \subseteq Published
  /\ \A q \in DOMAIN awaited : awaited[q] \in Verdicts \cup {None}
  /\ swapMark \in [by : Senders, done : 0..MaxDone, age : 0..Window] \cup {None}
  /\ ejectMark \in [by : Senders, age : 0..Window] \cup {None}
  /\ busy \in BOOLEAN /\ done \in 0..MaxDone

-----------------------------------------------------------------------------
\* _inflight_held, for a reader that knows of `changes` finished changes.
SwapHeld(changes) == swapMark # None /\ swapMark.age < Window /\ ~(changes > swapMark.done)

EjectHeld == ejectMark # None /\ ejectMark.age < Window

\* The checks on the live telemetry that a filament change and an eject share.
\* A refused command changes nothing; the look drops a mark that is over.
LookAt(s, kind) ==
  /\ stage[s] = "rest"
  /\ Cardinality(Published) < MaxCommands
  /\ \/ Cardinality(Published) < MaxMixed
     \/ kind = "swap" /\ \A q \in Published : command[q].kind = "swap"
  /\ ~busy /\ ~SwapHeld(done)
  /\ stage' = [stage EXCEPT ![s] = "looked"]
  /\ look' = [look EXCEPT ![s] = [kind |-> kind, seen |-> IF kind = "swap" THEN done ELSE 0,
                                  seq |-> 0]]
  /\ swapMark' = None
  /\ UNCHANGED <<command, awaited, ejectMark, busy, done>>

\* _claim_inflight: check and set in one step, on the telemetry of the look.
ClaimSwap(s) ==
  /\ stage[s] = "looked" /\ look[s].kind = "swap"
  /\ IF SwapHeld(look[s].seen)
     THEN /\ stage' = [stage EXCEPT ![s] = "rest"]
          /\ look' = [look EXCEPT ![s] = Nothing]
          /\ UNCHANGED swapMark
     ELSE /\ stage' = [stage EXCEPT ![s] = "claimed"]
          /\ UNCHANGED look
          /\ swapMark' = [by |-> s, done |-> look[s].seen, age |-> 0]
  /\ UNCHANGED <<command, awaited, ejectMark, busy, done>>

\* _claim_eject.
ClaimEject(s) ==
  /\ stage[s] = "looked" /\ look[s].kind = "eject"
  /\ IF EjectHeld
     THEN /\ stage' = [stage EXCEPT ![s] = "rest"]
          /\ look' = [look EXCEPT ![s] = Nothing]
          /\ UNCHANGED ejectMark
     ELSE /\ stage' = [stage EXCEPT ![s] = "claimed"]
          /\ UNCHANGED look
          /\ ejectMark' = [by |-> s, age |-> 0]
  /\ UNCHANGED <<command, awaited, swapMark, busy, done>>

\* _next_seq: the builders leave a sequence_id of 0, the sender gives it its own.
NextSeq_Fault == 1
NextSeq == Cardinality(Published) + 1

\* _send_local up to the wait: the waiter is registered, then the command is
\* published; a publish that fails leaves no waiter.
Publish(s, sent) ==
  /\ stage[s] = "claimed"
  /\ Cardinality(Published) < MaxCommands
  /\ LET q == Cardinality(Published) + 1
     IN /\ command' = [p \in 1..q |-> IF p < q THEN command[p] ELSE
                        [seq |-> NextSeq, kind |-> look[s].kind, seen |-> look[s].seen,
                         age |-> IF sent THEN 0 ELSE Window,
                         verdict |-> IF sent THEN "out" ELSE "unsent",
                         told |-> IF sent THEN None ELSE "rejected"]]
        /\ look' = [look EXCEPT ![s].seq = q]
        /\ stage' = [stage EXCEPT ![s] = IF sent THEN "waiting" ELSE "failed"]
        /\ awaited' = IF sent
                      THEN [p \in DOMAIN awaited \cup {NextSeq} |->
                              IF p = NextSeq THEN None ELSE awaited[p]]
                      ELSE awaited
  /\ UNCHANGED <<swapMark, ejectMark, busy, done>>

\* The waiter of a sender is that of the sequence_id it sent.
Waiter(s) == command[look[s].seq].seq
Answered(s) == Waiter(s) \in DOMAIN awaited /\ awaited[Waiter(s)] # None
Forget(s) == [w \in DOMAIN awaited \ {Waiter(s)} |-> awaited[w]]

\* The wait ends with the reply.
Wake(s) ==
  /\ stage[s] = "waiting" /\ Answered(s)
  /\ LET accepted == awaited[Waiter(s)] = "ok"
     IN /\ command' = [command EXCEPT ![look[s].seq].told =
                          IF accepted THEN "confirmed" ELSE "rejected"]
        /\ stage' = [stage EXCEPT ![s] = IF accepted THEN "rest" ELSE "failed"]
        /\ look' = IF accepted THEN [look EXCEPT ![s] = Nothing] ELSE look
  /\ awaited' = Forget(s)
  /\ UNCHANGED <<swapMark, ejectMark, busy, done>>

\* The wait ends without one; the waiter is still registered.
TimeOut(s) ==
  /\ stage[s] = "waiting" /\ ~Answered(s)
  /\ command[look[s].seq].age >= Wait
  /\ stage' = [stage EXCEPT ![s] = "late"]
  /\ UNCHANGED <<look, command, awaited, swapMark, ejectMark, busy, done>>

\* `finally`: the waiter is dropped; what it got in between is not looked at.
Unanswered(s) ==
  /\ stage[s] = "late"
  /\ awaited' = Forget(s)
  /\ command' = [command EXCEPT ![look[s].seq].told = "sent"]
  /\ stage' = [stage EXCEPT ![s] = "rest"]
  /\ look' = [look EXCEPT ![s] = Nothing]
  /\ UNCHANGED <<swapMark, ejectMark, busy, done>>

\* _release_inflight: not a mark that a later claim put in its place.
ReleaseSwap_Fault(s) == None
ReleaseSwap(s) == IF swapMark # None /\ swapMark.by = s THEN None ELSE swapMark

\* _release_eject.
ReleaseEject(s) == IF ejectMark # None /\ ejectMark.by = s THEN None ELSE ejectMark

GiveBack(s) ==
  /\ stage[s] = "failed"
  /\ stage' = [stage EXCEPT ![s] = "rest"]
  /\ swapMark' = IF look[s].kind = "swap" THEN ReleaseSwap(s) ELSE swapMark
  /\ ejectMark' = IF look[s].kind = "eject" THEN ReleaseEject(s) ELSE ejectMark
  /\ UNCHANGED <<look, command, awaited, busy, done>>

-----------------------------------------------------------------------------
\* The printer takes or refuses a command, and its reply arrives: on the MQTT
\* thread note_local_reply fills the waiter of its sequence_id, if there still is
\* one.  A reply that is lost is one that never arrives.
Answer(q, v) ==
  LET seq == command[q].seq IN
  /\ command[q].verdict = "out"
  /\ command' = [command EXCEPT ![q].verdict = v, ![q].age = IF v = "ok" THEN @ ELSE Window]
  /\ awaited' = IF seq \in DOMAIN awaited THEN [awaited EXCEPT ![seq] = v] ELSE awaited
  /\ UNCHANGED <<stage, look, swapMark, ejectMark, busy, done>>

\* A filament change, of a command or from the printer's own screen.
ChangeBegins ==
  /\ ~busy /\ done < MaxDone
  /\ busy' = TRUE
  /\ UNCHANGED <<stage, look, command, awaited, swapMark, ejectMark, done>>

ChangeEnds ==
  /\ busy
  /\ busy' = FALSE /\ done' = done + 1
  /\ UNCHANGED <<stage, look, command, awaited, swapMark, ejectMark>>

Older(n) == IF n < Window THEN n + 1 ELSE n

Tick ==
  /\ \A s \in Senders : \/ stage[s] \in {"rest", "looked"}
                        \/ stage[s] = "waiting" /\ ~Answered(s) /\ command[look[s].seq].age < Wait
  /\ command' = [q \in Published |-> [command[q] EXCEPT !.age = Older(@)]]
  /\ swapMark' = IF swapMark = None THEN None ELSE [swapMark EXCEPT !.age = Older(@)]
  /\ ejectMark' = IF ejectMark = None THEN None ELSE [ejectMark EXCEPT !.age = Older(@)]
  /\ command' # command
  /\ UNCHANGED <<stage, look, awaited, busy, done>>

Init ==
  /\ stage = [s \in Senders |-> "rest"]
  /\ look = [s \in Senders |-> Nothing]
  /\ command = [q \in {} |-> Nothing]
  /\ awaited = [q \in {} |-> None]
  /\ swapMark = None /\ ejectMark = None
  /\ busy = FALSE /\ done = 0

Sender(s) ==
  \/ \E kind \in Kinds : LookAt(s, kind)
  \/ ClaimSwap(s) \/ ClaimEject(s)
  \/ \E sent \in BOOLEAN : Publish(s, sent)
  \/ Wake(s) \/ TimeOut(s) \/ Unanswered(s) \/ GiveBack(s)

Printer ==
  \/ \E q \in Published, v \in Verdicts : Answer(q, v)
  \/ ChangeBegins \/ ChangeEnds

Next == (\E s \in Senders : Sender(s)) \/ Printer \/ Tick

Spec == Init /\ [][Next]_vars

-----------------------------------------------------------------------------
\* A published command that may still move the printer: neither failed nor refused.
Alive(q) == command[q].verdict \in {"out", "ok"}
JustPublished(kind) == {q \in DOMAIN command' \ Published :
                          command'[q].kind = kind /\ command'[q].verdict = "out"}

\* While a load or unload that did not fail is less than INFLIGHT_SECONDS old, no
\* other one is published, unless the printer has finished a change since one of
\* the two looks: of two clicks only one is sent, whoever fails beside them.
NoSecondSwap ==
  [][\A q \in JustPublished("swap"), p \in Published :
       command[p].kind = "swap" /\ Alive(p) /\ command[p].age < Window
         => done > command[p].seen \/ done > command'[q].seen]_vars

\* Two ejects that both move the bed are at least EJECT_GUARD_SECONDS apart.
NoDoubleEject ==
  [][\A q \in JustPublished("eject"), p \in Published :
       command[p].kind = "eject" /\ Alive(p) => command[p].age >= Window]_vars

\* A sender is told what the printer said of its own command: a confirmation only
\* for an accepted one, a refusal only for a refused or unsent one.
ToldTruth ==
  \A q \in Published :
    /\ command[q].told = "confirmed" => command[q].verdict = "ok"
    /\ command[q].told = "rejected" => command[q].verdict \in {"refused", "unsent"}

\* Once a sender was told that its command failed, no mark of it stays behind:
\* the next attempt is not refused for a command that never was.
FailureFrees ==
  \A s \in Senders :
    stage[s] = "rest" /\ look[s].seq # 0
      => LET mark == IF look[s].kind = "swap" THEN swapMark ELSE ejectMark
         IN mark = None \/ mark.by # s
=============================================================================

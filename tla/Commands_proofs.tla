--------------------------- MODULE Commands_proofs ---------------------------
(***************************************************************************)
(* Proofs about the commands to a printer: their sending, the probe of the *)
(* firmware's protection, the fast refresh, the buttons of the             *)
(* notifications and the rules of what is sent, for any number of senders, *)
(* loops, units, commands, presses, changes and turns, any printers,       *)
(* parameters and spools, and every guard, reply, quiet and refresh time   *)
(* that Commands assumes.                                                  *)
(***************************************************************************)
EXTENDS Commands, FiniteSetTheorems, SequenceTheorems, WellFoundedInduction, TLAPS

(***************************************************************************)
(* Part 1.  CommandSend.                                                   *)
(***************************************************************************)

Sent ==
  [seq : 1..MaxCommands, kind : Send!Kinds, seen : 0..MaxDone, age : 0..Window,
   verdict : Send!Verdicts \cup {"out", "unsent"}, told : {None, "confirmed", "sent", "rejected"}]
Looks == [kind : Send!Kinds \cup {None}, seen : 0..MaxDone, seq : 0..MaxCommands]

-----------------------------------------------------------------------------
\* The counting of the instances is the counting of sets.
LEMMA SendCounts ==
  /\ \A S : Send!Cardinality(S) = Cardinality(S)
  /\ \A S : Send!IsFiniteSet(S) <=> IsFiniteSet(S)
BY DEF Send!Cardinality, Cardinality, Send!IsFiniteSet, IsFiniteSet

LEMMA RefreshCounts == \A S : Refresh!Cardinality(S) = Cardinality(S)
BY DEF Refresh!Cardinality, Cardinality

LEMMA TickAges == ASSUME SendConstants, NEW n \in 0..Window PROVE Send!Older(n) \in 0..Window /\ Send!Older(n) >= n
BY DEF Send!Older, SendConstants

\* What a publish adds.
LEMMA PublishAdds ==
  ASSUME SendConstants, Send!TypeOK, IsFiniteSet(Send!Published), NEW s \in Senders, NEW sent \in BOOLEAN, Send!Publish(s, sent),
         look[s].kind \in Send!Kinds
  PROVE  \E q \in 1..MaxCommands :
           /\ q \notin Send!Published /\ Send!Published' = Send!Published \cup {q} /\ Send!Published' = 1..Cardinality(Send!Published')
           /\ IsFiniteSet(Send!Published')
           /\ \A p \in Send!Published : command'[p] = command[p]
           /\ command'[q] \in Sent
           /\ command'[q].seq = q /\ command'[q].kind = look[s].kind /\ command'[q].seen = look[s].seen
           /\ IF sent THEN command'[q].age = 0 /\ command'[q].verdict = "out" /\ command'[q].told = None
              ELSE command'[q].age = Window /\ command'[q].verdict = "unsent" /\ command'[q].told = "rejected"
           /\ look' = [look EXCEPT ![s].seq = q]
           /\ IF sent THEN awaited' = [p \in DOMAIN awaited \cup {q} |-> IF p = q THEN None ELSE awaited[p]]
              ELSE awaited' = awaited
<1> DEFINE n == Cardinality(Send!Published)
           q == n + 1
           new == [seq |-> q, kind |-> look[s].kind, seen |-> look[s].seen, age |-> IF sent THEN 0 ELSE Window,
                   verdict |-> IF sent THEN "out" ELSE "unsent", told |-> IF sent THEN None ELSE "rejected"]
<1>1. n \in Nat /\ Send!Published = 1..n /\ n < MaxCommands
  BY SendCounts, FS_CardinalityType DEF Send!TypeOK, Send!Publish
<1>2. q \in 1..MaxCommands /\ Send!NextSeq = q /\ q \notin Send!Published
  BY SendCounts, <1>1 DEF Send!NextSeq, SendConstants
<1>3. command' = [p \in 1..q |-> IF p < q THEN command[p] ELSE new]
  BY SendCounts, <1>2 DEF Send!Publish
<1>4. Send!Published' = 1..q
  BY <1>3 DEF Send!Published
<1>5. 1..q = (1..n) \cup {q}
  BY <1>1
<1>6. Cardinality(Send!Published') = q /\ IsFiniteSet(Send!Published')
  BY <1>1, <1>4, FS_Interval
<1>7. command'[q] = new /\ \A p \in Send!Published : command'[p] = command[p]
  BY <1>1, <1>2, <1>3
<1>8. new \in Sent
  <2>1. look[s].seen \in 0..MaxDone
    BY DEF Send!TypeOK
  <2> QED
    BY <1>2, <2>1 DEF Sent, SendConstants, Send!Verdicts
<1>9. look' = [look EXCEPT ![s].seq = q]
  BY SendCounts, <1>2 DEF Send!Publish, Send!NextSeq
<1>10. IF sent THEN awaited' = [p \in DOMAIN awaited \cup {q} |-> IF p = q THEN None ELSE awaited[p]]
       ELSE awaited' = awaited
  BY <1>2 DEF Send!Publish
<1>11. Send!Published' = Send!Published \cup {q} /\ Send!Published' = 1..Cardinality(Send!Published')
  BY <1>1, <1>4, <1>5, <1>6
<1>12. /\ command'[q].seq = q /\ command'[q].kind = look[s].kind /\ command'[q].seen = look[s].seen
       /\ IF sent THEN command'[q].age = 0 /\ command'[q].verdict = "out" /\ command'[q].told = None
          ELSE command'[q].age = Window /\ command'[q].verdict = "unsent" /\ command'[q].told = "rejected"
  BY <1>7
<1>13. command'[q] \in Sent
  BY <1>7, <1>8
<1> HIDE DEF q, new
<1> QED
  BY <1>2, <1>6, <1>7, <1>9, <1>10, <1>11, <1>12, <1>13

LEMMA LooksTyped == ASSUME SendConstants PROVE Send!Nothing \in Looks /\ Send!Nothing.seq = 0 /\ Send!Nothing.kind = None
BY DEF Send!Nothing, Looks, SendConstants

\* A sender in a call has looked; the waiter of a sender is of its own command.
InCall == {"claimed", "waiting", "late", "failed"}
CallKnown ==
  /\ \A q \in Send!Published : command[q].seq = q
  /\ \A s \in Senders :
       /\ stage[s] \in {"looked", "claimed"} => look[s].kind \in Send!Kinds /\ look[s].seq = 0
       /\ stage[s] \in {"waiting", "late", "failed"} => look[s].kind \in Send!Kinds /\ look[s].seq \in Send!Published
       /\ stage[s] = "failed" => command[look[s].seq].verdict \in {"refused", "unsent"}
  /\ \A q \in DOMAIN awaited : awaited[q] \in {None, command[q].verdict}
Basic == Send!TypeOK /\ IsFiniteSet(Send!Published) /\ CallKnown /\ Send!ToldTruth /\ (busy => done < MaxDone)

LEMMA InitBasic == ASSUME SendConstants, Send!Init PROVE Basic
<1>1. Send!Published = {} /\ DOMAIN awaited = {}
  BY DEF Send!Init, Send!Published
<1>2. Cardinality(Send!Published) = 0 /\ IsFiniteSet(Send!Published)
  BY <1>1, FS_EmptySet
<1>3. Send!Published = 1..Cardinality(Send!Published)
  BY <1>1, <1>2
<1>4. look \in [Senders -> Looks] /\ stage \in [Senders -> {"rest"}]
  BY LooksTyped DEF Send!Init
<1>5. done \in 0..MaxDone /\ swapMark = None /\ ejectMark = None
  BY DEF Send!Init, SendConstants
<1>7. busy \in BOOLEAN
  BY Zenon DEF Send!Init
<1>6. Send!TypeOK
  BY SendCounts, <1>1, <1>3, <1>4, <1>5, <1>7 DEF Send!TypeOK, Looks
<1> QED
  BY <1>1, <1>2, <1>6 DEF Basic, CallKnown, Send!ToldTruth, Send!Init

\* A step that publishes nothing and lets no time pass keeps what a command is.
Steady ==
  /\ Send!Published' = Send!Published
  /\ \A q \in Send!Published :
       /\ command'[q].kind = command[q].kind /\ command'[q].seen = command[q].seen
       /\ Send!Alive(q)' => Send!Alive(q) /\ command'[q].age = command[q].age
\* No sender enters a call of that kind.
Follows(kind) ==
  \A s \in Senders :
    stage'[s] \in InCall /\ look'[s].kind = kind
      => /\ stage[s] \in InCall /\ look'[s] = look[s]
         /\ stage'[s] = "claimed" => stage[s] = "claimed"

-----------------------------------------------------------------------------
LEMMA LookStep ==
  ASSUME SendConstants, Basic, NEW s \in Senders, NEW kind \in Send!Kinds, Send!LookAt(s, kind)
  PROVE  Basic' /\ Steady /\ Follows("eject") /\ Follows("swap")
<1>1. /\ stage' = [stage EXCEPT ![s] = "looked"] /\ UNCHANGED <<command, awaited, ejectMark, busy, done>>
      /\ look'[s].kind = kind /\ look'[s].seq = 0 /\ look' \in [Senders -> Looks] /\ swapMark' = None
      /\ \A t \in Senders \ {s} : look'[t] = look[t]
  BY DEF Send!LookAt, Basic, Send!TypeOK, Looks, SendConstants
<1>2. Send!TypeOK' /\ IsFiniteSet(Send!Published)'
  BY <1>1 DEF Basic, Send!TypeOK, Send!Published, Looks
<1>3. CallKnown' /\ Send!ToldTruth'
  BY <1>1 DEF Basic, Send!TypeOK, CallKnown, Send!ToldTruth, Send!Published
<1>4. Steady
  BY <1>1 DEF Steady, Send!Published, Send!Alive
<1>5. Follows("eject") /\ Follows("swap")
  BY <1>1 DEF Follows, InCall, Basic, Send!TypeOK
<1> QED
  BY <1>1, <1>2, <1>3, <1>4, <1>5 DEF Basic

LEMMA ClaimStep ==
  ASSUME SendConstants, Basic, NEW s \in Senders, Send!ClaimSwap(s) \/ Send!ClaimEject(s)
  PROVE  /\ Basic' /\ Steady
         /\ Send!ClaimSwap(s) => Follows("eject")
         /\ Send!ClaimEject(s) => Follows("swap")
<1>1. /\ stage' = [stage EXCEPT ![s] = stage'[s]] /\ UNCHANGED <<command, awaited, busy, done>>
      /\ \/ stage'[s] = "rest" /\ look' = [look EXCEPT ![s] = Send!Nothing]
         \/ stage'[s] = "claimed" /\ look' = look
      /\ stage[s] = "looked"
  BY DEF Send!ClaimSwap, Send!ClaimEject, Basic, Send!TypeOK
<1>2. /\ swapMark' \in SwapMarks \cup {None} /\ ejectMark' \in EjectMarks \cup {None}
  BY DEF Send!ClaimSwap, Send!ClaimEject, Basic, Send!TypeOK, SwapMarks, EjectMarks, SendConstants
<1>3. Send!TypeOK' /\ IsFiniteSet(Send!Published)'
  <2>0. look \in [Senders -> Looks] /\ look' \in {look, [look EXCEPT ![s] = Send!Nothing]}
    BY <1>1 DEF Basic, Send!TypeOK, Looks
  <2>a. look' \in [Senders -> Looks]
    BY <2>0, LooksTyped
  <2>1. stage' \in [Senders -> {"rest", "looked", "claimed", "waiting", "late", "failed"}]
    BY <1>1 DEF Basic, Send!TypeOK
  <2> QED
    BY <1>1, <1>2, <2>a, <2>1 DEF Basic, Send!TypeOK, Send!Published, Looks, SwapMarks, EjectMarks
<1>4. CallKnown' /\ Send!ToldTruth'
  BY <1>1 DEF Basic, Send!TypeOK, CallKnown, Send!ToldTruth, Send!Published
<1>5. Steady
  BY <1>1 DEF Steady, Send!Published, Send!Alive
<1>6. Send!ClaimSwap(s) => Follows("eject")
  BY <1>1, LooksTyped DEF Follows, InCall, Basic, Send!TypeOK, Send!ClaimSwap
<1>7. Send!ClaimEject(s) => Follows("swap")
  BY <1>1, LooksTyped DEF Follows, InCall, Basic, Send!TypeOK, Send!ClaimEject
<1> QED
  BY <1>1, <1>3, <1>4, <1>5, <1>6, <1>7 DEF Basic

LEMMA PublishStep ==
  ASSUME SendConstants, Basic, NEW s \in Senders, NEW sent \in BOOLEAN, Send!Publish(s, sent)
  PROVE  Basic'
<1>1. look[s].kind \in Send!Kinds /\ stage[s] = "claimed"
  BY DEF Basic, CallKnown, Send!Publish
<1>2. PICK q \in 1..MaxCommands :
           /\ q \notin Send!Published /\ Send!Published' = Send!Published \cup {q} /\ Send!Published' = 1..Cardinality(Send!Published')
           /\ IsFiniteSet(Send!Published')
           /\ \A p \in Send!Published : command'[p] = command[p]
           /\ command'[q] \in Sent
           /\ command'[q].seq = q /\ command'[q].kind = look[s].kind /\ command'[q].seen = look[s].seen
           /\ IF sent THEN command'[q].age = 0 /\ command'[q].verdict = "out" /\ command'[q].told = None
              ELSE command'[q].age = Window /\ command'[q].verdict = "unsent" /\ command'[q].told = "rejected"
           /\ look' = [look EXCEPT ![s].seq = q]
           /\ IF sent THEN awaited' = [p \in DOMAIN awaited \cup {q} |-> IF p = q THEN None ELSE awaited[p]]
              ELSE awaited' = awaited
  BY <1>1, PublishAdds DEF Basic
<1>3. stage' = [stage EXCEPT ![s] = IF sent THEN "waiting" ELSE "failed"] /\ UNCHANGED <<swapMark, ejectMark, busy, done>>
  BY DEF Send!Publish
<1>4. Send!TypeOK'
  <2>1. look' \in [Senders -> [kind : Send!Kinds \cup {None}, seen : 0..MaxDone, seq : 0..MaxCommands]]
    <3>1. q \in 0..MaxCommands
      BY DEF SendConstants
    <3> QED
      BY <1>2, <3>1 DEF Basic, Send!TypeOK
  <2>2. \A p \in Send!Published' : command'[p] \in Sent
    BY <1>2 DEF Basic, Send!TypeOK, Sent
  <2>3. DOMAIN awaited' \subseteq Send!Published' /\ \A p \in DOMAIN awaited' : awaited'[p] \in Send!Verdicts \cup {None}
    BY <1>2 DEF Basic, Send!TypeOK
  <2>4. stage' \in [Senders -> {"rest", "looked", "claimed", "waiting", "late", "failed"}]
    BY <1>3 DEF Basic, Send!TypeOK
  <2> QED
    BY SendCounts, <1>2, <1>3, <2>1, <2>2, <2>3, <2>4 DEF Basic, Send!TypeOK, Sent
<1>5. CallKnown'
  <2>1. \A p \in Send!Published' : command'[p].seq = p
    BY <1>2 DEF Basic, CallKnown
  <2>2. \A p \in DOMAIN awaited' : awaited'[p] \in {None, command'[p].verdict}
    BY <1>2 DEF Basic, CallKnown, Send!TypeOK
  <2>3. /\ look'[s].kind \in Send!Kinds /\ look'[s].seq = q /\ stage'[s] = (IF sent THEN "waiting" ELSE "failed")
    BY <1>1, <1>2, <1>3 DEF Basic, Send!TypeOK
  <2>4. \A t \in Senders \ {s} : look'[t] = look[t] /\ stage'[t] = stage[t]
    BY <1>2, <1>3 DEF Basic, Send!TypeOK
  <2> QED
    BY <1>2, <2>1, <2>2, <2>3, <2>4 DEF Basic, CallKnown
<1>6. Send!ToldTruth'
  BY <1>2 DEF Basic, Send!ToldTruth, SendConstants
<1> QED
  BY <1>2, <1>3, <1>4, <1>5, <1>6 DEF Basic

\* The waiter of a sender that waits is that of its own command.
LEMMA OwnWaiter ==
  ASSUME Basic, NEW s \in Senders, stage[s] \in {"waiting", "late", "failed"}
  PROVE  look[s].seq \in Send!Published /\ Send!Waiter(s) = look[s].seq
BY DEF Basic, CallKnown, Send!Waiter

LEMMA ForgetKeeps ==
  ASSUME Basic, NEW s \in Senders, awaited' = Send!Forget(s)
  PROVE  DOMAIN awaited' \subseteq DOMAIN awaited /\ \A q \in DOMAIN awaited' : awaited'[q] = awaited[q]
BY DEF Send!Forget

\* Of a command only what its sender was told changes.
LEMMA TellStep ==
  ASSUME SendConstants, Basic, NEW s \in Senders, NEW words \in {"confirmed", "sent", "rejected"},
         stage[s] \in {"waiting", "late"},
         command' = [command EXCEPT ![look[s].seq].told = words],
         words = "confirmed" => command[look[s].seq].verdict = "ok",
         words = "rejected" => command[look[s].seq].verdict \in {"refused", "unsent"},
         \/ stage' = [stage EXCEPT ![s] = "rest"] /\ look' = [look EXCEPT ![s] = Send!Nothing]
         \/ stage' = [stage EXCEPT ![s] = "failed"] /\ look' = look /\ words = "rejected",
         awaited' = Send!Forget(s), UNCHANGED <<swapMark, ejectMark, busy, done>>
  PROVE  Basic' /\ Steady /\ Follows("eject") /\ Follows("swap")
<1> DEFINE own == look[s].seq
<1>1. own \in Send!Published
  BY OwnWaiter
<1>2. /\ Send!Published' = Send!Published
      /\ \A q \in Send!Published : /\ command'[q].kind = command[q].kind /\ command'[q].seen = command[q].seen
                               /\ command'[q].seq = command[q].seq /\ command'[q].verdict = command[q].verdict
                               /\ command'[q].age = command[q].age
                               /\ q # own => command'[q] = command[q]
      /\ command'[own].told = words
  BY <1>1 DEF Send!Published, Basic, Send!TypeOK
<1>3. \A q \in Send!Published : command'[q] \in Sent
  <2>1. \A q \in Send!Published : command[q] \in Sent
    BY DEF Basic, Send!TypeOK, Sent
  <2> QED
    BY <1>1, <2>1 DEF Sent, Send!Published
<1>4. Send!TypeOK'
  <2>0. look \in [Senders -> Looks] /\ look' \in {look, [look EXCEPT ![s] = Send!Nothing]}
    BY DEF Basic, Send!TypeOK, Looks
  <2>a. look' \in [Senders -> Looks]
    BY <2>0, LooksTyped
  <2>b. stage' \in [Senders -> {"rest", "looked", "claimed", "waiting", "late", "failed"}]
    BY DEF Basic, Send!TypeOK
  <2>2. DOMAIN awaited' \subseteq Send!Published' /\ \A q \in DOMAIN awaited' : awaited'[q] \in Send!Verdicts \cup {None}
    BY <1>2, ForgetKeeps DEF Basic, Send!TypeOK
  <2> QED
    BY <1>2, <1>3, <2>a, <2>b, <2>2 DEF Basic, Send!TypeOK, Sent, Looks
<1>5. CallKnown'
  <2>1. \A q \in DOMAIN awaited' : awaited'[q] \in {None, command'[q].verdict}
    BY <1>2, ForgetKeeps DEF Basic, Send!TypeOK, CallKnown
  <2>2. /\ stage'[s] \in {"rest", "failed"}
        /\ stage'[s] = "failed" => look' = look /\ command'[look[s].seq].verdict \in {"refused", "unsent"}
    BY <1>1, <1>2 DEF Basic, Send!TypeOK
  <2>3. \A u \in Senders \ {s} : look'[u] = look[u] /\ stage'[u] = stage[u]
    BY DEF Basic, Send!TypeOK
  <2> QED
    BY <1>1, <1>2, <2>1, <2>2, <2>3 DEF Basic, CallKnown
<1>6. Send!ToldTruth'
  BY <1>1, <1>2 DEF Basic, Send!ToldTruth
<1>7. Steady
  BY <1>2 DEF Steady, Send!Alive
<1>8. Follows("eject") /\ Follows("swap")
  BY LooksTyped DEF Follows, InCall, Basic, Send!TypeOK
<1> QED
  BY <1>2, <1>4, <1>5, <1>6, <1>7, <1>8 DEF Basic

LEMMA WaitStep ==
  ASSUME SendConstants, Basic, NEW s \in Senders, Send!Wake(s) \/ Send!TimeOut(s) \/ Send!Unanswered(s)
  PROVE  Basic' /\ Steady /\ Follows("eject") /\ Follows("swap") /\ UNCHANGED <<swapMark, ejectMark, done>>
<1>1. CASE Send!Wake(s)
  <2> DEFINE words == IF awaited[Send!Waiter(s)] = "ok" THEN "confirmed" ELSE "rejected"
  <2>1. awaited[Send!Waiter(s)] \in Send!Verdicts /\ awaited[Send!Waiter(s)] = command[look[s].seq].verdict
    BY <1>1, OwnWaiter DEF Send!Wake, Send!Answered, Basic, Send!TypeOK, CallKnown
  <2>2. /\ words \in {"confirmed", "sent", "rejected"}
        /\ words = "confirmed" => command[look[s].seq].verdict = "ok"
        /\ words = "rejected" => command[look[s].seq].verdict \in {"refused", "unsent"}
    BY <2>1 DEF Send!Verdicts
  <2>3. /\ stage[s] \in {"waiting", "late"}
        /\ command' = [command EXCEPT ![look[s].seq].told = words]
        /\ awaited' = Send!Forget(s) /\ UNCHANGED <<swapMark, ejectMark, busy, done>>
        /\ \/ stage' = [stage EXCEPT ![s] = "rest"] /\ look' = [look EXCEPT ![s] = Send!Nothing]
           \/ stage' = [stage EXCEPT ![s] = "failed"] /\ look' = look /\ words = "rejected"
    BY <1>1 DEF Send!Wake
  <2> HIDE DEF words
  <2> QED
    BY <2>2, <2>3, TellStep
<1>2. CASE Send!TimeOut(s)
  <2>1. /\ stage[s] = "waiting" /\ stage' = [stage EXCEPT ![s] = "late"]
        /\ UNCHANGED <<look, command, awaited, swapMark, ejectMark, busy, done>>
    BY <1>2 DEF Send!TimeOut
  <2>2. Send!TypeOK' /\ IsFiniteSet(Send!Published)' /\ CallKnown' /\ Send!ToldTruth'
    BY <2>1 DEF Basic, Send!TypeOK, Send!Published, CallKnown, Send!ToldTruth
  <2> QED
    BY <2>1, <2>2 DEF Basic, Send!TypeOK, Steady, Follows, Send!Published, Send!Alive, InCall
<1>3. CASE Send!Unanswered(s)
  <2>1. /\ stage[s] \in {"waiting", "late"}
        /\ command' = [command EXCEPT ![look[s].seq].told = "sent"]
        /\ awaited' = Send!Forget(s) /\ UNCHANGED <<swapMark, ejectMark, busy, done>>
        /\ stage' = [stage EXCEPT ![s] = "rest"] /\ look' = [look EXCEPT ![s] = Send!Nothing]
    BY <1>3 DEF Send!Unanswered
  <2> QED
    BY <2>1, TellStep
<1> QED
  BY <1>1, <1>2, <1>3

LEMMA ReturnStep ==
  ASSUME SendConstants, Basic, NEW s \in Senders, Send!GiveBack(s)
  PROVE  Basic' /\ Steady /\ Follows("eject") /\ Follows("swap")
<1>1. /\ stage[s] = "failed" /\ stage' = [stage EXCEPT ![s] = "rest"]
      /\ UNCHANGED <<look, command, awaited, busy, done>>
      /\ swapMark' \in {swapMark, None} /\ ejectMark' \in {ejectMark, None}
  BY DEF Send!GiveBack, Send!ReleaseSwap, Send!ReleaseEject
<1>2. Send!Published' = Send!Published
  BY <1>1 DEF Send!Published
<1>3. Send!TypeOK'
  BY <1>1, <1>2 DEF Basic, Send!TypeOK
<1>4. CallKnown'
  BY <1>1, <1>2 DEF Basic, Send!TypeOK, CallKnown
<1>5. IsFiniteSet(Send!Published)' /\ Send!ToldTruth'
  BY <1>1, <1>2 DEF Basic, Send!ToldTruth
<1>6. Basic'
  BY <1>1, <1>3, <1>4, <1>5 DEF Basic
<1> QED
  BY <1>1, <1>2, <1>6 DEF Basic, Send!TypeOK, Steady, Follows, Send!Alive, InCall

LEMMA AnswerStep ==
  ASSUME SendConstants, Basic, NEW q \in Send!Published, NEW v \in Send!Verdicts, Send!Answer(q, v)
  PROVE  Basic' /\ Steady /\ Follows("eject") /\ Follows("swap")
<1>1. /\ command[q].verdict = "out" /\ command[q].seq = q
      /\ command' = [command EXCEPT ![q].verdict = v, ![q].age = IF v = "ok" THEN @ ELSE Window]
      /\ awaited' = IF q \in DOMAIN awaited THEN [awaited EXCEPT ![q] = v] ELSE awaited
      /\ UNCHANGED <<stage, look, swapMark, ejectMark, busy, done>>
  BY DEF Send!Answer, Basic, CallKnown
<1>2. PICK n \in 0..Window : (v = "ok" => n = command[q].age)
                            /\ command' = [command EXCEPT ![q].verdict = v, ![q].age = n]
  <2> DEFINE n == IF v = "ok" THEN command[q].age ELSE Window
  <2>1. n \in 0..Window
    BY DEF Basic, Send!TypeOK, SendConstants
  <2>2. command' = [command EXCEPT ![q].verdict = v, ![q].age = n]
    BY <1>1
  <2>3. v = "ok" => n = command[q].age
    OBVIOUS
  <2> HIDE DEF n
  <2> QED
    BY <2>1, <2>2, <2>3
<1>3. \A p \in Send!Published : command[p] \in Sent
  BY DEF Basic, Send!TypeOK, Sent
<1>4. /\ Send!Published' = Send!Published
      /\ \A p \in Send!Published \ {q} : command'[p] = command[p]
      /\ command'[q] = [command[q] EXCEPT !.verdict = v, !.age = n]
  BY <1>2 DEF Send!Published
<1>5. /\ command'[q].kind = command[q].kind /\ command'[q].seen = command[q].seen /\ command'[q].seq = command[q].seq
      /\ command'[q].told = command[q].told /\ command'[q].verdict = v /\ command'[q].age = n
      /\ command'[q] \in Sent
  BY <1>3, <1>4 DEF Sent
<1>6. Send!TypeOK'
  <2>1. DOMAIN awaited' \subseteq Send!Published' /\ \A p \in DOMAIN awaited' : awaited'[p] \in Send!Verdicts \cup {None}
    BY <1>1, <1>4 DEF Basic, Send!TypeOK
  <2>2. \A p \in Send!Published' : command'[p] \in Sent
    BY <1>3, <1>4, <1>5
  <2> QED
    BY <1>1, <1>4, <2>1, <2>2 DEF Basic, Send!TypeOK, Sent
<1>7. CallKnown'
  <2>1. \A p \in DOMAIN awaited' : awaited'[p] \in {None, command'[p].verdict}
    <3> SUFFICES ASSUME NEW p \in DOMAIN awaited' PROVE awaited'[p] \in {None, command'[p].verdict}
      OBVIOUS
    <3>1. p \in DOMAIN awaited /\ p \in Send!Published /\ awaited[p] \in {None, command[p].verdict}
      BY <1>1 DEF Basic, Send!TypeOK, CallKnown
    <3>2. CASE p = q
      BY <1>1, <1>5, <3>1, <3>2
    <3>3. CASE p # q
      BY <1>1, <1>4, <3>1, <3>3
    <3> QED
      BY <3>2, <3>3
  <2>2. \A s \in Senders : stage[s] = "failed" => look[s].seq \in Send!Published \ {q}
    BY <1>1 DEF Basic, CallKnown
  <2>3. \A p \in Send!Published : command'[p].seq = p
    BY <1>4, <1>5 DEF Basic, CallKnown
  <2> QED
    <3>1. \A s \in Senders :
            /\ stage[s] \in {"looked", "claimed"} => look[s].kind \in Send!Kinds /\ look[s].seq = 0
            /\ stage[s] \in {"waiting", "late", "failed"} => look[s].kind \in Send!Kinds /\ look[s].seq \in Send!Published
            /\ stage[s] = "failed" => command'[look[s].seq].verdict \in {"refused", "unsent"}
      BY <1>4, <2>2 DEF Basic, CallKnown
    <3> QED
      BY <1>1, <1>4, <2>1, <2>3, <3>1 DEF CallKnown
<1>8. Send!ToldTruth'
  <2>1. \A p \in Send!Published \ {q} : command'[p].told = command[p].told /\ command'[p].verdict = command[p].verdict
    BY <1>4
  <2>2. command[q].verdict = "out" /\ command'[q].told = command[q].told /\ command[q].told \notin {"confirmed", "rejected"}
    BY <1>1, <1>5 DEF Basic, Send!ToldTruth
  <2>3. \A p \in Send!Published :
          /\ command'[p].told = "confirmed" => command'[p].verdict = "ok"
          /\ command'[p].told = "rejected" => command'[p].verdict \in {"refused", "unsent"}
    <3> SUFFICES ASSUME NEW p \in Send!Published
                 PROVE  /\ command'[p].told = "confirmed" => command'[p].verdict = "ok"
                        /\ command'[p].told = "rejected" => command'[p].verdict \in {"refused", "unsent"}
      OBVIOUS
    <3>1. CASE p = q
      BY <2>2, <3>1
    <3>2. CASE p # q
      BY <2>1, <3>2 DEF Basic, Send!ToldTruth
    <3> QED
      BY <3>1, <3>2
  <2> QED
    BY <1>4, <2>3 DEF Send!ToldTruth
<1>9. Steady
  BY <1>1, <1>2, <1>4, <1>5 DEF Steady, Send!Alive, Send!Verdicts
<1> QED
  BY <1>1, <1>4, <1>6, <1>7, <1>8, <1>9 DEF Basic, Follows, InCall

LEMMA ChangeStep ==
  ASSUME SendConstants, Basic, Send!ChangeBegins \/ Send!ChangeEnds
  PROVE  Basic' /\ Steady /\ Follows("eject") /\ Follows("swap") /\ done' \in {done, done + 1}
<1>1. busy' \in BOOLEAN
  BY Zenon DEF Send!ChangeBegins, Send!ChangeEnds
<1>2. UNCHANGED <<stage, look, command, awaited, swapMark, ejectMark>> /\ done' \in {done, done + 1}
  BY DEF Send!ChangeBegins, Send!ChangeEnds
<1> QED
  <2>1. busy' => done' < MaxDone
    BY DEF Send!ChangeBegins, Send!ChangeEnds, Basic, Send!TypeOK
  <2>2. done' \in 0..MaxDone
    BY DEF Send!ChangeBegins, Send!ChangeEnds, Basic, Send!TypeOK, SendConstants
  <2>3. Send!TypeOK' /\ IsFiniteSet(Send!Published)' /\ CallKnown' /\ Send!ToldTruth'
    BY <1>1, <1>2, <2>2 DEF Basic, Send!TypeOK, CallKnown, Send!ToldTruth, Send!Published
  <2>4. Steady /\ Follows("eject") /\ Follows("swap")
    BY <1>2 DEF Steady, Follows, Send!Published, Send!Alive, InCall
  <2> QED
    BY <1>2, <2>1, <2>3, <2>4 DEF Basic

LEMMA TickStep ==
  ASSUME SendConstants, Basic, Send!Tick
  PROVE  /\ Basic' /\ Send!Published' = Send!Published /\ UNCHANGED <<stage, look, done>>
         /\ \A q \in Send!Published :
              /\ command'[q].kind = command[q].kind /\ command'[q].seen = command[q].seen
              /\ command'[q].verdict = command[q].verdict /\ command'[q].age = Send!Older(command[q].age)
         /\ \A s \in Senders : stage[s] \notin {"claimed", "failed"}
<1>1. /\ command' = [q \in Send!Published |-> [command[q] EXCEPT !.age = Send!Older(@)]]
      /\ UNCHANGED <<stage, look, awaited, busy, done>>
      /\ \A s \in Senders : stage[s] \notin {"claimed", "failed"}
  BY DEF Send!Tick
<1>2. Send!Published' = Send!Published
  BY <1>1 DEF Send!Published
<1>3. \A q \in Send!Published :
        /\ command'[q].kind = command[q].kind /\ command'[q].seen = command[q].seen /\ command'[q].seq = command[q].seq
        /\ command'[q].verdict = command[q].verdict /\ command'[q].told = command[q].told
        /\ command'[q].age = Send!Older(command[q].age) /\ command'[q] \in Sent
  <2> SUFFICES ASSUME NEW q \in Send!Published
               PROVE  /\ command'[q].kind = command[q].kind /\ command'[q].seen = command[q].seen
                      /\ command'[q].seq = command[q].seq
                      /\ command'[q].verdict = command[q].verdict /\ command'[q].told = command[q].told
                      /\ command'[q].age = Send!Older(command[q].age) /\ command'[q] \in Sent
    OBVIOUS
  <2>1. command[q] \in Sent
    BY DEF Basic, Send!TypeOK, Sent
  <2>2. Send!Older(command[q].age) \in 0..Window
    BY <2>1, TickAges DEF Sent
  <2>3. command'[q] = [command[q] EXCEPT !.age = Send!Older(command[q].age)]
    BY <1>1
  <2> QED
    BY <2>1, <2>2, <2>3 DEF Sent
<1>4. swapMark' \in SwapMarks \cup {None}
  <2>1. CASE swapMark # None
    <3>1. swapMark \in SwapMarks /\ Send!Older(swapMark.age) \in 0..Window
      BY <2>1, TickAges DEF Basic, Send!TypeOK, SwapMarks
    <3> QED
      BY <2>1, <3>1 DEF Send!Tick, SwapMarks
  <2> QED
    BY <2>1 DEF Send!Tick
<1>5. ejectMark' \in EjectMarks \cup {None}
  <2>1. CASE ejectMark # None
    <3>1. ejectMark \in EjectMarks /\ Send!Older(ejectMark.age) \in 0..Window
      BY <2>1, TickAges DEF Basic, Send!TypeOK, EjectMarks
    <3> QED
      BY <2>1, <3>1 DEF Send!Tick, EjectMarks
  <2> QED
    BY <2>1 DEF Send!Tick
<1>6. Send!TypeOK'
  BY <1>1, <1>2, <1>3, <1>4, <1>5 DEF Basic, Send!TypeOK, Sent, SwapMarks, EjectMarks
<1>7. CallKnown'
  <2>1. \A q \in DOMAIN awaited' : awaited'[q] \in {None, command'[q].verdict}
    BY <1>1, <1>3 DEF Basic, Send!TypeOK, CallKnown
  <2> QED
    BY <1>1, <1>2, <1>3, <2>1 DEF Basic, CallKnown
<1>8. Send!ToldTruth'
  BY <1>2, <1>3 DEF Basic, Send!ToldTruth
<1> QED
  BY <1>1, <1>2, <1>3, <1>6, <1>7, <1>8 DEF Basic

\* Every step keeps what all the results rest on.
LEMMA BasicStep == ASSUME SendConstants, Basic, [Send!Next]_(Send!vars) PROVE Basic'
<1>1. CASE Send!Tick
  BY <1>1, TickStep
<1>2. ASSUME NEW s \in Senders, Send!Sender(s) PROVE Basic'
  <2>1. ASSUME NEW kind \in Send!Kinds, Send!LookAt(s, kind) PROVE Basic'
    BY <2>1, LookStep
  <2>2. CASE Send!ClaimSwap(s) \/ Send!ClaimEject(s)
    BY <2>2, ClaimStep
  <2>3. ASSUME NEW sent \in BOOLEAN, Send!Publish(s, sent) PROVE Basic'
    BY <2>3, PublishStep
  <2>4. CASE Send!Wake(s) \/ Send!TimeOut(s) \/ Send!Unanswered(s)
    BY <2>4, WaitStep
  <2>5. CASE Send!GiveBack(s)
    BY <2>5, ReturnStep
  <2> QED
    BY <1>2, <2>1, <2>2, <2>3, <2>4, <2>5 DEF Send!Sender
<1>3. CASE Send!Printer
  BY <1>3, AnswerStep, ChangeStep DEF Send!Printer
<1>4. CASE UNCHANGED Send!vars
  BY <1>4 DEF Send!vars, Basic, Send!TypeOK, CallKnown, Send!ToldTruth, Send!Published
<1> QED
  BY <1>1, <1>2, <1>3, <1>4 DEF Send!Next

\* The types hold.
THEOREM SendTypeCorrect == ASSUME SendConstants PROVE Send!Spec => []Send!TypeOK
<1>1. Basic => Send!TypeOK
  BY DEF Basic
<1> QED
  BY <1>1, InitBasic, BasicStep, PTL DEF Send!Spec

\* A sender is told what the printer said of its own command, however late, lost
\* or mixed with the replies to others the reply is.
THEOREM ToldIsTrue == ASSUME SendConstants PROVE Send!Spec => []Send!ToldTruth
<1>1. Basic => Send!ToldTruth
  BY DEF Basic
<1> QED
  BY <1>1, InitBasic, BasicStep, PTL DEF Send!Spec

-----------------------------------------------------------------------------
\* A command that may still move the printer and is less than the guard old.
Young(q, kind) == command[q].kind = kind /\ Send!Alive(q) /\ command[q].age < Window

LEMMA YoungStays ==
  ASSUME Basic, NEW kind, Steady \/ Send!Tick, SendConstants, NEW q \in Send!Published, Young(q, kind)'
  PROVE  Young(q, kind) /\ command'[q].seen = command[q].seen /\ q \in Send!Published'
         /\ command'[q].age = (IF Steady THEN command[q].age ELSE Send!Older(command[q].age))
         /\ command[q].age \in 0..Window
<1>1. command[q].age \in 0..Window
  BY DEF Basic, Send!TypeOK
<1>2. CASE Steady
  BY <1>1, <1>2 DEF Steady, Young
<1>3. CASE Send!Tick /\ ~Steady
  BY <1>1, <1>3, TickStep, TickAges DEF Young, Send!Alive, SendConstants
<1> QED
  BY <1>2, <1>3

\* What a publish adds to the young commands: its own, if it was sent.
LEMMA PublishYoung ==
  ASSUME SendConstants, Basic, NEW s \in Senders, NEW sent \in BOOLEAN, Send!Publish(s, sent)
  PROVE  \E own \in Send!Published' \ Send!Published :
           /\ Send!Published' = Send!Published \cup {own} /\ look'[s].seq = own
           /\ look'[s].kind = look[s].kind /\ look'[s].seen = look[s].seen
           /\ command'[own].kind = look[s].kind /\ command'[own].seen = look[s].seen
           /\ \A kind : Young(own, kind)' => command'[own].age = 0
           /\ \A q \in Send!Published : command'[q] = command[q]
           /\ \A t \in Senders \ {s} : stage'[t] = stage[t] /\ look'[t] = look[t]
           /\ stage[s] = "claimed" /\ stage'[s] \in {"waiting", "failed"}
           /\ UNCHANGED <<swapMark, ejectMark, busy, done>>
<1>1. look[s].kind \in Send!Kinds /\ stage[s] = "claimed"
  BY DEF Basic, CallKnown, Send!Publish
<1>2. PICK q \in 1..MaxCommands :
           /\ q \notin Send!Published /\ Send!Published' = Send!Published \cup {q} /\ Send!Published' = 1..Cardinality(Send!Published')
           /\ IsFiniteSet(Send!Published')
           /\ \A p \in Send!Published : command'[p] = command[p]
           /\ command'[q] \in Sent
           /\ command'[q].seq = q /\ command'[q].kind = look[s].kind /\ command'[q].seen = look[s].seen
           /\ IF sent THEN command'[q].age = 0 /\ command'[q].verdict = "out" /\ command'[q].told = None
              ELSE command'[q].age = Window /\ command'[q].verdict = "unsent" /\ command'[q].told = "rejected"
           /\ look' = [look EXCEPT ![s].seq = q]
           /\ IF sent THEN awaited' = [p \in DOMAIN awaited \cup {q} |-> IF p = q THEN None ELSE awaited[p]]
              ELSE awaited' = awaited
  BY <1>1, PublishAdds DEF Basic
<1>3. \A kind : Young(q, kind)' => command'[q].age = 0
  BY <1>2 DEF Young, Send!Alive
<1>4. /\ \A t \in Senders \ {s} : stage'[t] = stage[t] /\ look'[t] = look[t]
      /\ stage'[s] \in {"waiting", "failed"} /\ UNCHANGED <<swapMark, ejectMark, busy, done>>
      /\ look'[s].seq = q /\ look'[s].kind = look[s].kind /\ look'[s].seen = look[s].seen
  BY <1>2 DEF Send!Publish, Basic, Send!TypeOK
<1>5. q \in Send!Published' \ Send!Published
  BY <1>2
<1> QED
  BY <1>1, <1>2, <1>3, <1>4, <1>5

-----------------------------------------------------------------------------
\* The mark of the ejects is as young as any eject that may still move the bed; a
\* sender that claimed it has no such eject beside it, and one that holds it none
\* but its own.
EjectInv ==
  /\ \A q \in Send!Published : Young(q, "eject") => ejectMark # None /\ ejectMark.age <= command[q].age
  /\ \A s \in Senders : stage[s] = "claimed" /\ look[s].kind = "eject"
       => /\ ejectMark # None /\ ejectMark.by = s /\ ejectMark.age = 0
          /\ \A q \in Send!Published : ~Young(q, "eject")
  /\ \A s \in Senders : stage[s] \in InCall /\ look[s].kind = "eject" /\ ejectMark # None /\ ejectMark.by = s
       => \A q \in Send!Published \ {look[s].seq} : ~Young(q, "eject")

LEMMA EjectQuiet ==
  ASSUME SendConstants, Basic, EjectInv, Steady, Follows("eject"), UNCHANGED ejectMark
  PROVE  EjectInv'
<1>1. Send!Published' = Send!Published
  BY DEF Steady
<1>2. \A q \in Send!Published : Young(q, "eject")' => Young(q, "eject") /\ command'[q].age = command[q].age
  BY YoungStays
<1>3. \A q \in Send!Published' : Young(q, "eject")' => ejectMark' # None /\ ejectMark'.age <= command'[q].age
  BY <1>1, <1>2 DEF EjectInv
<1>4. ASSUME NEW s \in Senders, stage'[s] = "claimed", look'[s].kind = "eject"
      PROVE  /\ ejectMark' # None /\ ejectMark'.by = s /\ ejectMark'.age = 0
             /\ \A q \in Send!Published' : ~Young(q, "eject")'
  BY <1>1, <1>2, <1>4 DEF EjectInv, Follows, InCall
<1>5. ASSUME NEW s \in Senders, stage'[s] \in InCall, look'[s].kind = "eject", ejectMark' # None, ejectMark'.by = s
      PROVE  \A q \in Send!Published' \ {look'[s].seq} : ~Young(q, "eject")'
  <2>1. stage[s] \in InCall /\ look'[s] = look[s]
    BY <1>5 DEF Follows
  <2> QED
    BY <1>1, <1>2, <1>5, <2>1 DEF EjectInv
<1> QED
  BY <1>3, <1>4, <1>5 DEF EjectInv

LEMMA EjectClaims ==
  ASSUME SendConstants, Basic, EjectInv, NEW s \in Senders, Send!ClaimEject(s)
  PROVE  EjectInv'
<1>1. Basic' /\ Steady /\ stage[s] = "looked"
  BY ClaimStep DEF Send!ClaimEject
<1>2. CASE Send!EjectHeld
  <2>1. stage'[s] = "rest" /\ ejectMark' = ejectMark /\ \A t \in Senders \ {s} : stage'[t] = stage[t] /\ look'[t] = look[t]
    BY <1>2 DEF Send!ClaimEject, Basic, Send!TypeOK
  <2>2. Follows("eject")
    BY <2>1 DEF Follows, InCall
  <2> QED
    BY <1>1, <2>1, <2>2, EjectQuiet
<1>3. CASE ~Send!EjectHeld
  <2>1. stage'[s] = "claimed" /\ look' = look /\ ejectMark' = [by |-> s, age |-> 0]
        /\ \A t \in Senders \ {s} : stage'[t] = stage[t]
    BY <1>3 DEF Send!ClaimEject, Basic, Send!TypeOK
  <2>2. ejectMark' # None /\ ejectMark'.by = s /\ ejectMark'.age = 0
    <3>1. ejectMark' \in EjectMarks
      BY <2>1 DEF EjectMarks, SendConstants
    <3> QED
      BY <2>1, <3>1 DEF SendConstants
  <2>3. \A q \in Send!Published : ~Young(q, "eject")
    <3> SUFFICES ASSUME NEW q \in Send!Published, Young(q, "eject") PROVE FALSE
      OBVIOUS
    <3>1. ejectMark # None /\ ejectMark.age <= command[q].age /\ command[q].age < Window
      BY DEF EjectInv, Young
    <3>2. ejectMark.age \in 0..Window /\ command[q].age \in 0..Window
      BY <3>1 DEF Basic, Send!TypeOK
    <3> QED
      BY <1>3, <3>1, <3>2 DEF Send!EjectHeld, SendConstants
  <2>4. Send!Published' = Send!Published /\ \A q \in Send!Published : ~Young(q, "eject")'
    BY <1>1, <2>3, YoungStays DEF Steady
  <2>5. \A t \in Senders \ {s} : ~(stage[t] = "claimed" /\ look[t].kind = "eject")
    BY <1>3 DEF EjectInv, Send!EjectHeld, SendConstants
  <2> QED
    BY <2>1, <2>2, <2>4, <2>5 DEF EjectInv, InCall
<1> QED
  BY <1>2, <1>3

LEMMA EjectPublishes ==
  ASSUME SendConstants, Basic, EjectInv, NEW s \in Senders, NEW sent \in BOOLEAN, Send!Publish(s, sent)
  PROVE  EjectInv'
<1>1. PICK own \in Send!Published' \ Send!Published :
           /\ Send!Published' = Send!Published \cup {own} /\ look'[s].seq = own
           /\ look'[s].kind = look[s].kind /\ look'[s].seen = look[s].seen
           /\ command'[own].kind = look[s].kind /\ command'[own].seen = look[s].seen
           /\ \A kind : Young(own, kind)' => command'[own].age = 0
           /\ \A q \in Send!Published : command'[q] = command[q]
           /\ \A t \in Senders \ {s} : stage'[t] = stage[t] /\ look'[t] = look[t]
           /\ stage[s] = "claimed" /\ stage'[s] \in {"waiting", "failed"}
           /\ UNCHANGED <<swapMark, ejectMark, busy, done>>
  BY PublishYoung
<1>2. \A q \in Send!Published : Young(q, "eject")' <=> Young(q, "eject")
  BY <1>1 DEF Young, Send!Alive
<1>3. Young(own, "eject")' => look[s].kind = "eject" /\ command'[own].age = 0
  BY <1>1 DEF Young
<1>4. \A q \in Send!Published' : Young(q, "eject")' => ejectMark' # None /\ ejectMark'.age <= command'[q].age
  <2>1. Young(own, "eject")' => ejectMark' # None /\ ejectMark'.age <= command'[own].age
    BY <1>1, <1>3 DEF EjectInv
  <2> QED
    BY <1>1, <1>2, <2>1 DEF EjectInv
<1>5. ASSUME NEW t \in Senders, stage'[t] = "claimed", look'[t].kind = "eject"
      PROVE  /\ ejectMark' # None /\ ejectMark'.by = t /\ ejectMark'.age = 0
             /\ \A q \in Send!Published' : ~Young(q, "eject")'
  <2>1. t # s /\ stage[t] = "claimed" /\ look[t].kind = "eject"
    BY <1>1, <1>5
  <2>2. look[s].kind # "eject"
    BY <1>1, <2>1 DEF EjectInv
  <2> QED
    BY <1>1, <1>2, <1>3, <2>1, <2>2 DEF EjectInv
<1>6. ASSUME NEW t \in Senders, stage'[t] \in InCall, look'[t].kind = "eject", ejectMark' # None, ejectMark'.by = t
      PROVE  \A q \in Send!Published' \ {look'[t].seq} : ~Young(q, "eject")'
  <2>1. CASE t = s
    BY <1>1, <1>2, <1>6, <2>1 DEF EjectInv
  <2>2. CASE t # s
    <3>1. look[s].kind # "eject"
      BY <1>1, <1>6, <2>2 DEF EjectInv
    <3> QED
      BY <1>1, <1>2, <1>3, <1>6, <2>2, <3>1 DEF EjectInv
  <2> QED
    BY <2>1, <2>2
<1> QED
  BY <1>4, <1>5, <1>6 DEF EjectInv

LEMMA EjectReturns ==
  ASSUME SendConstants, Basic, EjectInv, NEW s \in Senders, Send!GiveBack(s)
  PROVE  EjectInv'
<1>1. Steady /\ Follows("eject") /\ stage[s] = "failed" /\ Send!Published' = Send!Published
  BY ReturnStep DEF Send!GiveBack, Steady
<1>2. CASE ejectMark' = ejectMark
  BY <1>1, <1>2, EjectQuiet
<1>3. CASE ejectMark' # ejectMark
  <2>1. look[s].kind = "eject" /\ ejectMark # None /\ ejectMark.by = s /\ ejectMark' = None
    BY <1>3 DEF Send!GiveBack, Send!ReleaseEject
  <2>2. \A q \in Send!Published : ~Young(q, "eject")
    <3>1. ~Young(look[s].seq, "eject")
      BY <1>1 DEF Basic, CallKnown, Young, Send!Alive
    <3> QED
      BY <1>1, <2>1, <3>1 DEF EjectInv, InCall
  <2>3. \A q \in Send!Published' : ~Young(q, "eject")'
    BY <1>1, <2>2, YoungStays
  <2>4. \A t \in Senders : ~(stage'[t] = "claimed" /\ look'[t].kind = "eject")
    BY <1>1, <2>1 DEF EjectInv, Follows, InCall
  <2> QED
    BY <2>1, <2>3, <2>4 DEF EjectInv
<1> QED
  BY <1>2, <1>3

LEMMA EjectTicks ==
  ASSUME SendConstants, Basic, EjectInv, Send!Tick
  PROVE  EjectInv'
<1>1. Send!Published' = Send!Published /\ UNCHANGED <<stage, look>> /\ \A s \in Senders : stage[s] # "claimed"
  BY TickStep
<1>2. \A q \in Send!Published : Young(q, "eject")' => Young(q, "eject")
  BY YoungStays
<1>3. ejectMark' = IF ejectMark = None THEN None ELSE [ejectMark EXCEPT !.age = Send!Older(@)]
  BY DEF Send!Tick
<1>4. \A q \in Send!Published' : Young(q, "eject")' => ejectMark' # None /\ ejectMark'.age <= command'[q].age
  <2> SUFFICES ASSUME NEW q \in Send!Published, Young(q, "eject")'
               PROVE  ejectMark' # None /\ ejectMark'.age <= command'[q].age
    BY <1>1
  <2>1. /\ ejectMark # None /\ ejectMark.age <= command[q].age /\ command'[q].age = Send!Older(command[q].age)
        /\ ejectMark \in EjectMarks /\ command[q].age \in 0..Window
    BY <1>2, TickStep DEF EjectInv, Basic, Send!TypeOK, EjectMarks
  <2>2. ejectMark.age \in 0..Window /\ Send!Older(ejectMark.age) \in 0..Window
    BY <2>1, TickAges DEF EjectMarks
  <2>3. ejectMark' \in EjectMarks /\ ejectMark'.age = Send!Older(ejectMark.age)
    BY <1>3, <2>1, <2>2 DEF EjectMarks
  <2>4. Send!Older(ejectMark.age) <= Send!Older(command[q].age)
    BY <2>1, <2>2 DEF Send!Older, SendConstants
  <2> QED
    BY <2>1, <2>3, <2>4 DEF SendConstants
<1>5. \A s \in Senders : stage'[s] \in InCall /\ look'[s].kind = "eject" /\ ejectMark' # None /\ ejectMark'.by = s
        => \A q \in Send!Published' \ {look'[s].seq} : ~Young(q, "eject")'
  <2>1. ejectMark' # None => ejectMark # None /\ ejectMark'.by = ejectMark.by
    BY <1>3 DEF Basic, Send!TypeOK
  <2> QED
    BY <1>1, <1>2, <2>1 DEF EjectInv
<1> QED
  BY <1>1, <1>4, <1>5 DEF EjectInv

LEMMA EjectStep == ASSUME SendConstants, Basic, EjectInv, [Send!Next]_(Send!vars) PROVE EjectInv'
<1>1. CASE Send!Tick
  BY <1>1, EjectTicks
<1>2. ASSUME NEW s \in Senders, Send!Sender(s) PROVE EjectInv'
  <2>1. ASSUME NEW kind \in Send!Kinds, Send!LookAt(s, kind) PROVE EjectInv'
    BY <2>1, LookStep, EjectQuiet DEF Send!LookAt
  <2>2. CASE Send!ClaimSwap(s)
    BY <2>2, ClaimStep, EjectQuiet DEF Send!ClaimSwap
  <2>3. CASE Send!ClaimEject(s)
    BY <2>3, EjectClaims
  <2>4. ASSUME NEW sent \in BOOLEAN, Send!Publish(s, sent) PROVE EjectInv'
    BY <2>4, EjectPublishes
  <2>5. CASE Send!Wake(s) \/ Send!TimeOut(s) \/ Send!Unanswered(s)
    BY <2>5, WaitStep, EjectQuiet
  <2>6. CASE Send!GiveBack(s)
    BY <2>6, EjectReturns
  <2> QED
    BY <1>2, <2>1, <2>2, <2>3, <2>4, <2>5, <2>6 DEF Send!Sender
<1>3. CASE Send!Printer
  <2>1. ASSUME NEW q \in Send!Published, NEW v \in Send!Verdicts, Send!Answer(q, v) PROVE EjectInv'
    BY <2>1, AnswerStep, EjectQuiet DEF Send!Answer
  <2>2. CASE Send!ChangeBegins \/ Send!ChangeEnds
    BY <2>2, ChangeStep, EjectQuiet DEF Send!ChangeBegins, Send!ChangeEnds
  <2> QED
    BY <1>3, <2>1, <2>2 DEF Send!Printer
<1>4. CASE UNCHANGED Send!vars
  BY <1>4 DEF Send!vars, EjectInv, Young, Send!Alive, Send!Published
<1> QED
  BY <1>1, <1>2, <1>3, <1>4 DEF Send!Next

\* Two ejects that may both move the bed are the guard apart, whatever the other
\* senders, the replies and the guards given back do in between.
THEOREM EjectsApart == ASSUME SendConstants PROVE Send!Spec => Send!NoDoubleEject
<1> DEFINE Apart == \A q \in Send!JustPublished("eject"), p \in Send!Published :
                      command[p].kind = "eject" /\ Send!Alive(p) => command[p].age >= Window
<1>1. ASSUME Basic, EjectInv, [Send!Next]_(Send!vars) PROVE Apart
  <2> SUFFICES ASSUME NEW q \in Send!JustPublished("eject"), NEW p \in Send!Published, command[p].kind = "eject", Send!Alive(p)
               PROVE  command[p].age >= Window
    OBVIOUS
  <2>1. q \in Send!Published' \ Send!Published /\ command'[q].kind = "eject" /\ command'[q].verdict = "out"
    BY DEF Send!JustPublished, Send!Published
  <2>2. PICK s \in Senders, sent \in BOOLEAN : Send!Publish(s, sent)
    <3>1. Send!Published' # Send!Published
      BY <2>1
    <3> QED
      BY <1>1, <3>1, LookStep, ClaimStep, WaitStep, ReturnStep, AnswerStep, ChangeStep, TickStep
      DEF Send!Next, Send!Sender, Send!Printer, Steady, Send!vars, Send!Published
  <2>3. look[s].kind = "eject" /\ stage[s] = "claimed"
    BY <1>1, <2>1, <2>2, PublishYoung
  <2>4. ~Young(p, "eject") /\ command[p].age \in 0..Window
    BY <1>1, <2>3 DEF EjectInv, Basic, Send!TypeOK
  <2> QED
    BY <2>4 DEF Young, SendConstants
<1>2. Send!Init => EjectInv
  BY DEF Send!Init, EjectInv, Send!Published, InCall
<1> QED
  BY <1>1, <1>2, InitBasic, BasicStep, EjectStep, PTL DEF Send!Spec, Send!NoDoubleEject

-----------------------------------------------------------------------------
\* Nobody has seen a filament change that is not over.
SeenKnown ==
  /\ \A q \in Send!Published : command[q].seen <= done
  /\ \A s \in Senders : look[s].seen <= done
  /\ swapMark # None => swapMark.done <= done

\* A young load or unload whose sender saw all the changes that are over.
Current(q) == Young(q, "swap") /\ command[q].seen = done

\* The mark of the changes is as young as any current one and saw as much; a sender
\* that claimed it with a current look has no current change beside it, and one
\* that holds it none but its own.
SwapInv ==
  /\ SeenKnown
  /\ \A q \in Send!Published : Current(q) => swapMark # None /\ swapMark.age <= command[q].age /\ swapMark.done = done
  /\ \A s \in Senders : stage[s] = "claimed" /\ look[s].kind = "swap" /\ look[s].seen = done
       => /\ swapMark # None /\ swapMark.by = s /\ swapMark.age = 0 /\ swapMark.done = done
          /\ \A q \in Send!Published : ~Current(q)
  /\ \A s \in Senders : stage[s] \in InCall /\ look[s].kind = "swap" /\ swapMark # None /\ swapMark.by = s
       => \A q \in Send!Published \ {look[s].seq} : ~Current(q)

LEMMA SeenStep == ASSUME SendConstants, Basic, SeenKnown, [Send!Next]_(Send!vars) PROVE SeenKnown'
<1>1. CASE Send!Tick
  <2>1. swapMark' # None => swapMark # None /\ swapMark'.done = swapMark.done
    BY <1>1 DEF Send!Tick, Basic, Send!TypeOK
  <2> QED
    BY <1>1, <2>1, TickStep DEF SeenKnown
<1>2. ASSUME NEW s \in Senders, Send!Sender(s) PROVE SeenKnown'
  <2>1. ASSUME NEW kind \in Send!Kinds, Send!LookAt(s, kind) PROVE SeenKnown'
    <3>1. \A t \in Senders : look'[t].seen \in {0, done, look[t].seen}
      BY <2>1 DEF Send!LookAt, Basic, Send!TypeOK
    <3>2. swapMark' = None /\ done' = done /\ command' = command
      BY <2>1 DEF Send!LookAt
    <3>n. done \in Nat
      BY DEF Basic, Send!TypeOK, SendConstants
    <3>p. \A n \in {0, done} : n <= done
      BY <3>n
    <3> QED
      BY <3>1, <3>2, <3>p DEF SeenKnown, Send!Published
  <2>2. CASE Send!ClaimSwap(s) \/ Send!ClaimEject(s)
    <3>0. /\ look \in [Senders -> Looks]
          /\ look' = look \/ look' = [look EXCEPT ![s] = Send!Nothing]
      BY <2>2 DEF Send!ClaimSwap, Send!ClaimEject, Basic, Send!TypeOK, Looks
    <3>1. \A t \in Senders : look'[t].seen \in {0, look[t].seen}
      BY <3>0 DEF Send!Nothing
    <3>2. done' = done /\ command' = command /\ (swapMark' = swapMark \/ swapMark'.done = look[s].seen)
      BY <2>2 DEF Send!ClaimSwap, Send!ClaimEject
    <3>n. done \in Nat
      BY DEF Basic, Send!TypeOK, SendConstants
    <3>p. \A n \in {0, done} : n <= done
      BY <3>n
    <3> QED
      BY <3>1, <3>2, <3>p DEF SeenKnown, Send!Published
  <2>3. ASSUME NEW sent \in BOOLEAN, Send!Publish(s, sent) PROVE SeenKnown'
    <3>1. \A t \in Senders : look'[t].seen = look[t].seen
      BY <2>3, PublishYoung
    <3>2. \A q \in Send!Published' : \/ q \in Send!Published /\ command'[q] = command[q]
                               \/ command'[q].seen = look[s].seen
      BY <2>3, PublishYoung
    <3> QED
      BY <2>3, <3>1, <3>2 DEF SeenKnown, Send!Publish
  <2>4. CASE Send!Wake(s) \/ Send!TimeOut(s) \/ Send!Unanswered(s)
    <3>1. \A t \in Senders : look'[t].seen \in {0, look[t].seen}
      BY <2>4 DEF Send!Wake, Send!TimeOut, Send!Unanswered, Basic, Send!TypeOK, Send!Nothing
    <3>n. done \in Nat
      BY DEF Basic, Send!TypeOK, SendConstants
    <3>p. \A n \in {0, done} : n <= done
      BY <3>n
    <3> QED
      BY <2>4, <3>1, <3>p, WaitStep DEF SeenKnown, Steady
  <2>5. CASE Send!GiveBack(s)
    BY <2>5 DEF SeenKnown, Send!GiveBack, Send!ReleaseSwap, Send!Published
  <2> QED
    BY <1>2, <2>1, <2>2, <2>3, <2>4, <2>5 DEF Send!Sender
<1>3. CASE Send!Printer
  <2>1. ASSUME NEW q \in Send!Published, NEW v \in Send!Verdicts, Send!Answer(q, v) PROVE SeenKnown'
    BY <2>1, AnswerStep DEF Send!Answer, SeenKnown, Steady
  <2>2. CASE Send!ChangeBegins \/ Send!ChangeEnds
    <3>1. UNCHANGED <<command, look, swapMark>> /\ done' \in {done, done + 1} /\ done \in Nat
      BY <2>2 DEF Send!ChangeBegins, Send!ChangeEnds, Basic, Send!TypeOK, SendConstants
    <3>2. /\ \A q \in Send!Published : command[q].seen \in Nat
          /\ \A s \in Senders : look[s].seen \in Nat
          /\ swapMark # None => swapMark.done \in Nat
      BY DEF Basic, Send!TypeOK, SendConstants
    <3> QED
      BY <3>1, <3>2 DEF SeenKnown, Send!Published
  <2> QED
    BY <1>3, <2>1, <2>2 DEF Send!Printer
<1>4. CASE UNCHANGED Send!vars
  BY <1>4 DEF Send!vars, SeenKnown, Send!Published
<1> QED
  BY <1>1, <1>2, <1>3, <1>4 DEF Send!Next

LEMMA CurrentStays ==
  ASSUME SendConstants, Basic, Steady \/ Send!Tick, done' = done, NEW q \in Send!Published, Current(q)'
  PROVE  Current(q) /\ command'[q].age = (IF Steady THEN command[q].age ELSE Send!Older(command[q].age))
BY YoungStays DEF Current

LEMMA SwapQuiet ==
  ASSUME SendConstants, Basic, SwapInv, SeenKnown', Steady, Follows("swap"), UNCHANGED <<swapMark, done>>
  PROVE  SwapInv'
<1>1. Send!Published' = Send!Published
  BY DEF Steady
<1>2. \A q \in Send!Published : Current(q)' => Current(q) /\ command'[q].age = command[q].age
  BY CurrentStays
<1>3. \A q \in Send!Published' : Current(q)' => swapMark' # None /\ swapMark'.age <= command'[q].age /\ swapMark'.done = done'
  BY <1>1, <1>2 DEF SwapInv
<1>4. ASSUME NEW s \in Senders, stage'[s] = "claimed", look'[s].kind = "swap", look'[s].seen = done'
      PROVE  /\ swapMark' # None /\ swapMark'.by = s /\ swapMark'.age = 0 /\ swapMark'.done = done'
             /\ \A q \in Send!Published' : ~Current(q)'
  BY <1>1, <1>2, <1>4 DEF SwapInv, Follows, InCall
<1>5. ASSUME NEW s \in Senders, stage'[s] \in InCall, look'[s].kind = "swap", swapMark' # None, swapMark'.by = s
      PROVE  \A q \in Send!Published' \ {look'[s].seq} : ~Current(q)'
  <2>1. stage[s] \in InCall /\ look'[s] = look[s]
    BY <1>5 DEF Follows
  <2> QED
    BY <1>1, <1>2, <1>5, <2>1 DEF SwapInv
<1> QED
  BY <1>3, <1>4, <1>5 DEF SwapInv

\* A young current command or a claim keeps the mark held for a current look.
LEMMA HeldByCurrent ==
  ASSUME SendConstants, Basic, SwapInv, ~Send!SwapHeld(done)
  PROVE  /\ \A q \in Send!Published : ~Current(q)
         /\ \A s \in Senders : ~(stage[s] = "claimed" /\ look[s].kind = "swap" /\ look[s].seen = done)
<1>1. done \in Nat
  BY DEF Basic, Send!TypeOK, SendConstants
<1>2. \A q \in Send!Published : ~Current(q)
  <2> SUFFICES ASSUME NEW q \in Send!Published, Current(q) PROVE FALSE
    OBVIOUS
  <2>1. swapMark # None /\ swapMark.age <= command[q].age /\ command[q].age < Window /\ swapMark.done = done
    BY DEF SwapInv, Current, Young
  <2>2. swapMark.age \in 0..Window /\ command[q].age \in 0..Window
    BY <2>1 DEF Basic, Send!TypeOK
  <2> QED
    BY <1>1, <2>1, <2>2 DEF Send!SwapHeld, SendConstants
<1>3. \A s \in Senders : ~(stage[s] = "claimed" /\ look[s].kind = "swap" /\ look[s].seen = done)
  BY <1>1 DEF SwapInv, Send!SwapHeld, SendConstants
<1> QED
  BY <1>2, <1>3

LEMMA SwapLooks ==
  ASSUME SendConstants, Basic, SwapInv, SeenKnown', NEW s \in Senders, NEW kind \in Send!Kinds, Send!LookAt(s, kind)
  PROVE  SwapInv'
<1>1. Steady /\ Follows("swap") /\ Send!Published' = Send!Published
  BY LookStep DEF Steady
<1>2. swapMark' = None /\ done' = done /\ ~Send!SwapHeld(done)
  BY DEF Send!LookAt
<1>3. \A q \in Send!Published' : ~Current(q)'
  BY <1>1, <1>2, HeldByCurrent, CurrentStays
<1>4. \A t \in Senders : ~(stage'[t] = "claimed" /\ look'[t].kind = "swap" /\ look'[t].seen = done')
  BY <1>1, <1>2, HeldByCurrent DEF Follows, InCall
<1> QED
  BY <1>2, <1>3, <1>4 DEF SwapInv

LEMMA SwapClaims ==
  ASSUME SendConstants, Basic, SwapInv, SeenKnown', NEW s \in Senders, Send!ClaimSwap(s)
  PROVE  SwapInv'
<1>1. Basic' /\ Steady /\ stage[s] = "looked" /\ done' = done
  BY ClaimStep DEF Send!ClaimSwap
<1>2. CASE Send!SwapHeld(look[s].seen)
  <2>1. stage'[s] = "rest" /\ swapMark' = swapMark /\ \A t \in Senders \ {s} : stage'[t] = stage[t] /\ look'[t] = look[t]
    BY <1>2 DEF Send!ClaimSwap, Basic, Send!TypeOK
  <2>2. Follows("swap")
    BY <2>1 DEF Follows, InCall
  <2> QED
    BY <1>1, <2>1, <2>2, SwapQuiet
<1>3. CASE ~Send!SwapHeld(look[s].seen)
  <2>1. stage'[s] = "claimed" /\ look' = look /\ swapMark' = [by |-> s, done |-> look[s].seen, age |-> 0]
        /\ \A t \in Senders \ {s} : stage'[t] = stage[t]
    BY <1>3 DEF Send!ClaimSwap, Basic, Send!TypeOK
  <2>2. swapMark' # None /\ swapMark'.by = s /\ swapMark'.age = 0 /\ swapMark'.done = look[s].seen
    <3>1. look[s].seen \in 0..MaxDone
      BY DEF Basic, Send!TypeOK
    <3>2. swapMark' \in SwapMarks
      BY <2>1, <3>1 DEF SwapMarks, SendConstants
    <3> QED
      BY <2>1, <3>2 DEF SendConstants
  <2>3. ~Send!SwapHeld(done)
    BY <1>3 DEF Send!SwapHeld, SwapInv, SeenKnown, Basic, Send!TypeOK, SendConstants
  <2>4. Send!Published' = Send!Published /\ \A q \in Send!Published : ~Current(q)'
    BY <1>1, <2>3, HeldByCurrent, CurrentStays DEF Steady
  <2>5. \A t \in Senders \ {s} : ~(stage[t] = "claimed" /\ look[t].kind = "swap" /\ look[t].seen = done)
    BY <2>3, HeldByCurrent
  <2> QED
    BY <1>1, <2>1, <2>2, <2>4, <2>5 DEF SwapInv, InCall
<1> QED
  BY <1>2, <1>3

LEMMA SwapPublishes ==
  ASSUME SendConstants, Basic, SwapInv, SeenKnown', NEW s \in Senders, NEW sent \in BOOLEAN, Send!Publish(s, sent)
  PROVE  SwapInv'
<1>1. PICK own \in Send!Published' \ Send!Published :
           /\ Send!Published' = Send!Published \cup {own} /\ look'[s].seq = own
           /\ look'[s].kind = look[s].kind /\ look'[s].seen = look[s].seen
           /\ command'[own].kind = look[s].kind /\ command'[own].seen = look[s].seen
           /\ \A kind : Young(own, kind)' => command'[own].age = 0
           /\ \A q \in Send!Published : command'[q] = command[q]
           /\ \A t \in Senders \ {s} : stage'[t] = stage[t] /\ look'[t] = look[t]
           /\ stage[s] = "claimed" /\ stage'[s] \in {"waiting", "failed"}
           /\ UNCHANGED <<swapMark, ejectMark, busy, done>>
  BY PublishYoung
<1>2. \A q \in Send!Published : Current(q)' <=> Current(q)
  BY <1>1 DEF Young, Send!Alive, Current
<1>3. Current(own)' => look[s].kind = "swap" /\ look[s].seen = done /\ command'[own].age = 0
  BY <1>1 DEF Young, Current
<1>4. \A q \in Send!Published' : Current(q)' => swapMark' # None /\ swapMark'.age <= command'[q].age /\ swapMark'.done = done'
  <2>1. Current(own)' => swapMark' # None /\ swapMark'.age <= command'[own].age /\ swapMark'.done = done'
    BY <1>1, <1>3 DEF SwapInv
  <2> QED
    BY <1>1, <1>2, <2>1 DEF SwapInv
<1>5. ASSUME NEW t \in Senders, stage'[t] = "claimed", look'[t].kind = "swap", look'[t].seen = done'
      PROVE  /\ swapMark' # None /\ swapMark'.by = t /\ swapMark'.age = 0 /\ swapMark'.done = done'
             /\ \A q \in Send!Published' : ~Current(q)'
  <2>1. t # s /\ stage[t] = "claimed" /\ look[t].kind = "swap" /\ look[t].seen = done
    BY <1>1, <1>5
  <2>2. ~(look[s].kind = "swap" /\ look[s].seen = done)
    BY <1>1, <2>1 DEF SwapInv
  <2> QED
    BY <1>1, <1>2, <1>3, <2>1, <2>2 DEF SwapInv
<1>6. ASSUME NEW t \in Senders, stage'[t] \in InCall, look'[t].kind = "swap", swapMark' # None, swapMark'.by = t
      PROVE  \A q \in Send!Published' \ {look'[t].seq} : ~Current(q)'
  <2>1. CASE t = s
    <3>1. look[s].seq \notin Send!Published
      BY <1>1 DEF Basic, CallKnown, Send!TypeOK
    <3> QED
      BY <1>1, <1>2, <1>6, <2>1, <3>1 DEF SwapInv, InCall
  <2>2. CASE t # s
    <3>1. ~(look[s].kind = "swap" /\ look[s].seen = done)
      BY <1>1, <1>6, <2>2 DEF SwapInv
    <3> QED
      BY <1>1, <1>2, <1>3, <1>6, <2>2, <3>1 DEF SwapInv
  <2> QED
    BY <2>1, <2>2
<1> QED
  BY <1>4, <1>5, <1>6 DEF SwapInv

LEMMA SwapReturns ==
  ASSUME SendConstants, Basic, SwapInv, SeenKnown', NEW s \in Senders, Send!GiveBack(s)
  PROVE  SwapInv'
<1>1. Steady /\ Follows("swap") /\ stage[s] = "failed" /\ Send!Published' = Send!Published /\ done' = done
  BY ReturnStep DEF Send!GiveBack, Steady
<1>2. CASE swapMark' = swapMark
  BY <1>1, <1>2, SwapQuiet
<1>3. CASE swapMark' # swapMark
  <2>1. look[s].kind = "swap" /\ swapMark # None /\ swapMark.by = s /\ swapMark' = None
    BY <1>3 DEF Send!GiveBack, Send!ReleaseSwap
  <2>2. \A q \in Send!Published : ~Current(q)
    <3>1. ~Current(look[s].seq)
      BY <1>1 DEF Basic, CallKnown, Current, Young, Send!Alive
    <3> QED
      BY <1>1, <2>1, <3>1 DEF SwapInv, InCall
  <2>3. \A q \in Send!Published' : ~Current(q)'
    BY <1>1, <2>2, CurrentStays
  <2>4. \A t \in Senders : ~(stage'[t] = "claimed" /\ look'[t].kind = "swap" /\ look'[t].seen = done')
    BY <1>1, <2>1 DEF SwapInv, Follows, InCall
  <2> QED
    BY <2>1, <2>3, <2>4 DEF SwapInv
<1> QED
  BY <1>2, <1>3

LEMMA SwapTicks ==
  ASSUME SendConstants, Basic, SwapInv, SeenKnown', Send!Tick
  PROVE  SwapInv'
<1>1. Send!Published' = Send!Published /\ UNCHANGED <<stage, look, done>> /\ \A s \in Senders : stage[s] # "claimed"
  BY TickStep
<1>2. \A q \in Send!Published : Current(q)' => Current(q)
  BY <1>1, CurrentStays
<1>3. swapMark' = IF swapMark = None THEN None ELSE [swapMark EXCEPT !.age = Send!Older(@)]
  BY DEF Send!Tick
<1>4. \A q \in Send!Published' : Current(q)' => swapMark' # None /\ swapMark'.age <= command'[q].age /\ swapMark'.done = done'
  <2> SUFFICES ASSUME NEW q \in Send!Published, Current(q)'
               PROVE  swapMark' # None /\ swapMark'.age <= command'[q].age /\ swapMark'.done = done'
    BY <1>1
  <2>1. /\ swapMark # None /\ swapMark.age <= command[q].age /\ swapMark.done = done
        /\ command'[q].age = Send!Older(command[q].age)
        /\ swapMark \in SwapMarks /\ command[q].age \in 0..Window
    BY <1>2, TickStep DEF SwapInv, Basic, Send!TypeOK, SwapMarks
  <2>2. swapMark.age \in 0..Window /\ Send!Older(swapMark.age) \in 0..Window
    BY <2>1, TickAges DEF SwapMarks
  <2>3. swapMark' \in SwapMarks /\ swapMark'.age = Send!Older(swapMark.age) /\ swapMark'.done = swapMark.done
    BY <1>3, <2>1, <2>2 DEF SwapMarks
  <2>4. Send!Older(swapMark.age) <= Send!Older(command[q].age)
    BY <2>1, <2>2 DEF Send!Older, SendConstants
  <2> QED
    BY <1>1, <2>1, <2>3, <2>4 DEF SendConstants
<1>5. \A s \in Senders : stage'[s] \in InCall /\ look'[s].kind = "swap" /\ swapMark' # None /\ swapMark'.by = s
        => \A q \in Send!Published' \ {look'[s].seq} : ~Current(q)'
  <2>1. swapMark' # None => swapMark # None /\ swapMark'.by = swapMark.by
    BY <1>3 DEF Basic, Send!TypeOK
  <2> QED
    BY <1>1, <1>2, <2>1 DEF SwapInv
<1> QED
  BY <1>1, <1>4, <1>5 DEF SwapInv

\* A change that ends leaves nothing current: everybody has seen one less.
LEMMA SwapEnds ==
  ASSUME SendConstants, Basic, SwapInv, SeenKnown', Send!ChangeBegins \/ Send!ChangeEnds
  PROVE  SwapInv'
<1>1. Steady /\ Follows("swap") /\ UNCHANGED <<command, stage, look, swapMark>> /\ done' \in {done, done + 1}
  BY ChangeStep DEF Send!ChangeBegins, Send!ChangeEnds
<1>2. CASE done' = done
  BY <1>1, <1>2, SwapQuiet
<1>3. CASE done' = done + 1
  <2>1. done \in Nat /\ \A q \in Send!Published : command[q].seen \in Nat
    BY DEF Basic, Send!TypeOK, SendConstants
  <2>2. \A s \in Senders : look[s].seen \in Nat
    BY DEF Basic, Send!TypeOK, SendConstants
  <2>3. \A q \in Send!Published' : ~Current(q)'
    BY <1>1, <1>3, <2>1 DEF SwapInv, SeenKnown, Current, Send!Published
  <2>4. \A s \in Senders : look'[s].seen # done'
    BY <1>1, <1>3, <2>1, <2>2 DEF SwapInv, SeenKnown
  <2> QED
    BY <2>3, <2>4 DEF SwapInv
<1> QED
  BY <1>1, <1>2, <1>3

LEMMA SwapStep == ASSUME SendConstants, Basic, SwapInv, [Send!Next]_(Send!vars) PROVE SwapInv'
<1> SeenKnown'
  BY SeenStep DEF SwapInv
<1>1. CASE Send!Tick
  BY <1>1, SwapTicks
<1>2. ASSUME NEW s \in Senders, Send!Sender(s) PROVE SwapInv'
  <2>1. ASSUME NEW kind \in Send!Kinds, Send!LookAt(s, kind) PROVE SwapInv'
    BY <2>1, SwapLooks
  <2>2. CASE Send!ClaimSwap(s)
    BY <2>2, SwapClaims
  <2>3. CASE Send!ClaimEject(s)
    BY <2>3, ClaimStep, SwapQuiet DEF Send!ClaimEject
  <2>4. ASSUME NEW sent \in BOOLEAN, Send!Publish(s, sent) PROVE SwapInv'
    BY <2>4, SwapPublishes
  <2>5. CASE Send!Wake(s) \/ Send!TimeOut(s) \/ Send!Unanswered(s)
    BY <2>5, WaitStep, SwapQuiet
  <2>6. CASE Send!GiveBack(s)
    BY <2>6, SwapReturns
  <2> QED
    BY <1>2, <2>1, <2>2, <2>3, <2>4, <2>5, <2>6 DEF Send!Sender
<1>3. CASE Send!Printer
  <2>1. ASSUME NEW q \in Send!Published, NEW v \in Send!Verdicts, Send!Answer(q, v) PROVE SwapInv'
    BY <2>1, AnswerStep, SwapQuiet DEF Send!Answer
  <2> QED
    BY <1>3, <2>1, SwapEnds DEF Send!Printer
<1>4. CASE UNCHANGED Send!vars
  BY <1>4 DEF Send!vars, SwapInv, Current, Young, Send!Alive, Send!Published
<1> QED
  BY <1>1, <1>2, <1>3, <1>4 DEF Send!Next

\* Of two loads or unloads younger than the guard only one is sent, unless the
\* printer has finished a change since one of the two looks.
THEOREM SwapsApart == ASSUME SendConstants PROVE Send!Spec => Send!NoSecondSwap
<1> DEFINE Apart == \A q \in Send!JustPublished("swap"), p \in Send!Published :
                      command[p].kind = "swap" /\ Send!Alive(p) /\ command[p].age < Window
                        => done > command[p].seen \/ done > command'[q].seen
<1>1. ASSUME Basic, SwapInv, [Send!Next]_(Send!vars) PROVE Apart
  <2> SUFFICES ASSUME NEW q \in Send!JustPublished("swap"), NEW p \in Send!Published, Young(p, "swap")
               PROVE  done > command[p].seen \/ done > command'[q].seen
    BY DEF Young
  <2>1. q \in Send!Published' \ Send!Published /\ command'[q].kind = "swap" /\ command'[q].verdict = "out"
    BY DEF Send!JustPublished, Send!Published
  <2>2. PICK s \in Senders, sent \in BOOLEAN : Send!Publish(s, sent)
    <3>1. Send!Published' # Send!Published
      BY <2>1
    <3> QED
      BY <1>1, <3>1, LookStep, ClaimStep, WaitStep, ReturnStep, AnswerStep, ChangeStep, TickStep
      DEF Send!Next, Send!Sender, Send!Printer, Steady, Send!vars, Send!Published
  <2>3. look[s].kind = "swap" /\ stage[s] = "claimed" /\ command'[q].seen = look[s].seen
    BY <1>1, <2>1, <2>2, PublishYoung
  <2>4. ~(look[s].seen = done /\ command[p].seen = done)
    BY <1>1, <2>3 DEF SwapInv, Current
  <2>5. look[s].seen <= done /\ command[p].seen <= done /\ look[s].seen \in Nat /\ command[p].seen \in Nat /\ done \in Nat
    BY <1>1 DEF SwapInv, SeenKnown, Basic, Send!TypeOK, SendConstants
  <2> QED
    BY <2>3, <2>4, <2>5
<1>2. Send!Init => SwapInv
  BY DEF Send!Init, SwapInv, SeenKnown, Send!Published, InCall, Send!Nothing
<1> QED
  BY <1>1, <1>2, InitBasic, BasicStep, SwapStep, PTL DEF Send!Spec, Send!NoSecondSwap

-----------------------------------------------------------------------------
\* Once a sender was told that its command failed, no mark of it stays behind.
THEOREM FailuresFree == ASSUME SendConstants PROVE Send!Spec => []Send!FailureFrees
<1>1. Send!Init => Send!FailureFrees
  BY DEF Send!Init, Send!FailureFrees, Send!Nothing
<1>2. ASSUME Basic, Send!FailureFrees, [Send!Next]_(Send!vars) PROVE Send!FailureFrees'
  <2> DEFINE Freed(s) == stage[s] = "rest" /\ look[s].seq # 0
                           => LET claim == IF look[s].kind = "swap" THEN swapMark ELSE ejectMark
                              IN claim = None \/ claim.by # s
  <2> SUFFICES ASSUME NEW t \in Senders PROVE Freed(t)'
    BY DEF Send!FailureFrees
  <2>1. Freed(t)
    BY <1>2 DEF Send!FailureFrees
  <2>2. CASE Send!Tick
    <3>1. /\ swapMark' # None => swapMark # None /\ swapMark'.by = swapMark.by
          /\ ejectMark' # None => ejectMark # None /\ ejectMark'.by = ejectMark.by
      BY <1>2, <2>2 DEF Send!Tick, Basic, Send!TypeOK
    <3> QED
      BY <2>1, <2>2, <3>1 DEF Send!Tick
  <2>3. ASSUME NEW s \in Senders, Send!Sender(s) PROVE Freed(t)'
    <3>1. ASSUME NEW kind \in Send!Kinds, Send!LookAt(s, kind) PROVE Freed(t)'
      BY <1>2, <2>1, <3>1 DEF Send!LookAt, Basic, Send!TypeOK
    <3>2. CASE Send!ClaimSwap(s)
      BY <1>2, <2>1, <3>2, LooksTyped DEF Send!ClaimSwap, Basic, Send!TypeOK
    <3>3. CASE Send!ClaimEject(s)
      BY <1>2, <2>1, <3>3, LooksTyped DEF Send!ClaimEject, Basic, Send!TypeOK
    <3>4. ASSUME NEW sent \in BOOLEAN, Send!Publish(s, sent) PROVE Freed(t)'
      BY <1>2, <2>1, <3>4, PublishYoung
    <3>5. CASE Send!Wake(s) \/ Send!TimeOut(s) \/ Send!Unanswered(s)
      BY <1>2, <2>1, <3>5, LooksTyped DEF Send!Wake, Send!TimeOut, Send!Unanswered, Basic, Send!TypeOK
    <3>6. CASE Send!GiveBack(s)
      <4>1. /\ stage' = [stage EXCEPT ![s] = "rest"] /\ look' = look
            /\ swapMark' = (IF look[s].kind = "swap" THEN Send!ReleaseSwap(s) ELSE swapMark)
            /\ ejectMark' = (IF look[s].kind = "eject" THEN Send!ReleaseEject(s) ELSE ejectMark)
            /\ stage[s] = "failed"
        BY <3>6 DEF Send!GiveBack
      <4>2. look[s].kind \in Send!Kinds
        BY <1>2, <4>1 DEF Basic, CallKnown
      <4>3. CASE t = s
        BY <4>1, <4>2, <4>3 DEF Send!ReleaseSwap, Send!ReleaseEject, Send!Kinds
      <4>4. CASE t # s
        <5>1. stage'[t] = stage[t] /\ swapMark' \in {swapMark, None} /\ ejectMark' \in {ejectMark, None}
          BY <1>2, <4>1, <4>4 DEF Send!ReleaseSwap, Send!ReleaseEject, Basic, Send!TypeOK
        <5> QED
          BY <2>1, <4>1, <5>1
      <4> QED
        BY <4>3, <4>4
    <3> QED
      BY <2>3, <3>1, <3>2, <3>3, <3>4, <3>5, <3>6 DEF Send!Sender
  <2>4. CASE Send!Printer
    BY <2>1, <2>4 DEF Send!Printer, Send!Answer, Send!ChangeBegins, Send!ChangeEnds
  <2>5. CASE UNCHANGED Send!vars
    BY <2>1, <2>5 DEF Send!vars
  <2> QED
    BY <1>2, <2>2, <2>3, <2>4, <2>5 DEF Send!Next
<1> QED
  BY <1>1, <1>2, InitBasic, BasicStep, PTL DEF Send!Spec

(***************************************************************************)
(* Part 2.  CommandProbe.                                                  *)
(***************************************************************************)


-----------------------------------------------------------------------------
\* A verdict noted is a verdict, and nothing but the thread's own writes changes.
LEMMA NoteTyped ==
  ASSUME ProbeConstants, Probe!TypeOK, NEW t \in Probe!Threads, NEW cmds \in Probe!Verdicts \cup {None},
         NEW via \in {None, "fun", "local"}, Probe!NoteCapability(t, cmds, via)
  PROVE  /\ cap' \in [cmds : Probe!Verdicts \cup {None}, via : {None, "fun", "local", "persisted"}]
         /\ saving' \in [Probe!Threads -> Probe!Verdicts \cup {None, "due"}]
         /\ verdict' = verdict /\ overlap' = overlap
BY DEF Probe!TypeOK, Probe!NoteCapability

LEMMA VerdictOf == \A wants \in BOOLEAN : Probe!Verdict(wants) \in Probe!Verdicts
BY DEF Probe!Verdict, Probe!Verdicts

LEMMA ProbeTypeStep == ASSUME ProbeConstants, Probe!TypeOK, [Probe!Next]_(Probe!vars) PROVE Probe!TypeOK'
<1> USE DEF Probe!TypeOK, Probe!printer, Probe!verdict
<1>1. ASSUME Probe!ProbeLook \/ Probe!ProbePublish \/ Probe!SignatureRead \/ Probe!ProbeSilent PROVE Probe!TypeOK'
  <2>1. CASE Probe!ProbeLook
    BY <2>1 DEF Probe!ProbeLook
  <2>2. CASE Probe!ProbePublish
    BY <2>2 DEF Probe!ProbePublish
  <2>3. CASE Probe!SignatureRead
    BY <2>3 DEF Probe!SignatureRead
  <2>4. CASE Probe!ProbeSilent
    BY <2>4, NoteTyped DEF Probe!ProbeSilent, Probe!Threads
  <2> QED
    BY <1>1, <2>1, <2>2, <2>3, <2>4
<1>2. ASSUME NEW t \in Probe!Threads, Probe!NoteReply(t), UNCHANGED <<Probe!printer, mark, polling, changes>>,
             probing' \in {probing, "rest"}, start' \in {start, "rest"}
      PROVE  Probe!TypeOK'
  <2>1. Probe!Verdict(signed) \in Probe!Verdicts
    BY VerdictOf
  <2>2. Probe!NoteCapability(t, Probe!Verdict(signed), "local") /\ distrust' \in BOOLEAN
    BY <1>2 DEF Probe!NoteReply
  <2>3. /\ cap' \in [cmds : Probe!Verdicts \cup {None}, via : {None, "fun", "local", "persisted"}]
        /\ saving' \in [Probe!Threads -> Probe!Verdicts \cup {None, "due"}]
        /\ verdict' = verdict /\ overlap' = overlap
    BY <2>1, <2>2, NoteTyped
  <2> QED
    BY <1>2, <2>2, <2>3
<1>3. ASSUME Probe!ProbeAnswered \/ Probe!StartAnswered PROVE Probe!TypeOK'
  BY <1>3, <1>2 DEF Probe!ProbeAnswered, Probe!StartAnswered, Probe!Threads
<1>4. ASSUME Probe!SignatureNote PROVE Probe!TypeOK'
  <2>1. Probe!Verdict(fun) \in Probe!Verdicts /\ Probe!NoteCapability("poll", Probe!Verdict(fun), "fun")
    BY <1>4, VerdictOf DEF Probe!SignatureNote
  <2> QED
    BY <1>4, <2>1, NoteTyped DEF Probe!SignatureNote, Probe!Threads
<1>5. ASSUME Probe!Arm \/ Probe!StartPublish \/ Probe!StartSilent PROVE Probe!TypeOK'
  <2>1. CASE Probe!Arm
    BY <2>1 DEF Probe!Arm, Probe!Turn, ProbeConstants
  <2>2. CASE Probe!StartPublish
    <3>1. drying' \in {None, "ours", "screen"} /\ reported' \in BOOLEAN
      BY <2>2, Zenon DEF Probe!StartPublish
    <3> QED
      BY <2>2, <3>1 DEF Probe!StartPublish
  <2>3. CASE Probe!StartSilent
    BY <2>3 DEF Probe!StartSilent
  <2> QED
    BY <1>5, <2>1, <2>2, <2>3
<1>6. ASSUME NEW t \in Probe!Threads, Probe!Snapshot(t) \/ Probe!WriteVerdict(t) PROVE Probe!TypeOK'
  <2>1. CASE Probe!Snapshot(t)
    BY <2>1 DEF Probe!Snapshot
  <2>2. CASE Probe!WriteVerdict(t)
    <3>1. overlap' \in BOOLEAN
      BY <2>2 DEF Probe!WriteVerdict
    <3> QED
      BY <2>2, <3>1 DEF Probe!WriteVerdict
  <2> QED
    BY <1>6, <2>1, <2>2
<1>7. ASSUME Probe!Report \/ Probe!ScreenStarts \/ Probe!DryingEnds PROVE Probe!TypeOK'
  <2>1. CASE Probe!Report
    <3>1. shown' \in BOOLEAN /\ reported' \in BOOLEAN
      BY <2>1 DEF Probe!Report
    <3> QED
      BY <2>1, <3>1 DEF Probe!Report
  <2>2. CASE Probe!ScreenStarts
    <3>1. reported' \in BOOLEAN
      BY <2>2, Zenon DEF Probe!ScreenStarts
    <3> QED
      BY <2>2, <3>1 DEF Probe!ScreenStarts, Probe!Turn, ProbeConstants
  <2>3. CASE Probe!DryingEnds
    <3>1. reported' \in BOOLEAN
      BY <2>3, Zenon DEF Probe!DryingEnds
    <3> QED
      BY <2>3, <3>1 DEF Probe!DryingEnds
  <2> QED
    BY <1>7, <2>1, <2>2, <2>3
<1>8. ASSUME Probe!TickMark PROVE Probe!TypeOK'
  BY <1>8 DEF Probe!TickMark, ProbeConstants
<1>9. ASSUME Probe!DashboardRestarts PROVE Probe!TypeOK'
  <2>1. distrust' \in BOOLEAN /\ shown' \in BOOLEAN \cup {None}
    BY <1>9, Zenon DEF Probe!DashboardRestarts
  <2>2. cap' \in [cmds : Probe!Verdicts \cup {None}, via : {None, "fun", "local", "persisted"}]
    BY <1>9 DEF Probe!DashboardRestarts, Probe!Unknown
  <2>3. changes' \in 0..MaxSwitches
    BY <1>9 DEF Probe!DashboardRestarts, Probe!Turn, ProbeConstants
  <2> QED
    BY <1>9, <2>1, <2>2, <2>3 DEF Probe!DashboardRestarts
<1>10. ASSUME NEW wants \in BOOLEAN, NEW says \in BOOLEAN \cup {None}, Probe!ProtectionSwitched(wants, says)
       PROVE  Probe!TypeOK'
  BY <1>10 DEF Probe!ProtectionSwitched, Probe!Turn, ProbeConstants
<1>11. ASSUME UNCHANGED Probe!vars PROVE Probe!TypeOK'
  BY <1>11 DEF Probe!vars
<1> QED
  BY <1>1, <1>3, <1>4, <1>5, <1>6, <1>7, <1>8, <1>9, <1>10, <1>11 DEF Probe!Next

\* Every variable keeps its type.
THEOREM ProbeTypeCorrect == ASSUME ProbeConstants PROVE Probe!Spec => []Probe!TypeOK
<1>1. Probe!Init => Probe!TypeOK
  <2> SUFFICES ASSUME Probe!Init PROVE Probe!TypeOK
    OBVIOUS
  <2>1. reported \in BOOLEAN /\ signed \in BOOLEAN /\ distrust \in BOOLEAN /\ overlap \in BOOLEAN
    BY Zenon DEF Probe!Init
  <2>2. changes \in 0..MaxSwitches
    BY DEF Probe!Init, ProbeConstants
  <2> QED
    BY <2>1, <2>2 DEF Probe!Init, Probe!TypeOK, Probe!Unknown
<1>2. Probe!TypeOK /\ [Probe!Next]_(Probe!vars) => Probe!TypeOK'
  BY ProbeTypeStep
<1> QED
  BY <1>1, <1>2, PTL DEF Probe!Spec
-----------------------------------------------------------------------------
\* What the probe's guard rests on: where telemetry does not show our drying yet,
\* the mark of its start is still young; and a drying once reported stays shown.
OursKnown == drying = "ours" => Probe!DryQuiet \/ shown # FALSE
ArmedMarked == start = "armed" => Probe!DryQuiet
ReportedShown == reported => drying # None /\ shown # FALSE
LookedFree ==
  probing = "looked" => /\ drying = "ours" => Probe!DryQuiet
                        /\ drying = "screen" => Probe!DryQuiet \/ ~reported
SpareInv == OursKnown /\ ArmedMarked /\ ReportedShown /\ LookedFree

LEMMA SpareStep == ASSUME ProbeConstants, Probe!TypeOK, SpareInv, [Probe!Next]_(Probe!vars) PROVE SpareInv'
<1> USE DEF SpareInv, OursKnown, ArmedMarked, ReportedShown, LookedFree, Probe!DryQuiet, Probe!printer, Probe!verdict
<1>1. CASE Probe!ProbeLook
  BY <1>1 DEF Probe!ProbeLook, Probe!LooksHarmless, ProbeConstants
<1>2. CASE Probe!ProbePublish
  BY <1>2 DEF Probe!ProbePublish, ProbeConstants, Probe!TypeOK
<1>3. CASE Probe!Arm
  <2>1. Probe!DryQuiet'
    BY <1>3 DEF Probe!Arm, ProbeConstants
  <2>2. reported' = reported /\ drying' = drying /\ shown' = shown
    BY <1>3, Zenon DEF Probe!Arm
  <2> QED
    BY <2>1, <2>2
<1>4. CASE Probe!StartPublish
  BY <1>4 DEF Probe!StartPublish, ProbeConstants
<1>5. CASE Probe!Report
  <2>1. OursKnown' /\ ArmedMarked'
    <3>1. UNCHANGED <<drying, mark, start>> /\ (shown' <=> drying # None)
      BY <1>5, Zenon DEF Probe!Report
    <3>2. drying = "ours" => shown'
      BY <3>1 DEF ProbeConstants
    <3> QED
      BY <3>1, <3>2
  <2>2. reported' => drying' # None /\ shown' # FALSE
    BY <1>5 DEF Probe!Report, Probe!TypeOK
  <2>3. LookedFree'
    BY <1>5 DEF Probe!Report, Probe!TypeOK
  <2> QED
    BY <2>1, <2>2, <2>3
<1>6. CASE Probe!ScreenStarts \/ Probe!DryingEnds
  BY <1>6 DEF Probe!ScreenStarts, Probe!DryingEnds, ProbeConstants
<1>7. CASE Probe!TickMark
  BY <1>7 DEF Probe!TickMark
<1>8. CASE Probe!DashboardRestarts
  BY <1>8 DEF Probe!DashboardRestarts, ProbeConstants
<1>9. ASSUME \/ Probe!ProbeAnswered \/ Probe!ProbeSilent \/ Probe!StartAnswered \/ Probe!StartSilent
             \/ Probe!SignatureRead \/ Probe!SignatureNote
             \/ \E t \in Probe!Threads : Probe!Snapshot(t) \/ Probe!WriteVerdict(t)
             \/ UNCHANGED Probe!vars
             \/ \E wants \in BOOLEAN, says \in BOOLEAN \cup {None} : Probe!ProtectionSwitched(wants, says)
      PROVE  SpareInv'
  <2>1. UNCHANGED <<drying, reported, shown, mark>>
    BY <1>9 DEF Probe!ProbeAnswered, Probe!ProbeSilent, Probe!StartAnswered, Probe!StartSilent, Probe!SignatureRead, Probe!SignatureNote,
                Probe!Snapshot, Probe!WriteVerdict, Probe!ProtectionSwitched, Probe!vars
  <2>2. probing' \in {probing, "rest"} /\ start' \in {start, "rest"}
    BY <1>9 DEF Probe!ProbeAnswered, Probe!ProbeSilent, Probe!StartAnswered, Probe!StartSilent, Probe!SignatureRead, Probe!SignatureNote,
                Probe!Snapshot, Probe!WriteVerdict, Probe!ProtectionSwitched, Probe!vars
  <2> QED
    BY <2>1, <2>2
<1> QED
  BY <1>1, <1>2, <1>3, <1>4, <1>5, <1>6, <1>7, <1>8, <1>9 DEF Probe!Next

\* The probe's stop is never published on a drying the dashboard started, nor on one
\* started on the screen that the telemetry had shown when the probe looked.
THEOREM ProbeIsHarmless == ASSUME ProbeConstants PROVE Probe!Spec => Probe!ProbeSpares
<1>1. Probe!Init => SpareInv
  BY DEF Probe!Init, SpareInv, OursKnown, ArmedMarked, ReportedShown, LookedFree, ProbeConstants
<1>2. Probe!TypeOK /\ SpareInv /\ [Probe!Next]_(Probe!vars) => SpareInv'
  BY SpareStep
<1>3. Probe!TypeOK /\ SpareInv /\ [Probe!Next]_(Probe!vars) =>
        [probing = "looked" /\ probing' = "sent"
           => drying = None \/ (drying = "screen" /\ ~reported)]_(Probe!vars)
  <2> SUFFICES ASSUME Probe!TypeOK, SpareInv, Probe!Next, probing = "looked", probing' = "sent"
               PROVE  drying = None \/ (drying = "screen" /\ ~reported)
    OBVIOUS
  <2>1. Probe!ProbePublish
    BY DEF Probe!Next, Probe!ProbeLook, Probe!ProbeAnswered, Probe!ProbeSilent, Probe!Arm, Probe!StartPublish, Probe!StartAnswered, Probe!StartSilent,
           Probe!SignatureRead, Probe!SignatureNote, Probe!Snapshot, Probe!WriteVerdict, Probe!Report, Probe!ScreenStarts, Probe!DryingEnds,
           Probe!TickMark, Probe!DashboardRestarts, Probe!ProtectionSwitched
  <2>2. ~Probe!DryQuiet
    BY <2>1 DEF Probe!ProbePublish
  <2> QED
    BY <2>2 DEF SpareInv, LookedFree, Probe!TypeOK
<1> QED
  BY <1>1, <1>2, <1>3, ProbeTypeCorrect, PTL DEF Probe!Spec, Probe!ProbeSpares

-----------------------------------------------------------------------------
\* Why memory and disk agree: who saves, saves a verdict memory has; a thread in a
\* call has no write of its own under way; and a write of an older verdict is never
\* the last one, unless two overlapped.
SavedKnown == verdict # None => cap.cmds # None
SavingKnown == \A t \in Probe!Threads : saving[t] # None => cap.cmds # None
OneWriteEach ==
  /\ probing # "rest" => saving["probe"] = None
  /\ start # "rest" => saving["request"] = None
  /\ polling # "rest" => saving["poll"] = None
OldNotLast ==
  \A t \in Probe!Threads : saving[t] \in Probe!Verdicts /\ saving[t] # cap.cmds =>
    overlap \/ \E u \in Probe!Threads \ {t} : saving[u] # None
Agree == verdict # None => overlap \/ cap.cmds = verdict \/ \E t \in Probe!Threads : saving[t] # None
VerdictInv == SavedKnown /\ SavingKnown /\ OneWriteEach /\ OldNotLast /\ Agree

\* A verdict noted by a thread that saves nothing.
LEMMA NoteKeeps ==
  ASSUME ProbeConstants, Probe!TypeOK, VerdictInv, NEW t \in Probe!Threads, saving[t] = None,
         NEW cmds \in Probe!Verdicts \cup {None}, NEW via, Probe!NoteCapability(t, cmds, via)
  PROVE  /\ SavedKnown' /\ SavingKnown' /\ OldNotLast' /\ Agree'
         /\ \A u \in Probe!Threads \ {t} : saving'[u] = saving[u]
<1> USE DEF Probe!TypeOK, VerdictInv
<1>1. CASE cmds # None /\ cmds # cap.cmds
  <2>1. cap'.cmds = cmds /\ saving' = [saving EXCEPT ![t] = "due"] /\ verdict' = verdict
    BY <1>1 DEF Probe!NoteCapability
  <2>2. saving'[t] # None /\ saving'[t] \notin Probe!Verdicts
    BY <2>1 DEF ProbeConstants, Probe!Verdicts
  <2> QED
    BY <1>1, <2>1, <2>2 DEF SavedKnown, SavingKnown, OldNotLast, Agree
<1>2. CASE ~(cmds # None /\ cmds # cap.cmds)
  <2>1. cap'.cmds = cap.cmds /\ UNCHANGED <<saving, verdict, overlap>>
    BY <1>2 DEF Probe!NoteCapability
  <2> QED
    BY <2>1 DEF SavedKnown, SavingKnown, OldNotLast, Agree
<1> QED
  BY <1>1, <1>2

LEMMA VerdictStep == ASSUME ProbeConstants, Probe!TypeOK, VerdictInv, [Probe!Next]_(Probe!vars) PROVE VerdictInv'
<1> USE DEF Probe!printer, Probe!verdict
<1>1. CASE Probe!ProbeAnswered \/ Probe!ProbeSilent
  <2>1. saving["probe"] = None /\ "probe" \in Probe!Threads
    BY <1>1 DEF Probe!ProbeAnswered, Probe!ProbeSilent, VerdictInv, OneWriteEach, Probe!Threads
  <2>2. PICK cmds \in Probe!Verdicts \cup {None}, via \in {None, "local"} : Probe!NoteCapability("probe", cmds, via)
    BY <1>1, VerdictOf DEF Probe!ProbeAnswered, Probe!ProbeSilent, Probe!NoteReply, Probe!TypeOK
  <2>3. OneWriteEach'
    BY <1>1, <2>1, <2>2, NoteKeeps DEF Probe!ProbeAnswered, Probe!ProbeSilent, VerdictInv, OneWriteEach, Probe!Threads
  <2> QED
    BY <2>1, <2>2, <2>3, NoteKeeps DEF VerdictInv
<1>2. CASE Probe!StartAnswered
  <2>1. saving["request"] = None /\ "request" \in Probe!Threads
    BY <1>2 DEF Probe!StartAnswered, VerdictInv, OneWriteEach, Probe!Threads
  <2>2. Probe!Verdict(signed) \in Probe!Verdicts /\ Probe!NoteCapability("request", Probe!Verdict(signed), "local")
    BY <1>2, VerdictOf DEF Probe!StartAnswered, Probe!NoteReply, Probe!TypeOK
  <2>3. OneWriteEach'
    BY <1>2, <2>1, <2>2, NoteKeeps DEF Probe!StartAnswered, VerdictInv, OneWriteEach, Probe!Threads
  <2> QED
    BY <2>1, <2>2, <2>3, NoteKeeps DEF VerdictInv
<1>3. CASE Probe!SignatureNote
  <2>1. saving["poll"] = None /\ "poll" \in Probe!Threads
    BY <1>3 DEF Probe!SignatureNote, VerdictInv, OneWriteEach, Probe!Threads
  <2>2. Probe!Verdict(fun) \in Probe!Verdicts /\ Probe!NoteCapability("poll", Probe!Verdict(fun), "fun")
    BY <1>3, VerdictOf DEF Probe!SignatureNote, Probe!TypeOK
  <2>3. OneWriteEach'
    BY <1>3, <2>1, <2>2, NoteKeeps DEF Probe!SignatureNote, VerdictInv, OneWriteEach, Probe!Threads
  <2> QED
    BY <2>1, <2>2, <2>3, NoteKeeps DEF VerdictInv
<1>4. ASSUME NEW t \in Probe!Threads, Probe!Snapshot(t) PROVE VerdictInv'
  <2>1. saving' = [saving EXCEPT ![t] = cap.cmds] /\ saving[t] = "due"
        /\ UNCHANGED <<cap, verdict, overlap, probing, start, polling>>
    BY <1>4 DEF Probe!Snapshot
  <2>2. saving[t] # None /\ cap.cmds # None
    BY <2>1 DEF VerdictInv, SavingKnown, ProbeConstants
  <2>3. SavedKnown' /\ SavingKnown' /\ OneWriteEach' /\ Agree'
    BY <2>1, <2>2 DEF VerdictInv, SavedKnown, SavingKnown, OneWriteEach, Agree, Probe!TypeOK, Probe!Threads
  <2>4. OldNotLast'
    BY <2>1, <2>2 DEF VerdictInv, OldNotLast, Probe!TypeOK
  <2> QED
    BY <2>3, <2>4 DEF VerdictInv
<1>5. ASSUME NEW t \in Probe!Threads, Probe!WriteVerdict(t) PROVE VerdictInv'
  <2>1. verdict' = saving[t] /\ saving[t] \in Probe!Verdicts /\ saving' = [saving EXCEPT ![t] = None]
        /\ UNCHANGED <<cap, probing, start, polling>>
    BY <1>5 DEF Probe!WriteVerdict
  <2>2. overlap' <=> overlap \/ \E u \in Probe!Threads \ {t} : saving[u] \in Probe!Verdicts
    BY <1>5, Zenon DEF Probe!WriteVerdict, Probe!TypeOK
  <2>3. saving[t] # None /\ cap.cmds # None
    BY <2>1 DEF VerdictInv, SavingKnown, ProbeConstants, Probe!Verdicts
  <2>4. SavedKnown' /\ SavingKnown' /\ OneWriteEach'
    BY <2>1, <2>3 DEF VerdictInv, SavedKnown, SavingKnown, OneWriteEach, Probe!TypeOK, Probe!Threads
  <2>5. OldNotLast'
    BY <2>1, <2>2 DEF VerdictInv, OldNotLast, Probe!TypeOK, ProbeConstants, Probe!Verdicts
  <2>6. Agree'
    BY <2>1, <2>2 DEF VerdictInv, OldNotLast, Agree, Probe!TypeOK
  <2> QED
    BY <2>4, <2>5, <2>6 DEF VerdictInv
<1>6. CASE Probe!DashboardRestarts
  <2>1. saving' = [t \in Probe!Threads |-> None] /\ cap'.cmds = verdict /\ verdict' = verdict
    BY <1>6 DEF Probe!DashboardRestarts, Probe!Unknown
  <2>2. SavedKnown' /\ SavingKnown' /\ OneWriteEach' /\ Agree'
    BY <2>1 DEF SavedKnown, SavingKnown, OneWriteEach, Agree, Probe!Threads
  <2>3. OldNotLast'
    BY <2>1 DEF OldNotLast, ProbeConstants, Probe!Verdicts
  <2> QED
    BY <2>2, <2>3 DEF VerdictInv
<1>7. CASE Probe!ProbeLook \/ Probe!Arm \/ Probe!SignatureRead
  BY <1>7 DEF Probe!ProbeLook, Probe!Arm, Probe!SignatureRead, Probe!Free, VerdictInv, SavedKnown, SavingKnown, OneWriteEach,
              OldNotLast, Agree
<1>8. ASSUME \/ Probe!ProbePublish \/ Probe!StartPublish \/ Probe!StartSilent \/ Probe!Report \/ Probe!ScreenStarts \/ Probe!DryingEnds \/ Probe!TickMark
             \/ \E wants \in BOOLEAN, says \in BOOLEAN \cup {None} : Probe!ProtectionSwitched(wants, says)
             \/ UNCHANGED Probe!vars
      PROVE  VerdictInv'
  <2>1. UNCHANGED <<cap, saving, verdict, overlap, polling>>
    BY <1>8 DEF Probe!ProbePublish, Probe!StartPublish, Probe!StartSilent, Probe!Report, Probe!ScreenStarts, Probe!DryingEnds, Probe!TickMark,
                Probe!ProtectionSwitched, Probe!vars
  <2>2. (probing' # "rest" => probing # "rest") /\ (start' # "rest" => start # "rest")
    BY <1>8 DEF Probe!ProbePublish, Probe!StartPublish, Probe!StartSilent, Probe!Report, Probe!ScreenStarts, Probe!DryingEnds, Probe!TickMark,
                Probe!ProtectionSwitched, Probe!vars
  <2> QED
    BY <2>1, <2>2 DEF VerdictInv, SavedKnown, SavingKnown, OneWriteEach, OldNotLast, Agree
<1> QED
  BY <1>1, <1>2, <1>3, <1>4, <1>5, <1>6, <1>7, <1>8 DEF Probe!Next

\* A verdict on disk is one memory has too, and with no write under way it is the
\* same one, unless two writes overlapped before.
THEOREM VerdictIsKept == ASSUME ProbeConstants PROVE Probe!Spec => []Probe!VerdictKept
<1>1. Probe!Init => VerdictInv
  BY DEF Probe!Init, VerdictInv, SavedKnown, SavingKnown, OneWriteEach, OldNotLast, Agree, Probe!Threads, Probe!Verdicts,
         ProbeConstants
<1>2. Probe!TypeOK /\ VerdictInv /\ [Probe!Next]_(Probe!vars) => VerdictInv'
  BY VerdictStep
<1>3. VerdictInv => Probe!VerdictKept
  BY DEF VerdictInv, SavedKnown, Agree, Probe!VerdictKept
<1> QED
  BY <1>1, <1>2, <1>3, ProbeTypeCorrect, PTL DEF Probe!Spec

(***************************************************************************)
(* Part 3.  CommandRefresh.                                                *)
(***************************************************************************)

RefreshStages == {"gone", "asleep", "awake", "reading", "judging", "failing"}
Refreshers == [stage : RefreshStages, expect : Refresh!Goals \cup {None}, settling : {None, "yes", "no", "blind"}]


-----------------------------------------------------------------------------
LEMMA GoneTyped == Refresh!Gone \in Refreshers /\ Refresh!Gone.stage = "gone"
BY DEF Refresh!Gone, Refreshers, RefreshStages

LEMMA RefreshSentTyped ==
  ASSUME RefreshConstants, Refresh!TypeOK, NEW left \in {Least + 1, Most}, NEW expect \in Refresh!Goals \cup {None}
  PROVE  /\ [deadline |-> left, keep |-> Least, expect |-> expect] \in RefreshEntries
         /\ entry # None => Refresh!Widen(left, expect) \in RefreshEntries
BY DEF RefreshConstants, Refresh!TypeOK, Refresh!Widen, Refresh!Later, RefreshEntries

LEMMA RefreshTickTyped ==
  ASSUME RefreshConstants, Refresh!TypeOK, entry # None
  PROVE  [entry EXCEPT !.deadline = Refresh!Fewer(@), !.keep = Refresh!Fewer(@)] \in RefreshEntries
<1>1. entry \in RefreshEntries
  BY DEF Refresh!TypeOK, RefreshEntries
<1>2. Refresh!Fewer(entry.deadline) \in 0..Most /\ Refresh!Fewer(entry.keep) \in 0..Least
  BY <1>1 DEF RefreshEntries, Refresh!Fewer, RefreshConstants
<1> QED
  BY <1>1, <1>2 DEF RefreshEntries

LEMMA RefreshTypeStep == ASSUME RefreshConstants, Refresh!TypeOK, [Refresh!Next]_(Refresh!vars) PROVE Refresh!TypeOK'
<1> USE DEF Refresh!TypeOK, RefreshEntries, Refreshers, RefreshStages
<1>1. ASSUME NEW left \in {Least + 1, Most}, NEW expect \in Refresh!Goals \cup {None}, Refresh!CommandSent(left, expect)
      PROVE  Refresh!TypeOK'
  <2>1. entry' \in RefreshEntries
    BY <1>1, RefreshSentTyped DEF Refresh!CommandSent
  <2>2. refresher' \in [Loops -> Refreshers]
    BY <1>1 DEF Refresh!CommandSent
  <2>3. goal' \in Refresh!Goals \cup {None} /\ since' \in 0..Most /\ UNCHANGED <<state, card>>
    BY <1>1 DEF Refresh!CommandSent, RefreshConstants
  <2> QED
    BY <2>1, <2>2, <2>3
<1>2. ASSUME NEW l \in Loops, Refresh!LoopReads(l) \/ Refresh!LoopBlind(l) \/ Refresh!LoopRaises(l) PROVE Refresh!TypeOK'
  BY <1>2 DEF Refresh!LoopReads, Refresh!LoopBlind, Refresh!LoopRaises
<1>3. ASSUME NEW l \in Loops, Refresh!LoopJudges(l) \/ Refresh!LoopFails(l) PROVE Refresh!TypeOK'
  BY <1>3, GoneTyped DEF Refresh!LoopJudges, Refresh!LoopFails
<1>4. ASSUME NEW l \in Loops, NEW ams \in BOOLEAN, Refresh!LoopPasses(l, ams) PROVE Refresh!TypeOK'
  <2>1. PICK v \in {"yes", "no"} :
          refresher' = [refresher EXCEPT ![l].stage = "judging", ![l].settling = v]
    BY <1>4, Zenon DEF Refresh!LoopPasses
  <2> DEFINE next == [refresher[l] EXCEPT !.stage = "judging", !.settling = v]
  <2>2. refresher' = [refresher EXCEPT ![l] = next]
    BY <2>1
  <2>3. next \in Refreshers
    OBVIOUS
  <2>4. refresher' \in [Loops -> Refreshers]
    <3>1. refresher \in [Loops -> Refreshers]
      OBVIOUS
    <3> HIDE DEF next, Refreshers, Refresh!TypeOK
    <3> QED
      BY <2>2, <2>3, <3>1
  <2> QED
    BY <1>4, <2>4 DEF Refresh!LoopPasses
<1>5. CASE Refresh!Turns
  BY <1>5 DEF Refresh!Turns
<1>6. CASE Refresh!RefreshTick
  <2>1. entry' \in RefreshEntries
    BY <1>6, RefreshTickTyped DEF Refresh!RefreshTick
  <2>2. refresher' \in [Loops -> Refreshers]
    BY <1>6, GoneTyped DEF Refresh!RefreshTick
  <2>3. since' \in 0..Most
    BY <1>6 DEF Refresh!RefreshTick, RefreshConstants
  <2> QED
    BY <1>6, <2>1, <2>2, <2>3 DEF Refresh!RefreshTick
<1>7. CASE UNCHANGED Refresh!vars
  BY <1>7 DEF Refresh!vars
<1> QED
  BY <1>1, <1>2, <1>3, <1>4, <1>5, <1>6, <1>7 DEF Refresh!Next

\* Every variable keeps its type.
THEOREM RefreshTypeCorrect == ASSUME RefreshConstants PROVE Refresh!Spec => []Refresh!TypeOK
<1>1. Refresh!Init => Refresh!TypeOK
  BY GoneTyped DEF Refresh!Init, Refresh!TypeOK, RefreshConstants, Refresh!Goals, Refreshers, RefreshStages
<1>2. Refresh!TypeOK /\ [Refresh!Next]_(Refresh!vars) => Refresh!TypeOK'
  BY RefreshTypeStep
<1> QED
  BY <1>1, <1>2, PTL DEF Refresh!Spec

-----------------------------------------------------------------------------
\* The entry and its loop come and go together.
Paired == IF entry = None THEN Refresh!Running = {} ELSE \E l \in Loops : Refresh!Running = {l}

\* A step of loop l that leaves it running, and leaves the entry.
LEMMA StaysPaired ==
  ASSUME Refresh!TypeOK, Paired, NEW l \in Loops, refresher[l] # Refresh!Gone, entry' = entry,
         NEW r, r # Refresh!Gone, refresher' = [refresher EXCEPT ![l] = r]
  PROVE  Paired'
<1>1. Refresh!Running' = Refresh!Running
  BY DEF Refresh!Running, Refresh!TypeOK
<1> QED
  BY <1>1 DEF Paired

LEMMA PairedStep == ASSUME RefreshConstants, Refresh!TypeOK, Paired, [Refresh!Next]_(Refresh!vars) PROVE Paired'
<1>1. ASSUME NEW left \in {Least + 1, Most}, NEW expect \in Refresh!Goals \cup {None}, Refresh!CommandSent(left, expect)
      PROVE  Paired'
  <2>1. entry' # None
    BY <1>1, RefreshSentTyped DEF Refresh!CommandSent, RefreshConstants
  <2>2. CASE entry = None
    <3>1. PICK l \in Loops : refresher[l] = Refresh!Gone /\ refresher' = [refresher EXCEPT ![l].stage = "asleep"]
      BY <1>1, <2>2 DEF Refresh!CommandSent
    <3>2. refresher'[l].stage = "asleep" /\ \A k \in Loops \ {l} : refresher'[k] = refresher[k]
      BY <3>1 DEF Refresh!TypeOK
    <3>3. Refresh!Running' = {l}
      BY <2>2, <3>2, GoneTyped DEF Paired, Refresh!Running
    <3> QED
      BY <2>1, <3>3 DEF Paired
  <2>3. CASE entry # None
    BY <1>1, <2>1, <2>3 DEF Refresh!CommandSent, Paired, Refresh!Running
  <2> QED
    BY <2>2, <2>3
<1>2. ASSUME NEW l \in Loops, Refresh!LoopReads(l) \/ Refresh!LoopBlind(l) \/ Refresh!LoopRaises(l) PROVE Paired'
  <2>1. refresher[l] # Refresh!Gone /\ entry' = entry
    BY <1>2, GoneTyped DEF Refresh!LoopReads, Refresh!LoopBlind, Refresh!LoopRaises
  <2>2. PICK r : refresher' = [refresher EXCEPT ![l] = r] /\ r.stage # "gone"
    <3>1. CASE Refresh!LoopReads(l)
      <4>1. refresher' = [refresher EXCEPT ![l] = [refresher[l] EXCEPT !.stage = "reading",
                            !.expect = IF entry = None THEN None ELSE entry.expect]]
        BY <3>1 DEF Refresh!LoopReads
      <4>2. [refresher[l] EXCEPT !.stage = "reading",
               !.expect = IF entry = None THEN None ELSE entry.expect].stage = "reading"
        BY DEF Refresh!TypeOK
      <4> QED
        BY <4>1, <4>2
    <3>2. CASE Refresh!LoopBlind(l)
      <4>1. refresher' = [refresher EXCEPT ![l] = [refresher[l] EXCEPT !.stage = "judging", !.settling = "blind"]]
        BY <3>2 DEF Refresh!LoopBlind
      <4>2. [refresher[l] EXCEPT !.stage = "judging", !.settling = "blind"].stage = "judging"
        BY DEF Refresh!TypeOK
      <4> QED
        BY <4>1, <4>2
    <3>3. CASE Refresh!LoopRaises(l)
      <4>1. refresher' = [refresher EXCEPT ![l] = [refresher[l] EXCEPT !.stage = "failing"]]
        BY <3>3 DEF Refresh!LoopRaises
      <4>2. [refresher[l] EXCEPT !.stage = "failing"].stage = "failing"
        BY DEF Refresh!TypeOK
      <4> QED
        BY <4>1, <4>2
    <3> QED
      BY <1>2, <3>1, <3>2, <3>3
  <2> QED
    BY <2>1, <2>2, StaysPaired, GoneTyped
<1>3. ASSUME NEW l \in Loops, NEW ams \in BOOLEAN, Refresh!LoopPasses(l, ams) PROVE Paired'
  <2>1. refresher[l] # Refresh!Gone /\ entry' = entry
    BY <1>3, GoneTyped DEF Refresh!LoopPasses
  <2>2. PICK r : refresher' = [refresher EXCEPT ![l] = r] /\ r.stage = "judging"
    <3>1. PICK v : refresher' = [refresher EXCEPT ![l] = [refresher[l] EXCEPT !.stage = "judging", !.settling = v]]
      BY <1>3 DEF Refresh!LoopPasses
    <3>2. [refresher[l] EXCEPT !.stage = "judging", !.settling = v].stage = "judging"
      BY DEF Refresh!TypeOK
    <3> QED
      BY <3>1, <3>2
  <2> QED
    BY <2>1, <2>2, StaysPaired, GoneTyped
<1>4. ASSUME NEW l \in Loops, Refresh!LoopJudges(l) \/ Refresh!LoopFails(l) PROVE Paired'
  <2>1. refresher[l] # Refresh!Gone
    BY <1>4, GoneTyped DEF Refresh!LoopJudges, Refresh!LoopFails
  <2>2. entry # None /\ Refresh!Running = {l}
    BY <2>1 DEF Paired, Refresh!Running
  <2>3. CASE entry' = None /\ refresher' = [refresher EXCEPT ![l] = Refresh!Gone]
    BY <2>2, <2>3 DEF Paired, Refresh!Running, Refresh!TypeOK
  <2>4. CASE entry' = entry /\ refresher' = [refresher EXCEPT ![l] = [Refresh!Gone EXCEPT !.stage = "asleep"]]
    <3>1. [Refresh!Gone EXCEPT !.stage = "asleep"].stage = "asleep"
      BY DEF Refresh!Gone
    <3> QED
      BY <2>1, <2>4, <3>1, StaysPaired, GoneTyped
  <2> QED
    BY <1>4, <2>3, <2>4 DEF Refresh!LoopJudges, Refresh!LoopFails
<1>5. CASE Refresh!Turns \/ UNCHANGED Refresh!vars
  BY <1>5 DEF Refresh!Turns, Refresh!vars, Paired, Refresh!Running
<1>6. CASE Refresh!RefreshTick
  <2>1. entry # None /\ entry' # None
    <3>1. entry' \in RefreshEntries
      BY <1>6, RefreshTickTyped DEF Refresh!RefreshTick
    <3> QED
      BY <1>6, <3>1 DEF Refresh!RefreshTick, RefreshConstants
  <2>2. \A l \in Loops : refresher'[l] = Refresh!Gone <=> refresher[l] = Refresh!Gone
    <3> SUFFICES ASSUME NEW l \in Loops, refresher[l] # Refresh!Gone PROVE refresher'[l] # Refresh!Gone
      BY <1>6 DEF Refresh!RefreshTick
    <3>1. refresher'[l].stage = "awake"
      BY <1>6 DEF Refresh!RefreshTick, Refresh!TypeOK
    <3> QED
      BY <3>1, GoneTyped
  <2> QED
    BY <2>1, <2>2 DEF Paired, Refresh!Running
<1> QED
  BY <1>1, <1>2, <1>3, <1>4, <1>5, <1>6 DEF Refresh!Next

LEMMA PairedAlways == ASSUME RefreshConstants PROVE Refresh!Spec => []Paired
<1>1. Refresh!Init => Paired
  BY DEF Refresh!Init, Paired, Refresh!Running
<1>2. Refresh!TypeOK /\ Paired /\ [Refresh!Next]_(Refresh!vars) => Paired'
  BY PairedStep
<1> QED
  BY <1>1, <1>2, RefreshTypeCorrect, PTL DEF Refresh!Spec

\* The printer has one refresh loop while there is an entry and none without one.
THEOREM OneLoopAtATime == ASSUME RefreshConstants PROVE Refresh!Spec => []Refresh!OneLoop
<1>1. Paired => Refresh!OneLoop
  BY RefreshCounts, FS_EmptySet, FS_Singleton DEF Paired, Refresh!OneLoop
<1> QED
  BY <1>1, PairedAlways, PTL
-----------------------------------------------------------------------------
\* The clocks of the entry against the time since the newest command.
ClocksKept ==
  entry # None =>
    /\ entry.expect = goal
    /\ entry.keep + since >= Least
    /\ entry.deadline + since > Least
\* What a pass has read, unless a command came since.
PassKnows ==
  \A l \in Loops :
    /\ refresher[l].stage \in {"reading", "judging"} /\ since # 0 => refresher[l].expect = goal
    /\ refresher[l].stage = "judging" /\ refresher[l].settling = "no" /\ since # 0 => goal \in {None, card}
FollowInv == Paired /\ ClocksKept /\ PassKnows

LEMMA ClocksStep ==
  ASSUME RefreshConstants, Refresh!TypeOK, FollowInv, [Refresh!Next]_(Refresh!vars) PROVE ClocksKept'
<1> USE DEF FollowInv, ClocksKept
<1>1. ASSUME NEW left \in {Least + 1, Most}, NEW expect \in Refresh!Goals \cup {None}, Refresh!CommandSent(left, expect)
      PROVE  ClocksKept'
  <2>1. CASE entry = None
    BY <1>1, <2>1 DEF Refresh!CommandSent, RefreshConstants
  <2>2. CASE entry # None
    <3>1. entry' = Refresh!Widen(left, expect) /\ entry' \in RefreshEntries /\ entry \in RefreshEntries /\ since' = 0
      BY <1>1, <2>2, RefreshSentTyped DEF Refresh!CommandSent, Refresh!TypeOK, RefreshEntries
    <3>2. entry'.keep = Least /\ entry'.expect = (IF expect # None THEN expect ELSE entry.expect)
          /\ entry'.deadline = Refresh!Later(entry.deadline, left)
      BY <3>1 DEF Refresh!Widen
    <3>3. entry'.deadline > Least /\ entry'.deadline \in Nat
      BY <3>1, <3>2 DEF Refresh!Later, RefreshConstants, RefreshEntries
    <3>4. entry'.expect = goal'
      BY <1>1, <2>2, <3>2 DEF Refresh!CommandSent
    <3> QED
      BY <3>1, <3>2, <3>3, <3>4 DEF RefreshConstants
  <2> QED
    BY <2>1, <2>2
<1>2. ASSUME NEW l \in Loops, \/ Refresh!LoopReads(l) \/ Refresh!LoopBlind(l) \/ Refresh!LoopRaises(l) \/ Refresh!LoopFails(l)
                              \/ Refresh!LoopJudges(l) \/ \E ams \in BOOLEAN : Refresh!LoopPasses(l, ams)
      PROVE  ClocksKept'
  <2>1. entry' \in {entry, None} /\ UNCHANGED <<goal, since>>
    BY <1>2 DEF Refresh!LoopReads, Refresh!LoopBlind, Refresh!LoopRaises, Refresh!LoopFails, Refresh!LoopJudges, Refresh!LoopPasses
  <2> QED
    BY <2>1
<1>3. CASE Refresh!Turns \/ UNCHANGED Refresh!vars
  BY <1>3 DEF Refresh!Turns, Refresh!vars
<1>4. CASE Refresh!RefreshTick
  <2>1. entry \in RefreshEntries /\ entry' = [entry EXCEPT !.deadline = Refresh!Fewer(@), !.keep = Refresh!Fewer(@)] /\ goal' = goal
    BY <1>4 DEF Refresh!RefreshTick, Refresh!TypeOK, RefreshEntries
  <2>2. entry'.deadline = Refresh!Fewer(entry.deadline) /\ entry'.keep = Refresh!Fewer(entry.keep) /\ entry'.expect = entry.expect
    BY <2>1 DEF RefreshEntries
  <2>3. entry.deadline \in Nat /\ entry.keep \in Nat /\ since \in 0..Most
    BY <2>1 DEF RefreshEntries, Refresh!TypeOK, RefreshConstants
  <2>4. since' = IF since < Most THEN since + 1 ELSE since
    BY <1>4 DEF Refresh!RefreshTick
  <2> QED
    BY <1>4, <2>1, <2>2, <2>3, <2>4 DEF Refresh!RefreshTick, Refresh!Fewer, RefreshConstants
<1> QED
  BY <1>1, <1>2, <1>3, <1>4 DEF Refresh!Next

LEMMA PassStep ==
  ASSUME RefreshConstants, Refresh!TypeOK, FollowInv, [Refresh!Next]_(Refresh!vars) PROVE PassKnows'
<1> USE DEF PassKnows
<1>1. ASSUME NEW left \in {Least + 1, Most}, NEW expect \in Refresh!Goals \cup {None}, Refresh!CommandSent(left, expect)
      PROVE  PassKnows'
  BY <1>1 DEF Refresh!CommandSent
<1>2. ASSUME NEW l \in Loops, Refresh!LoopReads(l) PROVE PassKnows'
  <2>1. entry # None
    BY <1>2, GoneTyped DEF Refresh!LoopReads, FollowInv, Paired, Refresh!Running
  <2>2. entry.expect = goal
    BY <2>1 DEF FollowInv, ClocksKept
  <2>3. refresher'[l].stage = "reading" /\ refresher'[l].expect = goal
    BY <1>2, <2>1, <2>2 DEF Refresh!LoopReads, Refresh!TypeOK
  <2>4. \A k \in Loops \ {l} : refresher'[k] = refresher[k]
    BY <1>2 DEF Refresh!LoopReads, Refresh!TypeOK
  <2> QED
    BY <1>2, <2>3, <2>4 DEF Refresh!LoopReads, FollowInv
<1>3. ASSUME NEW l \in Loops, NEW ams \in BOOLEAN, Refresh!LoopPasses(l, ams) PROVE PassKnows'
  <2>1. \A k \in Loops \ {l} : refresher'[k] = refresher[k] /\ refresher[k] = Refresh!Gone
    <3>1. \A k \in Loops \ {l} : refresher'[k] = refresher[k]
      BY <1>3 DEF Refresh!LoopPasses, Refresh!TypeOK
    <3>2. \A k \in Loops \ {l} : refresher[k] = Refresh!Gone
      BY <1>3, GoneTyped DEF Refresh!LoopPasses, FollowInv, Paired, Refresh!Running
    <3> QED
      BY <3>1, <3>2
  <2>2. PICK v \in {"yes", "no"} :
          /\ refresher' = [refresher EXCEPT ![l].stage = "judging", ![l].settling = v]
          /\ v = "no" => refresher[l].expect \in {None, state}
    BY <1>3, Zenon DEF Refresh!LoopPasses
  <2>3. /\ refresher'[l].stage = "judging" /\ refresher'[l].settling = v
        /\ refresher'[l].expect = refresher[l].expect
    BY <2>2 DEF Refresh!TypeOK
  <2>4. since # 0 => refresher[l].expect = goal
    BY <1>3 DEF Refresh!LoopPasses, FollowInv
  <2>5. card' = state /\ UNCHANGED <<goal, since>>
    BY <1>3 DEF Refresh!LoopPasses
  <2> QED
    BY <2>1, <2>2, <2>3, <2>4, <2>5, GoneTyped
<1>4. ASSUME NEW l \in Loops, Refresh!LoopBlind(l) \/ Refresh!LoopRaises(l) PROVE PassKnows'
  <2>1. \A k \in Loops \ {l} : refresher'[k] = refresher[k]
    BY <1>4 DEF Refresh!LoopBlind, Refresh!LoopRaises, Refresh!TypeOK
  <2>2. /\ refresher[l].stage = "reading"
        /\ refresher'[l].expect = refresher[l].expect
        /\ refresher'[l].stage = "judging" => refresher'[l].settling = "blind"
    BY <1>4 DEF Refresh!LoopBlind, Refresh!LoopRaises, Refresh!TypeOK
  <2>3. UNCHANGED <<goal, since, card>>
    BY <1>4 DEF Refresh!LoopBlind, Refresh!LoopRaises
  <2> QED
    BY <2>1, <2>2, <2>3 DEF FollowInv
<1>5. ASSUME NEW l \in Loops, Refresh!LoopJudges(l) \/ Refresh!LoopFails(l) PROVE PassKnows'
  <2>1. refresher'[l].stage \in {"gone", "asleep"} /\ \A k \in Loops \ {l} : refresher'[k] = refresher[k]
    BY <1>5, GoneTyped DEF Refresh!LoopJudges, Refresh!LoopFails, Refresh!TypeOK, Refresh!Gone
  <2>2. UNCHANGED <<goal, since, card>>
    BY <1>5 DEF Refresh!LoopJudges, Refresh!LoopFails
  <2> QED
    BY <2>1, <2>2 DEF FollowInv
<1>6. CASE Refresh!Turns \/ UNCHANGED Refresh!vars
  BY <1>6 DEF Refresh!Turns, Refresh!vars, FollowInv
<1>7. CASE Refresh!RefreshTick
  <2>1. \A l \in Loops : refresher'[l].stage \in {"gone", "awake"}
    BY <1>7, GoneTyped DEF Refresh!RefreshTick, Refresh!TypeOK
  <2> QED
    BY <2>1
<1> QED
  BY <1>1, <1>2, <1>3, <1>4, <1>5, <1>6, <1>7 DEF Refresh!Next

LEMMA FollowAlways == ASSUME RefreshConstants PROVE Refresh!Spec => []FollowInv
<1>1. Refresh!Init => FollowInv
  BY GoneTyped DEF Refresh!Init, FollowInv, Paired, Refresh!Running, ClocksKept, PassKnows
<1>2. Refresh!TypeOK /\ FollowInv /\ [Refresh!Next]_(Refresh!vars) => FollowInv'
  BY PairedStep, ClocksStep, PassStep DEF FollowInv
<1> QED
  BY <1>1, <1>2, RefreshTypeCorrect, PTL DEF Refresh!Spec

\* A loop that sees the printer and does not fail follows the newest command: for the
\* least time, and on to its deadline unless the card shows the awaited state.
THEOREM NewestFollowed == ASSUME RefreshConstants PROVE Refresh!Spec => Refresh!RefreshFollows
<1> DEFINE Ending ==
      \/ \E l \in Refresh!Running : refresher[l].stage = "failing" \/ refresher[l].settling = "blind"
      \/ since > Least
      \/ since = Least /\ goal \in {None, card}
<1>1. Refresh!TypeOK /\ FollowInv /\ [Refresh!Next]_(Refresh!vars) => [entry # None /\ entry' = None => Ending]_(Refresh!vars)
  <2> SUFFICES ASSUME Refresh!TypeOK, FollowInv, Refresh!Next, entry # None, entry' = None PROVE Ending
    OBVIOUS
  <2>1. PICK l \in Loops : Refresh!LoopJudges(l) \/ Refresh!LoopFails(l)
    <3>1. ASSUME NEW left \in {Least + 1, Most}, NEW expect \in Refresh!Goals \cup {None}, Refresh!CommandSent(left, expect)
          PROVE  FALSE
      BY <3>1, RefreshSentTyped DEF Refresh!CommandSent, RefreshConstants
    <3>2. CASE Refresh!RefreshTick
      BY <3>2, RefreshTickTyped DEF Refresh!RefreshTick, RefreshConstants
    <3> QED
      BY <3>1, <3>2 DEF Refresh!Next, Refresh!LoopReads, Refresh!LoopBlind, Refresh!LoopRaises, Refresh!LoopPasses, Refresh!Turns
  <2>2. l \in Refresh!Running
    BY <2>1, GoneTyped DEF Refresh!LoopJudges, Refresh!LoopFails, Refresh!Running
  <2>3. CASE Refresh!LoopFails(l)
    BY <2>2, <2>3 DEF Refresh!LoopFails
  <2>4. CASE Refresh!LoopJudges(l)
    <3>1. Refresh!Over(l) /\ refresher[l].stage = "judging"
      BY <2>4 DEF Refresh!LoopJudges
    <3>2. \/ refresher[l].settling = "blind"
          \/ entry.deadline = 0
          \/ refresher[l].settling = "no" /\ entry.keep = 0
      BY <3>1 DEF Refresh!Over
    <3>3. CASE refresher[l].settling = "blind"
      BY <2>2, <3>3
    <3>4. CASE entry.deadline = 0
      BY <3>4 DEF FollowInv, ClocksKept, Refresh!TypeOK, RefreshConstants
    <3>5. CASE refresher[l].settling = "no" /\ entry.keep = 0
      <4>1. since \in Nat /\ since >= Least
        BY <3>5 DEF FollowInv, ClocksKept, Refresh!TypeOK, RefreshConstants
      <4>2. goal \in {None, card}
        BY <3>1, <3>5, <4>1 DEF FollowInv, PassKnows, RefreshConstants
      <4> QED
        BY <4>1, <4>2 DEF RefreshConstants
    <3> QED
      BY <3>2, <3>3, <3>4, <3>5
  <2> QED
    BY <2>1, <2>3, <2>4
<1> QED
  BY <1>1, RefreshTypeCorrect, FollowAlways, PTL DEF Refresh!Spec, Refresh!RefreshFollows

(***************************************************************************)
(* Part 4.  NoticeActions.                                                 *)
(***************************************************************************)
PressActions(c) ==
  \/ Press!Look(c) \/ Press!ResetOne(c) \/ Press!Claim(c) \/ Press!Publish(c) \/ Press!Finally(c)
  \/ \E u \in AmsUnits : Press!ClaimUnit(c, u)
  \/ \E fate \in {"ok", "failed"} : Press!Ends(c, fate)
LEMMA PressMoves ==
  ASSUME [Press!Next]_(Press!vars)
  PROVE  \/ \E c \in Senders : PressActions(c)
         \/ \E u \in AmsUnits : Press!EngineClaims(u) \/ Press!EngineStarts(u)
         \/ Press!Tick \/ UNCHANGED Press!vars
BY Zenon DEF Press!Next, PressActions

\* What each step leaves of its own press, and of the others.
LEMMA PressGoes ==
  ASSUME Press!TypeOK, NEW c \in Senders, NEW to \in Press!Presses, press' = [press EXCEPT ![c] = to]
  PROVE  /\ press' \in [Senders -> Press!Presses] /\ press'[c] = to
         /\ \A d \in Senders \ {c} : press'[d] = press[d]
BY DEF Press!TypeOK

LEMMA RestTyped ==
  /\ Press!AtRest \in Press!Presses /\ Press!AtRest.at = "rest" /\ Press!AtRest.took = {}
  /\ Press!AtRest.fleet = FALSE
BY DEF Press!AtRest, Press!Presses

LEMMA PressLooks ==
  ASSUME PressConstants, Press!TypeOK, NEW c \in Senders, Press!Look(c) \/ Press!ResetOne(c)
  PROVE  /\ press[c].at = "rest" /\ UNCHANGED <<claimMark, holder, dries, noted, orders>>
         /\ press' \in [Senders -> Press!Presses] /\ \A d \in Senders \ {c} : press'[d] = press[d]
         /\ press'[c].at = "looked" /\ press'[c].took = {}
<1>1. CASE Press!Look(c)
  <2>1. PICK r \in Notifications : \E a \in {b \in Press!Buttons(r) : Press!Allows(b, r)} : \E confirmed \in BOOLEAN :
          /\ Press!Action(a).asks => confirmed
          /\ press' = [press EXCEPT ![c] =
               [Press!AtRest EXCEPT !.at = "looked", !.action = a, !.saw = r,
                  !.asked = Press!Action(a).asks /\ confirmed,
                  !.drying = a = "dry_stop", !.todo = IF a = "dry_stop" THEN dries ELSE {}]]
    BY <1>1 DEF Press!Look
  <2>2. PICK a \in {b \in Press!Buttons(r) : Press!Allows(b, r)}, confirmed \in BOOLEAN :
          press' = [press EXCEPT ![c] =
               [Press!AtRest EXCEPT !.at = "looked", !.action = a, !.saw = r,
                  !.asked = Press!Action(a).asks /\ confirmed,
                  !.drying = a = "dry_stop", !.todo = IF a = "dry_stop" THEN dries ELSE {}]]
    BY <2>1
  <2> DEFINE to == [Press!AtRest EXCEPT !.at = "looked", !.action = a, !.saw = r,
                      !.asked = Press!Action(a).asks /\ confirmed,
                      !.drying = a = "dry_stop", !.todo = IF a = "dry_stop" THEN dries ELSE {}]
  <2>3. a \in Press!Keys
    BY DEF Press!Buttons, Press!Keys
  <2>4. (Press!Action(a).asks /\ confirmed) \in BOOLEAN /\ dries \subseteq AmsUnits
    BY DEF Press!TypeOK
  <2>5. to \in Press!Presses /\ to.at = "looked" /\ to.took = {}
    BY <2>3, <2>4 DEF Press!Presses, Press!AtRest
  <2> HIDE DEF to
  <2>6. press' = [press EXCEPT ![c] = to]
    BY <2>2 DEF to
  <2> QED
    BY <1>1, <2>5, <2>6, PressGoes DEF Press!Look
<1>2. CASE Press!ResetOne(c)
  <2>1. PICK r \in Notifications :
          press' = [press EXCEPT ![c] =
            [Press!AtRest EXCEPT !.at = "looked", !.action = "clean", !.saw = r, !.fleet = TRUE]]
    BY <1>2 DEF Press!ResetOne
  <2> DEFINE to == [Press!AtRest EXCEPT !.at = "looked", !.action = "clean", !.saw = r, !.fleet = TRUE]
  <2>2. to \in Press!Presses /\ to.at = "looked" /\ to.took = {}
    BY DEF Press!Presses, Press!AtRest, Press!Keys
  <2> HIDE DEF to
  <2>3. press' = [press EXCEPT ![c] = to]
    BY <2>1 DEF to
  <2> QED
    BY <1>2, <2>2, <2>3, PressGoes DEF Press!ResetOne
<1> QED
  BY <1>1, <1>2

LEMMA PressClaims ==
  ASSUME PressConstants, Press!TypeOK, NEW c \in Senders, Press!Claim(c)
  PROVE  /\ press[c].at = "looked" /\ UNCHANGED <<holder, dries, noted, orders>>
         /\ press' \in [Senders -> Press!Presses] /\ \A d \in Senders \ {c} : press'[d] = press[d]
         /\ press'[c].took = {}
         /\ \/ press'[c].at = "rest" /\ claimMark' = claimMark
            \/ /\ claimMark = None \/ ~(claimMark.age < Guard)
               /\ press'[c].at = "claimed" /\ claimMark' = [age |-> 0, by |-> c]
               /\ ~press'[c].drying => press'[c].todo = {}
<1>1. CASE claimMark # None /\ claimMark.age < Guard
  <2>1. press' = [press EXCEPT ![c] = Press!AtRest] /\ claimMark' = claimMark
    BY <1>1 DEF Press!Claim
  <2> QED
    BY <2>1, RestTyped, PressGoes DEF Press!Claim
<1>2. CASE ~(claimMark # None /\ claimMark.age < Guard)
  <2> DEFINE to == [Press!AtRest EXCEPT !.at = "claimed", !.drying = press[c].drying,
                      !.todo = IF press[c].drying THEN press[c].todo \cup dries ELSE {}]
  <2>1. press' = [press EXCEPT ![c] = to] /\ claimMark' = [age |-> 0, by |-> c]
    BY <1>2 DEF Press!Claim
  <2>2. press[c] \in Press!Presses /\ dries \subseteq AmsUnits
    BY DEF Press!TypeOK
  <2>3. press[c].drying \in BOOLEAN /\ (IF press[c].drying THEN press[c].todo \cup dries ELSE {}) \in SUBSET AmsUnits
    BY <2>2 DEF Press!Presses
  <2>4. /\ to \in Press!Presses /\ to.at = "claimed" /\ to.took = {}
        /\ to.drying = press[c].drying /\ to.todo = (IF press[c].drying THEN press[c].todo \cup dries ELSE {})
    BY <2>3 DEF Press!Presses, Press!AtRest
  <2> HIDE DEF to
  <2>5. ~to.drying => to.todo = {}
    BY <2>4, Zenon
  <2> QED
    BY <1>2, <2>1, <2>4, <2>5, PressGoes DEF Press!Claim
<1> QED
  BY <1>1, <1>2

LEMMA PressClaimsUnit ==
  ASSUME PressConstants, Press!TypeOK, NEW c \in Senders, NEW u \in AmsUnits, Press!ClaimUnit(c, u)
  PROVE  /\ press[c].at = "claimed" /\ u \in press[c].todo /\ UNCHANGED <<claimMark, dries, noted, orders>>
         /\ press' \in [Senders -> Press!Presses] /\ \A d \in Senders \ {c} : press'[d] = press[d]
         /\ press'[c].drying = press[c].drying
         /\ \/ /\ holder[u] = None /\ holder' = [holder EXCEPT ![u] = c]
               /\ press'[c].at = "claimed" /\ press'[c].took = press[c].took \cup {u}
            \/ holder' = holder /\ press'[c].at = "failed" /\ press'[c].took = press[c].took
<1>1. press[c] \in Press!Presses
  BY DEF Press!TypeOK
<1>2. CASE holder[u] = None
  <2> DEFINE to == [press[c] EXCEPT !.todo = press[c].todo \ {u}, !.took = press[c].took \cup {u}]
  <2>1. press' = [press EXCEPT ![c] = to] /\ holder' = [holder EXCEPT ![u] = c]
    BY <1>2 DEF Press!ClaimUnit
  <2>2. press[c].todo \ {u} \in SUBSET AmsUnits /\ press[c].took \cup {u} \in SUBSET AmsUnits
    BY <1>1 DEF Press!Presses
  <2>3. /\ to \in Press!Presses /\ to.at = press[c].at /\ to.took = press[c].took \cup {u}
        /\ to.drying = press[c].drying
    BY <1>1, <2>2 DEF Press!Presses
  <2> HIDE DEF to
  <2> QED
    BY <1>2, <2>1, <2>3, PressGoes DEF Press!ClaimUnit
<1>3. CASE holder[u] # None
  <2> DEFINE to == [press[c] EXCEPT !.at = "failed"]
  <2>1. press' = [press EXCEPT ![c] = to] /\ holder' = holder
    BY <1>3 DEF Press!ClaimUnit
  <2>2. to \in Press!Presses /\ to.at = "failed" /\ to.took = press[c].took /\ to.drying = press[c].drying
    BY <1>1 DEF Press!Presses
  <2> HIDE DEF to
  <2> QED
    BY <2>1, <2>2, PressGoes DEF Press!ClaimUnit
<1> QED
  BY <1>2, <1>3

\* The orders whose sender still waits are its own, one each.
Owned ==
  /\ \A n \in DOMAIN orders : orders[n].by # None => press[orders[n].by].at = "sent" /\ orders[n].fate = "out"
  /\ \A m, n \in DOMAIN orders : orders[m].by # None /\ orders[m].by = orders[n].by => m = n
  /\ \A c \in Senders : press[c].at = "sent" => \E n \in DOMAIN orders : orders[n].by = c

LEMMA PressPublishes ==
  ASSUME PressConstants, Press!TypeOK, NEW c \in Senders, Press!Publish(c)
  PROVE  /\ press[c].at = "claimed" /\ press[c].todo = {} /\ UNCHANGED <<claimMark, holder, noted>>
         /\ press' \in [Senders -> Press!Presses] /\ \A d \in Senders \ {c} : press'[d] = press[d]
         /\ press'[c].at = "sent" /\ press'[c].took = press[c].took
         /\ dries' = (IF press[c].drying THEN {} ELSE dries)
         /\ orders' \in Seq(Press!Orders) /\ Len(orders') <= MaxPresses
         /\ DOMAIN orders' = DOMAIN orders \cup {Len(orders) + 1} /\ Len(orders) + 1 \notin DOMAIN orders
         /\ orders'[Len(orders) + 1].by = c /\ orders'[Len(orders) + 1].age = 0
         /\ orders'[Len(orders) + 1].fate = "out"
         /\ \A n \in DOMAIN orders : orders'[n] = orders[n]
<1> DEFINE to == [press[c] EXCEPT !.at = "sent"]
           order == [by |-> c, age |-> 0, fate |-> "out"]
<1>1. /\ press' = [press EXCEPT ![c] = to] /\ orders' = Append(orders, order) /\ Len(orders) < MaxPresses
      /\ dries' = (IF press[c].drying THEN {} ELSE dries)
  BY DEF Press!Publish
<1>2. press[c] \in Press!Presses /\ orders \in Seq(Press!Orders) /\ order \in Press!Orders
  BY DEF Press!TypeOK, Press!Orders, PressConstants
<1>3. to \in Press!Presses /\ to.at = "sent" /\ to.took = press[c].took
  BY <1>2 DEF Press!Presses
<1> HIDE DEF to, order
<1>4. /\ orders' \in Seq(Press!Orders) /\ Len(orders') <= MaxPresses
      /\ Len(orders) \in Nat /\ DOMAIN orders = 1..Len(orders) /\ DOMAIN orders' = 1..(Len(orders) + 1)
      /\ orders'[Len(orders) + 1] = order
      /\ \A n \in DOMAIN orders : orders'[n] = orders[n]
  BY <1>1, <1>2 DEF PressConstants
<1>5. /\ press' \in [Senders -> Press!Presses] /\ \A d \in Senders \ {c} : press'[d] = press[d]
      /\ press'[c].at = "sent" /\ press'[c].took = press[c].took
  BY <1>1, <1>3, PressGoes
<1>6. DOMAIN orders' = DOMAIN orders \cup {Len(orders) + 1} /\ Len(orders) + 1 \notin DOMAIN orders
  BY <1>4
<1>7. order.by = c /\ order.age = 0 /\ order.fate = "out"
  BY DEF order
<1> QED
  BY <1>1, <1>4, <1>5, <1>6, <1>7 DEF Press!Publish

LEMMA PressEnds ==
  ASSUME PressConstants, Press!TypeOK, Owned, NEW c \in Senders, NEW fate \in {"ok", "failed"}, Press!Ends(c, fate)
  PROVE  /\ press[c].at = "sent" /\ UNCHANGED <<claimMark, holder, dries>>
         /\ press' \in [Senders -> Press!Presses] /\ \A d \in Senders \ {c} : press'[d] = press[d]
         /\ press'[c].at = (IF fate = "ok" THEN "done" ELSE "failed") /\ press'[c].took = press[c].took
         /\ noted' = (IF fate = "ok" THEN noted \cup press[c].took ELSE noted)
         /\ orders' \in Seq(Press!Orders) /\ Len(orders') = Len(orders) /\ DOMAIN orders' = DOMAIN orders
         /\ \E n \in DOMAIN orders :
              /\ orders[n].by = c /\ \A m \in DOMAIN orders \ {n} : orders'[m] = orders[m] /\ orders[m].by # c
              /\ orders'[n] = [by |-> None, age |-> IF fate = "ok" THEN orders[n].age ELSE Guard, fate |-> fate]
<1> DEFINE to == [press[c] EXCEPT !.at = IF fate = "ok" THEN "done" ELSE "failed"]
           n == Press!Mine(c)
           order == [by |-> None, age |-> IF fate = "ok" THEN orders[n].age ELSE Guard, fate |-> fate]
<1>1. /\ press[c].at = "sent" /\ press' = [press EXCEPT ![c] = to]
      /\ orders' = [orders EXCEPT ![n].fate = fate, ![n].by = None,
                                  ![n].age = IF fate = "ok" THEN @ ELSE Guard]
  BY DEF Press!Ends
<1>2. n \in DOMAIN orders /\ orders[n].by = c
  BY <1>1 DEF Owned, Press!Mine
<1>3. \A m \in DOMAIN orders \ {n} : orders[m].by # c
  BY <1>2 DEF Owned, PressConstants
<1>4. press[c] \in Press!Presses /\ orders \in Seq(Press!Orders)
  BY DEF Press!TypeOK
<1>5. orders[n] \in Press!Orders /\ Len(orders) \in Nat /\ DOMAIN orders = 1..Len(orders)
  BY <1>2, <1>4
<1> HIDE DEF n
<1>6. order \in Press!Orders
  BY <1>5 DEF Press!Orders, PressConstants
<1>7. orders' = [orders EXCEPT ![n] = order]
  <2>1. orders' = [orders EXCEPT ![n] = [[[orders[n] EXCEPT !.fate = fate] EXCEPT !.by = None] EXCEPT
                                          !.age = IF fate = "ok" THEN orders[n].age ELSE Guard]]
    BY <1>1, <1>2, <1>4, <1>5 DEF Press!Orders
  <2>2. [[[orders[n] EXCEPT !.fate = fate] EXCEPT !.by = None] EXCEPT
                                          !.age = IF fate = "ok" THEN orders[n].age ELSE Guard] = order
    <3>1. orders[n] = [by |-> orders[n].by, age |-> orders[n].age, fate |-> orders[n].fate]
      BY <1>5 DEF Press!Orders
    <3> DEFINE by == orders[n].by
               old == orders[n].age
               was == orders[n].fate
               now == IF fate = "ok" THEN orders[n].age ELSE Guard
    <3>2. orders[n] = [by |-> by, age |-> old, fate |-> was]
      BY <3>1
    <3> HIDE DEF by, old, was, now
    <3>3. [orders[n] EXCEPT !.fate = fate] = [by |-> by, age |-> old, fate |-> fate]
      BY <3>2
    <3>4. [[by |-> by, age |-> old, fate |-> fate] EXCEPT !.by = None] = [by |-> None, age |-> old, fate |-> fate]
      OBVIOUS
    <3>5. [[by |-> None, age |-> old, fate |-> fate] EXCEPT !.age = now] = [by |-> None, age |-> now, fate |-> fate]
      OBVIOUS
    <3> QED
      BY <3>3, <3>4, <3>5, Zenon DEF now
  <2> QED
    BY <2>1, <2>2
<1> HIDE DEF order
<1>8. /\ orders' \in Seq(Press!Orders) /\ Len(orders') = Len(orders) /\ DOMAIN orders' = DOMAIN orders
      /\ orders'[n] = order /\ \A m \in DOMAIN orders \ {n} : orders'[m] = orders[m]
  BY <1>2, <1>4, <1>5, <1>6, <1>7
<1>9. /\ to \in Press!Presses /\ to.at = (IF fate = "ok" THEN "done" ELSE "failed")
      /\ to.took = press[c].took
  BY <1>4 DEF Press!Presses
<1> HIDE DEF to
<1>10. /\ press' \in [Senders -> Press!Presses] /\ \A d \in Senders \ {c} : press'[d] = press[d]
       /\ press'[c].at = (IF fate = "ok" THEN "done" ELSE "failed") /\ press'[c].took = press[c].took
  BY <1>1, <1>9, PressGoes
<1>11. orders'[n] = [by |-> None, age |-> IF fate = "ok" THEN orders[n].age ELSE Guard, fate |-> fate]
  BY <1>8 DEF order
<1> QED
  BY <1>1, <1>2, <1>3, <1>8, <1>10, <1>11 DEF Press!Ends

LEMMA PressFinishes ==
  ASSUME PressConstants, Press!TypeOK, NEW c \in Senders, Press!Finally(c)
  PROVE  /\ press[c].at \in {"done", "failed"} /\ UNCHANGED <<dries, noted, orders>>
         /\ press' \in [Senders -> Press!Presses] /\ \A d \in Senders \ {c} : press'[d] = press[d]
         /\ press'[c].at = "rest" /\ press'[c].took = {}
         /\ holder' = [u \in AmsUnits |-> IF u \in press[c].took THEN None ELSE holder[u]]
         /\ claimMark' = (IF press[c].at = "failed" /\ claimMark # None /\ claimMark.by = c THEN None ELSE claimMark)
BY RestTyped, PressGoes DEF Press!Finally, Press!Released

LEMMA PressTicks ==
  ASSUME PressConstants, Press!TypeOK, Press!Tick
  PROVE  /\ claimMark # None /\ claimMark.age < Guard /\ UNCHANGED <<press, holder, dries, noted>>
         /\ \A c \in Senders : press[c].at \in {"rest", "looked", "sent"}
         /\ claimMark' # None /\ claimMark'.age = claimMark.age + 1 /\ claimMark'.by = claimMark.by
         /\ claimMark' \in [age : 0..Guard, by : Senders]
         /\ orders' \in Seq(Press!Orders) /\ Len(orders') = Len(orders) /\ DOMAIN orders' = DOMAIN orders
         /\ \A n \in DOMAIN orders :
              /\ orders'[n].by = orders[n].by /\ orders'[n].fate = orders[n].fate
              /\ orders'[n].age = IF orders[n].age < Guard THEN orders[n].age + 1 ELSE orders[n].age
<1>1. /\ claimMark # None /\ claimMark.age < Guard /\ claimMark' = [claimMark EXCEPT !.age = claimMark.age + 1]
      /\ orders' = [n \in DOMAIN orders |->
                      [orders[n] EXCEPT !.age = IF orders[n].age < Guard THEN orders[n].age + 1 ELSE orders[n].age]]
  BY DEF Press!Tick
<1>2. claimMark \in [age : 0..Guard, by : Senders] /\ Guard \in Nat
  BY <1>1 DEF Press!TypeOK, PressConstants
<1>3. /\ claimMark'.age = claimMark.age + 1 /\ claimMark'.by = claimMark.by
      /\ claimMark' \in [age : 0..Guard, by : Senders]
  BY <1>1, <1>2
<1>4. claimMark' # None
  BY <1>3 DEF PressConstants
<1>5. orders \in Seq(Press!Orders) /\ Len(orders) \in Nat /\ DOMAIN orders = 1..Len(orders)
  BY LenProperties DEF Press!TypeOK
<1>6. ASSUME NEW n \in DOMAIN orders
      PROVE  /\ orders'[n] \in Press!Orders /\ orders'[n].by = orders[n].by /\ orders'[n].fate = orders[n].fate
             /\ orders'[n].age = IF orders[n].age < Guard THEN orders[n].age + 1 ELSE orders[n].age
  <2>1. orders[n] \in Press!Orders
    BY <1>5, ElementOfSeq
  <2>2. orders'[n] = [orders[n] EXCEPT !.age = IF orders[n].age < Guard THEN orders[n].age + 1 ELSE orders[n].age]
    BY <1>1
  <2> QED
    BY <1>2, <2>1, <2>2 DEF Press!Orders
<1>7. orders' \in [1..Len(orders) -> Press!Orders]
  BY <1>1, <1>5, <1>6
<1>8. orders' \in Seq(Press!Orders) /\ Len(orders') = Len(orders) /\ DOMAIN orders' = DOMAIN orders
  BY <1>5, <1>7, SeqDef, LenProperties
<1> QED
  BY <1>1, <1>3, <1>4, <1>6, <1>8 DEF Press!Tick

LEMMA PressTypeStep ==
  ASSUME PressConstants, Press!TypeOK, Owned, [Press!Next]_(Press!vars)
  PROVE  Press!TypeOK'
<1>0. /\ press \in [Senders -> Press!Presses] /\ claimMark \in [age : 0..Guard, by : Senders] \cup {None}
      /\ holder \in [AmsUnits -> Senders \cup {"engine", None}] /\ dries \subseteq AmsUnits /\ noted \subseteq AmsUnits
      /\ orders \in Seq(Press!Orders) /\ Len(orders) <= MaxPresses /\ Guard \in Nat
      /\ \A c \in Senders : press[c].took \subseteq AmsUnits
  <2>1. press \in [Senders -> Press!Presses]
    BY DEF Press!TypeOK
  <2>2. \A c \in Senders : press[c].took \subseteq AmsUnits
    BY <2>1 DEF Press!Presses
  <2> QED
    BY <2>1, <2>2 DEF Press!TypeOK, PressConstants
<1>1. ASSUME NEW c \in Senders, PressActions(c) PROVE Press!TypeOK'
  <2>1. CASE Press!Look(c) \/ Press!ResetOne(c)
    BY <1>0, <2>1, PressLooks DEF Press!TypeOK
  <2>2. CASE Press!Claim(c)
    <3>1. [age |-> 0, by |-> c] \in [age : 0..Guard, by : Senders]
      BY <1>0
    <3> QED
      BY <1>0, <2>2, <3>1, PressClaims DEF Press!TypeOK
  <2>3. CASE Press!Publish(c)
    BY <1>0, <2>3, PressPublishes DEF Press!TypeOK
  <2>4. CASE Press!Finally(c)
    BY <1>0, <2>4, PressFinishes DEF Press!TypeOK
  <2>5. ASSUME NEW u \in AmsUnits, Press!ClaimUnit(c, u) PROVE Press!TypeOK'
    BY <1>0, <2>5, PressClaimsUnit DEF Press!TypeOK
  <2>6. ASSUME NEW fate \in {"ok", "failed"}, Press!Ends(c, fate) PROVE Press!TypeOK'
    BY <1>0, <2>6, PressEnds DEF Press!TypeOK
  <2> QED
    BY <1>1, <2>1, <2>2, <2>3, <2>4, <2>5, <2>6 DEF PressActions
<1>2. ASSUME NEW u \in AmsUnits, Press!EngineClaims(u) \/ Press!EngineStarts(u) PROVE Press!TypeOK'
  BY <1>0, <1>2 DEF Press!TypeOK, Press!EngineClaims, Press!EngineStarts
<1>3. CASE Press!Tick
  BY <1>0, <1>3, PressTicks DEF Press!TypeOK
<1>4. CASE UNCHANGED Press!vars
  BY <1>0, <1>4 DEF Press!TypeOK, Press!vars
<1> QED
  BY <1>1, <1>2, <1>3, <1>4, PressMoves

LEMMA OwnedStep ==
  ASSUME PressConstants, Press!TypeOK, Owned, [Press!Next]_(Press!vars)
  PROVE  Owned'
\* Who is not waiting for an answer has no order to lose.
<1>1. ASSUME orders' = orders, NEW c \in Senders, press[c].at # "sent", press'[c].at # "sent",
             \A d \in Senders \ {c} : press'[d] = press[d]
      PROVE  Owned'
  <2>1. \A n \in DOMAIN orders : orders[n].by # c
    BY <1>1 DEF Owned, PressConstants
  <2>2. \A n \in DOMAIN orders : orders[n].by # None => orders[n].by \in Senders
    <3>1. \A n \in DOMAIN orders : orders[n] \in Press!Orders
      BY ElementOfSeq, LenProperties DEF Press!TypeOK
    <3> QED
      BY <3>1 DEF Press!Orders
  <2> QED
    BY <1>1, <2>1, <2>2 DEF Owned
<1>2. ASSUME UNCHANGED <<press, orders>> PROVE Owned'
  BY <1>2 DEF Owned
<1>3. \A n \in DOMAIN orders : orders[n].by \in Senders \cup {None}
  <2>1. \A n \in DOMAIN orders : orders[n] \in Press!Orders
    BY ElementOfSeq, LenProperties DEF Press!TypeOK
  <2> QED
    BY <2>1 DEF Press!Orders
<1>4. ASSUME NEW c \in Senders, PressActions(c) PROVE Owned'
  <2>1. CASE Press!Look(c) \/ Press!ResetOne(c)
    BY <1>1, <2>1, PressLooks
  <2>2. CASE Press!Claim(c)
    BY <1>1, <2>2, PressClaims
  <2>3. CASE Press!Publish(c)
    <3> DEFINE k == Len(orders) + 1
    <3>1. /\ press[c].at = "claimed" /\ press'[c].at = "sent" /\ \A d \in Senders \ {c} : press'[d] = press[d]
          /\ DOMAIN orders' = DOMAIN orders \cup {k} /\ orders'[k].by = c /\ orders'[k].fate = "out"
          /\ \A n \in DOMAIN orders : orders'[n] = orders[n]
      BY <2>3, PressPublishes
    <3> HIDE DEF k
    <3>2. \A n \in DOMAIN orders : orders[n].by # c
      BY <3>1 DEF Owned, PressConstants
    <3> QED
      BY <1>3, <3>1, <3>2 DEF Owned
  <2>4. CASE Press!Finally(c)
    BY <1>1, <2>4, PressFinishes
  <2>5. ASSUME NEW u \in AmsUnits, Press!ClaimUnit(c, u) PROVE Owned'
    BY <1>1, <2>5, PressClaimsUnit
  <2>6. ASSUME NEW fate \in {"ok", "failed"}, Press!Ends(c, fate) PROVE Owned'
    <3>1. /\ press'[c].at # "sent" /\ \A d \in Senders \ {c} : press'[d] = press[d]
          /\ DOMAIN orders' = DOMAIN orders
          /\ \E n \in DOMAIN orders :
               /\ orders[n].by = c /\ \A m \in DOMAIN orders \ {n} : orders'[m] = orders[m] /\ orders[m].by # c
               /\ orders'[n] = [by |-> None, age |-> IF fate = "ok" THEN orders[n].age ELSE Guard, fate |-> fate]
      BY <2>6, PressEnds
    <3>2. PICK n \in DOMAIN orders :
            /\ orders[n].by = c /\ \A m \in DOMAIN orders \ {n} : orders'[m] = orders[m] /\ orders[m].by # c
            /\ orders'[n] = [by |-> None, age |-> IF fate = "ok" THEN orders[n].age ELSE Guard, fate |-> fate]
      BY <3>1
    <3>3. orders'[n].by = None
      BY <3>2
    <3> QED
      BY <1>3, <3>1, <3>2, <3>3 DEF Owned
  <2> QED
    BY <1>4, <2>1, <2>2, <2>3, <2>4, <2>5, <2>6 DEF PressActions
<1>5. ASSUME NEW u \in AmsUnits, Press!EngineClaims(u) \/ Press!EngineStarts(u) PROVE Owned'
  BY <1>2, <1>5 DEF Press!EngineClaims, Press!EngineStarts
<1>6. CASE Press!Tick
  BY <1>6, PressTicks DEF Owned
<1>7. CASE UNCHANGED Press!vars
  BY <1>2, <1>7 DEF Press!vars
<1> QED
  BY <1>4, <1>5, <1>6, <1>7, PressMoves

-----------------------------------------------------------------------------
\* A unit is held by the press that took it, and no unit whose stop is under way or known
\* dries or is about to.
StopInv ==
  /\ \A c \in Senders, u \in AmsUnits : holder[u] = c <=> u \in press[c].took
  /\ \A c \in Senders : press[c].at = "claimed" /\ ~press[c].drying => press[c].todo = {} /\ press[c].took = {}
  /\ \A c \in Senders : press[c].at \in {"rest", "looked"} => press[c].took = {}
  /\ noted \cap dries = {} /\ \A u \in AmsUnits : holder[u] = "engine" => u \notin noted
  /\ \A c \in Senders : press[c].at \in {"sent", "done"} => press[c].took \cap dries = {}
LEMMA StopStep ==
  ASSUME PressConstants, Press!TypeOK, Owned, StopInv, [Press!Next]_(Press!vars)
  PROVE  StopInv'
<1>0. /\ holder \in [AmsUnits -> Senders \cup {"engine", None}] /\ dries \subseteq AmsUnits /\ noted \subseteq AmsUnits
      /\ None \notin Senders /\ "engine" \notin Senders /\ None # "engine"
      /\ \A c \in Senders : press[c].took \subseteq AmsUnits
  <2>1. press \in [Senders -> Press!Presses]
    BY DEF Press!TypeOK
  <2>2. \A c \in Senders : press[c].took \subseteq AmsUnits
    BY <2>1 DEF Press!Presses
  <2> QED
    BY <2>2 DEF Press!TypeOK, PressConstants
<1>1. ASSUME NEW c \in Senders, PressActions(c) PROVE StopInv'
  <2>1. CASE Press!Look(c) \/ Press!ResetOne(c)
    <3>1. /\ press[c].at = "rest" /\ UNCHANGED <<holder, dries, noted>>
          /\ press'[c].at = "looked" /\ press'[c].took = {} /\ \A d \in Senders \ {c} : press'[d] = press[d]
      BY <2>1, PressLooks
    <3> QED
      BY <1>0, <3>1 DEF StopInv
  <2>2. CASE Press!Claim(c)
    <3>1. /\ press[c].at = "looked" /\ UNCHANGED <<holder, dries, noted>>
          /\ press'[c].at = "rest" \/ (press'[c].at = "claimed" /\ (~press'[c].drying => press'[c].todo = {}))
          /\ press'[c].took = {} /\ \A d \in Senders \ {c} : press'[d] = press[d]
      BY <2>2, PressClaims
    <3> QED
      BY <1>0, <3>1 DEF StopInv
  <2>3. CASE Press!Publish(c)
    <3>1. /\ press[c].at = "claimed" /\ press[c].todo = {} /\ UNCHANGED <<holder, noted>>
          /\ press'[c].at = "sent" /\ press'[c].took = press[c].took /\ \A d \in Senders \ {c} : press'[d] = press[d]
          /\ dries' = (IF press[c].drying THEN {} ELSE dries)
      BY <2>3, PressPublishes
    <3>2. dries' \subseteq dries /\ (press[c].drying => dries' = {})
      BY <3>1, Zenon
    <3>3. press[c].took \cap dries' = {}
      BY <3>1, <3>2 DEF StopInv
    <3> QED
      BY <1>0, <3>1, <3>2, <3>3 DEF StopInv
  <2>4. CASE Press!Finally(c)
    <3>1. /\ press[c].at \in {"done", "failed"} /\ UNCHANGED <<dries, noted>>
          /\ press'[c].at = "rest" /\ press'[c].took = {} /\ \A d \in Senders \ {c} : press'[d] = press[d]
          /\ holder' = [u \in AmsUnits |-> IF u \in press[c].took THEN None ELSE holder[u]]
      BY <2>4, PressFinishes
    <3>2. \A u \in AmsUnits : u \in press[c].took <=> holder[u] = c
      BY DEF StopInv
    <3>3. \A u \in AmsUnits, d \in Senders : holder'[u] = d <=> (d # c /\ holder[u] = d)
      BY <1>0, <3>1, <3>2
    <3> QED
      BY <1>0, <3>1, <3>3 DEF StopInv
  <2>5. ASSUME NEW u \in AmsUnits, Press!ClaimUnit(c, u) PROVE StopInv'
    <3>1. /\ press[c].at = "claimed" /\ u \in press[c].todo /\ UNCHANGED <<dries, noted>>
          /\ \A d \in Senders \ {c} : press'[d] = press[d]
          /\ press'[c].drying = press[c].drying
          /\ \/ /\ holder[u] = None /\ holder' = [holder EXCEPT ![u] = c]
                /\ press'[c].at = "claimed" /\ press'[c].took = press[c].took \cup {u}
             \/ holder' = holder /\ press'[c].at = "failed" /\ press'[c].took = press[c].took
      BY <2>5, PressClaimsUnit
    <3>2. press[c].drying
      BY <3>1 DEF StopInv
    <3>3. CASE /\ holder[u] = None /\ holder' = [holder EXCEPT ![u] = c]
               /\ press'[c].at = "claimed" /\ press'[c].took = press[c].took \cup {u}
      <4>1. \A x \in AmsUnits, d \in Senders : holder'[x] = d <=> holder[x] = d \/ (x = u /\ d = c)
        BY <1>0, <3>3
      <4>2. \A x \in AmsUnits : holder'[x] = "engine" => holder[x] = "engine"
        BY <1>0, <3>3
      <4> QED
        <5>1. \A d \in Senders, x \in AmsUnits : holder'[x] = d <=> x \in press'[d].took
          BY <3>1, <3>3, <4>1 DEF StopInv
        <5>2. \A d \in Senders : press'[d].at = "claimed" /\ ~press'[d].drying => press'[d].todo = {} /\ press'[d].took = {}
          <6>1. press'[c].drying
            BY <3>1, <3>2, Zenon
          <6> QED
            BY <3>1, <6>1 DEF StopInv
        <5>3. \A d \in Senders : press'[d].at \in {"rest", "looked"} => press'[d].took = {}
          BY <3>1, <3>3 DEF StopInv
        <5>4. noted' \cap dries' = {} /\ \A x \in AmsUnits : holder'[x] = "engine" => x \notin noted'
          BY <3>1, <4>2 DEF StopInv
        <5>5. \A d \in Senders : press'[d].at \in {"sent", "done"} => press'[d].took \cap dries' = {}
          BY <3>1, <3>3 DEF StopInv
        <5> QED
          BY <5>1, <5>2, <5>3, <5>4, <5>5 DEF StopInv
    <3>4. CASE holder' = holder /\ press'[c].at = "failed" /\ press'[c].took = press[c].took
      BY <1>0, <3>1, <3>4 DEF StopInv
    <3> QED
      BY <3>1, <3>3, <3>4
  <2>6. ASSUME NEW fate \in {"ok", "failed"}, Press!Ends(c, fate) PROVE StopInv'
    <3>1. /\ press[c].at = "sent" /\ UNCHANGED <<holder, dries>>
          /\ press'[c].at \in {"done", "failed"} /\ press'[c].took = press[c].took
          /\ \A d \in Senders \ {c} : press'[d] = press[d]
      BY <2>6, PressEnds
    <3>2. noted' \in {noted, noted \cup press[c].took}
      BY <2>6, PressEnds
    <3>3. press[c].took \cap dries = {} /\ \A u \in press[c].took : holder[u] = c
      BY <1>0, <3>1 DEF StopInv
    <3>4. noted' \cap dries = {} /\ \A u \in AmsUnits : holder[u] = "engine" => u \notin noted'
      BY <1>0, <3>2, <3>3 DEF StopInv
    <3> QED
      BY <1>0, <3>1, <3>3, <3>4 DEF StopInv
  <2> QED
    BY <1>1, <2>1, <2>2, <2>3, <2>4, <2>5, <2>6 DEF PressActions
<1>2. ASSUME NEW u \in AmsUnits, Press!EngineClaims(u) \/ Press!EngineStarts(u) PROVE StopInv'
  <2>1. CASE Press!EngineClaims(u)
    <3>1. /\ holder[u] = None /\ u \notin noted /\ holder' = [holder EXCEPT ![u] = "engine"]
          /\ UNCHANGED <<press, dries, noted>>
      BY <2>1 DEF Press!EngineClaims
    <3> QED
      BY <1>0, <3>1 DEF StopInv
  <2>2. CASE Press!EngineStarts(u)
    <3>1. /\ holder[u] = "engine" /\ holder' = [holder EXCEPT ![u] = None] /\ dries' = dries \cup {u}
          /\ UNCHANGED <<press, noted>>
      BY <2>2 DEF Press!EngineStarts
    <3>2. u \notin noted /\ \A c \in Senders : u \notin press[c].took
      BY <1>0, <3>1 DEF StopInv
    <3> QED
      BY <1>0, <3>1, <3>2 DEF StopInv
  <2> QED
    BY <1>2, <2>1, <2>2
<1>3. ASSUME UNCHANGED <<press, holder, dries, noted>> PROVE StopInv'
  BY <1>3 DEF StopInv
<1>4. Press!Tick \/ UNCHANGED Press!vars => StopInv'
  BY <1>3, PressTicks DEF Press!vars
<1> QED
  BY <1>1, <1>2, <1>4, PressMoves

-----------------------------------------------------------------------------
\* An order that may take effect and is younger than the guard is the one the mark stands
\* for: nobody claims beside it, and only its own failure takes the mark away.
Fresh(n) == orders[n].fate # "failed" /\ orders[n].age < Guard
MarkInv ==
  /\ \A n \in DOMAIN orders : Fresh(n) => claimMark # None /\ claimMark.age = orders[n].age
  /\ \A c \in Senders : press[c].at = "claimed" => claimMark # None /\ claimMark.age = 0 /\ claimMark.by = c
  /\ \A c \in Senders, n \in DOMAIN orders :
       /\ press[c].at = "claimed" \/ (press[c].at = "failed" /\ claimMark # None /\ claimMark.by = c) => ~Fresh(n)
       /\ press[c].at = "sent" /\ claimMark # None /\ claimMark.by = c /\ Fresh(n) => orders[n].by = c
  /\ \A c \in Senders : claimMark # None /\ claimMark.by = c =>
       /\ press[c].at \in {"rest", "looked", "done"}
            => \E n \in DOMAIN orders : orders[n].fate = "ok" /\ orders[n].age = claimMark.age
       /\ press[c].at = "sent" => \E n \in DOMAIN orders : orders[n].by = c /\ orders[n].age = claimMark.age
LEMMA MarkStep ==
  ASSUME PressConstants, Press!TypeOK, Owned, MarkInv, [Press!Next]_(Press!vars)
  PROVE  MarkInv'
<1>0. /\ claimMark \in [age : 0..Guard, by : Senders] \cup {None} /\ Guard \in Nat \ {0}
      /\ None \notin Senders /\ None \notin [age : 0..Guard, by : Senders]
      /\ press \in [Senders -> Press!Presses] /\ Len(orders) \in Nat /\ DOMAIN orders = 1..Len(orders)
      /\ \A n \in DOMAIN orders : orders[n] \in Press!Orders
  BY ElementOfSeq, LenProperties DEF Press!TypeOK, PressConstants
<1>1. ASSUME NEW c \in Senders, \A d \in Senders \ {c} : press'[d] = press[d], UNCHANGED <<claimMark, orders>>,
             \/ press[c].at = "rest" /\ press'[c].at = "looked"
             \/ press[c].at = "looked" /\ press'[c].at = "rest"
             \/ press[c].at = "claimed" /\ press'[c].at \in {"claimed", "failed"}
             \/ press[c].at = "done" /\ press'[c].at = "rest"
             \/ press[c].at = "failed" /\ press'[c].at = "rest" /\ (claimMark = None \/ claimMark.by # c)
      PROVE  MarkInv'
  <2>1. \A n \in DOMAIN orders : Fresh(n)' <=> Fresh(n)
    BY <1>1 DEF Fresh
  <2> QED
    BY <1>1, <2>1 DEF MarkInv
<1>2. ASSUME NEW c \in Senders, PressActions(c) PROVE MarkInv'
  <2>1. CASE Press!Look(c) \/ Press!ResetOne(c)
    BY <1>1, <2>1, PressLooks
  <2>2. CASE Press!Claim(c)
    <3>1. /\ press[c].at = "looked" /\ orders' = orders /\ \A d \in Senders \ {c} : press'[d] = press[d]
          /\ \/ press'[c].at = "rest" /\ claimMark' = claimMark
             \/ /\ claimMark = None \/ ~(claimMark.age < Guard)
                /\ press'[c].at = "claimed" /\ claimMark' = [age |-> 0, by |-> c]
      BY <2>2, PressClaims
    <3>2. CASE press'[c].at = "rest" /\ claimMark' = claimMark
      BY <1>1, <3>1, <3>2
    <3>3. CASE /\ claimMark = None \/ ~(claimMark.age < Guard)
               /\ press'[c].at = "claimed" /\ claimMark' = [age |-> 0, by |-> c]
      <4>1. \A n \in DOMAIN orders : ~Fresh(n) /\ ~Fresh(n)'
        BY <3>1, <3>3 DEF MarkInv, Fresh
      <4>2. \A d \in Senders : press[d].at # "claimed"
        BY <1>0, <3>3 DEF MarkInv
      <4>3. claimMark' # None /\ claimMark'.age = 0 /\ claimMark'.by = c
        BY <1>0, <3>3
      <4> QED
        BY <3>1, <3>3, <4>1, <4>2, <4>3 DEF MarkInv
    <3> QED
      BY <3>1, <3>2, <3>3
  <2>3. CASE Press!Publish(c)
    <3> DEFINE k == Len(orders) + 1
    <3>1. /\ press[c].at = "claimed" /\ press'[c].at = "sent" /\ \A d \in Senders \ {c} : press'[d] = press[d]
          /\ claimMark' = claimMark /\ DOMAIN orders' = DOMAIN orders \cup {k} /\ k \notin DOMAIN orders
          /\ orders'[k].by = c /\ orders'[k].age = 0 /\ orders'[k].fate = "out"
          /\ \A n \in DOMAIN orders : orders'[n] = orders[n]
      BY <2>3, PressPublishes
    <3> HIDE DEF k
    <3>2. /\ claimMark # None /\ claimMark.age = 0 /\ claimMark.by = c
          /\ \A n \in DOMAIN orders : ~Fresh(n)
          /\ \A d \in Senders \ {c} : press[d].at # "claimed"
      BY <3>1 DEF MarkInv
    <3>3. \A n \in DOMAIN orders' : Fresh(n)' => n = k
      BY <3>1, <3>2 DEF Fresh
    <3> QED
      BY <3>1, <3>2, <3>3 DEF MarkInv
  <2>4. CASE Press!Finally(c)
    <3>1. /\ press[c].at \in {"done", "failed"} /\ orders' = orders
          /\ \A d \in Senders \ {c} : press'[d] = press[d]
          /\ claimMark' = (IF press[c].at = "failed" /\ claimMark # None /\ claimMark.by = c THEN None ELSE claimMark)
      BY <2>4, PressFinishes
    <3>2. press'[c].at = "rest"
      BY <2>4, PressFinishes
    <3>3. CASE press[c].at = "failed" /\ claimMark # None /\ claimMark.by = c
      <4>1. claimMark' = None
        BY <3>1, <3>3
      <4>2. \A n \in DOMAIN orders : ~Fresh(n) /\ ~Fresh(n)'
        BY <3>1, <3>3 DEF MarkInv, Fresh
      <4>3. \A d \in Senders : press[d].at # "claimed"
        BY <3>3 DEF MarkInv
      <4> QED
        BY <3>1, <3>2, <4>1, <4>2, <4>3 DEF MarkInv
    <3>4. CASE ~(press[c].at = "failed" /\ claimMark # None /\ claimMark.by = c)
      BY <1>1, <3>1, <3>2, <3>4
    <3> QED
      BY <3>3, <3>4
  <2>5. ASSUME NEW u \in AmsUnits, Press!ClaimUnit(c, u) PROVE MarkInv'
    BY <1>1, <2>5, PressClaimsUnit
  <2>6. ASSUME NEW fate \in {"ok", "failed"}, Press!Ends(c, fate) PROVE MarkInv'
    <3>1. /\ press[c].at = "sent" /\ claimMark' = claimMark /\ \A d \in Senders \ {c} : press'[d] = press[d]
          /\ press'[c].at = (IF fate = "ok" THEN "done" ELSE "failed")
          /\ DOMAIN orders' = DOMAIN orders
          /\ \E n \in DOMAIN orders :
               /\ orders[n].by = c /\ \A m \in DOMAIN orders \ {n} : orders'[m] = orders[m] /\ orders[m].by # c
               /\ orders'[n] = [by |-> None, age |-> IF fate = "ok" THEN orders[n].age ELSE Guard, fate |-> fate]
      BY <2>6, PressEnds
    <3>2. PICK n \in DOMAIN orders :
            /\ orders[n].by = c /\ \A m \in DOMAIN orders \ {n} : orders'[m] = orders[m] /\ orders[m].by # c
            /\ orders'[n] = [by |-> None, age |-> IF fate = "ok" THEN orders[n].age ELSE Guard, fate |-> fate]
      BY <3>1
    <3>3. orders'[n].by = None /\ orders'[n].fate = fate /\ orders[n].fate = "out"
          /\ orders'[n].age = (IF fate = "ok" THEN orders[n].age ELSE Guard)
      BY <1>0, <3>2 DEF Owned
    <3>4. /\ \A m \in DOMAIN orders : Fresh(m)' => Fresh(m)
          /\ fate = "failed" => ~Fresh(n)'
      BY <3>2, <3>3 DEF Fresh
    <3>5. \A m \in DOMAIN orders : orders[m].fate = "ok" \/ orders[m].by \in Senders \ {c} => orders'[m] = orders[m]
      BY <3>2, <3>3
    <3>6. CASE fate = "ok"
      <4>1. press'[c].at = "done" /\ orders'[n].age = orders[n].age /\ orders'[n].fate = "ok"
        BY <3>1, <3>3, <3>6
      <4>2. \A m \in DOMAIN orders : orders'[m].age = orders[m].age
        BY <3>2, <4>1
      <4>3. claimMark # None /\ claimMark.by = c => orders[n].age = claimMark.age
        BY <3>1, <3>2 DEF MarkInv
      <4>4. \A m \in DOMAIN orders' : Fresh(m)' => claimMark' # None /\ claimMark'.age = orders'[m].age
        BY <3>1, <3>4, <4>2 DEF MarkInv
      <4>5. ASSUME NEW d \in Senders PROVE press'[d].at = "claimed" => claimMark' # None /\ claimMark'.age = 0 /\ claimMark'.by = d
        BY <3>1, <4>1 DEF MarkInv
      <4>6. ASSUME NEW d \in Senders, NEW m \in DOMAIN orders'
            PROVE  /\ press'[d].at = "claimed" \/ (press'[d].at = "failed" /\ claimMark' # None /\ claimMark'.by = d) => ~Fresh(m)'
                   /\ press'[d].at = "sent" /\ claimMark' # None /\ claimMark'.by = d /\ Fresh(m)' => orders'[m].by = d
        BY <3>1, <3>2, <3>4, <3>5, <4>1 DEF MarkInv
      <4>7. ASSUME NEW d \in Senders, claimMark' # None, claimMark'.by = d
            PROVE  /\ press'[d].at \in {"rest", "looked", "done"}
                       => \E m \in DOMAIN orders' : orders'[m].fate = "ok" /\ orders'[m].age = claimMark'.age
                   /\ press'[d].at = "sent" => \E m \in DOMAIN orders' : orders'[m].by = d /\ orders'[m].age = claimMark'.age
        <5>1. CASE d = c
          BY <3>1, <4>1, <4>3, <4>7, <5>1
        <5>2. CASE d # c
          BY <3>1, <3>5, <4>7, <5>2 DEF MarkInv
        <5> QED
          BY <5>1, <5>2
      <4> QED
        BY <4>4, <4>5, <4>6, <4>7 DEF MarkInv
    <3>7. CASE fate = "failed"
      <4>1. press'[c].at = "failed" /\ ~Fresh(n)'
        BY <3>1, <3>4, <3>7
      <4>2. \A m \in DOMAIN orders : Fresh(m)' => orders'[m] = orders[m]
        BY <3>2, <4>1
      <4>4. \A m \in DOMAIN orders' : Fresh(m)' => claimMark' # None /\ claimMark'.age = orders'[m].age
        BY <3>1, <3>4, <4>2 DEF MarkInv
      <4>5. ASSUME NEW d \in Senders PROVE press'[d].at = "claimed" => claimMark' # None /\ claimMark'.age = 0 /\ claimMark'.by = d
        BY <3>1, <4>1 DEF MarkInv
      <4>6. ASSUME NEW d \in Senders, NEW m \in DOMAIN orders'
            PROVE  /\ press'[d].at = "claimed" \/ (press'[d].at = "failed" /\ claimMark' # None /\ claimMark'.by = d) => ~Fresh(m)'
                   /\ press'[d].at = "sent" /\ claimMark' # None /\ claimMark'.by = d /\ Fresh(m)' => orders'[m].by = d
        <5>1. CASE d = c
          BY <3>1, <3>2, <3>4, <4>1, <4>2, <5>1 DEF MarkInv
        <5>2. CASE d # c
          BY <3>1, <3>4, <4>2, <5>2 DEF MarkInv
        <5> QED
          BY <5>1, <5>2
      <4>7. ASSUME NEW d \in Senders, claimMark' # None, claimMark'.by = d
            PROVE  /\ press'[d].at \in {"rest", "looked", "done"}
                       => \E m \in DOMAIN orders' : orders'[m].fate = "ok" /\ orders'[m].age = claimMark'.age
                   /\ press'[d].at = "sent" => \E m \in DOMAIN orders' : orders'[m].by = d /\ orders'[m].age = claimMark'.age
        <5>1. CASE d = c
          BY <4>1, <5>1
        <5>2. CASE d # c
          BY <3>1, <3>5, <4>7, <5>2 DEF MarkInv
        <5> QED
          BY <5>1, <5>2
      <4> QED
        BY <4>4, <4>5, <4>6, <4>7 DEF MarkInv
    <3> QED
      BY <3>6, <3>7
  <2> QED
    BY <1>2, <2>1, <2>2, <2>3, <2>4, <2>5, <2>6 DEF PressActions
<1>3. ASSUME UNCHANGED <<press, claimMark, orders>> PROVE MarkInv'
  BY <1>3 DEF MarkInv, Fresh
<1>4. \A u \in AmsUnits : Press!EngineClaims(u) \/ Press!EngineStarts(u) => MarkInv'
  BY <1>3 DEF Press!EngineClaims, Press!EngineStarts
<1>5. CASE Press!Tick
  <2>1. /\ claimMark # None /\ claimMark.age < Guard /\ press' = press
        /\ \A c \in Senders : press[c].at \in {"rest", "looked", "sent"}
        /\ claimMark' # None /\ claimMark'.age = claimMark.age + 1 /\ claimMark'.by = claimMark.by
        /\ DOMAIN orders' = DOMAIN orders
        /\ \A n \in DOMAIN orders :
             /\ orders'[n].by = orders[n].by /\ orders'[n].fate = orders[n].fate
             /\ orders'[n].age = IF orders[n].age < Guard THEN orders[n].age + 1 ELSE orders[n].age
    BY <1>5, PressTicks
  <2>2. \A n \in DOMAIN orders : orders[n].age \in Nat
    BY <1>0 DEF Press!Orders
  <2>3. \A n \in DOMAIN orders : Fresh(n)' => Fresh(n) /\ orders'[n].age = orders[n].age + 1
    BY <1>0, <2>1, <2>2 DEF Fresh
  <2>4. \A n \in DOMAIN orders : orders[n].age = claimMark.age => orders'[n].age = claimMark'.age
    BY <2>1, <2>2
  <2>5. \A n \in DOMAIN orders' : Fresh(n)' => claimMark' # None /\ claimMark'.age = orders'[n].age
    BY <2>1, <2>3 DEF MarkInv
  <2>6. \A c \in Senders, n \in DOMAIN orders' :
          press'[c].at = "sent" /\ claimMark' # None /\ claimMark'.by = c /\ Fresh(n)' => orders'[n].by = c
    BY <2>1, <2>3 DEF MarkInv
  <2>7. ASSUME NEW c \in Senders, claimMark'.by = c
        PROVE  /\ press'[c].at \in {"rest", "looked", "done"}
                   => \E n \in DOMAIN orders' : orders'[n].fate = "ok" /\ orders'[n].age = claimMark'.age
               /\ press'[c].at = "sent" => \E n \in DOMAIN orders' : orders'[n].by = c /\ orders'[n].age = claimMark'.age
    BY <2>1, <2>4, <2>7 DEF MarkInv
  <2> QED
    BY <2>1, <2>5, <2>6, <2>7 DEF MarkInv
<1>6. UNCHANGED Press!vars => MarkInv'
  BY <1>3 DEF Press!vars
<1> QED
  BY <1>2, <1>4, <1>5, <1>6, PressMoves

PressInv == Press!TypeOK /\ Owned /\ StopInv /\ MarkInv
LEMMA PressInvariant == ASSUME PressConstants PROVE Press!Spec => []PressInv
<1>1. Press!Init => PressInv
  <2> SUFFICES ASSUME Press!Init PROVE PressInv
    OBVIOUS
  <2>1. /\ press = [c \in Senders |-> Press!AtRest] /\ claimMark = None /\ holder = [u \in AmsUnits |-> None]
        /\ dries = {} /\ noted = {} /\ orders = <<>>
    BY DEF Press!Init
  <2>2. /\ press \in [Senders -> Press!Presses]
        /\ \A c \in Senders : press[c].at = "rest" /\ press[c].took = {}
    BY <2>1, RestTyped
  <2>3. orders \in Seq(Press!Orders) /\ Len(orders) = 0 /\ DOMAIN orders = {}
    BY <2>1
  <2>4. Press!TypeOK
    BY <2>1, <2>2, <2>3 DEF Press!TypeOK, PressConstants
  <2>5. Owned /\ MarkInv
    BY <2>1, <2>2, <2>3 DEF Owned, MarkInv
  <2>6. StopInv
    BY <2>1, <2>2 DEF StopInv, PressConstants
  <2> QED
    BY <2>4, <2>5, <2>6 DEF PressInv
<1>2. PressInv /\ [Press!Next]_(Press!vars) => PressInv'
  BY PressTypeStep, OwnedStep, StopStep, MarkStep DEF PressInv
<1> QED
  BY <1>1, <1>2, PTL DEF Press!Spec

\* Every variable of the buttons keeps its type.
THEOREM PressTypeCorrect == ASSUME PressConstants PROVE Press!Spec => []Press!TypeOK
<1>1. PressInv => Press!TypeOK
  BY DEF PressInv
<1> QED
  BY <1>1, PressInvariant, PTL

\* Two presses on one printer that may both take effect are the guard apart, whichever of
\* them failed in between.
THEOREM PressesApart == ASSUME PressConstants PROVE Press!Spec => Press!NoDoublePress
<1>1. ASSUME PressInv, [Press!Next]_(Press!vars)
      PROVE  [\A n \in DOMAIN orders' \ DOMAIN orders, p \in DOMAIN orders :
                orders[p].fate # "failed" => orders[p].age >= Guard]_(Press!vars)
  <2>0. /\ Press!TypeOK /\ Owned /\ MarkInv /\ Guard \in Nat
        /\ \A n \in DOMAIN orders : orders[n].age \in Nat
    <3>1. Press!TypeOK /\ Owned /\ MarkInv /\ Guard \in Nat
      BY <1>1 DEF PressInv, PressConstants
    <3>2. \A n \in DOMAIN orders : orders[n] \in Press!Orders
      BY <3>1, ElementOfSeq, LenProperties DEF Press!TypeOK
    <3> QED
      BY <3>1, <3>2 DEF Press!Orders
  <2>1. ASSUME NEW c \in Senders, Press!Publish(c)
        PROVE  \A p \in DOMAIN orders : orders[p].fate # "failed" => orders[p].age >= Guard
    BY <2>0, <2>1 DEF MarkInv, Fresh, Press!Publish
  <2>2. ASSUME NEW c \in Senders, NEW fate \in {"ok", "failed"}, Press!Ends(c, fate)
        PROVE  DOMAIN orders' = DOMAIN orders
    BY <2>0, <2>2, PressEnds
  <2>3. \A c \in Senders :
          Press!Look(c) \/ Press!ResetOne(c) \/ Press!Claim(c) \/ Press!Finally(c) \/ (\E u \in AmsUnits : Press!ClaimUnit(c, u))
            => orders' = orders
    BY DEF Press!Look, Press!ResetOne, Press!Claim, Press!Finally, Press!ClaimUnit
  <2>4. \A u \in AmsUnits : Press!EngineClaims(u) \/ Press!EngineStarts(u) => orders' = orders
    BY DEF Press!EngineClaims, Press!EngineStarts
  <2>5. Press!Tick => DOMAIN orders' = DOMAIN orders
    BY <2>0, PressTicks
  <2>6. \/ \A p \in DOMAIN orders : orders[p].fate # "failed" => orders[p].age >= Guard
        \/ DOMAIN orders' = DOMAIN orders \/ UNCHANGED Press!vars
    BY <1>1, <2>1, <2>2, <2>3, <2>4, <2>5, PressMoves DEF PressActions
  <2> QED
    BY <2>6
<1> QED
  BY <1>1, PressInvariant, PTL DEF Press!Spec, Press!NoDoublePress

\* The admin's stop of the drying stands: the engine restarts no unit whose stop is under
\* way or known to it.
THEOREM StopsStand == ASSUME PressConstants PROVE Press!Spec => []Press!StopStands
<1>1. PressInv => Press!StopStands
  BY DEF PressInv, StopInv, Press!StopStands
<1> QED
  BY <1>1, PressInvariant, PTL

\* Once a press is over nothing of it blocks the engine or, if it failed, the next.
THEOREM PressesFree == ASSUME PressConstants PROVE Press!Spec => []Press!PressFrees
<1>1. ASSUME PressInv PROVE Press!PressFrees
  <2>1. claimMark # None => claimMark.by \in Senders
    BY <1>1 DEF PressInv, Press!TypeOK
  <2> QED
    BY <1>1, <2>1 DEF PressInv, StopInv, MarkInv, Press!PressFrees
<1> QED
  BY <1>1, PressInvariant, PTL

-----------------------------------------------------------------------------
\* A set of naturals has a least element.
LEMMA LeastNatural ==
  ASSUME NEW S \in SUBSET Nat, S # {}
  PROVE  \E n \in S : \A k \in S : n <= k
<1> DEFINE R == {p \in Nat \X Nat : p[1] < p[2]}
<1>1. IsWellFoundedOn(R, Nat)
  BY NatLessThanWellFounded DEF OpToRel
<1>2. PICK n \in S : \A k \in S : ~(<<k, n>> \in R)
  BY <1>1, WFMin
<1>3. \A k \in S : n <= k
  <2> SUFFICES ASSUME NEW k \in S PROVE n <= k
    OBVIOUS
  <2>1. k \in Nat /\ n \in Nat /\ ~(<<k, n>> \in R)
    BY <1>2
  <2>2. <<k, n>> \in R <=> k < n
    BY <2>1
  <2> QED
    BY <2>1, <2>2
<1> QED
  BY <1>3

\* The ids of two actions are different ones.
LEMMA IdsApart ==
  ASSUME NEW id, NEW a \in Press!Keys, NEW b \in Press!Keys, id \in Press!Action(a).ids, id \in Press!Action(b).ids
  PROVE  a = b
BY DEF Press!Keys, Press!Action, Press!Row

\* The button in front is one of those that do not endanger the print.
LEMMA PrimaryIsSafe ==
  ASSUME PressConstants, NEW r \in Notifications
  PROVE  Press!Primary(r) \notin Press!Endangers
<1> DEFINE ids == Press!IdsOf(r)
           safe == {i \in DOMAIN ids : \E a \in Press!Buttons(r) \ Press!Endangers : ids[i] \in Press!Action(a).ids}
           least == CHOOSE i \in safe : \A j \in safe : i <= j
           first == ids[least]
           chosen == CHOOSE a \in Press!Buttons(r) : first \in Press!Action(a).ids
<1>1. Press!Primary(r) = IF safe = {} THEN None ELSE chosen
  BY DEF Press!Primary
<1>2. ids \in Seq(Nat)
  BY DEF Press!IdsOf, PressConstants
<1> HIDE DEF ids
<1>3. CASE safe = {}
  BY <1>1, <1>3 DEF PressConstants, Press!Keys, Press!Endangers
<1>4. CASE safe # {}
  <2>1. safe \subseteq Nat
    BY <1>2
  <2>2. \E i \in safe : \A j \in safe : i <= j
    BY <1>4, <2>1, LeastNatural
  <2>3. least \in safe
    BY <2>2
  <2> HIDE DEF least
  <2>4. PICK a \in Press!Buttons(r) \ Press!Endangers : first \in Press!Action(a).ids
    BY <2>3
  <2>5. chosen \in Press!Buttons(r) /\ first \in Press!Action(chosen).ids
    BY <2>4
  <2> HIDE DEF first, chosen
  <2>6. Press!Buttons(r) \subseteq Press!Keys
    BY DEF Press!Buttons, Press!Keys
  <2>7. \A a1, a2 \in Press!Keys : first \in Press!Action(a1).ids /\ first \in Press!Action(a2).ids => a1 = a2
    BY IdsApart
  <2>8. chosen = a
    BY <2>4, <2>5, <2>6, <2>7
  <2> QED
    BY <1>1, <1>4, <2>4, <2>8
<1> QED
  BY <1>3, <1>4

\* What may spoil the print asks before.
LEMMA DangersAsk == \A a \in Press!Endangers : Press!Action(a).asks
<1>1. Press!Action("stop").asks
  BY DEF Press!Action, Press!Row
<1>2. Press!Action("ams_abort").asks
  BY DEF Press!Action, Press!Row
<1>3. Press!Action("fw_restart").asks
  BY DEF Press!Action, Press!Row
<1> QED
  BY <1>1, <1>2, <1>3 DEF Press!Endangers

\* What continues the print looks at the pause and at the kind of the job.
LEMMA LaserGuards ==
  /\ {"pause", "job_attr"} \subseteq Press!Action("resume").guards
  /\ {"pause", "job_attr"} \subseteq Press!Action("ignore").guards
  /\ "job_attr" \in Press!Action("ams_retry").guards
BY DEF Press!Action, Press!Row

\* What a press is about to send fits what the printer showed at its look.
THEOREM PressesSound == ASSUME PressConstants PROVE Press!Spec => []Press!PressSound
<1> DEFINE Sound(q) ==
      /\ q.action \in {"resume", "ignore"} => q.saw.paused /\ ~q.saw.laser
      /\ q.action = "ams_retry" => ~q.saw.laser
      /\ q.action \in Press!Endangers => q.asked /\ Press!Primary(q.saw) # q.action
      /\ q.fleet => q.action = "clean" /\ ~q.saw.paused /\ 39 \notin Press!Range(Press!IdsOf(q.saw))
<1>0. Press!PressSound <=> \A c \in Senders : press[c].at = "looked" => Sound(press[c])
  BY DEF Press!PressSound
<1>1. Press!Init => Press!PressSound
  BY <1>0, RestTyped DEF Press!Init
<1>2. ASSUME PressInv, Press!PressSound, [Press!Next]_(Press!vars)
      PROVE  \A c \in Senders : press'[c].at = "looked" => Sound(press'[c])
  <2>0. /\ Press!TypeOK /\ Owned /\ \A c \in Senders : press[c].at = "looked" => Sound(press[c])
    BY <1>0, <1>2 DEF PressInv
  <2>1. ASSUME NEW c \in Senders, \A d \in Senders \ {c} : press'[d] = press[d],
               press'[c].at # "looked" \/ Sound(press'[c])
        PROVE  \A d \in Senders : press'[d].at = "looked" => Sound(press'[d])
    <3> HIDE DEF Sound
    <3> QED
      BY <2>0, <2>1, Zenon
  <2>2. ASSUME NEW c \in Senders, Press!Look(c) PROVE Sound(press'[c])
    <3>0. PICK r \in Notifications : \E a \in {b \in Press!Buttons(r) : Press!Allows(b, r)} : \E confirmed \in BOOLEAN :
            /\ Press!Action(a).asks => confirmed
            /\ press' = [press EXCEPT ![c] =
                 [Press!AtRest EXCEPT !.at = "looked", !.action = a, !.saw = r,
                    !.asked = Press!Action(a).asks /\ confirmed,
                    !.drying = a = "dry_stop", !.todo = IF a = "dry_stop" THEN dries ELSE {}]]
      BY <2>2 DEF Press!Look
    <3>1. PICK a \in {b \in Press!Buttons(r) : Press!Allows(b, r)}, confirmed \in BOOLEAN :
            /\ Press!Action(a).asks => confirmed
            /\ press' = [press EXCEPT ![c] =
                 [Press!AtRest EXCEPT !.at = "looked", !.action = a, !.saw = r,
                    !.asked = Press!Action(a).asks /\ confirmed,
                    !.drying = a = "dry_stop", !.todo = IF a = "dry_stop" THEN dries ELSE {}]]
      BY <3>0
    <3>2. /\ press'[c].action = a /\ press'[c].saw = r /\ press'[c].fleet = FALSE
          /\ press'[c].asked = (Press!Action(a).asks /\ confirmed)
      BY <2>0, <3>1 DEF Press!TypeOK, Press!AtRest
    <3>3. a \in Press!Keys /\ Press!Allows(a, r)
      BY DEF Press!Buttons, Press!Keys
    <3>4. a \in {"resume", "ignore"} => r.paused /\ ~r.laser
      BY <3>3, LaserGuards DEF Press!Allows, Press!Fails
    <3>5. a = "ams_retry" => ~r.laser
      BY <3>3, LaserGuards DEF Press!Allows, Press!Fails
    <3>6. a \in Press!Endangers => Press!Action(a).asks
      BY DangersAsk
    <3>7. Press!Primary(r) \notin Press!Endangers
      BY PrimaryIsSafe
    <3>8. a \in Press!Endangers => press'[c].asked /\ Press!Primary(r) # a
      BY <3>1, <3>2, <3>6, <3>7, Zenon
    <3> QED
      BY <3>2, <3>4, <3>5, <3>8
  <2>3. ASSUME NEW c \in Senders, Press!ResetOne(c) PROVE Sound(press'[c])
    <3>1. PICK r \in {q \in Notifications : Press!Resettable(q) /\ Press!Allows("clean", q)} :
            press' = [press EXCEPT ![c] =
              [Press!AtRest EXCEPT !.at = "looked", !.action = "clean", !.saw = r, !.fleet = TRUE]]
      BY <2>3 DEF Press!ResetOne
    <3>2. press'[c].action = "clean" /\ press'[c].saw = r
      BY <2>0, <3>1 DEF Press!TypeOK, Press!AtRest
    <3>3. ~r.paused /\ 39 \notin Press!Range(Press!IdsOf(r))
      BY DEF Press!Resettable, Press!Blocking, Press!Either, PressConstants
    <3> QED
      BY <3>2, <3>3 DEF Press!Endangers
  <2>4. ASSUME NEW c \in Senders,
               \/ Press!Claim(c) \/ Press!Publish(c) \/ Press!Finally(c)
               \/ \E u \in AmsUnits : Press!ClaimUnit(c, u)
               \/ \E fate \in {"ok", "failed"} : Press!Ends(c, fate)
        PROVE  press'[c].at # "looked" /\ \A d \in Senders \ {c} : press'[d] = press[d]
    <3>1. CASE Press!Claim(c)
      BY <2>0, <3>1, PressClaims
    <3>2. CASE Press!Publish(c)
      BY <2>0, <3>2, PressPublishes
    <3>3. CASE Press!Finally(c)
      BY <2>0, <3>3, PressFinishes
    <3>4. ASSUME NEW u \in AmsUnits, Press!ClaimUnit(c, u)
          PROVE  press'[c].at # "looked" /\ \A d \in Senders \ {c} : press'[d] = press[d]
      BY <2>0, <3>4, PressClaimsUnit
    <3>5. ASSUME NEW fate \in {"ok", "failed"}, Press!Ends(c, fate)
          PROVE  press'[c].at # "looked" /\ \A d \in Senders \ {c} : press'[d] = press[d]
      BY <2>0, <3>5, PressEnds
    <3> QED
      BY <2>4, <3>1, <3>2, <3>3, <3>4, <3>5
  <2>5. \A c \in Senders : Press!Look(c) \/ Press!ResetOne(c) => \A d \in Senders \ {c} : press'[d] = press[d]
    BY <2>0, PressLooks
  <2>6. ASSUME press' = press PROVE \A c \in Senders : press'[c].at = "looked" => Sound(press'[c])
    BY <2>0, <2>6
  <2>7. (\E u \in AmsUnits : Press!EngineClaims(u) \/ Press!EngineStarts(u)) \/ Press!Tick \/ UNCHANGED Press!vars
          => press' = press
    BY DEF Press!EngineClaims, Press!EngineStarts, Press!Tick, Press!vars
  <2> HIDE DEF Sound
  <2> QED
    BY <1>2, <2>1, <2>2, <2>3, <2>4, <2>5, <2>6, <2>7, PressMoves DEF PressActions
<1>3. PressInv /\ Press!PressSound /\ [Press!Next]_(Press!vars) => Press!PressSound'
  BY <1>2 DEF Press!PressSound
<1> QED
  BY <1>1, <1>3, PressInvariant, PTL DEF Press!Spec

(***************************************************************************)
(* Part 5.  CommandRules.                                                  *)
(***************************************************************************)

\* A heater is only set to 0 after the check of a cooldown.
LEMMA CoolsWhenChecked ==
  ASSUME NEW p, NEW a \in Rules!Actions, NEW par, Rules!Cools(Rules!Send(p, a, par))
  PROVE  /\ a \in {"preheat", "cooldown"} /\ a \in Rules!Supported(p.kind)
         /\ Rules!LiveAllows(p, "cooldown")
<1> DEFINE frames == Rules!Send(p, a, par)
<1>1. frames # {} /\ (<<"nozzle", 0>> \in frames \/ <<"bed", 0>> \in frames)
  BY DEF Rules!Cools
<1>2. /\ frames = Rules!Frames(p, a, par)
      /\ a \in Rules!Supported(p.kind)
      /\ Rules!LiveAllows(p, Rules!CheckedAs(a, par))
  BY <1>1 DEF Rules!Send
<1>3. a \in {"pause", "resume", "stop", "light_on", "light_off", "speed", "fans", "preheat", "cooldown", "chamber", "eject"}
  BY DEF Rules!Actions, Rules!ActionCap, Rules!PrintControl, Rules!Lights, Rules!SetActions
<1>4. a = "preheat" => 0 \in {par.nozzle, par.bed}
  BY <1>1, <1>2 DEF Rules!Frames, Rules!Preheat, Rules!Given, Rules!PrintControl, Rules!Lights
<1>5. a \in {"preheat", "cooldown"}
  BY <1>1, <1>2, <1>3 DEF Rules!Frames, Rules!Control, Rules!Speed, Rules!Drive, Rules!FanFrames, Rules!Given, Rules!Fans,
       Rules!Chamber, Rules!Eject, Rules!PrintControl, Rules!Lights
<1> QED
  BY <1>2, <1>4, <1>5 DEF Rules!CheckedAs

\* A printer that passed the check of a cooldown runs no job.
LEMMA CooledAtRest ==
  ASSUME RulesConstants, NEW p \in Machines, NEW a \in {"preheat", "cooldown"},
         a \in Rules!Supported(p.kind), Rules!LiveAllows(p, "cooldown")
  PROVE  ~Rules!MayPrint(p)
<1>1. p.kind \in {"bambu", "creality"}
  BY DEF Rules!Supported, Rules!PrintControl, Rules!Lights, Rules!SetActions, Rules!Actions
<1>2. CASE p.kind = "bambu"
  BY <1>2 DEF Rules!LiveAllows, Rules!GcodeAllows, Rules!MayPrint, Rules!SetActions, Rules!PrintControl
<1>3. CASE p.kind = "creality"
  <2> DEFINE d == p.d
  <2>1. d.kind = "creality"
    BY <1>3 DEF RulesConstants
  <2>2. Rules!WsState(d) \notin {"printing", "unknown", "offline"} /\ ~Rules!Guessed(d)
    BY <1>3 DEF Rules!LiveAllows, Rules!StateAllows, Rules!State, Rules!SetActions
  <2> SUFFICES ASSUME Rules!MayPrint(p) PROVE FALSE
    OBVIOUS
  <2>3. /\ Rules!MapState(d.state) = "printing" \/ (Rules!MapState(d.state) \in {"idle", "unknown"} /\ Rules!Working(d))
        /\ ~Rules!LooksFinished(d) /\ d.material # 1
    BY <1>3 DEF Rules!MayPrint
  <2> HIDE DEF d
  <2>4. Rules!Promoted(d, Rules!Finished(d, Rules!MapState(d.state))) = "printing"
    BY <2>3 DEF Rules!Promoted, Rules!Finished
  <2>5. Rules!WsJob(d) = "paused" \/ Rules!WsJob(d) = "printing"
    BY <2>4 DEF Rules!WsJob, Rules!RanOut
  <2>6. Rules!WsState(d) = Rules!WsJob(d)
    BY <2>1, <2>5 DEF Rules!WsState
  <2>7. Rules!MapState(d.state) # "paused"
    BY <2>3
  <2> QED
    BY <2>2, <2>3, <2>5, <2>6, <2>7 DEF Rules!Guessed
<1> QED
  BY <1>1, <1>2, <1>3

LEMMA DutyFits == \A pct \in 0..100 : Rules!Duty(pct) \in 0..255
<1> SUFFICES ASSUME NEW pct \in 0..100 PROVE Rules!Duty(pct) \in 0..255
  OBVIOUS
<1> DEFINE q == (pct * 255) \div 100
           r == (pct * 255) % 100
<1>1. q \in Nat /\ r \in 0..99 /\ pct * 255 = 100 * q + r
  OBVIOUS
<1>2. q <= 255 /\ (q = 255 => r = 0)
  BY <1>1
<1>3. Rules!Duty(pct) = IF r > 50 \/ (r = 50 /\ q % 2 = 1) THEN q + 1 ELSE q
  BY DEF Rules!Duty
<1> HIDE DEF q, r
<1> QED
  BY <1>1, <1>2, <1>3

\* What is sent fits the printer.
LEMMA SentFits ==
  ASSUME NEW p, NEW a \in Rules!Actions, NEW par
  PROVE  /\ <<"down", 30>> \in Rules!Send(p, a, par) => p.gcode \in Rules!AtRest /\ ~p.changing /\ ~p.inflight
         /\ \A f \in Rules!Send(p, a, par) :
              /\ f[1] = "nozzle" => f[2] \in 0..Rules!NozzleMax(p)
              /\ f[1] \in Rules!Fans => f[2] \in 0..255 /\ (p.kind = "creality" => f[1] \in p.fans)
<1> DEFINE frames == Rules!Send(p, a, par)
<1> SUFFICES ASSUME NEW f \in frames
             PROVE  /\ f = <<"down", 30>> => p.gcode \in Rules!AtRest /\ ~p.changing /\ ~p.inflight
                    /\ f[1] = "nozzle" => f[2] \in 0..Rules!NozzleMax(p)
                    /\ f[1] \in Rules!Fans => f[2] \in 0..255 /\ (p.kind = "creality" => f[1] \in p.fans)
  OBVIOUS
<1>2. /\ f \in Rules!Frames(p, a, par)
      /\ a \in Rules!Supported(p.kind)
      /\ Rules!LiveAllows(p, Rules!CheckedAs(a, par))
  BY DEF Rules!Send
<1> HIDE DEF frames
<1>3. a \in {"pause", "resume", "stop", "light_on", "light_off", "speed", "fans", "preheat", "cooldown", "chamber", "eject"}
  BY DEF Rules!Actions, Rules!ActionCap, Rules!PrintControl, Rules!Lights, Rules!SetActions
<1>4. Rules!NozzleMax(p) \in 1..300
  BY DEF Rules!NozzleMax
<1>5. CASE a = "eject"
  <2>1. f = <<"down", 30>>
    BY <1>2, <1>5 DEF Rules!Frames, Rules!Eject, Rules!PrintControl, Rules!Lights
  <2>2. p.kind = "bambu"
    BY <1>2, <1>5 DEF Rules!Supported, Rules!PrintControl, Rules!Lights, Rules!SetActions
  <2>3. p.gcode \in Rules!AtRest /\ ~p.changing /\ ~p.inflight
    BY <1>2, <1>5, <2>2 DEF Rules!LiveAllows, Rules!CheckedAs, Rules!GcodeAllows, Rules!SetActions, Rules!PrintControl
  <2> QED
    BY <2>1, <2>3 DEF Rules!Fans
<1>6. CASE a = "fans"
  <2>1. f \in Rules!Drive(p, par)
    BY <1>2, <1>6 DEF Rules!Frames, Rules!PrintControl, Rules!Lights
  <2>2. /\ \A n \in Rules!Fans : Rules!Within(par[n], 100) /\ (par[n] # None /\ p.kind = "creality" => n \in p.fans)
        /\ f \in Rules!FanFrames(par) /\ f[2] # None
    BY <2>1 DEF Rules!Drive, Rules!Given
  <2>3. PICK n \in Rules!Fans : f = <<n, IF par[n] = None THEN None ELSE Rules!Duty(par[n])>>
    BY <2>2 DEF Rules!FanFrames
  <2>4. par[n] # None /\ f = <<n, Rules!Duty(par[n])>>
    BY <2>2, <2>3
  <2>5. par[n] \in 0..100
    BY <2>2, <2>4 DEF Rules!Within
  <2>6. Rules!Duty(par[n]) \in 0..255
    BY <2>5, DutyFits
  <2> QED
    BY <2>2, <2>4, <2>6 DEF Rules!Fans
<1>7. CASE a = "preheat"
  <2>1. /\ f = <<"nozzle", par.nozzle>> \/ f = <<"bed", par.bed>>
        /\ f[2] # None /\ Rules!Within(par.nozzle, Rules!NozzleMax(p))
    BY <1>2, <1>7 DEF Rules!Frames, Rules!Preheat, Rules!Given, Rules!PrintControl, Rules!Lights
  <2> QED
    BY <2>1 DEF Rules!Within, Rules!Fans
<1>8. CASE a = "cooldown"
  <2>1. f \in Rules!Cooldown(p)
    BY <1>2, <1>8 DEF Rules!Frames, Rules!PrintControl, Rules!Lights
  <2>2. f[2] = 0 /\ f # <<"down", 30>> /\ (p.kind = "creality" => f[1] \notin Rules!Fans)
    BY <2>1 DEF Rules!Cooldown, Rules!Fans
  <2> QED
    BY <1>4, <2>2
<1>9. CASE a \notin {"eject", "fans", "preheat", "cooldown"}
  <2>1. f[1] \in {a, "speed", "chamber"}
    BY <1>2, <1>3, <1>9 DEF Rules!Frames, Rules!Control, Rules!Speed, Rules!Chamber, Rules!PrintControl, Rules!Lights
  <2> QED
    BY <1>3, <1>9, <2>1 DEF Rules!Fans
<1> QED
  BY <1>5, <1>6, <1>7, <1>8, <1>9

\* What a sender over a socket is told.
LEMMA SocketTold ==
  ASSUME RulesConstants, NEW w \in SocketSends
  PROVE  /\ Rules!SocketStatus(w) = "rejected" => Rules!Arrived(w) = 0 \/ (w.kind = "klipper" /\ w.reply = "error")
         /\ Rules!SocketStatus(w) # "rejected" => Rules!Arrived(w) > 0
         /\ Rules!SocketStatus(w) = "confirmed" \/ Rules!ShownLamp(w) # None => w.kind = "klipper" /\ w.reply = "ok"
<1>1. Rules!Arrived(w) \in 0..w.frames
  BY DEF Rules!Arrived, RulesConstants
<1>2. CASE w.kind = "klipper"
  BY <1>1, <1>2 DEF Rules!SocketStatus, Rules!KlipperSent, Rules!ShownLamp, Rules!Status, RulesConstants
<1>3. CASE w.kind = "creality"
  BY <1>1, <1>3 DEF Rules!SocketStatus, Rules!CrealitySent, Rules!ShownLamp, Rules!Status, RulesConstants
<1> QED
  BY <1>2, <1>3 DEF RulesConstants

\* HarmlessSend, for any printers, parameters, errors and answers.
THEOREM SendsAreHarmless == ASSUME RulesConstants PROVE Rules!Spec => []Rules!HarmlessSend
<1>1. Rules!Init => Rules!HarmlessSend
  BY DEF Rules!Init, Rules!HarmlessSend
<1>2. ASSUME Rules!HarmlessSend, [Rules!Next]_asked PROVE Rules!HarmlessSend'
  <2>1. CASE Rules!AskCommand
    <3>1. PICK p \in Machines, a \in Rules!Actions : \E par \in Parameters[a] :
            asked' = [what |-> "send", p |-> p, action |-> a, par |-> par]
      BY <2>1 DEF Rules!AskCommand
    <3>2. PICK par \in Parameters[a] : asked' = [what |-> "send", p |-> p, action |-> a, par |-> par]
      BY <3>1
    <3>3. Rules!Cools(Rules!Send(p, a, par)) => ~Rules!MayPrint(p)
      BY CoolsWhenChecked, CooledAtRest
    <3>4. /\ <<"down", 30>> \in Rules!Send(p, a, par) => p.gcode \in Rules!AtRest /\ ~p.changing /\ ~p.inflight
          /\ \A f \in Rules!Send(p, a, par) :
               /\ f[1] = "nozzle" => f[2] \in 0..Rules!NozzleMax(p)
               /\ f[1] \in Rules!Fans => f[2] \in 0..255 /\ (p.kind = "creality" => f[1] \in p.fans)
      BY SentFits
    <3>5. asked'.what = "send" /\ asked'.p = p /\ asked'.action = a /\ asked'.par = par
      BY <3>2
    <3> QED
      BY <3>3, <3>4, <3>5 DEF Rules!HarmlessSend, Rules!Harmless
  <2>2. CASE Rules!AskIgnore
    <3>1. PICK p \in {q \in Machines : q.kind = "bambu"}, err \in Levels : asked' = [what |-> "ignore", p |-> p, err |-> err]
      BY <2>2 DEF Rules!AskIgnore
    <3>2. asked'.what = "ignore" /\ asked'.p = p /\ asked'.err = err
      BY <3>1
    <3>3. ASSUME NEW f \in Rules!IgnoreFrames(p, err)
          PROVE  Rules!State(p) = "paused" /\ p.pe = f[2] /\ p.job \notin {"laser", None}
      <4>1. f = <<"ignore", err>> /\ Rules!PeRefusal(p, err) = None
        BY DEF Rules!IgnoreFrames
      <4>2. p.pe = err /\ p.gcode = "PAUSE" /\ p.job \notin {"laser", None}
        BY <4>1 DEF Rules!PeRefusal, RulesConstants
      <4>3. Rules!BambuState("PAUSE", p.pe, FALSE, FALSE) = "paused"
        BY DEF Rules!BambuState, Rules!Cancelled, Rules!MapState
      <4> QED
        BY <3>1, <4>1, <4>2, <4>3 DEF Rules!State
    <3> QED
      BY <3>2, <3>3 DEF Rules!HarmlessSend, Rules!Harmless
  <2>3. CASE Rules!AskLight
    <3>1. PICK r \in Lamps, second \in BOOLEAN : asked' = [what |-> "light", r |-> r, second |-> second]
      BY <2>3 DEF Rules!AskLight
    <3>2. asked'.what = "light" /\ asked'.r = r /\ asked'.second = second
      BY <3>1
    <3>3. /\ 1 \in Rules!Lit(second, r) => Rules!Status(r.one # "rejected", r.one = "confirmed") = "confirmed"
          /\ second /\ r.one = "confirmed" /\ ~Rules!LightNote(second, r) => Rules!Lit(second, r) = {1, 2}
      BY DEF Rules!Lit, Rules!LightNote, Rules!Status
    <3> QED
      BY <3>2, <3>3 DEF Rules!HarmlessSend, Rules!Harmless
  <2>4. CASE Rules!AskSocket
    <3>1. PICK w \in SocketSends : asked' = [what |-> "socket", w |-> w]
      BY <2>4 DEF Rules!AskSocket
    <3>2. asked'.what = "socket" /\ asked'.w = w
      BY <3>1
    <3> QED
      BY <3>1, <3>2, SocketTold DEF Rules!HarmlessSend, Rules!Harmless
  <2>5. CASE UNCHANGED asked
    BY <1>2, <2>5 DEF Rules!HarmlessSend
  <2> QED
    BY <1>2, <2>1, <2>2, <2>3, <2>4, <2>5 DEF Rules!Next
<1> QED
  BY <1>1, <1>2, PTL DEF Rules!Spec

(***************************************************************************)
(* Part 6.  AmsRules.                                                      *)
(***************************************************************************)
\* What AmsConstants says of the units of a view.
UnitsKnown(units) ==
  /\ units \in Seq(SpoolUnits)
  /\ \A i, j \in DOMAIN units : units[i].index = units[j].index => i = j
  /\ \A i \in DOMAIN units : Len(units[i].trays) <= IF units[i].index < 16 THEN 4 ELSE 1

LEMMA CountTo == ASSUME NEW n \in Nat PROVE IsFiniteSet(1..n) /\ Cardinality(1..n) = n
<1>1. n \in Int /\ 1 \in Int
  OBVIOUS
<1>2. IsFiniteSet(1..n) /\ Cardinality(1..n) = IF 1 > n THEN 0 ELSE n - 1 + 1
  BY <1>1, FS_Interval
<1> QED
  BY <1>2

LEMMA UnitKnown ==
  ASSUME NEW units, UnitsKnown(units), NEW i \in DOMAIN units
  PROVE  /\ units[i] \in SpoolUnits /\ i \in 1..Len(units) /\ Len(units) \in Nat
         /\ Len(units[i].trays) \in 0..4 /\ DOMAIN units[i].trays = 1..Len(units[i].trays)
         /\ units[i].index \notin 0..3 => Len(units[i].trays) <= 1
<1>1. units[i] \in SpoolUnits /\ i \in 1..Len(units) /\ Len(units) \in Nat
  BY DEF UnitsKnown
<1>2. units[i].trays \in Seq(SpoolSlots) /\ units[i].index \in (0..3) \cup (128..135)
  BY <1>1 DEF SpoolUnits
<1>3. Len(units[i].trays) \in Nat /\ DOMAIN units[i].trays = 1..Len(units[i].trays)
  BY <1>2
<1>4. Len(units[i].trays) <= IF units[i].index < 16 THEN 4 ELSE 1
  BY DEF UnitsKnown
<1> DEFINE n == Len(units[i].trays)
           x == units[i].index
<1>5. n \in Nat /\ x \in (0..3) \cup (128..135) /\ n <= IF x < 16 THEN 4 ELSE 1
  BY <1>2, <1>3, <1>4
<1> HIDE DEF n, x
<1>6. n \in 0..4 /\ (x \notin 0..3 => n <= 1)
  BY <1>5
<1> QED
  BY <1>1, <1>3, <1>6 DEF n, x

\* The slots of a unit come after those of the units before it.
LEMMA BasesGrow ==
  ASSUME NEW units, UnitsKnown(units), NEW i \in DOMAIN units
  PROVE  /\ Ams!Base(units, i) \in Nat
         /\ \A j \in DOMAIN units : i < j => Ams!Base(units, j) >= Ams!Base(units, i) + Len(units[i].trays)
<1> DEFINE Before(k) == UNION {{m} \X DOMAIN units[m].trays : m \in 1..(k - 1)}
           All == (1..Len(units)) \X (1..4)
<1>1. Len(units) \in Nat /\ DOMAIN units = 1..Len(units)
  BY DEF UnitsKnown
<1>2. \A m \in 1..Len(units) : DOMAIN units[m].trays = 1..Len(units[m].trays) /\ Len(units[m].trays) \in 0..4
  BY <1>1, UnitKnown
<1>3. IsFiniteSet(All)
  <2>1. IsFiniteSet(1..Len(units)) /\ IsFiniteSet(1..4)
    BY <1>1, CountTo
  <2> QED
    BY <2>1, FS_Product
<1>4. \A k \in 1..Len(units) : Before(k) \in SUBSET All
  <2> SUFFICES ASSUME NEW k \in 1..Len(units), NEW m \in 1..(k - 1) PROVE {m} \X DOMAIN units[m].trays \subseteq All
    OBVIOUS
  <2>1. m \in 1..Len(units)
    BY <1>1
  <2>2. DOMAIN units[m].trays \subseteq 1..4
    BY <1>2, <2>1
  <2> QED
    BY <2>1, <2>2
<1>5. \A k \in 1..Len(units) : IsFiniteSet(Before(k)) /\ Cardinality(Before(k)) \in Nat /\ Ams!Base(units, k) = Cardinality(Before(k))
  BY <1>3, <1>4, FS_Subset, FS_CardinalityType DEF Ams!Base, Ams!Cardinality, Cardinality
<1>6. ASSUME NEW j \in 1..Len(units), i < j
      PROVE  Cardinality(Before(j)) >= Cardinality(Before(i)) + Len(units[i].trays)
  <2> DEFINE own == {i} \X DOMAIN units[i].trays
  <2>0. i \in 1..Len(units)
    BY <1>1
  <2>1. own \subseteq Before(j) /\ Before(i) \subseteq Before(j)
    BY <1>1, <1>6, <2>0
  <2>2. Before(i) \cap own = {}
    <3> SUFFICES ASSUME NEW x \in Before(i), x \in own PROVE FALSE
      OBVIOUS
    <3>1. PICK m \in 1..(i - 1) : x \in {m} \X DOMAIN units[m].trays
      OBVIOUS
    <3>2. x[1] = m /\ x[1] = i
      BY <3>1
    <3> QED
      BY <2>0, <3>2
  <2>3. IsFiniteSet(own) /\ Cardinality(own) = Len(units[i].trays)
    <3>1. IsFiniteSet({i}) /\ Cardinality({i}) = 1
      BY FS_Singleton
    <3>2. IsFiniteSet(DOMAIN units[i].trays) /\ Cardinality(DOMAIN units[i].trays) = Len(units[i].trays)
      <4>1. DOMAIN units[i].trays = 1..Len(units[i].trays) /\ Len(units[i].trays) \in Nat
        BY <1>2, <2>0
      <4>2. IsFiniteSet(1..Len(units[i].trays)) /\ Cardinality(1..Len(units[i].trays)) = Len(units[i].trays)
        BY <4>1, CountTo
      <4> QED
        BY <4>1, <4>2
    <3>3. IsFiniteSet(own) /\ Cardinality(own) = 1 * Len(units[i].trays)
      <4> HIDE DEF own
      <4>1. own = {i} \X DOMAIN units[i].trays
        BY DEF own
      <4> QED
        BY <3>1, <3>2, <4>1, FS_Product
    <3> QED
      BY <1>2, <2>0, <3>3
  <2>4. IsFiniteSet(Before(i)) /\ IsFiniteSet(Before(j)) /\ Cardinality(Before(i)) \in Nat /\ Cardinality(Before(j)) \in Nat
    BY <1>5, <2>0
  <2> HIDE DEF Before, own
  <2>5. Cardinality(Before(i) \cup own) = Cardinality(Before(i)) + Cardinality(own) - Cardinality({})
    BY <2>2, <2>3, <2>4, FS_Union
  <2>6. Cardinality({}) = 0
    BY FS_EmptySet
  <2>7. Before(i) \cup own \in SUBSET Before(j)
    BY <2>1
  <2>8. Cardinality(Before(i) \cup own) <= Cardinality(Before(j))
    BY <2>4, <2>7, FS_Subset
  <2> QED
    BY <1>2, <2>0, <2>3, <2>4, <2>5, <2>6, <2>8
<1> HIDE DEF Before
<1> QED
  BY <1>1, <1>5, <1>6

\* A slot's number is only its own.
LEMMA LocateFinds ==
  ASSUME NEW units, UnitsKnown(units), NEW i \in DOMAIN units, NEW s \in 0..(Len(units[i].trays) - 1)
  PROVE  Ams!Locate(units, Ams!Base(units, i) + s) = {<<i, s>>}
<1> DEFINE n == Ams!Base(units, i) + s
<1>1. Ams!Base(units, i) \in Nat /\ Len(units[i].trays) \in Nat /\ i \in Nat
  BY BasesGrow, UnitKnown
<1>2. n - Ams!Base(units, i) = s
  BY <1>1
<1>3. ASSUME NEW j \in DOMAIN units, n - Ams!Base(units, j) \in 0..(Len(units[j].trays) - 1) PROVE j = i
  <2>1. Ams!Base(units, j) \in Nat /\ Len(units[j].trays) \in Nat /\ j \in Nat
    BY BasesGrow, UnitKnown
  <2>2. ~(i < j)
    <3> SUFFICES ASSUME i < j PROVE FALSE
      OBVIOUS
    <3>1. Ams!Base(units, j) >= Ams!Base(units, i) + Len(units[i].trays)
      BY BasesGrow
    <3> QED
      BY <1>1, <1>3, <2>1, <3>1
  <2>3. ~(j < i)
    <3> SUFFICES ASSUME j < i PROVE FALSE
      OBVIOUS
    <3>1. Ams!Base(units, i) >= Ams!Base(units, j) + Len(units[j].trays)
      BY BasesGrow
    <3> QED
      BY <1>1, <1>3, <2>1, <3>1
  <2> QED
    BY <1>1, <2>1, <2>2, <2>3
<1>4. Ams!Locate(units, n) = {<<j, n - Ams!Base(units, j)>> : j \in {i}}
  BY <1>2, <1>3 DEF Ams!Locate
<1> QED
  BY <1>2, <1>4

-----------------------------------------------------------------------------
LEMMA ViewKnown ==
  ASSUME AmsConstants, NEW v \in Views
  PROVE  /\ UnitsKnown(v.units) /\ v.top \in Nat /\ v.top >= 170 /\ v.spool \in Int \cup {None}
BY DEF AmsConstants, UnitsKnown

LEMMA ClampFits == ASSUME NEW t \in Int, NEW top \in Nat, top >= 170 PROVE Ams!Clamp(t, top) \in 170..top
BY DEF Ams!Clamp

LEMMA SlotTempKnown ==
  ASSUME AmsConstants, NEW v \in Views, NEW i \in DOMAIN v.units, NEW s \in 0..(Len(v.units[i].trays) - 1)
  PROVE  Ams!SlotTemp(v.units[i].trays[s + 1]) \in Int
<1>1. UnitsKnown(v.units)
  BY ViewKnown
<1>2. v.units[i] \in SpoolUnits /\ s + 1 \in DOMAIN v.units[i].trays
  BY <1>1, UnitKnown
<1>3. v.units[i].trays \in Seq(SpoolSlots)
  BY <1>2 DEF SpoolUnits
<1>4. v.units[i].trays[s + 1] \in SpoolSlots
  BY <1>2, <1>3
<1>5. v.units[i].trays[s + 1].temp \in Int \cup {None}
  BY <1>4 DEF SpoolSlots
<1> QED
  BY <1>5 DEF Ams!SlotTemp, Ams!DefaultTemp

\* Where the extruder feeds from, when a slot can be named.
LEMMA FedFrom ==
  ASSUME AmsConstants, NEW v \in Views, Ams!Now(v) \notin {None, Ams!NoTray, Ams!External}
  PROVE  \E i \in DOMAIN v.units :
           /\ v.units[i].index = v.unit
           /\ \E s \in 0..(Len(v.units[i].trays) - 1) : Ams!Locate(v.units, Ams!Now(v)) = {<<i, s>>}
<1> DEFINE at == {i \in DOMAIN v.units : v.units[i].index = v.unit /\ v.tray \in 0..(Len(v.units[i].trays) - 1)}
           i == CHOOSE k \in at : TRUE
<1>1. at # {} /\ Ams!Now(v) = Ams!Base(v.units, i) + v.tray
  BY DEF Ams!Now, Ams!TrayNow
<1>2. i \in at
  BY <1>1
<1>3. i \in DOMAIN v.units /\ v.units[i].index = v.unit /\ v.tray \in 0..(Len(v.units[i].trays) - 1)
  BY <1>2
<1> HIDE DEF i, at
<1>4. Ams!Locate(v.units, Ams!Now(v)) = {<<i, v.tray>>}
  BY <1>1, <1>3, LocateFinds, ViewKnown
<1> QED
  BY <1>3, <1>4

LEMMA LocatedSlots ==
  ASSUME AmsConstants, NEW v \in Views, NEW n, NEW l \in Ams!Locate(v.units, n)
  PROVE  Ams!SlotTemp(Ams!Slot(v, l)) \in Int
<1>1. PICK i \in DOMAIN v.units : /\ n - Ams!Base(v.units, i) \in 0..(Len(v.units[i].trays) - 1)
                                  /\ l = <<i, n - Ams!Base(v.units, i)>>
  BY DEF Ams!Locate
<1> QED
  BY <1>1, SlotTempKnown DEF Ams!Slot

LEMMA SpoolTempKnown == ASSUME AmsConstants, NEW v \in Views PROVE Ams!SpoolTemp(v) \in Int
BY ViewKnown DEF Ams!SpoolTemp, Ams!DefaultTemp

\* A load that is not refused.
LEMMA LoadNames ==
  ASSUME AmsConstants, NEW v \in Views, NEW index \in Indices, NEW slot \in Slots, Ams!Load(v, index, slot) # None
  PROVE  LET load == Ams!Load(v, index, slot) IN
         /\ load.curr \in 170..v.top /\ load.tar \in 170..v.top
         /\ load.target = Ams!Target(index, slot)
         /\ \E i \in DOMAIN v.units :
              /\ v.units[i].index = index /\ slot \in 0..(Len(v.units[i].trays) - 1)
              /\ ~Ams!SlotEmpty(v.units[i].trays[slot + 1])
<1> DEFINE at == Ams!UnitsAt(v, index)
           unit == CHOOSE i \in at : TRUE
           target == v.units[unit].trays[slot + 1]
           from == Ams!Locate(v.units, Ams!Now(v))
           named == CHOOSE l \in from : TRUE
           curr == IF Ams!Loaded(v) = "no" THEN Ams!SlotTemp(target)
                   ELSE IF Ams!Now(v) = Ams!NoTray THEN Ams!DefaultTemp
                   ELSE IF Ams!Now(v) = Ams!External THEN Ams!SpoolTemp(v)
                   ELSE IF Ams!Now(v) # None /\ \E l \in from : ~Ams!SlotEmpty(Ams!Slot(v, l))
                   THEN Ams!SlotTemp(Ams!Slot(v, named))
                   ELSE Ams!SlotTemp(target)
<1>1. /\ at # {} /\ slot \in 0..(Len(v.units[unit].trays) - 1) /\ ~Ams!SlotEmpty(target)
      /\ Ams!Load(v, index, slot) = Ams!Change(index, slot, Ams!Target(index, slot), curr, Ams!SlotTemp(target), v.top)
  BY DEF Ams!Load, Ams!PlanLoad
<1>2. unit \in at
  BY <1>1
<1>3. unit \in DOMAIN v.units /\ v.units[unit].index = index
  BY <1>2 DEF Ams!UnitsAt, Ams!UnitsShown
<1>4. Ams!SlotTemp(target) \in Int
  BY <1>1, <1>3, SlotTempKnown
<1>5. curr \in Int
  <2>1. from # {} => named \in from
    OBVIOUS
  <2>2. from # {} => Ams!SlotTemp(Ams!Slot(v, named)) \in Int
    BY <2>1, LocatedSlots
  <2> HIDE DEF from, named, target
  <2> QED
    BY <1>4, <2>2, SpoolTempKnown DEF Ams!DefaultTemp
<1>6. v.top \in Nat /\ v.top >= 170
  BY ViewKnown
<1> HIDE DEF curr, target, unit
<1>7. Ams!Clamp(curr, v.top) \in 170..v.top /\ Ams!Clamp(Ams!SlotTemp(target), v.top) \in 170..v.top
  BY <1>4, <1>5, <1>6, ClampFits
<1>8. /\ Ams!Load(v, index, slot).curr \in 170..v.top /\ Ams!Load(v, index, slot).tar \in 170..v.top
      /\ Ams!Load(v, index, slot).target = Ams!Target(index, slot)
  BY <1>1, <1>7 DEF Ams!Change
<1>9. ~Ams!SlotEmpty(v.units[unit].trays[slot + 1])
  BY <1>1 DEF target
<1> QED
  BY <1>1, <1>3, <1>8, <1>9

\* The older firmware's number is only one slot's.
LEMMA TargetsDiffer ==
  ASSUME NEW units, UnitsKnown(units), NEW i \in DOMAIN units, NEW j \in DOMAIN units,
         NEW s \in 0..(Len(units[i].trays) - 1), NEW t \in 0..(Len(units[j].trays) - 1),
         Ams!Target(units[i].index, s) = Ams!Target(units[j].index, t)
  PROVE  i = j /\ s = t
<1>1. /\ units[i].index \in (0..3) \cup (128..135) /\ units[j].index \in (0..3) \cup (128..135)
      /\ Len(units[i].trays) \in 0..4 /\ Len(units[j].trays) \in 0..4
      /\ units[i].index \notin 0..3 => Len(units[i].trays) <= 1
      /\ units[j].index \notin 0..3 => Len(units[j].trays) <= 1
  BY UnitKnown DEF SpoolUnits
<1> DEFINE a == units[i].index
           b == units[j].index
           n == Len(units[i].trays)
           m == Len(units[j].trays)
<1>0. /\ a \in (0..3) \cup (128..135) /\ b \in (0..3) \cup (128..135) /\ n \in 0..4 /\ m \in 0..4
      /\ a \notin 0..3 => n <= 1
      /\ b \notin 0..3 => m <= 1
      /\ s \in 0..(n - 1) /\ t \in 0..(m - 1)
      /\ Ams!Target(a, s) = Ams!Target(b, t)
  BY <1>1
<1> HIDE DEF a, b, n, m
<1>2. s \in 0..3 /\ t \in 0..3 /\ (a \notin 0..3 => s = 0) /\ (b \notin 0..3 => t = 0)
  BY <1>0
<1>3. /\ a \in 0..3 => Ams!Target(a, s) = a * 4 + s
      /\ a \in 128..135 => Ams!Target(a, s) = a
      /\ b \in 0..3 => Ams!Target(b, t) = b * 4 + t
      /\ b \in 128..135 => Ams!Target(b, t) = b
  BY <1>0, <1>2 DEF Ams!Target
<1>4. a = b /\ s = t
  <2>1. CASE a \in 0..3 /\ b \in 0..3
    <3>1. a * 4 + s = b * 4 + t
      BY <1>0, <1>3, <2>1
    <3> QED
      BY <1>2, <2>1, <3>1
  <2>2. CASE a \in 128..135 /\ b \in 128..135
    <3>1. a = b
      BY <1>0, <1>3, <2>2
    <3> QED
      BY <1>2, <2>2, <3>1
  <2>3. CASE a \in 0..3 /\ b \in 128..135
    <3>1. a * 4 + s = b
      BY <1>0, <1>3, <2>3
    <3> QED
      BY <1>2, <2>3, <3>1
  <2>4. CASE a \in 128..135 /\ b \in 0..3
    <3>1. b * 4 + t = a
      BY <1>0, <1>3, <2>4
    <3> QED
      BY <1>2, <2>4, <3>1
  <2> QED
    BY <1>0, <2>1, <2>2, <2>3, <2>4
<1> QED
  BY <1>4 DEF UnitsKnown, a, b

\* An unload that is not refused.
LEMMA UnloadNames ==
  ASSUME AmsConstants, NEW v \in Views, Ams!Unload(v) # None
  PROVE  LET unload == Ams!Unload(v) IN
         /\ unload.curr \in 170..v.top /\ unload.tar \in 170..v.top
         /\ unload.index # 255 => unload.index = v.unit
<1> DEFINE at == Ams!Locate(v.units, Ams!Now(v))
           where == CHOOSE l \in at : TRUE
           t == Ams!SlotTemp(Ams!Slot(v, where))
           out == Ams!Change(255, 255, 255, Ams!SpoolTemp(v), Ams!SpoolTemp(v), v.top)
           in == Ams!Change(v.units[where[1]].index, 255, 255, t, t, v.top)
<1>1. \/ Ams!Unload(v) = out
      \/ Ams!Unload(v) = in /\ at # {} /\ Ams!Now(v) \notin {None, Ams!NoTray, Ams!External}
  BY DEF Ams!Unload, Ams!PlanUnload
<1>2. v.top \in Nat /\ v.top >= 170
  BY ViewKnown
<1>3. CASE Ams!Unload(v) = out
  <2>1. Ams!Clamp(Ams!SpoolTemp(v), v.top) \in 170..v.top
    BY <1>2, ClampFits, SpoolTempKnown
  <2> QED
    BY <1>3, <2>1 DEF Ams!Change
<1>4. CASE Ams!Unload(v) = in /\ at # {} /\ Ams!Now(v) \notin {None, Ams!NoTray, Ams!External}
  <2>1. where \in at
    BY <1>4
  <2>2. t \in Int
    BY <2>1, LocatedSlots
  <2>3. Ams!Clamp(t, v.top) \in 170..v.top
    BY <1>2, <2>2, ClampFits
  <2>4. PICK i \in DOMAIN v.units : v.units[i].index = v.unit /\ \E s \in 0..(Len(v.units[i].trays) - 1) : at = {<<i, s>>}
    BY <1>4, FedFrom
  <2>5. where[1] = i
    BY <2>1, <2>4
  <2> HIDE DEF t, where
  <2> QED
    BY <1>4, <2>3, <2>4, <2>5 DEF Ams!Change
<1> QED
  BY <1>1, <1>3, <1>4

LEMMA SwapsSound ==
  ASSUME AmsConstants, NEW v \in Views, NEW index \in Indices, NEW slot \in Slots
  PROVE  Ams!SwapSound(v, index, slot)
<1> DEFINE load == Ams!Load(v, index, slot)
           unload == Ams!Unload(v)
<1>1. Ams!Sane(load, v.top)
  BY LoadNames DEF Ams!Sane
<1>2. Ams!Sane(unload, v.top)
  BY UnloadNames DEF Ams!Sane
<1>3. unload # None /\ unload.index # 255 => unload.index = v.unit
  BY UnloadNames
<1>4. ASSUME load # None, NEW i \in DOMAIN v.units, NEW s \in 0..(Len(v.units[i].trays) - 1),
             Ams!Target(v.units[i].index, s) = load.target
      PROVE  v.units[i].index = index /\ s = slot /\ ~Ams!SlotEmpty(v.units[i].trays[s + 1])
  <2>1. load.target = Ams!Target(index, slot)
    BY <1>4, LoadNames
  <2>2. PICK j \in DOMAIN v.units : /\ v.units[j].index = index /\ slot \in 0..(Len(v.units[j].trays) - 1)
                                    /\ ~Ams!SlotEmpty(v.units[j].trays[slot + 1])
    BY <1>4, LoadNames
  <2>3. i = j /\ s = slot
    BY <1>4, <2>1, <2>2, TargetsDiffer, ViewKnown
  <2> QED
    BY <2>2, <2>3
<1> HIDE DEF load, unload
<1> QED
  BY <1>1, <1>2, <1>3, <1>4 DEF Ams!SwapSound, load, unload

-----------------------------------------------------------------------------
\* What a spool tolerates, and that it tolerates the least temperature of a drying.
LEMMA CapsKnown ==
  ASSUME NEW m \in DOMAIN Ams!Material, NEW kind \in {1, 2}, NEW feeding \in BOOLEAN
  PROVE  LET stood == Ams!CapOf(m, kind, feeding) IN
         /\ stood \in Nat /\ stood <= Ams!Material[m].hdt /\ (feeding => stood <= Ams!Material[m].soft)
         /\ 45 <= Ams!Material[m].hdt /\ 45 <= Ams!Material[m].soft
         /\ Ams!Material[m].hdt \in Nat /\ Ams!Material[m].soft \in Nat
<1>1. m \in {"PLA", "PETG", "ABS", "ASA", "PA", "PC", "TPU", "PVA", "PPS"}
  BY DEF Ams!Material
<1> DEFINE r == Ams!Material[m]
<1>2. /\ r.hdt \in Nat /\ r.soft \in Nat /\ r.print[kind] \in Nat
      /\ 45 <= r.hdt /\ 45 <= r.soft
  BY <1>1 DEF Ams!Material
<1> HIDE DEF r
<1>3. Ams!CapOf(m, kind, feeding) = IF feeding THEN Ams!Low(r.print[kind], Ams!Low(r.soft, r.hdt)) ELSE r.hdt
  BY DEF Ams!CapOf, r
<1>4. Ams!CapOf(m, kind, feeding) \in Nat /\ Ams!CapOf(m, kind, feeding) <= r.hdt /\ (feeding => Ams!CapOf(m, kind, feeding) <= r.soft)
  BY <1>2, <1>3 DEF Ams!Low
<1> QED
  BY <1>2, <1>4 DEF r

\* The highest temperature of a unit is one its spools stand.
LEMMA TempStood ==
  ASSUME NEW u \in SpoolUnits, NEW kind \in {1, 2}, NEW feeding \in BOOLEAN, None \notin DOMAIN Ams!Material,
         NEW temp \in Ams!TempMin..Ams!MaxTemp(u, kind, feeding),
         NEW t \in DOMAIN u.trays, ~Ams!SlotEmpty(u.trays[t])
  PROVE  LET m == Ams!MaterialOf(u.trays[t]) IN
         temp <= Ams!Material[m].hdt /\ (feeding => temp <= Ams!Material[m].soft)
<1> DEFINE m == Ams!MaterialOf(u.trays[t])
           caps == {Ams!CapOf(n, kind, feeding) : n \in Ams!Occupied(u)} \cup {Ams!TypeMax[kind]}
           lowest == CHOOSE c \in caps : \A d \in caps : c <= d
<1>1. \A k \in DOMAIN u.trays : Ams!MaterialOf(u.trays[k]) \in DOMAIN Ams!Material
  <2> SUFFICES ASSUME NEW k \in DOMAIN u.trays PROVE Ams!MaterialOf(u.trays[k]) \in DOMAIN Ams!Material
    OBVIOUS
  <2>1. u.trays \in Seq(SpoolSlots)
    BY DEF SpoolUnits
  <2>2. u.trays[k] \in SpoolSlots
    BY <2>1
  <2>3. u.trays[k].material \in DOMAIN Ams!Material \cup {None}
    BY <2>2 DEF SpoolSlots
  <2>4. "PLA" \in DOMAIN Ams!Material
    BY DEF Ams!Material
  <2> QED
    BY <2>3, <2>4 DEF Ams!MaterialOf
<1>2. Ams!Occupied(u) \subseteq DOMAIN Ams!Material /\ m \in Ams!Occupied(u)
  BY <1>1 DEF Ams!Occupied
<1>3. Ams!TypeMax[kind] \in Nat
  BY DEF Ams!TypeMax
<1>4. \A n \in Ams!Occupied(u) : Ams!CapOf(n, kind, feeding) \in Nat
  BY <1>2, CapsKnown
<1>5. caps \in SUBSET Nat /\ caps # {} /\ Ams!CapOf(m, kind, feeding) \in caps
  BY <1>2, <1>3, <1>4
<1>6. lowest \in caps /\ \A d \in caps : lowest <= d
  <2> HIDE DEF caps
  <2>1. \E c \in caps : \A d \in caps : c <= d
    BY <1>5, LeastNatural
  <2> QED
    BY <2>1
<1>7. Ams!MaxTemp(u, kind, feeding) = IF lowest < Ams!TempMin THEN Ams!TempMin ELSE lowest
  BY DEF Ams!MaxTemp
<1> HIDE DEF caps, lowest, m
<1>8. lowest \in Nat /\ lowest <= Ams!CapOf(m, kind, feeding)
  BY <1>5, <1>6
<1>9. /\ Ams!CapOf(m, kind, feeding) \in Nat /\ Ams!CapOf(m, kind, feeding) <= Ams!Material[m].hdt
      /\ feeding => Ams!CapOf(m, kind, feeding) <= Ams!Material[m].soft
      /\ 45 <= Ams!Material[m].hdt /\ 45 <= Ams!Material[m].soft
      /\ Ams!Material[m].hdt \in Nat /\ Ams!Material[m].soft \in Nat
  BY <1>2, CapsKnown
<1>10. temp <= Ams!Material[m].hdt /\ (feeding => temp <= Ams!Material[m].soft)
  BY <1>7, <1>8, <1>9 DEF Ams!TempMin
<1> QED
  BY <1>10 DEF m

LEMMA DriesSound ==
  ASSUME AmsConstants, NEW v \in Views, NEW index \in Indices, NEW temp \in Temps, NEW hours \in Hours
  PROVE  Ams!DrySound(v, index, temp, hours)
<1> DEFINE at == Ams!UnitsAt(v, index)
           i == CHOOSE k \in at : TRUE
           u == v.units[i]
           kind == Ams!UnitType(u)
           feeding == Ams!Feeding(v, u)
<1> SUFFICES ASSUME Ams!StartDrying(v, index, temp, hours) # None PROVE Ams!DrySound(v, index, temp, hours)
  BY DEF Ams!DrySound
<1>1. /\ at # {} /\ kind # None /\ v.remote = "yes" /\ ~Ams!DryActive(v, u) /\ u.status # "stopping" /\ ~Ams!Blocked(v, u)
      /\ temp \in Ams!TempMin..Ams!MaxTemp(u, kind, feeding)
  BY DEF Ams!StartDrying
<1>2. i \in at
  BY <1>1
<1>3. i \in DOMAIN v.units /\ u.index = index
  BY <1>2 DEF Ams!UnitsAt, Ams!UnitsShown
<1>4. u \in SpoolUnits
  BY <1>3, ViewKnown, UnitKnown
<1>5. Ams!StopDrying(v, index)
  BY <1>1, <1>2 DEF Ams!StopDrying
<1> HIDE DEF i
<1>6. kind \in {1, 2}
  <2>1. u.model \in {None, 0, 1, 2}
    BY <1>4 DEF SpoolUnits
  <2> QED
    BY <1>1, <2>1 DEF Ams!UnitType
<1>7. u.codes \subseteq {6}
  BY <1>1 DEF Ams!Blocked
<1>8. u.status \notin {"drying", "checking", "stopping", "error", "overheat"}
  <2>1. None \notin {"drying", "checking", "error", "overheat"}
    BY DEF AmsConstants, Dryings
  <2> QED
    BY <1>1, <2>1 DEF Ams!DryActive
<1>9. feeding \in BOOLEAN /\ (v.gcode \in {"RUNNING", "PAUSE"} /\ v.unit = index => feeding)
  <2>1. v.gcode \in {"RUNNING", "PAUSE"} => Ams!BambuState(v.gcode, None, FALSE, FALSE) \in {"printing", "paused"}
    BY DEF Ams!BambuState, Ams!Cancelled, Ams!MapState
  <2> QED
    BY <1>3, <2>1 DEF Ams!Feeding
<1>10. None \notin DOMAIN Ams!Material
  BY DEF AmsConstants
<1> HIDE DEF u, kind, feeding
<1>11. ASSUME NEW t \in DOMAIN u.trays, ~Ams!SlotEmpty(u.trays[t])
       PROVE  LET m == IF u.trays[t].material = None THEN "PLA" ELSE u.trays[t].material IN
              temp <= Ams!Material[m].hdt /\ (v.gcode \in {"RUNNING", "PAUSE"} /\ v.unit = index => temp <= Ams!Material[m].soft)
  <2>1. LET m == Ams!MaterialOf(u.trays[t]) IN temp <= Ams!Material[m].hdt /\ (feeding => temp <= Ams!Material[m].soft)
    BY <1>1, <1>4, <1>6, <1>9, <1>10, <1>11, TempStood
  <2> QED
    BY <1>9, <2>1 DEF Ams!MaterialOf
<1>12. i \in DOMAIN v.units /\ v.units[i] = u
  BY <1>3 DEF u
<1> QED
  BY <1>3, <1>5, <1>7, <1>8, <1>11, <1>12 DEF Ams!DrySound

\* AmsSound, for any units, spools, reports and temperatures.
THEOREM AmsIsSafe == ASSUME AmsConstants PROVE Ams!Spec => []Ams!AmsSound
<1>1. Ams!Init => Ams!AmsSound
  BY DEF Ams!Init, Ams!AmsSound
<1>2. ASSUME Ams!AmsSound, [Ams!Next]_wanted PROVE Ams!AmsSound'
  <2>1. CASE Ams!AskSwap
    <3>1. PICK v \in Views, index \in Indices, slot \in Slots : wanted' = [what |-> "swap", v |-> v, index |-> index, slot |-> slot]
      BY <2>1 DEF Ams!AskSwap
    <3>2. wanted'.what = "swap" /\ wanted'.v = v /\ wanted'.index = index /\ wanted'.slot = slot
      BY <3>1
    <3>3. Ams!SwapSound(v, index, slot)
      BY SwapsSound
    <3> QED
      BY <3>2, <3>3 DEF Ams!AmsSound
  <2>2. CASE Ams!AskDry
    <3>1. PICK v \in Views, index \in Indices, temp \in Temps, hours \in Hours :
            wanted' = [what |-> "dry", v |-> v, index |-> index, temp |-> temp, hours |-> hours]
      BY <2>2 DEF Ams!AskDry
    <3>2. wanted'.what = "dry" /\ wanted'.v = v /\ wanted'.index = index /\ wanted'.temp = temp /\ wanted'.hours = hours
      BY <3>1
    <3>3. Ams!DrySound(v, index, temp, hours)
      BY DriesSound
    <3> QED
      BY <3>2, <3>3 DEF Ams!AmsSound
  <2>3. CASE UNCHANGED wanted
    BY <1>2, <2>3 DEF Ams!AmsSound
  <2> QED
    BY <1>2, <2>1, <2>2, <2>3 DEF Ams!Next
<1> QED
  BY <1>1, <1>2, PTL DEF Ams!Spec
=============================================================================

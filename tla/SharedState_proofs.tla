-------------------------- MODULE SharedState_proofs --------------------------
(***************************************************************************)
(* Proofs about what every thread reads and requests change: the caches of *)
(* the registry, the settings, the bulk commands, the accounts and the     *)
(* table of prints, for any number of threads, printers, users, calls and  *)
(* prints and every limit.                                                 *)
(***************************************************************************)
EXTENDS SharedState, FiniteSetTheorems, SequenceTheorems, WellFoundedInduction, TLAPS

(***************************************************************************)
(* Part 1.  FleetRegistry.                                                 *)
(***************************************************************************)
\* The types, without the bounds of the checked instances.
RegistryTyped ==
  /\ Registry!CachesTyped
  /\ \A t \in Readers : thread[t] # None =>
       /\ thread[t].op = "rename" => thread[t].got <= label
       /\ thread[t].op = "discard" /\ thread[t].at = "done" => thread[t].got <= label

-----------------------------------------------------------------------------
\* A set of naturals up to a bound has a greatest element.
LEMMA Greatest ==
  ASSUME NEW b \in Nat, NEW S \in SUBSET (0..b), S # {}
  PROVE  \E n \in S : \A k \in S : k <= n
<1> DEFINE R == {p \in Nat \X Nat : p[1] < p[2]}
           T == {m \in Nat : b - m \in S}
<1>1. IsWellFoundedOn(R, Nat)
  BY NatLessThanWellFounded DEF OpToRel
<1>2. T \in SUBSET Nat /\ T # {}
  <2>1. PICK k \in S : TRUE
    OBVIOUS
  <2>2. b - k \in Nat /\ b - (b - k) = k
    OBVIOUS
  <2> QED
    BY <2>2
<1>3. PICK m \in T : \A k \in T : ~(<<k, m>> \in R)
  BY <1>1, <1>2, WFMin
<1>4. \A k \in T : m <= k
  <2> SUFFICES ASSUME NEW k \in T PROVE m <= k
    OBVIOUS
  <2>1. k \in Nat /\ m \in Nat /\ ~(<<k, m>> \in R)
    BY <1>3
  <2>2. <<k, m>> \in R <=> k < m
    BY <2>1
  <2> QED
    BY <2>1, <2>2
<1>5. ASSUME NEW k \in S PROVE k <= b - m
  <2>1. b - k \in Nat /\ b - (b - k) = k
    OBVIOUS
  <2>2. m <= b - k
    BY <1>4, <2>1
  <2> QED
    BY <2>2
<1> QED
  BY <1>5

\* What a reader is owed is a label that was answered long enough ago, or none.
LEMMA OwedAnswered ==
  ASSUME RegistryConstants, RegistryTyped
  PROVE  Registry!Owed = 0 \/ (Registry!Owed \in DOMAIN renamed /\ renamed[Registry!Owed] + Ttl <= ticks)
<1> DEFINE old == {n \in DOMAIN renamed : renamed[n] + Ttl <= ticks}
<1>1. CASE old = {}
  BY <1>1 DEF Registry!Owed
<1>2. CASE old # {}
  <2>1. old \in SUBSET (0..label) /\ label \in Nat
    BY DEF RegistryTyped, Registry!CachesTyped
  <2>2. \E n \in old : \A k \in old : k <= n
    BY <1>2, <2>1, Greatest
  <2>3. Registry!Owed = CHOOSE n \in old : \A k \in old : k <= n
    BY <1>2 DEF Registry!Owed
  <2>4. Registry!Owed \in old
    BY <2>2, <2>3
  <2> QED
    BY <2>4
<1> QED
  BY <1>1, <1>2

LEMMA OwedTyped == ASSUME RegistryConstants, RegistryTyped PROVE Registry!Owed \in 0..label
BY OwedAnswered DEF RegistryTyped, Registry!CachesTyped

\* What Begin leaves of the threads.
LEMMA BeginsCall ==
  ASSUME RegistryConstants, RegistryTyped, NEW t \in Readers,
         NEW op \in {"switch", "discard", "map", "label", "rename"}, NEW value \in Nat, NEW floor \in Nat,
         Registry!Begin(t, op, value, floor)
  PROVE  /\ thread' \in [Readers -> Registry!Calls \cup {None}]
         /\ thread'[t] # None /\ thread'[t].op = op /\ thread'[t].at = "begun" /\ thread'[t].gen = gen
         /\ thread'[t].since = ticks /\ thread'[t].floor = floor /\ thread'[t].got = value
         /\ \A u \in Readers \ {t} : thread'[u] = thread[u]
<1> DEFINE new == [op |-> op, at |-> "begun", gen |-> gen, since |-> ticks, floor |-> floor, got |-> value,
                    ok |-> TRUE]
<1>1. new \in Registry!Calls
  BY DEF Registry!Calls, RegistryTyped, Registry!CachesTyped
<1>2. thread' = [thread EXCEPT ![t] = new]
  BY DEF Registry!Begin
<1> QED
  BY <1>1, <1>2 DEF RegistryTyped, Registry!CachesTyped, RegistryConstants

\* What a step from begun to done leaves of them.
LEMMA GoesOn ==
  ASSUME RegistryConstants, RegistryTyped, NEW t \in Readers, thread[t] # None,
         NEW value \in Nat, NEW ok \in BOOLEAN, Registry!Goes(t, value, ok)
  PROVE  /\ thread' \in [Readers -> Registry!Calls \cup {None}]
         /\ thread'[t] # None /\ thread'[t] = [thread[t] EXCEPT !.at = "done", !.got = value, !.ok = ok]
         /\ \A u \in Readers \ {t} : thread'[u] = thread[u]
<1>1. [thread[t] EXCEPT !.at = "done", !.got = value, !.ok = ok] \in Registry!Calls
  BY DEF RegistryTyped, Registry!CachesTyped, Registry!Calls
<1>2. thread' = [thread EXCEPT ![t] = [thread[t] EXCEPT !.at = "done", !.got = value, !.ok = ok]]
  BY DEF Registry!Goes
<1> QED
  BY <1>1, <1>2 DEF RegistryTyped, Registry!CachesTyped, RegistryConstants

LEMMA EndsCall ==
  ASSUME RegistryTyped, NEW t \in Readers, Registry!Ends(t)
  PROVE  /\ thread' \in [Readers -> Registry!Calls \cup {None}]
         /\ thread'[t] = None /\ \A u \in Readers \ {t} : thread'[u] = thread[u]
BY DEF Registry!Ends, RegistryTyped, Registry!CachesTyped

-----------------------------------------------------------------------------
LEMMA RegistryTypedStep == ASSUME RegistryConstants, RegistryTyped, [Registry!Next]_(Registry!vars) PROVE RegistryTyped'
<1>1. CASE Registry!Table
  <2>1. CASE Registry!Restart
    BY <2>1 DEF Registry!Restart, RegistryTyped, Registry!CachesTyped, Registry!ghostVars
  <2>2. CASE \E p \in Registered : Registry!Create(p) \/ (\E cfg \in Registry!Configs : Registry!Update(p, cfg)) \/ Registry!Delete(p) \/ Registry!Restore(p)
    <3>1. UNCHANGED <<mode, label, gen, ticks, lastMap, modeMap, labelMap, thread, answer>> /\ UNCHANGED Registry!ghostVars
      BY <2>2 DEF Registry!Create, Registry!Update, Registry!Delete, Registry!Restore, Registry!Write
    <3> QED
      BY <3>1 DEF RegistryTyped, Registry!CachesTyped, Registry!ghostVars
  <2> QED
    BY <1>1, <2>1, <2>2 DEF Registry!Table
<1>2. ASSUME NEW t \in Readers, Registry!SwitchCommits(t) PROVE RegistryTyped'
  <2>1. mode + 1 \in Nat /\ 0 \in Nat
    BY DEF RegistryTyped, Registry!CachesTyped
  <2>2. Registry!Begin(t, "switch", mode + 1, 0) /\ mode' = mode + 1
        /\ UNCHANGED <<label, gen, ticks, lastMap, modeMap, labelMap, answer, switched, renamed, undone>>
    BY <1>2 DEF Registry!SwitchCommits, Registry!ghostVars
  <2> QED
    BY <2>1, <2>2, BeginsCall DEF RegistryTyped, Registry!CachesTyped
<1>3. ASSUME NEW t \in Readers, Registry!SwitchEnds(t) PROVE RegistryTyped'
  <2>1. thread[t] \in Registry!Calls
    BY <1>3 DEF Registry!SwitchEnds, Registry!In, RegistryTyped, Registry!CachesTyped
  <2>2. switched' \in Nat /\ gen' \in Nat /\ modeMap' = None
    BY <1>3, <2>1 DEF Registry!SwitchEnds, RegistryTyped, Registry!CachesTyped, Registry!Calls
  <2>3. Registry!Ends(t) /\ UNCHANGED <<mode, label, ticks, lastMap, labelMap, answer, renamed, undone>>
    BY <1>3 DEF Registry!SwitchEnds
  <2> QED
    BY <2>2, <2>3, EndsCall DEF RegistryTyped, Registry!CachesTyped
<1>4. ASSUME NEW t \in Readers, Registry!DiscardLooks(t) PROVE RegistryTyped'
  <2>1. Registry!Begin(t, "discard", mode, 0) /\ mode \in Nat
        /\ UNCHANGED <<mode, label, gen, ticks, lastMap, modeMap, labelMap, answer, switched, renamed, undone>>
    BY <1>4 DEF Registry!DiscardLooks, Registry!ghostVars, RegistryTyped, Registry!CachesTyped
  <2> QED
    BY <2>1, BeginsCall DEF RegistryTyped, Registry!CachesTyped
<1>5. ASSUME NEW t \in Readers, Registry!DiscardCommits(t) PROVE RegistryTyped'
  <2>1. thread[t] \in Registry!Calls /\ thread[t] # None /\ thread[t].op = "discard"
    BY <1>5 DEF Registry!DiscardCommits, Registry!In, RegistryTyped, Registry!CachesTyped
  <2>2. mode' \in Nat /\ label' = label + 1 /\ label' \in Nat /\ Registry!Goes(t, label', TRUE)
    <3>1. mode' = thread[t].got /\ label' = label + 1 /\ Registry!Goes(t, label', TRUE)
      BY <1>5 DEF Registry!DiscardCommits
    <3>2. thread[t].got \in Nat /\ label + 1 \in Nat
      BY <2>1 DEF RegistryTyped, Registry!CachesTyped, Registry!Calls
    <3> QED
      BY <3>1, <3>2, Zenon
  <2>3. undone' \in BOOLEAN
    BY <1>5, Zenon DEF Registry!DiscardCommits
  <2>4. UNCHANGED <<gen, ticks, lastMap, modeMap, labelMap, answer, switched, renamed>>
    BY <1>5 DEF Registry!DiscardCommits
  <2>5. /\ thread' \in [Readers -> Registry!Calls \cup {None}] /\ \A u \in Readers \ {t} : thread'[u] = thread[u]
        /\ thread'[t] = [thread[t] EXCEPT !.at = "done", !.got = label', !.ok = TRUE]
    BY <2>1, <2>2, GoesOn
  <2>6. thread'[t].op = "discard" /\ thread'[t].got = label'
    BY <2>1, <2>5 DEF Registry!Calls
  <2>7. \A u \in Readers : thread'[u] # None =>
       /\ thread'[u].op = "rename" => thread'[u].got <= label'
       /\ thread'[u].op = "discard" /\ thread'[u].at = "done" => thread'[u].got <= label'
    <3>1. \A u \in Readers \ {t} : thread'[u] # None =>
       /\ thread'[u].op = "rename" => thread'[u].got <= label'
       /\ thread'[u].op = "discard" /\ thread'[u].at = "done" => thread'[u].got <= label'
      BY <2>2, <2>5 DEF RegistryTyped, Registry!CachesTyped, Registry!Calls
    <3> QED
      BY <2>2, <2>6, <3>1
  <2>8. \A n \in DOMAIN renamed' : renamed'[n] \in Nat /\ n \in 0..label'
    BY <2>2, <2>4 DEF RegistryTyped, Registry!CachesTyped
  <2> QED
    BY <2>2, <2>3, <2>4, <2>5, <2>7, <2>8 DEF RegistryTyped, Registry!CachesTyped
<1>6. ASSUME NEW t \in Readers, Registry!DiscardEnds(t) \/ Registry!RenameEnds(t) PROVE RegistryTyped'
  <2>1. thread[t] \in Registry!Calls /\ thread[t].got \in 0..label
    BY <1>6 DEF Registry!DiscardEnds, Registry!RenameEnds, Registry!In, RegistryTyped, Registry!CachesTyped, Registry!Calls
  <2>2. Registry!Ends(t) /\ labelMap' = None /\ gen' \in Nat /\ modeMap' \in {modeMap, None}
        /\ UNCHANGED <<mode, label, ticks, lastMap, answer, switched, undone>>
    BY <1>6 DEF Registry!DiscardEnds, Registry!RenameEnds, RegistryTyped, Registry!CachesTyped
  <2>3. renamed' = [n \in DOMAIN renamed \cup {thread[t].got} |->
                      IF n = thread[t].got THEN ticks ELSE renamed[n]]
    BY <1>6 DEF Registry!DiscardEnds, Registry!RenameEnds
  <2>4. \A n \in DOMAIN renamed' : renamed'[n] \in Nat /\ n \in 0..label'
    BY <2>1, <2>2, <2>3 DEF RegistryTyped, Registry!CachesTyped
  <2> QED
    BY <2>2, <2>4, EndsCall DEF RegistryTyped, Registry!CachesTyped
<1>7. ASSUME NEW t \in Readers, Registry!RenameCommits(t) PROVE RegistryTyped'
  <2>1. Registry!Begin(t, "rename", label + 1, 0) /\ label + 1 \in Nat /\ label' = label + 1
        /\ UNCHANGED <<mode, gen, ticks, lastMap, modeMap, labelMap, answer, switched, renamed, undone>>
    BY <1>7 DEF Registry!RenameCommits, Registry!ghostVars, RegistryTyped, Registry!CachesTyped
  <2>2. /\ thread' \in [Readers -> Registry!Calls \cup {None}] /\ thread'[t].op = "rename" /\ thread'[t].got = label'
        /\ \A u \in Readers \ {t} : thread'[u] = thread[u]
    BY <2>1, BeginsCall
  <2>3. \A u \in Readers : thread'[u] # None =>
       /\ thread'[u].op = "rename" => thread'[u].got <= label'
       /\ thread'[u].op = "discard" /\ thread'[u].at = "done" => thread'[u].got <= label'
    BY <2>1, <2>2 DEF RegistryTyped, Registry!CachesTyped, Registry!Calls
  <2>4. \A n \in DOMAIN renamed' : renamed'[n] \in Nat /\ n \in 0..label'
    BY <2>1 DEF RegistryTyped, Registry!CachesTyped
  <2> QED
    BY <2>1, <2>2, <2>3, <2>4 DEF RegistryTyped, Registry!CachesTyped
<1>8. ASSUME NEW t \in Readers, Registry!MapBegins(t) \/ Registry!LabelBegins(t) PROVE RegistryTyped'
  <2>1. Registry!Owed \in Nat /\ switched \in Nat
    BY OwedTyped DEF RegistryTyped, Registry!CachesTyped
  <2>2. PICK op \in {"map", "label"}, floor \in Nat : Registry!Begin(t, op, 0, floor)
    BY <1>8, <2>1 DEF Registry!MapBegins, Registry!LabelBegins
  <2>4. /\ thread' \in [Readers -> Registry!Calls \cup {None}] /\ thread'[t].op \in {"map", "label"}
        /\ \A u \in Readers \ {t} : thread'[u] = thread[u]
    BY <2>2, BeginsCall
  <2>3. UNCHANGED <<mode, label, gen, ticks, lastMap, modeMap, labelMap, answer, switched, renamed, undone>>
    BY <1>8 DEF Registry!MapBegins, Registry!LabelBegins, Registry!ghostVars
  <2> QED
    BY <2>3, <2>4 DEF RegistryTyped, Registry!CachesTyped
<1>9. ASSUME NEW t \in Readers, NEW ok \in BOOLEAN, Registry!MapReads(t, ok) \/ Registry!LabelReads(t) PROVE RegistryTyped'
  <2>1. thread[t] # None /\ thread[t] \in Registry!Calls /\ thread[t].op \in {"map", "label"}
    BY <1>9 DEF Registry!MapReads, Registry!LabelReads, Registry!In, RegistryTyped, Registry!CachesTyped
  <2>2. PICK value \in Nat, good \in BOOLEAN :
          thread' = [thread EXCEPT ![t] = [thread[t] EXCEPT !.at = "done", !.got = value, !.ok = good]]
    <3>1. CASE Registry!MapReads(t, ok)
      <4>1. thread' = [thread EXCEPT ![t] = [thread[t] EXCEPT !.at = "done", !.got = IF ok THEN mode ELSE 0,
                                                              !.ok = ok]]
        BY <3>1 DEF Registry!MapReads, Registry!Goes
      <4>2. (IF ok THEN mode ELSE 0) \in Nat
        BY DEF RegistryTyped, Registry!CachesTyped
      <4> QED
        BY <4>1, <4>2
    <3>2. CASE Registry!LabelReads(t)
      BY <3>2 DEF Registry!LabelReads, Registry!Goes, RegistryTyped, Registry!CachesTyped
    <3> QED
      BY <1>9, <3>1, <3>2
  <2>3. UNCHANGED <<mode, label, gen, ticks, lastMap, modeMap, labelMap, answer, switched, renamed, undone>>
    BY <1>9 DEF Registry!MapReads, Registry!LabelReads, Registry!ghostVars
  <2>4. /\ thread' \in [Readers -> Registry!Calls \cup {None}] /\ \A u \in Readers \ {t} : thread'[u] = thread[u]
        /\ thread'[t] = [thread[t] EXCEPT !.at = "done", !.got = value, !.ok = good]
    <3>1. [thread[t] EXCEPT !.at = "done", !.got = value, !.ok = good] \in Registry!Calls
      BY <2>1 DEF Registry!Calls
    <3> QED
      BY <2>2, <3>1 DEF RegistryTyped, Registry!CachesTyped
  <2>5. thread'[t].op \in {"map", "label"}
    BY <2>1, <2>4 DEF Registry!Calls
  <2> QED
    BY <2>3, <2>4, <2>5 DEF RegistryTyped, Registry!CachesTyped
<1>10. ASSUME NEW t \in Readers, Registry!MapEnds(t) PROVE RegistryTyped'
  <2>1. thread[t] \in Registry!Calls /\ Registry!Ends(t)
        /\ UNCHANGED <<mode, label, gen, ticks, labelMap, switched, renamed, undone>>
    BY <1>10 DEF Registry!MapEnds, Registry!In, RegistryTyped, Registry!CachesTyped, Registry!ghostVars
  <2>2. lastMap' \in Nat
    BY <1>10, <2>1 DEF Registry!MapEnds, RegistryTyped, Registry!CachesTyped, Registry!Calls
  <2>3. modeMap' \in Registry!Modes \cup {None}
    <3>1. modeMap' \in {modeMap, [mode |-> lastMap', sure |-> thread[t].ok]}
      BY <1>10 DEF Registry!MapEnds
    <3> QED
      BY <2>1, <2>2, <3>1 DEF RegistryTyped, Registry!CachesTyped, Registry!Modes, Registry!Calls
  <2>4. answer' \in [of : {"map", "label", None}, got : Nat, floor : Nat]
    <3>1. answer' \in {answer, [of |-> "map", got |-> lastMap', floor |-> thread[t].floor]}
      BY <1>10 DEF Registry!MapEnds
    <3> QED
      BY <2>1, <2>2, <3>1 DEF RegistryTyped, Registry!CachesTyped, Registry!Calls
  <2> QED
    BY <2>1, <2>2, <2>3, <2>4, EndsCall DEF RegistryTyped, Registry!CachesTyped
<1>11. ASSUME NEW t \in Readers, Registry!LabelEnds(t) PROVE RegistryTyped'
  <2>1. thread[t] \in Registry!Calls /\ Registry!Ends(t)
        /\ UNCHANGED <<mode, label, gen, ticks, modeMap, lastMap, switched, renamed, undone>>
    BY <1>11 DEF Registry!LabelEnds, Registry!In, RegistryTyped, Registry!CachesTyped, Registry!ghostVars
  <2>2. labelMap' \in Registry!Labels /\ answer' \in [of : {"map", "label", None}, got : Nat, floor : Nat]
    BY <1>11, <2>1 DEF Registry!LabelEnds, Registry!Labels, Registry!Calls
  <2> QED
    BY <2>1, <2>2, EndsCall DEF RegistryTyped, Registry!CachesTyped
<1>12. CASE Registry!MapHit \/ Registry!LabelHit
  <2>1. UNCHANGED <<mode, label, gen, ticks, lastMap, modeMap, labelMap, thread, switched, renamed, undone>>
    BY <1>12 DEF Registry!MapHit, Registry!LabelHit, Registry!ghostVars
  <2>2. answer' \in [of : {"map", "label", None}, got : Nat, floor : Nat]
    BY <1>12, OwedTyped DEF Registry!MapHit, Registry!LabelHit, Registry!LabelLives, RegistryTyped, Registry!CachesTyped, Registry!Modes, Registry!Labels
  <2> QED
    BY <2>1, <2>2 DEF RegistryTyped, Registry!CachesTyped
<1>13. CASE Registry!Tick \/ UNCHANGED Registry!vars
  BY <1>13 DEF Registry!Tick, Registry!vars, Registry!ghostVars, RegistryTyped, Registry!CachesTyped
<1> QED
  BY <1>1, <1>2, <1>3, <1>4, <1>5, <1>6, <1>7, <1>8, <1>9, <1>10, <1>11, <1>12, <1>13 DEF Registry!Next, Registry!Thread

LEMMA RegistryInitTyped == ASSUME Registry!Init PROVE RegistryTyped
<1>1. undone \in BOOLEAN
  BY Zenon DEF Registry!Init
<1>2. DOMAIN renamed = {}
  BY DEF Registry!Init
<1>3. answer \in [of : {"map", "label", None}, got : Nat, floor : Nat]
  BY DEF Registry!Init
<1>4. thread \in [Readers -> Registry!Calls \cup {None}] /\ \A t \in Readers : thread[t] = None
  BY DEF Registry!Init
<1> QED
  BY <1>1, <1>2, <1>3, <1>4 DEF Registry!Init, RegistryTyped, Registry!CachesTyped

\* Every variable keeps its type.
LEMMA RegistryCachesTyped == ASSUME RegistryConstants PROVE Registry!Spec => []RegistryTyped
<1>1. Registry!Init => RegistryTyped
  BY RegistryInitTyped
<1>2. RegistryTyped /\ [Registry!Next]_(Registry!vars) => RegistryTyped'
  BY RegistryTypedStep
<1> QED
  BY <1>1, <1>2, PTL DEF Registry!Spec
-----------------------------------------------------------------------------
\* The map of the modes, as long as no discard wrote an older mode back: what is
\* cached is no older than the last answered switch, and so is what a reader is about
\* to cache, unless the generation moved since it began.
MapCall(c) ==
  /\ c.op = "switch" => c.got <= mode
  /\ c.op = "map" => c.floor <= mode /\ c.gen <= gen
  /\ c.op = "map" /\ c.at = "done" /\ c.ok => c.floor <= c.got /\ (c.gen = gen => switched <= c.got)
MapInv ==
  /\ answer.of = "map" => answer.floor <= answer.got
  /\ switched <= mode
  /\ modeMap # None /\ modeMap.sure => switched <= modeMap.mode
  /\ \A t \in Readers : thread[t] # None => MapCall(thread[t])

\* A call that another thread's step leaves as it is.
LEMMA MapCallStays ==
  ASSUME RegistryTyped, MapInv, NEW u \in Readers, thread[u] # None, mode' \in Nat, gen' \in Nat, mode <= mode',
         UNCHANGED <<gen, switched>> \/ gen' = gen + 1
  PROVE  MapCall(thread[u])'  \/ thread'[u] # thread[u]
<1> SUFFICES ASSUME thread'[u] = thread[u] PROVE MapCall(thread[u])'
  OBVIOUS
<1> DEFINE c == thread[u]
<1>1. MapCall(c) /\ c \in Registry!Calls /\ c' = c
  BY DEF MapInv, RegistryTyped, Registry!CachesTyped
<1>2. c.gen \in Nat /\ c.got \in Nat /\ c.floor \in Nat
  BY <1>1 DEF Registry!Calls
<1> HIDE DEF c
<1>3. c'.op = "switch" => c'.got <= mode'
  BY <1>1, <1>2 DEF MapCall, RegistryTyped, Registry!CachesTyped
<1>4. c'.op = "map" => c'.floor <= mode' /\ c'.gen <= gen'
  BY <1>1, <1>2 DEF MapCall, RegistryTyped, Registry!CachesTyped
<1>5. c'.op = "map" /\ c'.at = "done" /\ c'.ok => c'.floor <= c'.got /\ (c'.gen = gen' => switched' <= c'.got)
  BY <1>1, <1>2 DEF MapCall, RegistryTyped, Registry!CachesTyped
<1>6. MapCall(c)'
  BY <1>3, <1>4, <1>5 DEF MapCall
<1> QED
  BY <1>6 DEF c

LEMMA MapStep ==
  ASSUME RegistryConstants, RegistryTyped, MapInv, [Registry!Next]_(Registry!vars), ~undone'
  PROVE  MapInv'
<1>0. RegistryTyped'
  BY RegistryTypedStep
<1> USE DEF Registry!ghostVars
<1>1. CASE Registry!Table
  <2>1. CASE Registry!Restart
    BY <2>1 DEF Registry!Restart, MapInv
  <2>2. CASE \E p \in Registered : Registry!Create(p) \/ (\E cfg \in Registry!Configs : Registry!Update(p, cfg)) \/ Registry!Delete(p) \/ Registry!Restore(p)
    <3>1. UNCHANGED <<mode, gen, modeMap, thread, answer, switched>>
      BY <2>2 DEF Registry!Create, Registry!Update, Registry!Delete, Registry!Restore, Registry!Write
    <3> QED
      BY <3>1 DEF MapInv, MapCall
  <2> QED
    BY <1>1, <2>1, <2>2 DEF Registry!Table
<1>2. ASSUME NEW t \in Readers, Registry!SwitchCommits(t) PROVE MapInv'
  <2>1. Registry!Begin(t, "switch", mode + 1, 0) /\ mode' = mode + 1 /\ mode \in Nat
        /\ UNCHANGED <<gen, modeMap, answer, switched>>
    BY <1>2 DEF Registry!SwitchCommits, RegistryTyped, Registry!CachesTyped
  <2>2. /\ thread'[t].op = "switch" /\ thread'[t].got = mode + 1
        /\ \A u \in Readers \ {t} : thread'[u] = thread[u]
    BY <2>1, BeginsCall
  <2>3. MapCall(thread[t])'
    BY <2>1, <2>2 DEF MapCall
  <2>4. \A u \in Readers \ {t} : thread'[u] # None => MapCall(thread[u])'
    BY <1>0, <2>1, <2>2, MapCallStays DEF RegistryTyped, Registry!CachesTyped
  <2> QED
    BY <2>1, <2>3, <2>4 DEF MapInv, RegistryTyped, Registry!CachesTyped
<1>3. ASSUME NEW t \in Readers, Registry!SwitchEnds(t) PROVE MapInv'
  <2>1. /\ Registry!Ends(t) /\ gen' = gen + 1 /\ modeMap' = None /\ switched' \in {switched, thread[t].got}
        /\ UNCHANGED <<mode, answer>>
    BY <1>3 DEF Registry!SwitchEnds
  <2>2. thread[t].got <= mode
    BY <1>3 DEF Registry!SwitchEnds, Registry!In, MapInv, MapCall
  <2>3. switched' <= mode'
    BY <2>1, <2>2 DEF MapInv
  <2>4. \A u \in Readers : thread'[u] # None => MapCall(thread[u])'
    BY <1>0, <2>1, EndsCall, MapCallStays DEF RegistryTyped, Registry!CachesTyped
  <2> QED
    BY <2>1, <2>3, <2>4 DEF MapInv
<1>4. ASSUME NEW t \in Readers, Registry!DiscardLooks(t) \/ Registry!RenameCommits(t) \/ Registry!LabelBegins(t) PROVE MapInv'
  <2>1. UNCHANGED <<mode, gen, modeMap, answer, switched>>
    BY <1>4 DEF Registry!DiscardLooks, Registry!RenameCommits, Registry!LabelBegins
  <2>2. PICK op \in {"discard", "rename", "label"}, value \in Nat, floor \in Nat : Registry!Begin(t, op, value, floor)
    BY <1>4, OwedTyped DEF Registry!DiscardLooks, Registry!RenameCommits, Registry!LabelBegins, RegistryTyped, Registry!CachesTyped
  <2>21. op \in {"switch", "discard", "map", "label", "rename"}
    OBVIOUS
  <2>3. /\ thread'[t].op = op
        /\ \A u \in Readers \ {t} : thread'[u] = thread[u]
    BY <2>2, <2>21, BeginsCall
  <2>4. MapCall(thread[t])'
    BY <2>3, op \in {"discard", "rename", "label"} DEF MapCall
  <2>5. \A u \in Readers \ {t} : thread'[u] # None => MapCall(thread[u])'
    BY <1>0, <2>1, <2>3, MapCallStays DEF RegistryTyped, Registry!CachesTyped
  <2> QED
    BY <2>1, <2>4, <2>5 DEF MapInv
<1>5. ASSUME NEW t \in Readers, Registry!DiscardCommits(t) PROVE MapInv'
  <2>1. thread[t] # None /\ thread[t].op = "discard" /\ thread[t] \in Registry!Calls
    BY <1>5 DEF Registry!DiscardCommits, Registry!In, RegistryTyped, Registry!CachesTyped
  <2>2. mode' = mode
    BY <1>5 DEF Registry!DiscardCommits
  <2>3. UNCHANGED <<gen, modeMap, answer, switched>> /\ label' \in Nat /\ Registry!Goes(t, label', TRUE)
    BY <1>0, <1>5 DEF Registry!DiscardCommits, RegistryTyped, Registry!CachesTyped
  <2>4. /\ thread'[t] = [thread[t] EXCEPT !.at = "done", !.got = label', !.ok = TRUE]
        /\ \A u \in Readers \ {t} : thread'[u] = thread[u]
    BY <2>1, <2>3, GoesOn
  <2>5. thread'[t].op = "discard"
    BY <2>1, <2>4 DEF Registry!Calls
  <2>6. MapCall(thread[t])'
    BY <2>5 DEF MapCall
  <2>7. \A u \in Readers \ {t} : thread'[u] # None => MapCall(thread[u])'
    BY <1>0, <2>2, <2>3, <2>4, MapCallStays DEF RegistryTyped, Registry!CachesTyped
  <2> QED
    BY <2>2, <2>3, <2>6, <2>7 DEF MapInv
<1>6. ASSUME NEW t \in Readers, Registry!DiscardEnds(t) PROVE MapInv'
  <2>1. Registry!Ends(t) /\ gen' = gen + 1 /\ modeMap' = None /\ UNCHANGED <<mode, switched, answer>>
    BY <1>6 DEF Registry!DiscardEnds
  <2>2. \A u \in Readers : thread'[u] # None => MapCall(thread[u])'
    BY <1>0, <2>1, EndsCall, MapCallStays DEF RegistryTyped, Registry!CachesTyped
  <2> QED
    BY <2>1, <2>2 DEF MapInv
<1>7. ASSUME NEW t \in Readers, Registry!RenameEnds(t) \/ Registry!LabelEnds(t) PROVE MapInv'
  <2>1. Registry!Ends(t) /\ UNCHANGED <<mode, gen, modeMap, switched>>
    BY <1>7 DEF Registry!RenameEnds, Registry!LabelEnds
  <2>2. answer' = answer \/ answer'.of = "label"
    BY <1>7 DEF Registry!RenameEnds, Registry!LabelEnds
  <2>3. \A u \in Readers : thread'[u] # None => MapCall(thread[u])'
    BY <1>0, <2>1, EndsCall, MapCallStays DEF RegistryTyped, Registry!CachesTyped
  <2> QED
    BY <2>1, <2>2, <2>3 DEF MapInv
<1>8. ASSUME NEW t \in Readers, Registry!MapBegins(t) PROVE MapInv'
  <2>1. Registry!Begin(t, "map", 0, switched) /\ switched \in Nat /\ UNCHANGED <<mode, gen, modeMap, answer, switched>>
    BY <1>8 DEF Registry!MapBegins, RegistryTyped, Registry!CachesTyped
  <2>2. /\ thread'[t].op = "map" /\ thread'[t].at = "begun" /\ thread'[t].gen = gen
        /\ thread'[t].floor = switched /\ \A u \in Readers \ {t} : thread'[u] = thread[u]
    BY <2>1, BeginsCall
  <2>3. MapCall(thread[t])'
    BY <2>1, <2>2 DEF MapCall, MapInv, RegistryTyped, Registry!CachesTyped
  <2>4. \A u \in Readers \ {t} : thread'[u] # None => MapCall(thread[u])'
    BY <1>0, <2>1, <2>2, MapCallStays DEF RegistryTyped, Registry!CachesTyped
  <2> QED
    BY <2>1, <2>3, <2>4 DEF MapInv
<1>9. ASSUME NEW t \in Readers, NEW ok \in BOOLEAN, Registry!MapReads(t, ok) PROVE MapInv'
  <2> DEFINE read == [thread[t] EXCEPT !.at = "done", !.got = IF ok THEN mode ELSE 0, !.ok = ok]
  <2>1. thread' = [thread EXCEPT ![t] = read] /\ UNCHANGED <<mode, gen, modeMap, answer, switched>>
    BY <1>9 DEF Registry!MapReads, Registry!Goes
  <2>2. thread[t] # None /\ thread[t].op = "map" /\ thread[t] \in Registry!Calls /\ MapCall(thread[t])
    BY <1>9 DEF Registry!MapReads, Registry!In, RegistryTyped, Registry!CachesTyped, MapInv
  <2>3. /\ thread'[t] = read /\ \A u \in Readers \ {t} : thread'[u] = thread[u]
    BY <2>1 DEF RegistryTyped, Registry!CachesTyped
  <2>4. /\ read.op = "map" /\ read.floor = thread[t].floor /\ read.gen = thread[t].gen
        /\ read.ok => read.got = mode
    BY <2>2 DEF Registry!Calls
  <2> HIDE DEF read
  <2>5. MapCall(thread[t])'
    BY <2>1, <2>2, <2>3, <2>4 DEF MapCall, MapInv
  <2>6. \A u \in Readers \ {t} : thread'[u] # None => MapCall(thread[u])'
    BY <1>0, <2>1, <2>3, MapCallStays DEF RegistryTyped, Registry!CachesTyped
  <2> QED
    BY <2>1, <2>5, <2>6 DEF MapInv
<1>10. ASSUME NEW t \in Readers, Registry!LabelReads(t) PROVE MapInv'
  <2>1. /\ thread' = [thread EXCEPT ![t] = [thread[t] EXCEPT !.at = "done", !.got = label, !.ok = TRUE]]
        /\ UNCHANGED <<mode, gen, modeMap, answer, switched>>
    BY <1>10 DEF Registry!LabelReads, Registry!Goes
  <2>2. thread[t] # None /\ thread[t].op = "label" /\ thread[t] \in Registry!Calls
    BY <1>10 DEF Registry!LabelReads, Registry!In, RegistryTyped, Registry!CachesTyped
  <2>3. thread'[t].op = "label" /\ \A u \in Readers \ {t} : thread'[u] = thread[u]
    BY <2>1, <2>2 DEF RegistryTyped, Registry!CachesTyped, Registry!Calls
  <2>4. MapCall(thread[t])'
    BY <2>3 DEF MapCall
  <2>5. \A u \in Readers \ {t} : thread'[u] # None => MapCall(thread[u])'
    BY <1>0, <2>1, <2>3, MapCallStays DEF RegistryTyped, Registry!CachesTyped
  <2> QED
    BY <2>1, <2>4, <2>5 DEF MapInv
<1>11. ASSUME NEW t \in Readers, Registry!MapEnds(t) PROVE MapInv'
  <2>1. thread[t] # None /\ thread[t].op = "map" /\ thread[t].at = "done" /\ MapCall(thread[t])
    BY <1>11 DEF Registry!MapEnds, Registry!In, MapInv
  <2>2. Registry!Ends(t) /\ UNCHANGED <<mode, gen, switched>>
    BY <1>11 DEF Registry!MapEnds
  <2>3. modeMap' = modeMap \/
        (thread[t].gen = gen /\ modeMap' = [mode |-> lastMap', sure |-> thread[t].ok])
    BY <1>11 DEF Registry!MapEnds, Registry!Caches
  <2>4. /\ thread[t].ok => lastMap' = thread[t].got
        /\ \/ answer' = answer
           \/ thread[t].ok /\ answer' = [of |-> "map", got |-> lastMap', floor |-> thread[t].floor]
    BY <1>11 DEF Registry!MapEnds
  <2>5. modeMap' # None /\ modeMap'.sure => switched' <= modeMap'.mode
    BY <2>1, <2>2, <2>3, <2>4 DEF MapInv, MapCall
  <2>6. answer'.of = "map" => answer'.floor <= answer'.got
    BY <2>1, <2>4 DEF MapInv, MapCall
  <2>7. \A u \in Readers : thread'[u] # None => MapCall(thread[u])'
    BY <1>0, <2>2, EndsCall, MapCallStays DEF RegistryTyped, Registry!CachesTyped
  <2> QED
    BY <2>2, <2>5, <2>6, <2>7 DEF MapInv
<1>12. CASE Registry!MapHit \/ Registry!LabelHit \/ Registry!Tick \/ UNCHANGED Registry!vars
  <2>1. UNCHANGED <<mode, gen, modeMap, thread, switched>>
    BY <1>12 DEF Registry!MapHit, Registry!LabelHit, Registry!Tick, Registry!vars
  <2>2. answer' = answer \/ answer'.of = "label" \/
        (modeMap # None /\ modeMap.sure /\ answer' = [of |-> "map", got |-> modeMap.mode, floor |-> switched])
    BY <1>12 DEF Registry!MapHit, Registry!LabelHit, Registry!Tick, Registry!vars
  <2>3. answer'.of = "map" => answer'.floor <= answer'.got
    BY <2>2 DEF MapInv
  <2> QED
    BY <2>1, <2>3 DEF MapInv, MapCall
<1> QED
  BY <1>1, <1>2, <1>3, <1>4, <1>5, <1>6, <1>7, <1>8, <1>9, <1>10, <1>11, <1>12 DEF Registry!Next, Registry!Thread
-----------------------------------------------------------------------------
\* The label: what is cached or about to be cached is no older than any label that was
\* answered before its reader began.
After(since, got) == \A n \in DOMAIN renamed : renamed[n] < since => n <= got
LabelCall(c) ==
  c.op = "label" =>
    /\ c.since <= ticks /\ c.floor <= label
    /\ c.at = "done" => c.floor <= c.got /\ After(c.since, c.got)
LabelInv ==
  /\ answer.of # "map" => answer.floor <= answer.got
  /\ labelMap # None => After(labelMap.since, labelMap.label)
  /\ \A t \in Readers : thread[t] # None => LabelCall(thread[t])

\* A call that another thread's step leaves as it is.
LEMMA LabelCallStays ==
  ASSUME RegistryTyped, LabelInv, NEW u \in Readers, thread[u] # None, thread'[u] = thread[u],
         label' \in Nat, ticks' \in Nat, label <= label', ticks <= ticks',
         \/ renamed' = renamed
         \/ \E m : renamed' = [n \in DOMAIN renamed \cup {m} |-> IF n = m THEN ticks ELSE renamed[n]]
  PROVE  LabelCall(thread[u])'
<1> DEFINE c == thread[u]
<1>1. LabelCall(c) /\ c \in Registry!Calls /\ c' = c
  BY DEF LabelInv, RegistryTyped, Registry!CachesTyped
<1>2. c.since \in Nat /\ c.got \in Nat /\ c.floor \in Nat
  BY <1>1 DEF Registry!Calls
<1> HIDE DEF c
<1>3. ASSUME c.op = "label", c.at = "done" PROVE After(c.since, c.got)'
  <2>1. After(c.since, c.got) /\ c.since <= ticks
    BY <1>1, <1>3 DEF LabelCall
  <2>2. \A n \in DOMAIN renamed' : renamed'[n] < c.since => n \in DOMAIN renamed /\ renamed[n] < c.since
    <3>1. CASE renamed' = renamed
      BY <3>1
    <3>2. ASSUME NEW m, renamed' = [n \in DOMAIN renamed \cup {m} |-> IF n = m THEN ticks ELSE renamed[n]],
                 NEW n \in DOMAIN renamed', renamed'[n] < c.since
          PROVE  n \in DOMAIN renamed /\ renamed[n] < c.since
      <4>1. n # m
        BY <1>2, <2>1, <3>2 DEF RegistryTyped, Registry!CachesTyped
      <4> QED
        BY <3>2, <4>1
    <3> QED
      BY <3>1, <3>2
  <2> QED
    BY <1>1, <2>1, <2>2 DEF After
<1>4. LabelCall(c)'
  BY <1>1, <1>2, <1>3 DEF LabelCall, RegistryTyped, Registry!CachesTyped
<1> QED
  BY <1>4 DEF c

LEMMA LabelStep == ASSUME RegistryConstants, RegistryTyped, LabelInv, [Registry!Next]_(Registry!vars) PROVE LabelInv'
<1>0. RegistryTyped'
  BY RegistryTypedStep
<1> USE DEF Registry!ghostVars
<1>1. CASE Registry!Table
  <2>1. CASE Registry!Restart
    BY <2>1 DEF Registry!Restart, LabelInv
  <2>2. CASE \E p \in Registered : Registry!Create(p) \/ (\E cfg \in Registry!Configs : Registry!Update(p, cfg)) \/ Registry!Delete(p) \/ Registry!Restore(p)
    <3>1. UNCHANGED <<label, ticks, labelMap, thread, answer, renamed>>
      BY <2>2 DEF Registry!Create, Registry!Update, Registry!Delete, Registry!Restore, Registry!Write
    <3> QED
      BY <3>1 DEF LabelInv, LabelCall, After
  <2> QED
    BY <1>1, <2>1, <2>2 DEF Registry!Table
<1>2. ASSUME NEW t \in Readers, \/ Registry!SwitchCommits(t) \/ Registry!DiscardLooks(t) \/ Registry!RenameCommits(t)
                                \/ Registry!MapBegins(t) \/ Registry!LabelBegins(t)
      PROVE  LabelInv'
  <2>1. UNCHANGED <<ticks, labelMap, answer, renamed>> /\ label' \in {label, label + 1}
    BY <1>2 DEF Registry!SwitchCommits, Registry!DiscardLooks, Registry!RenameCommits, Registry!MapBegins, Registry!LabelBegins
  <2>2. PICK op \in {"switch", "discard", "rename", "map", "label"}, value \in Nat, floor \in Nat :
          Registry!Begin(t, op, value, floor) /\ (op = "label" => floor = Registry!Owed /\ label' = label)
    BY <1>2, OwedTyped DEF Registry!SwitchCommits, Registry!DiscardLooks, Registry!RenameCommits, Registry!MapBegins, Registry!LabelBegins, RegistryTyped, Registry!CachesTyped
  <2>3. /\ thread'[t].op = op /\ thread'[t].at = "begun" /\ thread'[t].since = ticks /\ thread'[t].floor = floor
        /\ \A u \in Readers \ {t} : thread'[u] = thread[u]
    BY <2>2, BeginsCall
  <2>4. LabelCall(thread[t])'
    BY <2>1, <2>2, <2>3, OwedTyped DEF LabelCall, RegistryTyped, Registry!CachesTyped
  <2>5. \A u \in Readers \ {t} : thread'[u] # None => LabelCall(thread[u])'
    BY <1>0, <2>1, <2>3, LabelCallStays DEF RegistryTyped, Registry!CachesTyped
  <2> QED
    BY <2>1, <2>4, <2>5 DEF LabelInv, After
<1>3. ASSUME NEW t \in Readers, Registry!SwitchEnds(t) \/ Registry!MapEnds(t) PROVE LabelInv'
  <2>1. Registry!Ends(t) /\ UNCHANGED <<label, ticks, labelMap, renamed>>
    BY <1>3 DEF Registry!SwitchEnds, Registry!MapEnds
  <2>2. answer' = answer \/ answer'.of = "map"
    BY <1>3 DEF Registry!SwitchEnds, Registry!MapEnds
  <2>3. \A u \in Readers : thread'[u] # None => LabelCall(thread[u])'
    BY <1>0, <2>1, EndsCall, LabelCallStays DEF RegistryTyped, Registry!CachesTyped
  <2> QED
    BY <2>1, <2>2, <2>3 DEF LabelInv, After
<1>4. ASSUME NEW t \in Readers, Registry!DiscardCommits(t) PROVE LabelInv'
  <2>1. thread[t] # None /\ thread[t].op = "discard" /\ thread[t] \in Registry!Calls
    BY <1>4 DEF Registry!DiscardCommits, Registry!In, RegistryTyped, Registry!CachesTyped
  <2>2. label' = label + 1 /\ label' \in Nat /\ Registry!Goes(t, label', TRUE) /\ UNCHANGED <<ticks, labelMap, answer, renamed>>
    BY <1>0, <1>4 DEF Registry!DiscardCommits, RegistryTyped, Registry!CachesTyped
  <2>3. /\ thread'[t] = [thread[t] EXCEPT !.at = "done", !.got = label', !.ok = TRUE]
        /\ \A u \in Readers \ {t} : thread'[u] = thread[u]
    BY <2>1, <2>2, GoesOn
  <2>4. thread'[t].op = "discard"
    BY <2>1, <2>3 DEF Registry!Calls
  <2>5. LabelCall(thread[t])'
    BY <2>4 DEF LabelCall
  <2>6. \A u \in Readers \ {t} : thread'[u] # None => LabelCall(thread[u])'
    BY <1>0, <2>2, <2>3, LabelCallStays DEF RegistryTyped, Registry!CachesTyped
  <2> QED
    BY <2>2, <2>5, <2>6 DEF LabelInv, After
<1>5. ASSUME NEW t \in Readers, Registry!DiscardEnds(t) \/ Registry!RenameEnds(t) PROVE LabelInv'
  <2>1. /\ Registry!Ends(t) /\ labelMap' = None /\ UNCHANGED <<label, ticks, answer>>
        /\ renamed' = [n \in DOMAIN renamed \cup {thread[t].got} |->
                         IF n = thread[t].got THEN ticks ELSE renamed[n]]
    BY <1>5 DEF Registry!DiscardEnds, Registry!RenameEnds
  <2>3. \E m : renamed' = [n \in DOMAIN renamed \cup {m} |-> IF n = m THEN ticks ELSE renamed[n]]
    BY <2>1
  <2>2. \A u \in Readers : thread'[u] # None => LabelCall(thread[u])'
    <3> SUFFICES ASSUME NEW u \in Readers, thread'[u] # None PROVE LabelCall(thread[u])'
      OBVIOUS
    <3>1. thread'[u] = thread[u] /\ thread[u] # None
      BY <2>1, EndsCall
    <3>2. label' \in Nat /\ ticks' \in Nat /\ label <= label' /\ ticks <= ticks'
      BY <2>1 DEF RegistryTyped, Registry!CachesTyped
    <3> QED
      BY <2>3, <3>1, <3>2, LabelCallStays
  <2> QED
    BY <2>1, <2>2 DEF LabelInv
<1>6. ASSUME NEW t \in Readers, NEW ok \in BOOLEAN, Registry!MapReads(t, ok) PROVE LabelInv'
  <2> DEFINE read == [thread[t] EXCEPT !.at = "done", !.got = IF ok THEN mode ELSE 0, !.ok = ok]
  <2>1. thread' = [thread EXCEPT ![t] = read] /\ UNCHANGED <<label, ticks, labelMap, answer, renamed>>
    BY <1>6 DEF Registry!MapReads, Registry!Goes
  <2>2. thread[t] # None /\ thread[t].op = "map" /\ thread[t] \in Registry!Calls
    BY <1>6 DEF Registry!MapReads, Registry!In, RegistryTyped, Registry!CachesTyped
  <2>3. read.op = "map"
    BY <2>2 DEF Registry!Calls
  <2>4. /\ thread'[t] = read /\ \A u \in Readers \ {t} : thread'[u] = thread[u]
    BY <2>1 DEF RegistryTyped, Registry!CachesTyped
  <2> HIDE DEF read
  <2>5. LabelCall(thread[t])'
    BY <2>3, <2>4 DEF LabelCall
  <2>6. \A u \in Readers \ {t} : thread'[u] # None => LabelCall(thread[u])'
    BY <1>0, <2>1, <2>4, LabelCallStays DEF RegistryTyped, Registry!CachesTyped
  <2> QED
    BY <2>1, <2>5, <2>6 DEF LabelInv, After
<1>7. ASSUME NEW t \in Readers, Registry!LabelReads(t) PROVE LabelInv'
  <2>1. PICK read : /\ read = [thread[t] EXCEPT !.at = "done", !.got = label, !.ok = TRUE]
                    /\ thread' = [thread EXCEPT ![t] = read]
    BY <1>7 DEF Registry!LabelReads, Registry!Goes
  <2>2. UNCHANGED <<label, ticks, labelMap, answer, renamed>>
    BY <1>7 DEF Registry!LabelReads
  <2>3. thread[t] # None /\ thread[t].op = "label" /\ thread[t] \in Registry!Calls /\ LabelCall(thread[t])
    BY <1>7 DEF Registry!LabelReads, Registry!In, RegistryTyped, Registry!CachesTyped, LabelInv
  <2>4. /\ read.floor = thread[t].floor /\ read.since = thread[t].since /\ read.got = label
        /\ thread'[t] = read /\ \A u \in Readers \ {t} : thread'[u] = thread[u]
    BY <2>1, <2>3 DEF RegistryTyped, Registry!CachesTyped, Registry!Calls
  <2>5. read.since <= ticks /\ read.floor <= read.got
    BY <2>3, <2>4 DEF LabelCall
  <2>6. \A n \in DOMAIN renamed' : n <= read.got
    BY <2>2, <2>4 DEF RegistryTyped, Registry!CachesTyped
  <2>7. LabelCall(thread[t])'
    BY <2>2, <2>4, <2>5, <2>6 DEF LabelCall, After
  <2>8. \A u \in Readers \ {t} : thread'[u] # None => LabelCall(thread[u])'
    BY <1>0, <2>2, <2>4, LabelCallStays DEF RegistryTyped, Registry!CachesTyped
  <2> QED
    BY <2>2, <2>7, <2>8 DEF LabelInv, After
<1>8. ASSUME NEW t \in Readers, Registry!LabelEnds(t) PROVE LabelInv'
  <2>1. thread[t] # None /\ thread[t].op = "label" /\ thread[t].at = "done" /\ LabelCall(thread[t])
    BY <1>8 DEF Registry!LabelEnds, Registry!In, LabelInv
  <2>2. /\ Registry!Ends(t) /\ UNCHANGED <<label, ticks, renamed>>
        /\ labelMap' = [label |-> thread[t].got, since |-> thread[t].since]
        /\ answer' = [of |-> "label", got |-> thread[t].got, floor |-> thread[t].floor]
    BY <1>8 DEF Registry!LabelEnds
  <2>3. \A u \in Readers : thread'[u] # None => LabelCall(thread[u])'
    BY <1>0, <2>2, EndsCall, LabelCallStays DEF RegistryTyped, Registry!CachesTyped
  <2> QED
    BY <2>1, <2>2, <2>3 DEF LabelInv, LabelCall, After
<1>9. CASE Registry!LabelHit
  <2>1. /\ labelMap # None /\ ticks < labelMap.since + Ttl
        /\ answer' = [of |-> "label", got |-> labelMap.label, floor |-> Registry!Owed]
        /\ UNCHANGED <<label, ticks, labelMap, thread, renamed>>
    BY <1>9 DEF Registry!LabelHit, Registry!LabelLives
  <2>2. labelMap \in Registry!Labels /\ After(labelMap.since, labelMap.label)
    BY <2>1 DEF RegistryTyped, Registry!CachesTyped, LabelInv
  <2>3. Registry!Owed <= labelMap.label
    BY <2>1, <2>2, OwedAnswered DEF After, RegistryTyped, Registry!CachesTyped, Registry!Labels, RegistryConstants
  <2> QED
    BY <2>1, <2>3 DEF LabelInv, LabelCall, After
<1>10. CASE Registry!MapHit \/ UNCHANGED Registry!vars
  <2>1. UNCHANGED <<label, ticks, labelMap, thread, renamed>>
    BY <1>10 DEF Registry!MapHit, Registry!vars
  <2>2. answer' = answer \/ answer'.of = "map"
    BY <1>10 DEF Registry!MapHit, Registry!vars
  <2> QED
    BY <2>1, <2>2 DEF LabelInv, LabelCall, After
<1>11. CASE Registry!Tick
  <2>1. ticks' = ticks + 1 /\ UNCHANGED <<label, labelMap, thread, answer, renamed>>
    BY <1>11 DEF Registry!Tick
  <2>2. \A u \in Readers : thread'[u] # None => LabelCall(thread[u])'
    BY <1>0, <2>1, LabelCallStays DEF RegistryTyped, Registry!CachesTyped
  <2> QED
    BY <2>1, <2>2 DEF LabelInv, After
<1> QED
  BY <1>1, <1>2, <1>3, <1>4, <1>5, <1>6, <1>7, <1>8, <1>9, <1>10, <1>11 DEF Registry!Next, Registry!Thread

\* Who asks after a switch of the maintenance mode was answered is told of it, whatever
\* reads and writes overlapped, and a label is at most _LABEL_TTL behind.
THEOREM ReadsAreFresh == ASSUME RegistryConstants PROVE Registry!Spec => []Registry!FreshReads
<1> DEFINE Inv == RegistryTyped /\ LabelInv /\ (undone \/ MapInv)
<1>1. Registry!Init => Inv
  <2> SUFFICES ASSUME Registry!Init PROVE LabelInv /\ MapInv
    BY RegistryInitTyped
  <2>1. /\ answer.of = None /\ answer.floor = 0 /\ answer.got = 0
        /\ labelMap = None /\ modeMap = None /\ switched = 0 /\ mode = 0
        /\ \A t \in Readers : thread[t] = None
    BY DEF Registry!Init
  <2>2. LabelInv
    BY <2>1 DEF LabelInv
  <2>3. MapInv
    BY <2>1 DEF MapInv
  <2> QED
    BY <2>2, <2>3
<1>2. Inv /\ [Registry!Next]_(Registry!vars) => Inv'
  <2>1. RegistryTyped /\ [Registry!Next]_(Registry!vars) /\ undone => undone'
    BY Zenon DEF Registry!Next, Registry!Table, Registry!Thread, Registry!Restart, Registry!Create, Registry!Update, Registry!Delete, Registry!Restore, Registry!Write, Registry!SwitchCommits, Registry!SwitchEnds,
           Registry!DiscardLooks, Registry!DiscardCommits, Registry!DiscardEnds, Registry!RenameCommits, Registry!RenameEnds, Registry!MapBegins, Registry!MapReads, Registry!MapEnds,
           Registry!LabelBegins, Registry!LabelReads, Registry!LabelEnds, Registry!MapHit, Registry!LabelHit, Registry!Tick, Registry!ghostVars, Registry!vars
  <2> QED
    BY <2>1, RegistryTypedStep, MapStep, LabelStep
<1>3. Inv => Registry!FreshReads
  <2> SUFFICES ASSUME Inv, ~(undone /\ answer.of = "map") PROVE answer.floor <= answer.got
    BY DEF Registry!FreshReads, RegistryTyped, Registry!CachesTyped
  <2>1. answer.of = "map" => answer.floor <= answer.got
    BY DEF MapInv
  <2>2. answer.of # "map" => answer.floor <= answer.got
    BY DEF LabelInv
  <2> QED
    BY <2>1, <2>2
<1> QED
  BY <1>1, <1>2, <1>3, PTL DEF Registry!Spec

-----------------------------------------------------------------------------
\* A printer that the table does not have runs no collector.
TableInv ==
  /\ Registry!TableTyped
  /\ \A p \in Registered : row[p] = None => running[p] = None

LEMMA TableStep ==
  ASSUME RegistryConstants, TableInv, [Registry!Next]_(Registry!vars)
  PROVE  TableInv'
<1> USE DEF TableInv, Registry!TableTyped
<1>1. ASSUME NEW p \in Registered, NEW new \in Registry!Rows \cup {None}, Registry!Write(p, new),
             new = None => running[p] = None
      PROVE  TableInv'
  BY <1>1 DEF Registry!Write
<1>2. ASSUME NEW p \in Registered, Registry!Create(p) PROVE TableInv'
  <2>1. [cfg |-> "as started", deleted |-> FALSE] \in Registry!Rows
    BY DEF Registry!Rows, Registry!Configs
  <2> QED
    BY <1>1, <1>2, <2>1 DEF Registry!Create, RegistryConstants
<1>3. ASSUME NEW p \in Registered, NEW cfg \in Registry!Configs, Registry!Update(p, cfg) PROVE TableInv'
  <2>1. [row[p] EXCEPT !.cfg = cfg] \in Registry!Rows
    BY <1>3 DEF Registry!Update, Registry!Rows
  <2> QED
    BY <1>1, <1>3, <2>1 DEF Registry!Update, RegistryConstants
<1>4. ASSUME NEW p \in Registered, Registry!Delete(p) PROVE TableInv'
  <2>1. [row[p] EXCEPT !.deleted = TRUE] \in Registry!Rows
    BY <1>4 DEF Registry!Delete, Registry!Rows
  <2>2. CASE running[p] = None
    BY <1>1, <1>4, <2>2 DEF Registry!Delete
  <2>3. CASE running[p] # None
    BY <1>1, <1>4, <2>1, <2>3 DEF Registry!Delete, RegistryConstants
  <2> QED
    BY <2>2, <2>3
<1>5. ASSUME NEW p \in Registered, Registry!Restore(p) PROVE TableInv'
  <2>1. [row[p] EXCEPT !.deleted = FALSE] \in Registry!Rows
    BY <1>5 DEF Registry!Restore, Registry!Rows
  <2> QED
    BY <1>1, <1>5, <2>1 DEF Registry!Restore, RegistryConstants
<1>6. CASE Registry!Restart
  <2>1. row' = Registry!Survivors /\ running' = Registry!Polled /\ calls' \in Nat
    BY <1>6 DEF Registry!Restart
  <2> QED
    BY <2>1 DEF Registry!Survivors, Registry!Polled, Registry!Rows
<1>7. ASSUME NEW t \in Readers, Registry!DiscardCommits(t) PROVE TableInv'
  <2>1. /\ row' = [p \in Registered |-> IF running[p] = None THEN None
                                        ELSE [cfg |-> running[p], deleted |-> FALSE]]
        /\ running' = running /\ calls' = calls
    BY <1>7 DEF Registry!DiscardCommits
  <2>2. ASSUME NEW p \in Registered, running[p] # None
        PROVE  [cfg |-> running[p], deleted |-> FALSE] \in Registry!Rows
    BY <2>2 DEF Registry!Rows
  <2>3. ASSUME NEW p \in Registered
        PROVE  row'[p] \in Registry!Rows \cup {None} /\ (row'[p] = None => running[p] = None)
    BY <2>1, <2>2 DEF RegistryConstants
  <2> QED
    BY <2>1, <2>3
<1>8. ASSUME NEW t \in Readers, Registry!Thread(t), ~Registry!DiscardCommits(t) PROVE TableInv'
  <2>1. UNCHANGED <<row, running>> /\ calls' \in {calls, calls + 1}
    BY <1>8 DEF Registry!Thread, Registry!SwitchCommits, Registry!SwitchEnds, Registry!DiscardLooks,
      Registry!DiscardEnds, Registry!RenameCommits, Registry!RenameEnds, Registry!MapBegins, Registry!MapReads,
      Registry!MapEnds, Registry!LabelBegins, Registry!LabelReads, Registry!LabelEnds, Registry!Begin,
      Registry!tableVars
  <2> QED
    BY <2>1
<1>9. CASE Registry!MapHit \/ Registry!LabelHit \/ Registry!Tick \/ UNCHANGED Registry!vars
  BY <1>9 DEF Registry!MapHit, Registry!LabelHit, Registry!Tick, Registry!vars, Registry!tableVars
<1> QED
  BY <1>2, <1>3, <1>4, <1>5, <1>6, <1>7, <1>8, <1>9 DEF Registry!Next, Registry!Table

LEMMA InitTable == ASSUME RegistryConstants, Registry!Init PROVE TableInv
<1>1. /\ running \in [Registered -> Registry!Configs \cup {None}] /\ calls \in Nat
      /\ row = [p \in Registered |-> IF running[p] = None THEN None
                                     ELSE [cfg |-> running[p], deleted |-> FALSE]]
  BY DEF Registry!Init, Registry!Configs
<1>2. ASSUME NEW p \in Registered, running[p] # None
      PROVE  [cfg |-> running[p], deleted |-> FALSE] \in Registry!Rows
  BY <1>1, <1>2 DEF Registry!Rows
<1> QED
  BY <1>1, <1>2 DEF TableInv, Registry!TableTyped, RegistryConstants

\* Every variable of the registry keeps its type.
THEOREM RegistryTypeCorrect == ASSUME RegistryConstants PROVE Registry!Spec => []Registry!TypeOK
<1>1. Registry!Init => TableInv /\ RegistryTyped
  BY InitTable, RegistryInitTyped
<1>2. TableInv /\ RegistryTyped /\ [Registry!Next]_(Registry!vars) => TableInv' /\ RegistryTyped'
  BY TableStep, RegistryTypedStep
<1>3. TableInv /\ RegistryTyped => Registry!TypeOK
  BY DEF TableInv, RegistryTyped, Registry!TypeOK
<1> QED
  BY <1>1, <1>2, <1>3, PTL DEF Registry!Spec

\* When no row is shown as pending, a restart builds the collectors that run now.
THEOREM PendingIsTold == ASSUME RegistryConstants PROVE Registry!Spec => []Registry!PendingTold
<1>1. Registry!Init => TableInv
  BY InitTable
<1>2. TableInv /\ [Registry!Next]_(Registry!vars) => TableInv'
  BY TableStep
<1>3. TableInv => Registry!PendingTold
  <2> SUFFICES ASSUME TableInv, \A p \in Registered : Registry!Pending(p) = None
               PROVE  Registry!Polled = running
    BY DEF Registry!PendingTold
  <2>1. ASSUME NEW p \in Registered PROVE Registry!Polled[p] = running[p]
    <3>1. Registry!Pending(p) = None
      OBVIOUS
    <3>2. CASE row[p] = None
      BY <3>2 DEF TableInv, Registry!Polled, Registry!Survivors
    <3>3. CASE row[p] # None
      <4>1. running[p] # None /\ ~row[p].deleted /\ row[p].cfg = running[p]
        BY <3>1, <3>3 DEF Registry!Pending, RegistryConstants
      <4> QED
        BY <3>3, <4>1 DEF Registry!Polled, Registry!Survivors
    <3> QED
      BY <3>2, <3>3
  <2> QED
    BY <2>1 DEF TableInv, Registry!TableTyped, Registry!Polled
<1> QED
  BY <1>1, <1>2, <1>3, PTL DEF Registry!Spec

(***************************************************************************)
(* Part 2.  SettingsStore.                                                 *)
(***************************************************************************)
\* Finitely many keys, no more than fit.
Fits(keys) == Settings!IsFiniteSet(keys) /\ Settings!Cardinality(keys) <= MaxPerPrinter

\* What a request to mute or unmute leads to.
Asked(q) == IF q.muted THEN memory.mutes \cup {q.key} ELSE memory.mutes \ {q.key}

\* The one request that changes the mutes holds the lock; what it read is still in
\* memory, and the table differs from the memory only by what it has committed.
MutesInv ==
  /\ memory.mutes = owed /\ Fits(memory.mutes) /\ Fits(stored.mutes)
  /\ \A w \in Writers : writer[w] # None /\ writer[w].of = "mutes" => muteLock = w /\ writer[w].key \in MuteKeys
  /\ \A w \in Writers : Settings!Muting(w, "read") \/ Settings!Muting(w, "committed")
       => writer[w].mutes = Asked(writer[w]) /\ Fits(writer[w].mutes)
  /\ \A w \in Writers : Settings!Muting(w, "committed") => stored.mutes = writer[w].mutes
  /\ (\A w \in Writers : ~Settings!Muting(w, "committed")) => stored.mutes = memory.mutes

\* The newest value of the plain setting is in memory or on its way there.
CopyInv ==
  \/ reversed
  \/ memory.plain = stored.plain
  \/ \E w \in Writers : writer[w] # None /\ writer[w].of = "plain" /\ writer[w].plain = stored.plain

-----------------------------------------------------------------------------
LEMMA SettingsFinite ==
  (\A S : Settings!IsFiniteSet(S) = IsFiniteSet(S)) /\ (\A S : Settings!Cardinality(S) = Cardinality(S))
BY DEF Settings!IsFiniteSet, Settings!Cardinality, IsFiniteSet, Cardinality

\* One key more or less.
LEMMA FitsStep ==
  ASSUME SettingsConstants, NEW S, Fits(S), NEW k
  PROVE  /\ Fits(S \ {k})
         /\ Settings!Cardinality(S) < MaxPerPrinter => Fits(S \cup {k})
<1>1. IsFiniteSet(S) /\ Cardinality(S) \in Nat /\ Cardinality(S) <= MaxPerPrinter
  BY SettingsFinite, FS_CardinalityType DEF Fits
<1>2. IsFiniteSet(S \ {k}) /\ Cardinality(S \ {k}) <= Cardinality(S)
  <2>1. S \ {k} \in SUBSET S
    OBVIOUS
  <2> QED
    BY <1>1, <2>1, FS_Subset
<1>3. IsFiniteSet(S \cup {k}) /\ Cardinality(S \cup {k}) \in {Cardinality(S), Cardinality(S) + 1}
  <2>1. IsFiniteSet(S \cup {k})
        /\ Cardinality(S \cup {k}) = IF k \in S THEN Cardinality(S) ELSE Cardinality(S) + 1
    BY <1>1, FS_AddElement
  <2> QED
    BY <2>1
<1>4. Cardinality(S \ {k}) \in Nat
  BY <1>2, FS_CardinalityType
<1> QED
  BY <1>1, <1>2, <1>3, <1>4, SettingsFinite DEF Fits, SettingsConstants

LEMMA SettingsInit == ASSUME SettingsConstants, Settings!Init PROVE Settings!TypeOK /\ MutesInv /\ CopyInv
<1>1. /\ stored = [plain |-> 0, mutes |-> {}] /\ memory = stored /\ muteLock = None
      /\ writer = [w \in Writers |-> None] /\ writes = 0 /\ owed = {} /\ reversed = FALSE
  BY DEF Settings!Init
<1>2. stored \in Settings!Values /\ writes \in 0..MaxWrites
  BY <1>1 DEF Settings!Values, SettingsConstants
<1>3. Settings!TypeOK
  BY <1>1, <1>2 DEF Settings!TypeOK
<1>4. Fits({})
  BY SettingsFinite, FS_EmptySet DEF Fits, SettingsConstants
<1> QED
  BY <1>1, <1>3, <1>4 DEF MutesInv, CopyInv, Settings!Muting

-----------------------------------------------------------------------------
LEMMA SettingsTyped ==
  ASSUME SettingsConstants, Settings!TypeOK, MutesInv, [Settings!Next]_(Settings!vars)
  PROVE  Settings!TypeOK'
<1> USE DEF Settings!TypeOK
<1>1. ASSUME NEW w \in Writers, Settings!PutCommits(w) PROVE Settings!TypeOK'
  <2>1. writes' \in 0..MaxWrites
    BY <1>1 DEF Settings!PutCommits, SettingsConstants
  <2>2. stored' \in Settings!Values
    BY <1>1, <2>1 DEF Settings!PutCommits, Settings!Values
  <2>3. [of |-> "plain", at |-> "committed", key |-> None, muted |-> FALSE, plain |-> writes', mutes |-> {}]
          \in Settings!Requests
    BY <2>1 DEF Settings!Requests
  <2> QED
    BY <1>1, <2>1, <2>2, <2>3 DEF Settings!PutCommits
<1>2. ASSUME NEW w \in Writers, Settings!PutUpdates(w) PROVE Settings!TypeOK'
  <2>1. memory' \in Settings!Values
    BY <1>2 DEF Settings!PutUpdates, Settings!Values, Settings!Requests
  <2>2. reversed' \in BOOLEAN
    BY <1>2, Zenon DEF Settings!PutUpdates
  <2> QED
    BY <1>2, <2>1, <2>2 DEF Settings!PutUpdates
<1>3. ASSUME NEW w \in Writers, NEW key \in MuteKeys, NEW muted \in BOOLEAN, Settings!MuteLocks(w, key, muted)
      PROVE  Settings!TypeOK'
  <2>1. writes' \in 0..MaxWrites
    BY <1>3 DEF Settings!MuteLocks, SettingsConstants
  <2>2. [of |-> "mutes", at |-> "locked", key |-> key, muted |-> muted, plain |-> 0, mutes |-> {}]
          \in Settings!Requests
    BY DEF Settings!Requests, SettingsConstants
  <2> QED
    BY <1>3, <2>1, <2>2 DEF Settings!MuteLocks
<1>4. ASSUME NEW w \in Writers, Settings!MuteReads(w) PROVE Settings!TypeOK'
  <2>1. muteLock' \in Writers \cup {None}
    BY <1>4 DEF Settings!MuteReads, Settings!Unlock
  <2>2. writer' \in [Writers -> Settings!Requests \cup {None}]
    <3>1. ASSUME NEW keys \in SUBSET MuteKeys
          PROVE  [writer[w] EXCEPT !.at = "read", !.mutes = keys] \in Settings!Requests
      BY <1>4 DEF Settings!MuteReads, Settings!Muting, Settings!Requests
    <3>2. memory.mutes \in SUBSET MuteKeys /\ writer[w].key \in MuteKeys
      BY <1>4 DEF Settings!MuteReads, Settings!Muting, Settings!Values, MutesInv
    <3>3. \/ writer' = [writer EXCEPT ![w] = None]
          \/ writer' = [writer EXCEPT ![w] = [writer[w] EXCEPT !.at = "read", !.mutes = Asked(writer[w])]]
      BY <1>4 DEF Settings!MuteReads, Asked
    <3>4. Asked(writer[w]) \in SUBSET MuteKeys
      BY <3>2 DEF Asked
    <3> QED
      BY <3>1, <3>3, <3>4
  <2> QED
    BY <1>4, <2>1, <2>2 DEF Settings!MuteReads
<1>5. ASSUME NEW w \in Writers, NEW ok \in BOOLEAN, Settings!MuteCommits(w, ok) PROVE Settings!TypeOK'
  <2>1. /\ writer[w] \in Settings!Requests /\ UNCHANGED <<memory, writes, owed, reversed>>
        /\ muteLock' \in {muteLock, Settings!Unlock(w)}
        /\ stored' \in {stored, [stored EXCEPT !.mutes = writer[w].mutes]}
        /\ writer' \in {[writer EXCEPT ![w] = [writer[w] EXCEPT !.at = "committed"]], [writer EXCEPT ![w] = None]}
    BY <1>5 DEF Settings!MuteCommits, Settings!Muting
  <2>2. /\ [stored EXCEPT !.mutes = writer[w].mutes] \in Settings!Values
        /\ [writer[w] EXCEPT !.at = "committed"] \in Settings!Requests
    BY <2>1 DEF Settings!Values, Settings!Requests
  <2>3. stored' \in Settings!Values /\ muteLock' \in Writers \cup {None}
    BY <2>1, <2>2 DEF Settings!Unlock
  <2>4. writer' \in [Writers -> Settings!Requests \cup {None}]
    BY <2>1, <2>2
  <2> QED
    BY <2>1, <2>3, <2>4
<1>6. ASSUME NEW w \in Writers, Settings!MuteUpdates(w) PROVE Settings!TypeOK'
  <2>1. writer[w] \in Settings!Requests /\ writer[w].key \in MuteKeys
    BY <1>6 DEF Settings!MuteUpdates, Settings!Muting, MutesInv
  <2>2. memory' \in Settings!Values
    BY <1>6, <2>1 DEF Settings!MuteUpdates, Settings!Values, Settings!Requests
  <2>3. owed' \in SUBSET MuteKeys /\ muteLock' \in Writers \cup {None}
    BY <1>6, <2>1 DEF Settings!MuteUpdates, Settings!Unlock
  <2> QED
    BY <1>6, <2>2, <2>3 DEF Settings!MuteUpdates
<1>7. CASE Settings!Reload \/ UNCHANGED Settings!vars
  BY <1>7 DEF Settings!Reload, Settings!vars
<1> QED
  BY <1>1, <1>2, <1>3, <1>4, <1>5, <1>6, <1>7 DEF Settings!Next

\* Of a request that another thread serves.
LEMMA OthersWait ==
  ASSUME SettingsConstants, MutesInv, NEW w \in Writers, Settings!Muting(w, "locked") \/ Settings!Muting(w, "read")
           \/ Settings!Muting(w, "committed")
  PROVE  /\ muteLock = w
         /\ \A v \in Writers \ {w} : writer[v] = None \/ writer[v].of # "mutes"
BY DEF MutesInv, Settings!Muting

LEMMA MutesStep ==
  ASSUME SettingsConstants, Settings!TypeOK, MutesInv, [Settings!Next]_(Settings!vars)
  PROVE  MutesInv'
<1> USE DEF Settings!TypeOK
<1>1. ASSUME NEW w \in Writers, Settings!PutCommits(w) \/ Settings!PutUpdates(w) PROVE MutesInv'
  <2>1. stored'.mutes = stored.mutes /\ memory'.mutes = memory.mutes /\ UNCHANGED <<owed, muteLock>>
    BY <1>1 DEF Settings!PutCommits, Settings!PutUpdates, Settings!Values
  <2>2. /\ writer[w] = None \/ writer[w].of # "mutes"
        /\ writer'[w] = None \/ writer'[w].of # "mutes"
        /\ \A v \in Writers \ {w} : writer'[v] = writer[v]
    BY <1>1 DEF Settings!PutCommits, Settings!PutUpdates
  <2> QED
    BY <2>1, <2>2 DEF MutesInv, Settings!Muting, Asked
<1>2. ASSUME NEW w \in Writers, NEW key \in MuteKeys, NEW muted \in BOOLEAN, Settings!MuteLocks(w, key, muted)
      PROVE  MutesInv'
  <2>1. \A v \in Writers : writer[v] = None \/ writer[v].of # "mutes"
    BY <1>2 DEF Settings!MuteLocks, Settings!LockFree, MutesInv, SettingsConstants
  <2>2. /\ writer' = [writer EXCEPT ![w] = [of |-> "mutes", at |-> "locked", key |-> key, muted |-> muted,
                                            plain |-> 0, mutes |-> {}]]
        /\ muteLock' = w /\ UNCHANGED <<stored, memory, owed>>
    BY <1>2 DEF Settings!MuteLocks
  <2>3. /\ writer'[w].of = "mutes" /\ writer'[w].at = "locked" /\ writer'[w].key = key
        /\ \A v \in Writers \ {w} : writer'[v] = writer[v]
    BY <2>2
  <2> QED
    BY <2>1, <2>2, <2>3 DEF MutesInv, Settings!Muting
<1>3. ASSUME NEW w \in Writers, Settings!MuteReads(w) PROVE MutesInv'
  <2>1. Settings!Muting(w, "locked") /\ UNCHANGED <<stored, memory, owed>> /\ writer[w] \in Settings!Requests
    BY <1>3 DEF Settings!MuteReads, Settings!Muting
  <2>2. muteLock = w /\ \A v \in Writers \ {w} : writer[v] = None \/ writer[v].of # "mutes"
    BY <2>1, OthersWait
  <2>3. stored.mutes = memory.mutes
    BY <2>1, <2>2 DEF MutesInv, Settings!Muting
  <2>4. CASE Settings!Repeated(w) \/ Settings!Full(w)
    <3>1. writer' = [writer EXCEPT ![w] = None]
      BY <1>3, <2>4 DEF Settings!MuteReads
    <3> QED
      BY <2>1, <2>2, <2>3, <3>1 DEF MutesInv, Settings!Muting
  <2>5. CASE ~(Settings!Repeated(w) \/ Settings!Full(w))
    <3>1. writer' = [writer EXCEPT ![w] = [writer[w] EXCEPT !.at = "read", !.mutes = Asked(writer[w])]]
          /\ muteLock' = muteLock
      BY <1>3, <2>5 DEF Settings!MuteReads, Asked
    <3>2. /\ writer'[w].at = "read" /\ writer'[w].mutes = Asked(writer[w])
          /\ writer'[w].key = writer[w].key /\ writer'[w].muted = writer[w].muted /\ writer'[w].of = "mutes"
          /\ \A v \in Writers \ {w} : writer'[v] = writer[v]
      BY <2>1, <3>1 DEF Settings!Requests, Settings!Muting
    <3>3. Fits(Asked(writer[w]))
      <4>1. writer[w].muted => Settings!Cardinality(memory.mutes) < MaxPerPrinter
        <5>1. Settings!Cardinality(memory.mutes) \in Nat
          BY SettingsFinite, FS_CardinalityType DEF MutesInv, Fits
        <5> QED
          BY <2>5, <5>1 DEF Settings!Full, SettingsConstants
      <4> QED
        BY <4>1, FitsStep DEF Asked, MutesInv
    <3>4. writer[w].key \in MuteKeys
      BY <2>1 DEF MutesInv, Settings!Muting
    <3>5. Asked(writer[w])' = Asked(writer[w])
      BY <2>1, <3>2 DEF Asked
    <3> QED
      BY <2>1, <2>2, <2>3, <3>1, <3>2, <3>3, <3>4, <3>5 DEF MutesInv, Settings!Muting, Asked
  <2> QED
    BY <2>4, <2>5
<1>4. ASSUME NEW w \in Writers, NEW ok \in BOOLEAN, Settings!MuteCommits(w, ok) PROVE MutesInv'
  <2>1. Settings!Muting(w, "read") /\ UNCHANGED <<memory, owed>> /\ writer[w] \in Settings!Requests
    BY <1>4 DEF Settings!MuteCommits, Settings!Muting
  <2>2. muteLock = w /\ \A v \in Writers \ {w} : writer[v] = None \/ writer[v].of # "mutes"
    BY <2>1, OthersWait
  <2>3. stored.mutes = memory.mutes
    BY <2>1, <2>2 DEF MutesInv, Settings!Muting
  <2>4. CASE ok
    <3>1. /\ writer' = [writer EXCEPT ![w] = [writer[w] EXCEPT !.at = "committed"]]
          /\ stored' = [stored EXCEPT !.mutes = writer[w].mutes] /\ muteLock' = muteLock
      BY <1>4, <2>4 DEF Settings!MuteCommits
    <3>2. /\ writer'[w].at = "committed" /\ writer'[w].mutes = writer[w].mutes
          /\ writer'[w].key = writer[w].key /\ writer'[w].muted = writer[w].muted /\ writer'[w].of = "mutes"
          /\ \A v \in Writers \ {w} : writer'[v] = writer[v]
      BY <2>1, <3>1 DEF Settings!Requests, Settings!Muting
    <3>3. stored'.mutes = writer[w].mutes
      BY <3>1 DEF Settings!Values
    <3>4. writer[w].mutes = Asked(writer[w]) /\ Fits(writer[w].mutes) /\ writer[w].key \in MuteKeys
      BY <2>1 DEF MutesInv, Settings!Muting
    <3>5. writer[w] # None /\ (writer'[w] = None => FALSE)
      BY <2>1, <3>1 DEF Settings!Muting, Settings!Requests, SettingsConstants
    <3> QED
      BY <2>1, <2>2, <2>3, <3>1, <3>2, <3>3, <3>4, <3>5 DEF MutesInv, Settings!Muting, Asked
  <2>5. CASE ~ok
    <3>1. writer' = [writer EXCEPT ![w] = None] /\ stored' = stored
      BY <1>4, <2>5 DEF Settings!MuteCommits
    <3> QED
      BY <2>1, <2>2, <2>3, <3>1 DEF MutesInv, Settings!Muting
  <2> QED
    BY <2>4, <2>5
<1>5. ASSUME NEW w \in Writers, Settings!MuteUpdates(w) PROVE MutesInv'
  <2>1. Settings!Muting(w, "committed") /\ stored' = stored /\ writer' = [writer EXCEPT ![w] = None]
    BY <1>5 DEF Settings!MuteUpdates
  <2>2. muteLock = w /\ \A v \in Writers \ {w} : writer[v] = None \/ writer[v].of # "mutes"
    BY <2>1, OthersWait
  <2>3. stored.mutes = writer[w].mutes /\ writer[w].mutes = Asked(writer[w]) /\ Fits(writer[w].mutes)
    BY <2>1 DEF MutesInv
  <2>4. memory'.mutes = writer[w].mutes
    BY <1>5 DEF Settings!MuteUpdates, Settings!Values
  <2>5. owed' = Asked(writer[w])
    BY <1>5 DEF Settings!MuteUpdates, Asked, MutesInv
  <2> QED
    BY <2>1, <2>2, <2>3, <2>4, <2>5 DEF MutesInv, Settings!Muting
<1>6. CASE Settings!Reload
  <2>1. memory' = stored /\ UNCHANGED <<stored, muteLock, writer, owed>> /\ \A w \in Writers : writer[w] = None
    BY <1>6 DEF Settings!Reload
  <2> QED
    BY <2>1 DEF MutesInv, Settings!Muting
<1>7. CASE UNCHANGED Settings!vars
  BY <1>7 DEF Settings!vars, MutesInv, Settings!Muting, Asked
<1> QED
  BY <1>1, <1>2, <1>3, <1>4, <1>5, <1>6, <1>7 DEF Settings!Next

LEMMA CopyStep ==
  ASSUME SettingsConstants, Settings!TypeOK, MutesInv, CopyInv, [Settings!Next]_(Settings!vars)
  PROVE  CopyInv'
<1> USE DEF Settings!TypeOK
<1>1. ASSUME NEW w \in Writers, Settings!PutCommits(w) PROVE CopyInv'
  <2>1. stored'.plain = writes'
    BY <1>1 DEF Settings!PutCommits, Settings!Values
  <2>2. writer'[w] = [of |-> "plain", at |-> "committed", key |-> None, muted |-> FALSE, plain |-> writes',
                      mutes |-> {}]
    BY <1>1 DEF Settings!PutCommits
  <2>3. writer'[w] # None
    <3>1. writes' \in 0..MaxWrites
      BY <1>1 DEF Settings!PutCommits, SettingsConstants
    <3>2. writer'[w] \in Settings!Requests
      BY <2>2, <3>1 DEF Settings!Requests
    <3> QED
      BY <3>2 DEF SettingsConstants
  <2> QED
    BY <2>1, <2>2, <2>3 DEF CopyInv
<1>2. ASSUME NEW w \in Writers, Settings!PutUpdates(w) PROVE CopyInv'
  BY <1>2 DEF Settings!PutUpdates, CopyInv, Settings!Values
<1>3. ASSUME NEW w \in Writers, NEW key \in MuteKeys, NEW muted \in BOOLEAN,
             Settings!MuteLocks(w, key, muted) \/ Settings!MuteReads(w) \/ Settings!MuteCommits(w, TRUE)
             \/ Settings!MuteCommits(w, FALSE) \/ Settings!MuteUpdates(w)
      PROVE  CopyInv'
  <2>1. stored'.plain = stored.plain /\ memory'.plain = memory.plain /\ reversed' = reversed
    BY <1>3 DEF Settings!MuteLocks, Settings!MuteReads, Settings!MuteCommits, Settings!MuteUpdates, Settings!Values
  <2>2. /\ writer[w] = None \/ writer[w].of = "mutes"
        /\ \A v \in Writers \ {w} : writer'[v] = writer[v]
    BY <1>3 DEF Settings!MuteLocks, Settings!MuteReads, Settings!MuteCommits, Settings!MuteUpdates, Settings!Muting
  <2> QED
    BY <2>1, <2>2 DEF CopyInv
<1>4. CASE Settings!Reload \/ UNCHANGED Settings!vars
  BY <1>4 DEF Settings!Reload, Settings!vars, CopyInv
<1>5. ASSUME NEW w \in Writers, NEW ok \in BOOLEAN, Settings!MuteCommits(w, ok) \/ Settings!MuteReads(w)
               \/ Settings!MuteUpdates(w)
      PROVE  CopyInv'
  <2>1. PICK key \in MuteKeys : TRUE
    BY <1>5 DEF Settings!MuteCommits, Settings!MuteReads, Settings!MuteUpdates, Settings!Muting, MutesInv
  <2> QED
    BY <1>3, <1>5, <2>1
<1> QED
  BY <1>1, <1>2, <1>3, <1>4, <1>5 DEF Settings!Next

LEMMA SettingsInvariant ==
  ASSUME SettingsConstants PROVE Settings!Spec => [](Settings!TypeOK /\ MutesInv /\ CopyInv)
<1>1. Settings!Init => Settings!TypeOK /\ MutesInv /\ CopyInv
  BY SettingsInit
<1>2. Settings!TypeOK /\ MutesInv /\ CopyInv /\ [Settings!Next]_(Settings!vars)
        => Settings!TypeOK' /\ MutesInv' /\ CopyInv'
  BY SettingsTyped, MutesStep, CopyStep
<1> QED
  BY <1>1, <1>2, PTL DEF Settings!Spec

\* Every variable of the settings keeps its type.
THEOREM SettingsTypeCorrect == ASSUME SettingsConstants PROVE Settings!Spec => []Settings!TypeOK
BY SettingsInvariant, PTL

\* Two admins who mute at once lose nothing, and the list stays within its limit.
THEOREM MutesAreKept == ASSUME SettingsConstants PROVE Settings!Spec => []Settings!MutesKept
<1>1. Settings!TypeOK /\ MutesInv => Settings!MutesKept
  BY DEF MutesInv, Settings!MutesKept, Settings!Busy, Settings!Muting, Fits
<1> QED
  BY <1>1, SettingsInvariant, PTL

\* With no write under way the program runs with what the table holds, unless two
\* writes reached the copy in the other order than the table.
THEOREM CopyIsTrue == ASSUME SettingsConstants PROVE Settings!Spec => []Settings!CopyTrue
<1>1. CopyInv => Settings!CopyTrue
  BY DEF CopyInv, Settings!CopyTrue, Settings!Busy
<1> QED
  BY <1>1, SettingsInvariant, PTL

(***************************************************************************)
(* Part 3.  FleetBulk.                                                     *)
(***************************************************************************)
\* A command is active until it is answered and its last send has ended; the active one
\* has the family.
BulkActive(c) == at[c] # "idle" \/ Bulk!Of(c, {"running"}) # {}

\* Of each caller: the sends that are left when it was answered are the running ones,
\* what its wait saw done has ended, and nothing is queued once it cancelled the rest.
CallerInv(c) ==
  /\ BulkActive(c) <=> family = c
  /\ at[c] = "idle" => left[c] = Bulk!Of(c, {"running"})
  /\ at[c] # "idle" => left[c] = {}
  /\ at[c] \in {"late", "cancelled"} => finished[c] \subseteq Bulk!Of(c, Bulk!Ended)
  /\ at[c] \in {"idle", "cancelled"} => Bulk!Of(c, {"queued"}) = {}
  /\ at[c] # "idle" => \A p \in Fleet : answers[c][p] \in {None, "skipped", "dry_run"}
  /\ at[c] = "idle" => \A p \in Fleet :
       /\ answers[c][p] = "skipped" => send[c][p] \in {None, "cancelled", "refused"}
       /\ answers[c][p] = "confirmed" => send[c][p] = "ok"
BulkInv == \A c \in Callers : CallerInv(c)

-----------------------------------------------------------------------------
\* A step of one caller that leaves the family or takes or frees it for itself.
LEMMA OtherCallers ==
  ASSUME BulkInv, NEW c \in Callers, CallerInv(c)', BulkConstants,
         family' = family \/ (family \in {None, c} /\ family' \in {None, c}),
         \A d \in Callers \ {c} : /\ at'[d] = at[d] /\ send'[d] = send[d] /\ finished'[d] = finished[d]
                                  /\ left'[d] = left[d] /\ answers'[d] = answers[d]
  PROVE  BulkInv'
<1> SUFFICES ASSUME NEW d \in Callers \ {c} PROVE CallerInv(d)'
  BY DEF BulkInv
<1>1. CallerInv(d)
  BY DEF BulkInv
<1>2. \A what : Bulk!Of(d, what)' = Bulk!Of(d, what)
  BY DEF Bulk!Of
<1>3. (family' = d) <=> (family = d)
  BY DEF BulkConstants
<1> QED
  BY <1>1, <1>2, <1>3 DEF CallerInv, BulkActive, Bulk!Ended

LEMMA BulkStep ==
  ASSUME BulkConstants, Bulk!TypeOK, BulkInv, [Bulk!Next]_(Bulk!vars)
  PROVE  Bulk!TypeOK' /\ BulkInv'
<1> USE DEF Bulk!TypeOK
<1>1. ASSUME NEW c \in Callers, NEW ids \in SUBSET Fleet \ {{}}, NEW status \in [Fleet -> Conditions],
             NEW dry \in BOOLEAN, Bulk!Begin(c, ids, status, dry)
      PROVE  Bulk!TypeOK' /\ BulkInv'
  <2> DEFINE todo == {p \in ids : ~Bulk!Skipped(status[p]) /\ ~dry}
             rest == [p \in Fleet |-> IF p \notin ids \/ p \in todo THEN None
                              ELSE IF Bulk!Skipped(status[p]) THEN "skipped" ELSE "dry_run"]
             sent == [p \in Fleet |-> IF p \in todo THEN "queued" ELSE None]
  <2>1. /\ at[c] = "idle" /\ family = None /\ Bulk!Of(c, {"running"}) = {} /\ bulks' \in 0..MaxBulks
        /\ answers' = [answers EXCEPT ![c] = rest] /\ send' = [send EXCEPT ![c] = sent]
        /\ finished' = [finished EXCEPT ![c] = {}] /\ left' = left
        /\ \/ todo = {} /\ UNCHANGED <<family, at>>
           \/ todo # {} /\ family' = c /\ at' = [at EXCEPT ![c] = "waiting"]
    BY <1>1 DEF Bulk!Begin, BulkConstants
  <2>2. rest \in [Fleet -> Bulk!Statuses] /\ sent \in [Fleet -> Bulk!Sends]
    BY DEF Bulk!Statuses, Bulk!Sends
  <2>3. Bulk!TypeOK'
    BY <2>1, <2>2
  <2>4. \A p \in Fleet : rest[p] \in {None, "skipped", "dry_run"} /\ sent[p] \in {None, "queued"}
                         /\ (sent[p] = "queued" <=> p \in todo)
    BY DEF BulkConstants
  <2>5. /\ answers'[c] = rest /\ send'[c] = sent /\ finished'[c] = {} /\ left'[c] = {}
        /\ \A d \in Callers \ {c} : /\ at'[d] = at[d] /\ send'[d] = send[d] /\ finished'[d] = finished[d]
                                    /\ left'[d] = left[d] /\ answers'[d] = answers[d]
    <3>1. left[c] = {}
      BY <2>1 DEF BulkInv, CallerInv
    <3> QED
      BY <2>1, <3>1
  <2> HIDE DEF rest, sent
  <2>6. Bulk!Of(c, {"running"})' = {}
    BY <2>4, <2>5 DEF Bulk!Of, BulkConstants
  <2>7. CASE todo = {}
    <3>1. Bulk!Of(c, {"queued"})' = {} /\ \A p \in Fleet : sent[p] = None
      BY <2>4, <2>5, <2>7 DEF Bulk!Of
    <3>2. at'[c] = "idle" /\ family' = None
      BY <2>1, <2>7
    <3>3. CallerInv(c)'
      BY <2>4, <2>5, <2>6, <3>1, <3>2 DEF CallerInv, BulkActive, BulkConstants
    <3> QED
      BY <2>1, <2>3, <2>5, <3>2, <3>3, OtherCallers
  <2>8. CASE todo # {}
    <3>1. at'[c] = "waiting" /\ family' = c
      BY <2>1, <2>8
    <3>2. CallerInv(c)'
      BY <2>4, <2>5, <2>6, <3>1 DEF CallerInv, BulkActive
    <3> QED
      BY <2>1, <2>3, <2>5, <3>1, <3>2, OtherCallers
  <2> QED
    BY <2>7, <2>8
<1>2. ASSUME NEW c \in Callers, NEW p \in Fleet, Bulk!StartSend(c, p) PROVE Bulk!TypeOK' /\ BulkInv'
  <2>1. /\ send[c][p] = "queued" /\ send' = [send EXCEPT ![c] = [send[c] EXCEPT ![p] = "running"]]
        /\ UNCHANGED <<family, at, finished, left, answers, bulks>>
    BY <1>2 DEF Bulk!StartSend
  <2>2. /\ send'[c] = [send[c] EXCEPT ![p] = "running"] /\ send'[c] \in [Fleet -> Bulk!Sends]
        /\ \A d \in Callers \ {c} : send'[d] = send[d]
    BY <2>1 DEF Bulk!Sends
  <2>3. Bulk!TypeOK'
    BY <2>1, <2>2
  <2>4. at[c] \in {"waiting", "late"} /\ CallerInv(c) /\ family = c
    BY <2>1 DEF BulkInv, CallerInv, Bulk!Of, BulkActive
  <2>5. /\ send'[c][p] = "running" /\ \A q \in Fleet \ {p} : send'[c][q] = send[c][q]
    BY <2>2
  <2>6. Bulk!Of(c, Bulk!Ended)' = Bulk!Of(c, Bulk!Ended)
    BY <2>1, <2>5 DEF Bulk!Of, Bulk!Ended
  <2>7. CallerInv(c)'
    BY <2>1, <2>4, <2>6 DEF CallerInv, BulkActive
  <2> QED
    BY <2>1, <2>2, <2>3, <2>7, OtherCallers
<1>3. ASSUME NEW c \in Callers, NEW p \in Fleet, NEW how \in Bulk!Ended, Bulk!EndSend(c, p, how)
      PROVE  Bulk!TypeOK' /\ BulkInv'
  <2>1. /\ send[c][p] = "running" /\ send' = [send EXCEPT ![c] = [send[c] EXCEPT ![p] = how]]
        /\ left' = [left EXCEPT ![c] = left[c] \ {p}]
        /\ family' = IF left[c] = {p} THEN None ELSE family
        /\ UNCHANGED <<at, finished, answers, bulks>>
    BY <1>3 DEF Bulk!EndSend
  <2>2. /\ send'[c] = [send[c] EXCEPT ![p] = how] /\ send'[c] \in [Fleet -> Bulk!Sends]
        /\ left'[c] = left[c] \ {p}
        /\ \A d \in Callers \ {c} : send'[d] = send[d] /\ left'[d] = left[d]
    BY <2>1 DEF Bulk!Sends, Bulk!Ended
  <2>3. Bulk!TypeOK'
    BY <2>1, <2>2
  <2>4. family = c /\ CallerInv(c)
    BY <2>1 DEF BulkInv, CallerInv, Bulk!Of, BulkActive
  <2>5. /\ send'[c][p] = how /\ how \in {"ok", "rejected", "refused"}
        /\ \A q \in Fleet \ {p} : send'[c][q] = send[c][q]
    BY <2>2 DEF Bulk!Ended
  <2>6. /\ Bulk!Of(c, {"running"})' = Bulk!Of(c, {"running"}) \ {p}
        /\ Bulk!Of(c, Bulk!Ended)' = Bulk!Of(c, Bulk!Ended) \cup {p}
        /\ Bulk!Of(c, {"queued"})' = Bulk!Of(c, {"queued"})
        /\ p \in Bulk!Of(c, {"running"})
    BY <2>1, <2>5 DEF Bulk!Of, Bulk!Ended
  <2>7. CallerInv(c)'
    <3>1. CASE at[c] = "idle"
      <4>1. left[c] = Bulk!Of(c, {"running"})
        BY <2>4, <3>1 DEF CallerInv
      <4>2. family' = c <=> Bulk!Of(c, {"running"})' # {}
        BY <2>1, <2>4, <2>6, <4>1 DEF BulkConstants
      <4> QED
        BY <2>1, <2>2, <2>4, <2>5, <2>6, <3>1, <4>1, <4>2 DEF CallerInv, BulkActive, BulkConstants
    <3>2. CASE at[c] # "idle"
      <4>1. left[c] = {} /\ family' = c
        BY <2>1, <2>4, <3>2 DEF CallerInv
      <4> QED
        BY <2>1, <2>2, <2>4, <2>6, <3>2, <4>1 DEF CallerInv, BulkActive
    <3> QED
      BY <3>1, <3>2
  <2> QED
    BY <2>1, <2>2, <2>3, <2>4, <2>7, OtherCallers
<1>4. ASSUME NEW c \in Callers, Bulk!WaitEnds(c) PROVE Bulk!TypeOK' /\ BulkInv'
  <2>1. /\ at[c] = "waiting" /\ at' = [at EXCEPT ![c] = "late"]
        /\ finished' = [finished EXCEPT ![c] = Bulk!Of(c, Bulk!Ended)]
        /\ UNCHANGED <<family, send, left, answers, bulks>>
    BY <1>4 DEF Bulk!WaitEnds
  <2>2. Bulk!TypeOK'
    BY <2>1 DEF Bulk!Of
  <2>3. \A what : Bulk!Of(c, what)' = Bulk!Of(c, what)
    BY <2>1 DEF Bulk!Of
  <2>4. Bulk!Of(c, Bulk!Ended)' = Bulk!Of(c, Bulk!Ended)
    BY <2>1 DEF Bulk!Of, Bulk!Ended
  <2>5. CallerInv(c) /\ at'[c] = "late" /\ finished'[c] = Bulk!Of(c, Bulk!Ended)
    BY <2>1 DEF BulkInv
  <2>6. CallerInv(c)'
    BY <2>1, <2>3, <2>4, <2>5 DEF CallerInv, BulkActive
  <2> QED
    BY <2>1, <2>2, <2>6, OtherCallers
<1>5. ASSUME NEW c \in Callers, Bulk!Cancel(c) PROVE Bulk!TypeOK' /\ BulkInv'
  <2> DEFINE sent == [p \in Fleet |-> IF p \in Bulk!Cancelled(c) THEN "cancelled" ELSE send[c][p]]
  <2>1. /\ at[c] = "late" /\ at' = [at EXCEPT ![c] = "cancelled"] /\ send' = [send EXCEPT ![c] = sent]
        /\ UNCHANGED <<family, finished, left, answers, bulks>>
    BY <1>5 DEF Bulk!Cancel
  <2>2. sent \in [Fleet -> Bulk!Sends]
    BY DEF Bulk!Sends
  <2>3. Bulk!TypeOK'
    BY <2>1, <2>2
  <2>4. \A p \in Fleet : sent[p] = IF send[c][p] = "queued" THEN "cancelled" ELSE send[c][p]
    BY DEF Bulk!Cancelled, Bulk!Of
  <2>5. send'[c] = sent /\ at'[c] = "cancelled" /\ CallerInv(c)
    BY <2>1 DEF BulkInv
  <2> HIDE DEF sent
  <2>6. /\ Bulk!Of(c, {"running"})' = Bulk!Of(c, {"running"})
        /\ Bulk!Of(c, Bulk!Ended)' = Bulk!Of(c, Bulk!Ended)
        /\ Bulk!Of(c, {"queued"})' = {}
    BY <2>4, <2>5 DEF Bulk!Of, Bulk!Ended
  <2>7. CallerInv(c)'
    BY <2>1, <2>5, <2>6 DEF CallerInv, BulkActive
  <2> QED
    BY <2>1, <2>3, <2>7, OtherCallers
<1>6. ASSUME NEW c \in Callers, Bulk!Answer(c) PROVE Bulk!TypeOK' /\ BulkInv'
  <2>1. /\ at[c] = "cancelled" /\ at' = [at EXCEPT ![c] = "idle"]
        /\ answers' = [answers EXCEPT ![c] = [p \in Fleet |-> Bulk!Told(c, p)]]
        /\ left' = [left EXCEPT ![c] = Bulk!StillLeft(c)]
        /\ family' = IF Bulk!StillLeft(c) = {} THEN None ELSE family
        /\ UNCHANGED <<send, finished, bulks>>
    BY <1>6 DEF Bulk!Answer
  <2>2. family = c /\ CallerInv(c)
    BY <2>1 DEF BulkInv, CallerInv, BulkActive
  <2>3. ASSUME NEW p \in Fleet
        PROVE  /\ Bulk!Told(c, p) \in Bulk!Statuses
               /\ Bulk!Told(c, p) = "skipped" => send[c][p] \in {None, "cancelled", "refused"}
               /\ Bulk!Told(c, p) = "confirmed" => send[c][p] = "ok"
    <3>1. send[c][p] \in Bulk!Sends /\ send[c][p] # "queued"
          /\ (p \in finished[c] => send[c][p] \in Bulk!Ended)
      BY <2>1, <2>2 DEF CallerInv, Bulk!Of
    <3>2. CASE send[c][p] = None
      BY <2>1, <2>2, <3>2 DEF Bulk!Told, Bulk!Statuses, CallerInv, BulkConstants
    <3>3. CASE send[c][p] # None /\ p \notin finished[c]
      BY <3>1, <3>3 DEF Bulk!Told, Bulk!Statuses
    <3>4. CASE send[c][p] # None /\ p \in finished[c]
      BY <3>1, <3>4 DEF Bulk!Told, Bulk!Statuses, Bulk!Ended
    <3> QED
      BY <3>2, <3>3, <3>4
  <2>4. Bulk!StillLeft(c) = Bulk!Of(c, {"running"})
    <3>1. ASSUME NEW p \in Fleet PROVE p \in Bulk!StillLeft(c) <=> send[c][p] = "running"
      <4>1. send[c][p] \in Bulk!Sends /\ send[c][p] # "queued"
            /\ (p \in finished[c] => send[c][p] \in Bulk!Ended)
        BY <2>1, <2>2 DEF CallerInv, Bulk!Of
      <4> QED
        BY <4>1 DEF Bulk!StillLeft, Bulk!Pending, Bulk!Of, Bulk!Ended, Bulk!Sends, BulkConstants
    <3> QED
      BY <3>1 DEF Bulk!StillLeft, Bulk!Pending, Bulk!Of
  <2>5. Bulk!TypeOK'
    <3>1. Bulk!StillLeft(c) \in SUBSET Fleet
      BY <2>4 DEF Bulk!Of
    <3>2. [p \in Fleet |-> Bulk!Told(c, p)] \in [Fleet -> Bulk!Statuses]
      BY <2>3
    <3> QED
      BY <2>1, <3>1, <3>2
  <2>6. \A p \in Fleet : answers'[c][p] = Bulk!Told(c, p)
    BY <2>1
  <2>7. /\ at'[c] = "idle" /\ left'[c] = Bulk!Of(c, {"running"})
        /\ \A what : Bulk!Of(c, what)' = Bulk!Of(c, what)
    BY <2>1, <2>4 DEF Bulk!Of
  <2>8. family' = c <=> Bulk!Of(c, {"running"}) # {}
    BY <2>1, <2>2, <2>4 DEF BulkConstants
  <2>9. CallerInv(c)'
    BY <2>1, <2>2, <2>3, <2>6, <2>7, <2>8 DEF CallerInv, BulkActive
  <2> QED
    BY <2>1, <2>2, <2>5, <2>9, OtherCallers
<1>7. CASE UNCHANGED Bulk!vars
  <2>1. UNCHANGED <<family, at, send, finished, left, answers, bulks>>
    BY <1>7 DEF Bulk!vars
  <2> QED
    BY <2>1 DEF BulkInv, CallerInv, BulkActive, Bulk!Of, Bulk!Ended
<1>8. CASE Bulk!Next
  <2> HIDE DEF Bulk!TypeOK
  <2>1. PICK c \in Callers :
          \/ \E ids \in SUBSET Fleet \ {{}}, status \in [Fleet -> Conditions], dry \in BOOLEAN :
               Bulk!Begin(c, ids, status, dry)
          \/ \E p \in Fleet : Bulk!StartSend(c, p) \/ \E how \in Bulk!Ended : Bulk!EndSend(c, p, how)
          \/ Bulk!WaitEnds(c) \/ Bulk!Cancel(c) \/ Bulk!Answer(c)
    BY <1>8 DEF Bulk!Next
  <2> QED
    BY <2>1, <1>1, <1>2, <1>3, <1>4, <1>5, <1>6, Zenon
<1> QED
  BY <1>7, <1>8

LEMMA BulkInit == ASSUME BulkConstants, Bulk!Init PROVE Bulk!TypeOK /\ BulkInv
<1>1. /\ family = None /\ at = [c \in Callers |-> "idle"] /\ bulks = 0
      /\ send = [c \in Callers |-> [p \in Fleet |-> None]] /\ answers = send
      /\ finished = [c \in Callers |-> {}] /\ left = finished
  BY DEF Bulk!Init
<1>2. Bulk!TypeOK
  BY <1>1 DEF Bulk!TypeOK, Bulk!Sends, Bulk!Statuses, BulkConstants
<1>3. ASSUME NEW c \in Callers PROVE CallerInv(c)
  <2>1. at[c] = "idle" /\ left[c] = {} /\ \A p \in Fleet : send[c][p] = None /\ answers[c][p] = None
    BY <1>1
  <2>2. Bulk!Of(c, {"running"}) = {} /\ Bulk!Of(c, {"queued"}) = {}
    BY <2>1 DEF Bulk!Of, BulkConstants
  <2> QED
    BY <1>1, <2>1, <2>2 DEF CallerInv, BulkActive, BulkConstants
<1> QED
  BY <1>2, <1>3 DEF BulkInv

LEMMA BulkInvariant == ASSUME BulkConstants PROVE Bulk!Spec => [](Bulk!TypeOK /\ BulkInv)
<1>1. Bulk!Init => Bulk!TypeOK /\ BulkInv
  BY BulkInit
<1>2. Bulk!TypeOK /\ BulkInv /\ [Bulk!Next]_(Bulk!vars) => Bulk!TypeOK' /\ BulkInv'
  BY BulkStep
<1> QED
  BY <1>1, <1>2, PTL DEF Bulk!Spec

\* Every variable of the bulk commands keeps its type.
THEOREM BulkTypeCorrect == ASSUME BulkConstants PROVE Bulk!Spec => []Bulk!TypeOK
BY BulkInvariant, PTL

\* Sends of two bulk commands of one family never run at the same time.
THEOREM BulksApart == ASSUME BulkConstants PROVE Bulk!Spec => []Bulk!OneBulk
<1>1. BulkInv => Bulk!OneBulk
  BY DEF BulkInv, CallerInv, BulkActive, Bulk!OneBulk
<1> QED
  BY <1>1, BulkInvariant, PTL

\* The family is taken only while its command is not answered or a send of it runs.
THEOREM FamilyIsFreed == ASSUME BulkConstants PROVE Bulk!Spec => []Bulk!FamilyFreed
<1>1. Bulk!TypeOK /\ BulkInv => Bulk!FamilyFreed
  BY DEF Bulk!TypeOK, BulkInv, CallerInv, BulkActive, Bulk!FamilyFreed
<1> QED
  BY <1>1, BulkInvariant, PTL

\* What was answered of a printer stays true.
THEOREM AnswersStayTrue == ASSUME BulkConstants PROVE Bulk!Spec => []Bulk!BulkTold
<1>1. BulkInv => Bulk!BulkTold
  BY DEF BulkInv, CallerInv, Bulk!BulkTold
<1> QED
  BY <1>1, BulkInvariant, PTL

(***************************************************************************)
(* Part 4.  Accounts.                                                      *)
(***************************************************************************)
\* What a request knows at each of its steps.
Stage(c) ==
  /\ call[c].at \in {"waits", "verify"} => call[c].user \in People /\ call[c].source \in Sources
  /\ call[c].at = "verify" => lock[call[c].source] = c
  /\ call[c].at \in {"grant", "claim", "mint"} => call[c].user \in People /\ call[c].role \in Users!Roles
  /\ call[c].at \in {"claim", "mint"} => call[c].token \in DOMAIN tokens
  /\ call[c].at = "act" => /\ call[c].user \in People /\ call[c].target \in People
                           /\ call[c].to \in Users!Roles \cup {"gone"}
UsersTyped == Users!TypeOK /\ \A c \in Senders : Stage(c)

\* A request goes to its next step, or ends.
LEMMA CallGoes ==
  ASSUME UsersTyped, NEW c \in Senders, NEW record \in Users!Calls, Users!Goes(c, record)
  PROVE  /\ call' \in [Senders -> Users!Calls] /\ call'[c] = record
         /\ \A d \in Senders \ {c} : call'[d] = call[d]
BY DEF UsersTyped, Users!TypeOK, Users!Goes

LEMMA CallSteps ==
  ASSUME UsersTyped, NEW c \in Senders,
         NEW step \in {"rest", "waits", "verify", "grant", "claim", "mint", "act"}, Users!Steps(c, step)
  PROVE  /\ call' \in [Senders -> Users!Calls] /\ call'[c] = [call[c] EXCEPT !.at = step]
         /\ call'[c].at = step /\ call'[c].user = call[c].user /\ call'[c].source = call[c].source
         /\ call'[c].role = call[c].role /\ call'[c].token = call[c].token
         /\ \A d \in Senders \ {c} : call'[d] = call[d]
<1>1. call[c] \in Users!Calls
  BY DEF UsersTyped, Users!TypeOK
<1>2. [call[c] EXCEPT !.at = step] \in Users!Calls
  <2>1. \A r \in Users!Calls : [r EXCEPT !.at = step] \in Users!Calls
    BY DEF Users!Calls
  <2> QED
    BY <1>1, <2>1
<1>3. call' = [call EXCEPT ![c] = [call[c] EXCEPT !.at = step]]
  BY DEF Users!Steps
<1> QED
  BY <1>1, <1>2, <1>3 DEF UsersTyped, Users!TypeOK, Users!Calls

LEMMA IdleCall == Users!Idle \in Users!Calls /\ Users!Idle.at = "rest"
BY DEF Users!Idle, Users!Calls

LEMMA CallEnds ==
  ASSUME UsersTyped, NEW c \in Senders, Users!Ends(c)
  PROVE  /\ call' \in [Senders -> Users!Calls] /\ call'[c].at = "rest"
         /\ \A d \in Senders \ {c} : call'[d] = call[d]
BY IdleCall, CallGoes DEF Users!Ends

\* A new pair of tokens.
LEMMA Issues ==
  ASSUME UsersTyped, NEW c \in Senders, call[c].at \in {"grant", "mint"}, NEW session \in Nat,
         Users!Issue(c, session)
  PROVE  /\ Len(tokens) \in Nat /\ DOMAIN tokens = 1..Len(tokens)
         /\ tokens' \in Seq(Users!Issued) /\ DOMAIN tokens' = 1..(Len(tokens) + 1)
         /\ \A t \in DOMAIN tokens : tokens'[t] = tokens[t]
         /\ tokens'[Len(tokens) + 1] = [user |-> call[c].user, session |-> session, role |-> call[c].role,
                                        over |-> call[c].user \in changed]
<1> DEFINE new == [user |-> call[c].user, session |-> session, role |-> call[c].role,
                   over |-> call[c].user \in changed]
<1>1. tokens' = Append(tokens, new)
  BY DEF Users!Issue
<1>2. new \in Users!Issued
  <2>1. call[c].user \in People /\ call[c].role \in Users!Roles
    BY DEF UsersTyped, Stage
  <2> QED
    BY <2>1 DEF Users!Issued
<1> HIDE DEF new
<1>3. tokens \in Seq(Users!Issued)
  BY DEF UsersTyped, Users!TypeOK
<1>4. /\ Len(tokens) \in Nat /\ DOMAIN tokens = 1..Len(tokens)
      /\ tokens' \in Seq(Users!Issued) /\ DOMAIN tokens' = 1..(Len(tokens) + 1)
      /\ \A t \in DOMAIN tokens : tokens'[t] = tokens[t]
      /\ tokens'[Len(tokens) + 1] = new
  BY <1>1, <1>2, <1>3
<1> QED
  BY <1>4 DEF new

\* A change of a user ends their tokens.
LEMMA Overs ==
  ASSUME UsersTyped, NEW u,
         tokens' = [t \in DOMAIN tokens |->
                      IF tokens[t].user = u THEN [tokens[t] EXCEPT !.over = TRUE] ELSE tokens[t]]
  PROVE  /\ tokens' \in Seq(Users!Issued) /\ DOMAIN tokens' = DOMAIN tokens
         /\ \A t \in DOMAIN tokens :
              /\ tokens'[t].user = tokens[t].user /\ tokens'[t].session = tokens[t].session
              /\ tokens'[t].role = tokens[t].role
              /\ tokens'[t].over = (tokens[t].over \/ tokens[t].user = u)
<1>1. tokens \in Seq(Users!Issued) /\ Len(tokens) \in Nat /\ DOMAIN tokens = 1..Len(tokens)
  BY LenProperties DEF UsersTyped, Users!TypeOK
<1>2. ASSUME NEW t \in DOMAIN tokens
      PROVE  /\ tokens'[t] \in Users!Issued
             /\ tokens'[t].user = tokens[t].user /\ tokens'[t].session = tokens[t].session
             /\ tokens'[t].role = tokens[t].role
             /\ tokens'[t].over = (tokens[t].over \/ tokens[t].user = u)
  <2>1. tokens[t] \in Users!Issued
    BY <1>1, ElementOfSeq
  <2>2. CASE tokens[t].user = u
    <3>1. tokens'[t] = [tokens[t] EXCEPT !.over = TRUE]
      BY <2>2
    <3> QED
      BY <2>1, <2>2, <3>1 DEF Users!Issued
  <2>3. CASE tokens[t].user # u
    <3>1. tokens'[t] = tokens[t] /\ tokens[t].over \in BOOLEAN
      BY <2>1, <2>3 DEF Users!Issued
    <3> QED
      BY <2>1, <2>3, <3>1
  <2> QED
    BY <2>2, <2>3
<1>3. tokens' \in [1..Len(tokens) -> Users!Issued]
  BY <1>1, <1>2
<1>4. tokens' \in Seq(Users!Issued)
  BY <1>1, <1>3, SeqDef
<1> QED
  BY <1>2, <1>4

-----------------------------------------------------------------------------
\* What a step has to leave: the tables, the log and the requests typed, its own request
\* at one of its steps, the others where they were.
TablesTyped ==
  /\ role \in [People -> Users!Roles \cup {"new", "gone"}] /\ changed \subseteq People
  /\ tokens \in Seq(Users!Issued) /\ revoked \subseteq DOMAIN tokens
LogTyped ==
  /\ failures \in [Sources -> Nat] /\ guesses \in [Sources -> Nat]
  /\ logins \in 0..MaxLogins /\ edits \in 0..MaxChanges
LEMMA UsersKept ==
  ASSUME UsersTyped, TablesTyped', LogTyped', collided' \in BOOLEAN, DOMAIN tokens \subseteq DOMAIN tokens',
         lock' \in [Sources -> Senders \cup {None}], call' \in [Senders -> Users!Calls],
         NEW c \in Senders, Stage(c)',
         \A d \in Senders \ {c} : call'[d] = call[d] /\ (call[d].at = "verify" => lock'[call[d].source] = d)
  PROVE  UsersTyped'
<1>1. \A d \in Senders \ {c} : Stage(d)'
  BY DEF UsersTyped, Stage
<1> QED
  BY <1>1, Zenon DEF UsersTyped, Users!TypeOK, TablesTyped, LogTyped

LEMMA UsersParts ==
  UsersTyped <=> /\ TablesTyped /\ LogTyped /\ collided \in BOOLEAN
                 /\ lock \in [Sources -> Senders \cup {None}] /\ call \in [Senders -> Users!Calls]
                 /\ \A c \in Senders : Stage(c)
BY Zenon DEF UsersTyped, Users!TypeOK, TablesTyped, LogTyped

LEMMA TablesStay == ASSUME TablesTyped, UNCHANGED <<role, changed, tokens, revoked>> PROVE TablesTyped'
BY DEF TablesTyped
LEMMA LogStays == ASSUME LogTyped, UNCHANGED <<failures, guesses, logins, edits>> PROVE LogTyped'
BY DEF LogTyped

\* The steps there are.
LEMMA UsersMoves ==
  ASSUME [Users!Next]_(Users!vars)
  PROVE  \/ \E c \in Senders :
              \/ \E u \in People, s \in Sources : Users!Login(c, u, s)
              \/ Users!Enter(c) \/ Users!Verify(c) \/ Users!Grant(c) \/ Users!Claim(c) \/ Users!Mint(c)
              \/ Users!Act(c)
              \/ \E t \in DOMAIN tokens : Users!Refresh(c, t)
              \/ \E t \in DOMAIN tokens, u \in People, to \in Users!Roles \cup {"gone"} :
                   Users!Request(c, t, u, to)
         \/ \E t \in DOMAIN tokens : Users!Logout(t)
         \/ \E s \in Sources : Users!Forget(s)
         \/ Users!Second \/ UNCHANGED Users!vars
BY Zenon DEF Users!Next

\* The sessions are numbered in the order of the logins.
SessionsRun == \E k \in Nat : Users!Sessions = 1..k
LEMMA SessionsCount ==
  ASSUME SessionsRun
  PROVE  Users!Cardinality(Users!Sessions) \in Nat /\ Users!Sessions = 1..Users!Cardinality(Users!Sessions)
<1>1. PICK k \in Nat : Users!Sessions = 1..k
  BY DEF SessionsRun
<1>2. Cardinality(1..k) = k
  BY FS_Interval
<1>3. Users!Cardinality(1..k) = Cardinality(1..k)
  BY DEF Users!Cardinality, Cardinality
<1> QED
  BY <1>1, <1>2, <1>3

LEMMA UsersTypedStep ==
  ASSUME UsersConstants, UsersTyped, SessionsRun, [Users!Next]_(Users!vars)
  PROVE  UsersTyped'
<1>0. /\ TablesTyped /\ LogTyped /\ collided \in BOOLEAN
      /\ lock \in [Sources -> Senders \cup {None}] /\ call \in [Senders -> Users!Calls]
      /\ \A c \in Senders : Stage(c)
  BY UsersParts
<1>1. ASSUME NEW c \in Senders, NEW u \in People, NEW s \in Sources, Users!Login(c, u, s) PROVE UsersTyped'
  <2> DEFINE waits == [Users!Idle EXCEPT !.at = "waits", !.user = u, !.source = s]
  <2>1. UNCHANGED <<role, changed, tokens, revoked>> /\ UNCHANGED <<lock, guesses, collided, edits>>
        /\ logins < MaxLogins /\ logins' = logins + 1
    BY <1>1 DEF Users!Login, Users!table
  <2>2. waits \in Users!Calls /\ waits.at = "waits" /\ waits.user = u /\ waits.source = s
    BY DEF Users!Calls, Users!Idle
  <2>3. \/ Users!Goes(c, waits) /\ failures' = failures
        \/ call' = call /\ failures' = [failures EXCEPT ![s] = failures[s] + 1]
    BY <1>1 DEF Users!Login
  <2> HIDE DEF waits
  <2>4. LogTyped'
    <3>1. failures' \in [Sources -> Nat]
      BY <1>0, <2>3 DEF LogTyped
    <3>2. logins' \in 0..MaxLogins
      BY <1>0, <2>1 DEF LogTyped, UsersConstants
    <3> QED
      BY <1>0, <2>1, <3>1, <3>2 DEF LogTyped
  <2>5. TablesTyped'
    BY <1>0, <2>1, TablesStay
  <2>6. call' \in [Senders -> Users!Calls] /\ call'[c] \in {call[c], waits} /\ \A d \in Senders \ {c} : call'[d] = call[d]
    BY <1>0, <2>2, <2>3, CallGoes
  <2>7. Stage(c)'
    BY <1>0, <2>1, <2>2, <2>6 DEF Stage
  <2>8. \A d \in Senders \ {c} : call[d].at = "verify" => lock'[call[d].source] = d
    BY <1>0, <2>1 DEF Stage
  <2> QED
    BY <1>0, <2>1, <2>4, <2>5, <2>6, <2>7, <2>8, UsersKept
<1>2. ASSUME NEW c \in Senders, Users!Enter(c) PROVE UsersTyped'
  <2> DEFINE s == call[c].source
  <2>1. /\ UNCHANGED <<role, changed, tokens, revoked>> /\ UNCHANGED <<failures, guesses, logins, edits>>
        /\ collided' = collided
        /\ call[c].at = "waits" /\ lock[s] = None /\ s \in Sources /\ call[c].user \in People
        /\ \/ Users!Ends(c) /\ lock' = lock
           \/ Users!Steps(c, "verify") /\ lock' = [lock EXCEPT ![s] = c]
    BY <1>0, <1>2 DEF Users!Enter, Users!Admits, Users!table, Stage
  <2>2. TablesTyped' /\ LogTyped'
    BY <1>0, <2>1, TablesStay, LogStays
  <2>3. lock' \in [Sources -> Senders \cup {None}]
        /\ \A d \in Senders \ {c} : call[d].at = "verify" => lock'[call[d].source] = d
    BY <1>0, <2>1 DEF Stage, UsersConstants
  <2>4. call' \in [Senders -> Users!Calls] /\ Stage(c)' /\ \A d \in Senders \ {c} : call'[d] = call[d]
    <3>1. CASE Users!Ends(c)
      BY <3>1, CallEnds DEF Stage
    <3>2. CASE Users!Steps(c, "verify") /\ lock' = [lock EXCEPT ![s] = c]
      <4>1. /\ call' \in [Senders -> Users!Calls] /\ call'[c].at = "verify" /\ call'[c].user = call[c].user
            /\ call'[c].source = s /\ \A d \in Senders \ {c} : call'[d] = call[d]
        BY <3>2, CallSteps
      <4>2. lock'[s] = c
        BY <1>0, <2>1, <3>2
      <4> QED
        BY <2>1, <4>1, <4>2 DEF Stage
    <3> QED
      BY <2>1, <3>1, <3>2
  <2> QED
    BY <1>0, <2>1, <2>2, <2>3, <2>4, UsersKept
<1>3. ASSUME NEW c \in Senders, Users!Verify(c) PROVE UsersTyped'
  <2> DEFINE s == call[c].source
             granted == [call[c] EXCEPT !.at = "grant", !.role = role[call[c].user]]
  <2>1. /\ UNCHANGED <<role, changed, tokens, revoked>> /\ UNCHANGED <<collided, logins, edits>>
        /\ call[c].at = "verify" /\ lock[s] = c /\ s \in Sources /\ call[c].user \in People
        /\ lock' = [lock EXCEPT ![s] = None]
        /\ \/ Users!Exists(call[c].user) /\ Users!Goes(c, granted) /\ UNCHANGED <<failures, guesses>>
           \/ /\ Users!Ends(c) /\ failures' = [failures EXCEPT ![s] = failures[s] + 1]
              /\ guesses' = [guesses EXCEPT ![s] = guesses[s] + 1]
    BY <1>0, <1>3 DEF Users!Verify, Users!table, Stage
  <2>2. TablesTyped'
    BY <1>0, <2>1, TablesStay
  <2>3. LogTyped'
    <3>1. failures' \in [Sources -> Nat] /\ guesses' \in [Sources -> Nat]
      BY <1>0, <2>1 DEF LogTyped
    <3> QED
      BY <1>0, <2>1, <3>1 DEF LogTyped
  <2>4. lock' \in [Sources -> Senders \cup {None}]
        /\ \A d \in Senders \ {c} : call[d].at = "verify" => lock'[call[d].source] = d
    BY <1>0, <2>1 DEF Stage
  <2>5. call' \in [Senders -> Users!Calls] /\ Stage(c)' /\ \A d \in Senders \ {c} : call'[d] = call[d]
    <3>1. CASE Users!Ends(c)
      BY <3>1, CallEnds DEF Stage
    <3>2. CASE Users!Exists(call[c].user) /\ Users!Goes(c, granted)
      <4>1. role[call[c].user] \in Users!Roles /\ call[c] \in Users!Calls
        BY <1>0, <3>2 DEF Users!Exists
      <4>2. /\ granted \in Users!Calls /\ granted.at = "grant" /\ granted.user = call[c].user
            /\ granted.role \in Users!Roles
        BY <4>1 DEF Users!Calls
      <4> HIDE DEF granted
      <4>3. call' \in [Senders -> Users!Calls] /\ call'[c] = granted /\ \A d \in Senders \ {c} : call'[d] = call[d]
        BY <3>2, <4>2, CallGoes
      <4> QED
        BY <2>1, <4>2, <4>3 DEF Stage
    <3> QED
      BY <2>1, <3>1, <3>2
  <2> QED
    BY <1>0, <2>1, <2>2, <2>3, <2>4, <2>5, UsersKept
<1>4. ASSUME NEW c \in Senders, NEW session \in Nat, call[c].at \in {"grant", "mint"}, Users!Issue(c, session),
             UNCHANGED <<role, changed, revoked>>, UNCHANGED <<failures, guesses, logins, edits>>,
             UNCHANGED <<lock, collided>>
      PROVE  UsersTyped'
  <2>1. Users!Ends(c)
    BY <1>4 DEF Users!Issue
  <2>2. tokens' \in Seq(Users!Issued) /\ DOMAIN tokens \subseteq DOMAIN tokens'
    <3>1. Len(tokens) \in Nat /\ DOMAIN tokens = 1..Len(tokens) /\ tokens' \in Seq(Users!Issued)
          /\ DOMAIN tokens' = 1..(Len(tokens) + 1)
      BY <1>4, Issues
    <3> QED
      BY <3>1
  <2>3. TablesTyped'
    BY <1>0, <1>4, <2>2 DEF TablesTyped
  <2>4. call' \in [Senders -> Users!Calls] /\ Stage(c)' /\ \A d \in Senders \ {c} : call'[d] = call[d]
    BY <2>1, CallEnds DEF Stage
  <2>5. \A d \in Senders \ {c} : call[d].at = "verify" => lock'[call[d].source] = d
    BY <1>0, <1>4 DEF Stage
  <2> QED
    BY <1>0, <1>4, <2>2, <2>3, <2>4, <2>5, LogStays, UsersKept
<1>5. ASSUME NEW c \in Senders, Users!Claim(c) PROVE UsersTyped'
  <2>1. /\ UNCHANGED <<role, changed, tokens>> /\ UNCHANGED <<failures, guesses, logins, edits>>
        /\ UNCHANGED <<lock, collided>> /\ call[c].at = "claim"
        /\ revoked' = revoked \cup {call[c].token} /\ call[c].token \in DOMAIN tokens
        /\ Users!Steps(c, "mint") \/ Users!Ends(c)
    BY <1>0, <1>5 DEF Users!Claim, Users!audit, Stage
  <2>2. TablesTyped'
    BY <1>0, <2>1 DEF TablesTyped
  <2>3. call' \in [Senders -> Users!Calls] /\ Stage(c)' /\ \A d \in Senders \ {c} : call'[d] = call[d]
    <3>1. CASE Users!Ends(c)
      BY <3>1, CallEnds DEF Stage
    <3>2. CASE Users!Steps(c, "mint")
      <4>1. /\ call' \in [Senders -> Users!Calls] /\ call'[c].at = "mint" /\ call'[c].user = call[c].user
            /\ call'[c].role = call[c].role /\ call'[c].token = call[c].token
            /\ \A d \in Senders \ {c} : call'[d] = call[d]
        BY <3>2, CallSteps
      <4> QED
        BY <1>0, <2>1, <4>1 DEF Stage
    <3> QED
      BY <2>1, <3>1, <3>2
  <2>4. \A d \in Senders \ {c} : call[d].at = "verify" => lock'[call[d].source] = d
    BY <1>0, <2>1 DEF Stage
  <2> QED
    BY <1>0, <2>1, <2>2, <2>3, <2>4, LogStays, UsersKept
<1>6. ASSUME NEW c \in Senders, NEW t \in DOMAIN tokens, Users!Refresh(c, t) PROVE UsersTyped'
  <2> DEFINE claims == [Users!Idle EXCEPT !.at = "claim", !.user = tokens[t].user, !.role = role[tokens[t].user],
                                          !.token = t]
  <2>1. /\ UNCHANGED <<role, changed, tokens, revoked>> /\ UNCHANGED <<failures, guesses, logins, edits>>
        /\ UNCHANGED <<lock, collided>> /\ Users!Exists(tokens[t].user) /\ Users!Goes(c, claims)
    BY <1>6 DEF Users!Refresh, Users!Active, Users!audit, Users!table
  <2>2. t \in Nat /\ tokens[t] \in Users!Issued
    <3>1. Len(tokens) \in Nat /\ DOMAIN tokens = 1..Len(tokens) /\ tokens \in Seq(Users!Issued)
      BY <1>0, LenProperties DEF TablesTyped
    <3> QED
      BY <3>1, ElementOfSeq
  <2>3. /\ claims \in Users!Calls /\ claims.at = "claim" /\ claims.user = tokens[t].user
        /\ claims.role = role[tokens[t].user] /\ claims.token = t
    BY <2>1, <2>2 DEF Users!Calls, Users!Idle, Users!Issued, Users!Exists
  <2>4. tokens[t].user \in People /\ role[tokens[t].user] \in Users!Roles
    BY <2>1, <2>2 DEF Users!Issued, Users!Exists
  <2> HIDE DEF claims
  <2>5. call' \in [Senders -> Users!Calls] /\ call'[c] = claims /\ \A d \in Senders \ {c} : call'[d] = call[d]
    BY <2>1, <2>3, CallGoes
  <2>6. Stage(c)'
    BY <2>1, <2>3, <2>4, <2>5 DEF Stage
  <2>7. \A d \in Senders \ {c} : call[d].at = "verify" => lock'[call[d].source] = d
    BY <1>0, <2>1 DEF Stage
  <2> QED
    BY <1>0, <2>1, <2>5, <2>6, <2>7, LogStays, TablesStay, UsersKept
<1>7. ASSUME NEW c \in Senders, NEW t \in DOMAIN tokens, NEW u \in People, NEW to \in Users!Roles \cup {"gone"},
             Users!Request(c, t, u, to)
      PROVE  UsersTyped'
  <2> DEFINE acts == [Users!Idle EXCEPT !.at = "act", !.user = tokens[t].user, !.target = u, !.to = to]
  <2>1. /\ UNCHANGED <<role, changed, tokens, revoked>> /\ UNCHANGED <<failures, guesses, logins>>
        /\ UNCHANGED <<lock, collided>> /\ Users!Goes(c, acts) /\ edits < MaxChanges /\ edits' = edits + 1
    BY <1>7 DEF Users!Request, Users!audit, Users!table
  <2>2. tokens[t] \in Users!Issued
    <3>1. Len(tokens) \in Nat /\ DOMAIN tokens = 1..Len(tokens) /\ tokens \in Seq(Users!Issued)
      BY <1>0, LenProperties DEF TablesTyped
    <3> QED
      BY <3>1, ElementOfSeq
  <2>3. acts \in Users!Calls /\ acts.at = "act" /\ acts.user = tokens[t].user /\ acts.target = u /\ acts.to = to
    BY <2>2 DEF Users!Calls, Users!Idle, Users!Issued
  <2>4. tokens[t].user \in People
    BY <2>2 DEF Users!Issued
  <2> HIDE DEF acts
  <2>5. call' \in [Senders -> Users!Calls] /\ call'[c] = acts /\ \A d \in Senders \ {c} : call'[d] = call[d]
    BY <2>1, <2>3, CallGoes
  <2>6. Stage(c)'
    BY <2>3, <2>4, <2>5 DEF Stage
  <2>7. \A d \in Senders \ {c} : call[d].at = "verify" => lock'[call[d].source] = d
    BY <1>0, <2>1 DEF Stage
  <2>8. LogTyped'
    BY <1>0, <2>1 DEF LogTyped, UsersConstants
  <2> QED
    BY <1>0, <2>1, <2>5, <2>6, <2>7, <2>8, TablesStay, UsersKept
<1>8. ASSUME NEW c \in Senders, Users!Act(c) PROVE UsersTyped'
  <2> DEFINE q == call[c]
  <2>1. /\ revoked' = revoked /\ UNCHANGED <<failures, guesses, logins, edits>> /\ lock' = lock
        /\ q.at = "act" /\ q.target \in People /\ q.to \in Users!Roles \cup {"gone"} /\ Users!Ends(c)
        /\ \/ /\ role' = [role EXCEPT ![q.target] = q.to]
              /\ changed' \in {changed, changed \cup {q.target}}
              /\ tokens' = [t \in DOMAIN tokens |->
                              IF tokens[t].user = q.target THEN [tokens[t] EXCEPT !.over = TRUE] ELSE tokens[t]]
           \/ UNCHANGED <<role, changed, tokens>>
    BY <1>0, <1>8 DEF Users!Act, Users!audit, Stage
  <2>2. collided' \in BOOLEAN
    <3>1. collided' = (collided \/ Users!UnderWay(q.target, c)) \/ collided' = collided
      BY <1>8, Zenon DEF Users!Act
    <3> QED
      BY <1>0, <3>1, Zenon
  <2>3. tokens' \in Seq(Users!Issued) /\ DOMAIN tokens' = DOMAIN tokens
    <3>1. CASE UNCHANGED <<role, changed, tokens>>
      BY <1>0, <3>1 DEF TablesTyped
    <3>2. CASE tokens' = [t \in DOMAIN tokens |->
                            IF tokens[t].user = q.target THEN [tokens[t] EXCEPT !.over = TRUE] ELSE tokens[t]]
      BY <3>2, Overs
    <3> QED
      BY <2>1, <3>1, <3>2
  <2>4. TablesTyped'
    BY <1>0, <2>1, <2>3 DEF TablesTyped
  <2>5. call' \in [Senders -> Users!Calls] /\ Stage(c)' /\ \A d \in Senders \ {c} : call'[d] = call[d]
    BY <2>1, CallEnds DEF Stage
  <2>6. \A d \in Senders \ {c} : call[d].at = "verify" => lock'[call[d].source] = d
    BY <1>0, <2>1 DEF Stage
  <2> QED
    BY <1>0, <2>1, <2>2, <2>3, <2>4, <2>5, <2>6, LogStays, UsersKept
<1>9. ASSUME NEW t \in DOMAIN tokens, Users!Logout(t) PROVE UsersTyped'
  <2>1. /\ revoked' = revoked \cup {t} /\ UNCHANGED <<role, changed, tokens>>
        /\ UNCHANGED <<failures, guesses, logins, edits>> /\ UNCHANGED <<lock, call, collided>>
    BY <1>9 DEF Users!Logout, Users!audit
  <2>2. TablesTyped'
    BY <1>0, <2>1 DEF TablesTyped
  <2>3. \A c \in Senders : Stage(c)'
    BY <1>0, <2>1 DEF Stage
  <2> QED
    BY <1>0, <2>1, <2>2, <2>3, LogStays DEF UsersTyped, Users!TypeOK, TablesTyped, LogTyped
<1>10. ASSUME NEW s \in Sources, Users!Forget(s) PROVE UsersTyped'
  <2>1. /\ UNCHANGED <<role, changed, tokens, revoked>> /\ UNCHANGED <<lock, call, collided>>
        /\ UNCHANGED <<logins, edits>> /\ failures[s] > 0 /\ failures' = [failures EXCEPT ![s] = failures[s] - 1]
        /\ \E g \in {guesses[s], guesses[s] - 1} : g \in 0..failures'[s] /\ guesses' = [guesses EXCEPT ![s] = g]
    BY <1>10 DEF Users!Forget, Users!table
  <2>2. LogTyped'
    <3>1. failures' \in [Sources -> Nat] /\ guesses' \in [Sources -> Nat]
      BY <1>0, <2>1 DEF LogTyped
    <3> QED
      BY <1>0, <2>1, <3>1 DEF LogTyped
  <2>3. \A c \in Senders : Stage(c)'
    BY <1>0, <2>1 DEF Stage
  <2> QED
    BY <1>0, <2>1, <2>2, <2>3, TablesStay DEF UsersTyped, Users!TypeOK, TablesTyped, LogTyped
<1>11. CASE Users!Second \/ UNCHANGED Users!vars
  <2>1. /\ changed' \in {changed, {}} /\ UNCHANGED <<role, tokens, revoked>> /\ UNCHANGED <<lock, call, collided>>
        /\ UNCHANGED <<failures, guesses, logins, edits>>
    BY <1>11 DEF Users!Second, Users!vars, Users!table, Users!audit
  <2>2. TablesTyped'
    BY <1>0, <2>1 DEF TablesTyped
  <2>3. \A c \in Senders : Stage(c)'
    BY <1>0, <2>1 DEF Stage
  <2> QED
    BY <1>0, <2>1, <2>2, <2>3, LogStays DEF UsersTyped, Users!TypeOK, TablesTyped, LogTyped
<1>12. ASSUME NEW c \in Senders, Users!Mint(c) PROVE UsersTyped'
  <2>1. /\ call[c].at = "mint" /\ Users!Issue(c, tokens[call[c].token].session) /\ UNCHANGED <<role, changed, revoked>>
        /\ UNCHANGED <<failures, guesses, logins, edits>> /\ UNCHANGED <<lock, collided>>
    BY <1>12 DEF Users!Mint, Users!audit
  <2>2. tokens[call[c].token].session \in Nat
    <3>1. Len(tokens) \in Nat /\ DOMAIN tokens = 1..Len(tokens) /\ tokens \in Seq(Users!Issued)
      BY <1>0, LenProperties DEF TablesTyped
    <3>2. tokens[call[c].token] \in Users!Issued
      BY <1>0, <2>1, <3>1, ElementOfSeq DEF Stage
    <3> QED
      BY <3>2 DEF Users!Issued
  <2> QED
    BY <1>4, <2>1, <2>2
<1>13. ASSUME NEW c \in Senders, Users!Grant(c) PROVE UsersTyped'
  <2>1. /\ call[c].at = "grant" /\ Users!Issue(c, Users!Cardinality(Users!Sessions) + 1)
        /\ UNCHANGED <<role, changed, revoked>>
        /\ UNCHANGED <<failures, guesses, logins, edits>> /\ UNCHANGED <<lock, collided>>
    BY <1>13 DEF Users!Grant, Users!audit
  <2>2. Users!Cardinality(Users!Sessions) + 1 \in Nat
    BY SessionsCount
  <2> QED
    BY <1>4, <2>1, <2>2
<1> QED
  BY <1>1, <1>2, <1>3, <1>5, <1>6, <1>7, <1>8, <1>9, <1>10, <1>11, <1>12, <1>13, UsersMoves

-----------------------------------------------------------------------------
\* The sessions stay numbered so: a login opens the next one, a refresh none.
LEMMA SessionsStep ==
  ASSUME UsersConstants, UsersTyped, SessionsRun, [Users!Next]_(Users!vars)
  PROVE  SessionsRun'
<1> DEFINE n == Users!Cardinality(Users!Sessions)
<1>0. /\ n \in Nat /\ Users!Sessions = 1..n
      /\ Users!Sessions = {tokens[t].session : t \in DOMAIN tokens}
      /\ Users!Sessions' = {tokens'[t].session : t \in DOMAIN tokens'}
  BY SessionsCount DEF Users!Sessions
<1> HIDE DEF n
<1>1. ASSUME tokens' = tokens PROVE SessionsRun'
  BY <1>0, <1>1 DEF SessionsRun
<1>2. ASSUME NEW c \in Senders, call[c].at \in {"grant", "mint"}, NEW session \in 1..(n + 1),
             Users!Issue(c, session)
      PROVE  SessionsRun'
  <2>1. /\ Len(tokens) \in Nat /\ DOMAIN tokens = 1..Len(tokens)
        /\ DOMAIN tokens' = 1..(Len(tokens) + 1)
        /\ \A t \in DOMAIN tokens : tokens'[t] = tokens[t]
        /\ tokens'[Len(tokens) + 1] = [user |-> call[c].user, session |-> session, role |-> call[c].role,
                                       over |-> call[c].user \in changed]
    BY <1>0, <1>2, Issues
  <2>2. tokens'[Len(tokens) + 1].session = session
    BY <2>1
  <2>3. DOMAIN tokens' = DOMAIN tokens \cup {Len(tokens) + 1}
    BY <2>1
  <2>4. Users!Sessions' = Users!Sessions \cup {session}
    BY <1>0, <2>1, <2>2, <2>3
  <2>5. Users!Sessions' = 1..n \/ Users!Sessions' = 1..(n + 1)
    BY <1>0, <2>4
  <2> QED
    BY <1>0, <2>5 DEF SessionsRun
<1>3. ASSUME NEW c \in Senders, Users!Act(c) PROVE SessionsRun'
  <2>1. CASE tokens' = tokens
    BY <1>1, <2>1
  <2>2. CASE tokens' = [t \in DOMAIN tokens |->
                          IF tokens[t].user = call[c].target THEN [tokens[t] EXCEPT !.over = TRUE] ELSE tokens[t]]
    <3>1. DOMAIN tokens' = DOMAIN tokens /\ \A t \in DOMAIN tokens : tokens'[t].session = tokens[t].session
      BY <2>2, Overs
    <3>2. Users!Sessions' = Users!Sessions
      BY <1>0, <3>1
    <3> QED
      BY <1>0, <3>2 DEF SessionsRun
  <2> QED
    BY <1>3, <2>1, <2>2 DEF Users!Act
<1>4. ASSUME NEW c \in Senders, Users!Grant(c) PROVE SessionsRun'
  <2>1. call[c].at = "grant" /\ Users!Issue(c, n + 1) /\ n + 1 \in 1..(n + 1)
    BY <1>0, <1>4 DEF Users!Grant, n
  <2> QED
    BY <1>2, <2>1
<1>5. ASSUME NEW c \in Senders, Users!Mint(c) PROVE SessionsRun'
  <2>1. call[c].at = "mint" /\ Users!Issue(c, tokens[call[c].token].session) /\ call[c].token \in DOMAIN tokens
    BY <1>5 DEF Users!Mint, UsersTyped, Stage
  <2>2. tokens[call[c].token].session \in Users!Sessions
    BY <1>0, <2>1
  <2>3. tokens[call[c].token].session \in 1..(n + 1)
    BY <1>0, <2>2
  <2> QED
    BY <1>2, <2>1, <2>3
<1>6. \A c \in Senders : Users!Enter(c) \/ Users!Verify(c) \/ Users!Claim(c) => tokens' = tokens
  BY DEF Users!Enter, Users!Verify, Users!Claim, Users!table
<1>7. /\ \A c \in Senders, u \in People, s \in Sources : Users!Login(c, u, s) => tokens' = tokens
      /\ \A c \in Senders, t \in DOMAIN tokens : Users!Refresh(c, t) => tokens' = tokens
      /\ \A c \in Senders, t \in DOMAIN tokens, u \in People, to \in Users!Roles \cup {"gone"} :
           Users!Request(c, t, u, to) => tokens' = tokens
  BY DEF Users!Login, Users!Refresh, Users!Request, Users!table
<1>8. /\ \A t \in DOMAIN tokens : Users!Logout(t) => tokens' = tokens
      /\ \A s \in Sources : Users!Forget(s) => tokens' = tokens
      /\ Users!Second \/ UNCHANGED Users!vars => tokens' = tokens
  BY DEF Users!Logout, Users!Forget, Users!Second, Users!vars, Users!table
<1> QED
  BY <1>1, <1>3, <1>4, <1>5, <1>6, <1>7, <1>8, UsersMoves

-----------------------------------------------------------------------------
\* A source's wrong passwords are all among its failures, and who checks one is the
\* only one of its source to do so.
GuessInv ==
  /\ \A s \in Sources : guesses[s] <= failures[s] /\ guesses[s] <= Limit
  /\ \A c \in Senders : call[c].at = "verify" => guesses[call[c].source] < Limit
LEMMA GuessStep ==
  ASSUME UsersConstants, UsersTyped, GuessInv, [Users!Next]_(Users!vars)
  PROVE  GuessInv'
<1>0. /\ failures \in [Sources -> Nat] /\ guesses \in [Sources -> Nat] /\ Limit \in Nat
      /\ call \in [Senders -> Users!Calls] /\ \A c \in Senders : Stage(c)
      /\ lock \in [Sources -> Senders \cup {None}] /\ None \notin Senders
  BY UsersParts DEF LogTyped, UsersConstants
<1>1. ASSUME UNCHANGED <<failures, guesses>>, NEW c \in Senders, \A d \in Senders \ {c} : call'[d] = call[d],
             call'[c].at # "verify"
      PROVE  GuessInv'
  BY <1>0, <1>1 DEF GuessInv
<1>2. ASSUME UNCHANGED <<failures, guesses, call>> PROVE GuessInv'
  BY <1>0, <1>2 DEF GuessInv
<1>3. ASSUME NEW c \in Senders, NEW u \in People, NEW s \in Sources, Users!Login(c, u, s) PROVE GuessInv'
  <2> DEFINE waits == [Users!Idle EXCEPT !.at = "waits", !.user = u, !.source = s]
  <2>1. /\ guesses' = guesses
        /\ \/ Users!Goes(c, waits) /\ failures' = failures
           \/ call' = call /\ failures' = [failures EXCEPT ![s] = failures[s] + 1]
    BY <1>3 DEF Users!Login
  <2>2. waits \in Users!Calls /\ waits.at = "waits"
    BY DEF Users!Calls, Users!Idle
  <2> HIDE DEF waits
  <2>3. CASE Users!Goes(c, waits) /\ failures' = failures
    <3>1. call'[c] = waits /\ \A d \in Senders \ {c} : call'[d] = call[d]
      BY <2>2, <2>3, CallGoes
    <3> QED
      BY <1>1, <2>1, <2>2, <2>3, <3>1
  <2>4. CASE call' = call /\ failures' = [failures EXCEPT ![s] = failures[s] + 1]
    BY <1>0, <2>1, <2>4 DEF GuessInv
  <2> QED
    BY <2>1, <2>3, <2>4
<1>4. ASSUME NEW c \in Senders, Users!Enter(c) PROVE GuessInv'
  <2> DEFINE s == call[c].source
  <2>1. UNCHANGED <<failures, guesses>> /\ s \in Sources
        /\ (Users!Ends(c) \/ (Users!Steps(c, "verify") /\ failures[s] < Limit))
    BY <1>0, <1>4 DEF Users!Enter, Stage
  <2>2. CASE Users!Ends(c)
    BY <1>1, <2>1, <2>2, CallEnds
  <2>3. CASE Users!Steps(c, "verify") /\ failures[s] < Limit
    <3>1. call'[c].source = s /\ \A d \in Senders \ {c} : call'[d] = call[d]
      BY <2>3, CallSteps
    <3>2. guesses[s] < Limit
      BY <1>0, <2>1, <2>3 DEF GuessInv
    <3> QED
      BY <1>0, <2>1, <3>1, <3>2 DEF GuessInv
  <2> QED
    BY <2>1, <2>2, <2>3
<1>5. ASSUME NEW c \in Senders, Users!Verify(c) PROVE GuessInv'
  <2> DEFINE s == call[c].source
             granted == [call[c] EXCEPT !.at = "grant", !.role = role[call[c].user]]
  <2>1. /\ call[c].at = "verify" /\ lock[s] = c /\ s \in Sources
        /\ \/ Users!Exists(call[c].user) /\ Users!Goes(c, granted) /\ UNCHANGED <<failures, guesses>>
           \/ /\ Users!Ends(c) /\ failures' = [failures EXCEPT ![s] = failures[s] + 1]
              /\ guesses' = [guesses EXCEPT ![s] = guesses[s] + 1]
    BY <1>0, <1>5 DEF Users!Verify, Stage
  <2>2. CASE Users!Exists(call[c].user) /\ Users!Goes(c, granted) /\ UNCHANGED <<failures, guesses>>
    <3>1. role[call[c].user] \in Users!Roles /\ call[c] \in Users!Calls
      BY <1>0, <2>2 DEF Users!Exists
    <3>2. granted \in Users!Calls /\ granted.at = "grant"
      BY <3>1 DEF Users!Calls
    <3> HIDE DEF granted
    <3>3. call'[c] = granted /\ \A d \in Senders \ {c} : call'[d] = call[d]
      BY <2>2, <3>2, CallGoes
    <3> QED
      BY <1>1, <2>2, <3>2, <3>3
  <2>3. CASE /\ Users!Ends(c) /\ failures' = [failures EXCEPT ![s] = failures[s] + 1]
             /\ guesses' = [guesses EXCEPT ![s] = guesses[s] + 1]
    <3>1. call'[c].at = "rest" /\ \A d \in Senders \ {c} : call'[d] = call[d]
      BY <2>3, CallEnds
    <3>2. guesses[s] < Limit /\ guesses[s] <= failures[s]
      BY <2>1 DEF GuessInv
    <3>3. \A x \in Sources : guesses'[x] <= failures'[x] /\ guesses'[x] <= Limit
      BY <1>0, <2>1, <2>3, <3>2 DEF GuessInv
    <3>4. ASSUME NEW d \in Senders, call'[d].at = "verify" PROVE guesses'[call'[d].source] < Limit
      <4>1. d # c /\ call'[d] = call[d] /\ call[d].at = "verify" /\ call[d].source \in Sources
            /\ lock[call[d].source] = d
        BY <1>0, <3>1, <3>4 DEF Stage
      <4>2. call[d].source # s
        BY <2>1, <4>1
      <4> QED
        BY <1>0, <2>1, <2>3, <4>1, <4>2 DEF GuessInv
    <3> QED
      BY <3>3, <3>4 DEF GuessInv
  <2> QED
    BY <2>1, <2>2, <2>3
<1>6. ASSUME NEW s \in Sources, Users!Forget(s) PROVE GuessInv'
  <2>1. /\ call' = call /\ failures[s] > 0 /\ failures' = [failures EXCEPT ![s] = failures[s] - 1]
        /\ \E g \in {guesses[s], guesses[s] - 1} : g \in 0..failures'[s] /\ guesses' = [guesses EXCEPT ![s] = g]
    BY <1>6 DEF Users!Forget
  <2>2. PICK g \in {guesses[s], guesses[s] - 1} : g \in 0..failures'[s] /\ guesses' = [guesses EXCEPT ![s] = g]
    BY <2>1
  <2>3. /\ guesses[s] \in Nat /\ failures[s] \in Nat /\ failures'[s] = failures[s] - 1
        /\ guesses'[s] = g /\ g <= guesses[s] /\ g <= failures'[s]
        /\ \A x \in Sources \ {s} : guesses'[x] = guesses[x] /\ failures'[x] = failures[x]
    BY <1>0, <2>1, <2>2
  <2>4. \A x \in Sources : guesses'[x] <= failures'[x] /\ guesses'[x] <= guesses[x]
                            /\ guesses'[x] \in Int /\ guesses[x] \in Nat
    BY <1>0, <2>2, <2>3 DEF GuessInv
  <2>5. \A c \in Senders : call[c].at = "verify" => call[c].source \in Sources
    BY <1>0 DEF Stage
  <2> QED
    BY <1>0, <2>1, <2>4, <2>5 DEF GuessInv
<1>7. ASSUME NEW c \in Senders, Users!Grant(c) \/ Users!Mint(c) \/ Users!Act(c) PROVE GuessInv'
  <2>1. UNCHANGED <<failures, guesses>> /\ Users!Ends(c)
    BY <1>7 DEF Users!Grant, Users!Mint, Users!Act, Users!Issue, Users!audit
  <2> QED
    BY <1>1, <2>1, CallEnds
<1>8. ASSUME NEW c \in Senders, Users!Claim(c) PROVE GuessInv'
  <2>1. UNCHANGED <<failures, guesses>> /\ (Users!Steps(c, "mint") \/ Users!Ends(c))
    BY <1>8 DEF Users!Claim, Users!audit
  <2>2. call'[c].at # "verify" /\ \A d \in Senders \ {c} : call'[d] = call[d]
    BY <2>1, CallEnds, CallSteps
  <2> QED
    BY <1>1, <2>1, <2>2
<1>9. ASSUME NEW c \in Senders, NEW t \in DOMAIN tokens, Users!Refresh(c, t) PROVE GuessInv'
  <2>1. UNCHANGED <<failures, guesses>>
        /\ call' = [call EXCEPT ![c] = [Users!Idle EXCEPT !.at = "claim", !.user = tokens[t].user,
                                         !.role = role[tokens[t].user], !.token = t]]
    BY <1>9 DEF Users!Refresh, Users!Goes, Users!audit
  <2>2. call'[c].at # "verify" /\ \A d \in Senders \ {c} : call'[d] = call[d]
    BY <1>0, <2>1 DEF Users!Idle
  <2> QED
    BY <1>1, <2>1, <2>2
<1>10. ASSUME NEW c \in Senders, NEW t \in DOMAIN tokens, NEW u \in People, NEW to \in Users!Roles \cup {"gone"},
              Users!Request(c, t, u, to)
       PROVE  GuessInv'
  <2>1. UNCHANGED <<failures, guesses>>
        /\ call' = [call EXCEPT ![c] = [Users!Idle EXCEPT !.at = "act", !.user = tokens[t].user,
                                         !.target = u, !.to = to]]
    BY <1>10 DEF Users!Request, Users!Goes, Users!audit
  <2>2. call'[c].at # "verify" /\ \A d \in Senders \ {c} : call'[d] = call[d]
    BY <1>0, <2>1 DEF Users!Idle
  <2> QED
    BY <1>1, <2>1, <2>2
<1>11. \A t \in DOMAIN tokens : Users!Logout(t) => GuessInv'
  BY <1>2 DEF Users!Logout, Users!audit
<1>12. Users!Second \/ UNCHANGED Users!vars => GuessInv'
  BY <1>2 DEF Users!Second, Users!vars, Users!audit
<1> QED
  BY <1>3, <1>4, <1>5, <1>6, <1>7, <1>8, <1>9, <1>10, <1>11, <1>12, UsersMoves

-----------------------------------------------------------------------------
\* A session is carried on by one good token, or by one refresh that took the last one.
HeirInv ==
  /\ \A t1, t2 \in DOMAIN tokens \ revoked : tokens[t1].session = tokens[t2].session => t1 = t2
  /\ \A c, d \in Senders :
       call[c].at = "mint" /\ call[d].at = "mint" /\ tokens[call[c].token].session = tokens[call[d].token].session
         => c = d
  /\ \A c \in Senders, t \in DOMAIN tokens \ revoked :
       call[c].at = "mint" => tokens[call[c].token].session # tokens[t].session
LEMMA HeirStep ==
  ASSUME UsersConstants, UsersTyped, SessionsRun, HeirInv, [Users!Next]_(Users!vars)
  PROVE  HeirInv'
<1>0. /\ tokens \in Seq(Users!Issued) /\ revoked \subseteq DOMAIN tokens
      /\ call \in [Senders -> Users!Calls] /\ \A c \in Senders : Stage(c)
      /\ \A c \in Senders : call[c].at = "mint" => call[c].token \in DOMAIN tokens
      /\ Len(tokens) \in Nat /\ DOMAIN tokens = 1..Len(tokens)
  BY UsersParts, LenProperties DEF TablesTyped, Stage
\* Nobody begins to mint: fewer tokens are good.
<1>1. ASSUME DOMAIN tokens' = DOMAIN tokens, \A t \in DOMAIN tokens : tokens'[t].session = tokens[t].session,
             revoked \subseteq revoked',
             \A c \in Senders : call'[c].at = "mint" => call'[c] = call[c]
      PROVE  HeirInv'
  BY <1>0, <1>1 DEF HeirInv
<1>2. ASSUME tokens' = tokens, revoked' = revoked, NEW c \in Senders, \A d \in Senders \ {c} : call'[d] = call[d],
             call'[c].at # "mint"
      PROVE  HeirInv'
  BY <1>1, <1>2
<1>3. ASSUME NEW c \in Senders, NEW u \in People, NEW s \in Sources, Users!Login(c, u, s) PROVE HeirInv'
  <2>1. /\ UNCHANGED <<tokens, revoked>>
        /\ \/ call' = call
           \/ call' = [call EXCEPT ![c] = [Users!Idle EXCEPT !.at = "waits", !.user = u, !.source = s]]
    BY <1>3 DEF Users!Login, Users!Goes, Users!table
  <2>2. \A d \in Senders : call'[d].at = "mint" => call'[d] = call[d]
    BY <1>0, <2>1 DEF Users!Idle
  <2> QED
    BY <1>1, <2>1, <2>2
<1>4. ASSUME NEW c \in Senders, Users!Enter(c) PROVE HeirInv'
  <2>1. UNCHANGED <<tokens, revoked>> /\ (Users!Ends(c) \/ Users!Steps(c, "verify"))
    BY <1>4 DEF Users!Enter, Users!table
  <2> QED
    BY <1>2, <2>1, CallEnds, CallSteps
<1>5. ASSUME NEW c \in Senders, Users!Verify(c) PROVE HeirInv'
  <2>1. /\ UNCHANGED <<tokens, revoked>> /\ call[c].at = "verify"
        /\ \/ call' = [call EXCEPT ![c] = [call[c] EXCEPT !.at = "grant", !.role = role[call[c].user]]]
           \/ Users!Ends(c)
    BY <1>5 DEF Users!Verify, Users!Goes, Users!table
  <2>2. CASE Users!Ends(c)
    BY <1>2, <2>1, <2>2, CallEnds
  <2>3. CASE call' = [call EXCEPT ![c] = [call[c] EXCEPT !.at = "grant", !.role = role[call[c].user]]]
    <3>1. call[c] \in Users!Calls
      BY <1>0
    <3>2. call'[c].at = "grant" /\ \A d \in Senders \ {c} : call'[d] = call[d]
      BY <1>0, <2>3, <3>1 DEF Users!Calls
    <3> QED
      BY <1>2, <2>1, <3>2
  <2> QED
    BY <2>1, <2>2, <2>3
\* A login opens a session of its own.
<1>6. ASSUME NEW c \in Senders, Users!Grant(c) PROVE HeirInv'
  <2> DEFINE n == Users!Cardinality(Users!Sessions)
             new == Len(tokens) + 1
  <2>1. /\ call[c].at = "grant" /\ Users!Issue(c, n + 1) /\ Users!Ends(c) /\ revoked' = revoked
        /\ n \in Nat /\ Users!Sessions = 1..n
    BY <1>6, SessionsCount DEF Users!Grant, Users!Issue
  <2>2. \A t \in DOMAIN tokens : tokens[t].session \in 1..n
    BY <2>1 DEF Users!Sessions
  <2>3. /\ DOMAIN tokens' = 1..new /\ \A t \in DOMAIN tokens : tokens'[t] = tokens[t]
        /\ tokens'[new] = [user |-> call[c].user, session |-> n + 1, role |-> call[c].role,
                          over |-> call[c].user \in changed]
    BY <2>1, Issues
  <2>4. tokens'[new].session = n + 1 /\ DOMAIN tokens' = DOMAIN tokens \cup {new} /\ new \notin DOMAIN tokens
    BY <1>0, <2>3
  <2>5. call'[c].at = "rest" /\ \A d \in Senders \ {c} : call'[d] = call[d]
    BY <2>1, CallEnds
  <2>6. \A d \in Senders : call'[d].at = "mint" => /\ call[d].at = "mint" /\ call'[d] = call[d]
                                                   /\ call[d].token \in DOMAIN tokens
                                                   /\ tokens'[call'[d].token] = tokens[call[d].token]
                                                   /\ tokens'[call'[d].token].session \in 1..n
    BY <1>0, <2>2, <2>3, <2>5
  <2>7. n + 1 \notin 1..n
    BY <2>1
  <2>8. \A t \in DOMAIN tokens' :
          \/ t = new /\ tokens'[t].session \notin 1..n
          \/ t \in DOMAIN tokens /\ tokens'[t] = tokens[t] /\ tokens'[t].session \in 1..n
    BY <2>2, <2>3, <2>4, <2>7
  <2> HIDE DEF n, new
  <2>9. \A t1, t2 \in DOMAIN tokens' \ revoked' : tokens'[t1].session = tokens'[t2].session => t1 = t2
    BY <2>1, <2>8 DEF HeirInv
  <2>10. \A d \in Senders, t \in DOMAIN tokens' \ revoked' :
           call'[d].at = "mint" => tokens'[call'[d].token].session # tokens'[t].session
    BY <2>1, <2>6, <2>8 DEF HeirInv
  <2>11. \A d, e \in Senders :
           call'[d].at = "mint" /\ call'[e].at = "mint"
             /\ tokens'[call'[d].token].session = tokens'[call'[e].token].session => d = e
    BY <2>6 DEF HeirInv
  <2> QED
    BY <2>9, <2>10, <2>11 DEF HeirInv
\* Who takes a token that is not revoked yet takes the session's only one.
<1>7. ASSUME NEW c \in Senders, Users!Claim(c) PROVE HeirInv'
  <2> DEFINE t == call[c].token
  <2>1. /\ tokens' = tokens /\ revoked' = revoked \cup {t} /\ t \in DOMAIN tokens
        /\ (Users!Ends(c) \/ (Users!Steps(c, "mint") /\ t \notin revoked))
    BY <1>0, <1>7 DEF Users!Claim, Users!Claimed, Stage
  <2>2. CASE Users!Ends(c)
    <3>1. call'[c].at = "rest" /\ \A d \in Senders \ {c} : call'[d] = call[d]
      BY <2>2, CallEnds
    <3> QED
      BY <1>1, <2>1, <3>1
  <2>3. CASE Users!Steps(c, "mint") /\ t \notin revoked
    <3>1. call'[c].token = t /\ call'[c].at = "mint" /\ \A d \in Senders \ {c} : call'[d] = call[d]
      BY <2>3, CallSteps
    <3>2. \A x \in DOMAIN tokens \ revoked : tokens[x].session = tokens[t].session => x = t
      BY <2>1, <2>3 DEF HeirInv
    <3>3. \A d \in Senders : call[d].at = "mint" => tokens[call[d].token].session # tokens[t].session
      BY <2>1, <2>3 DEF HeirInv
    <3>4. \A x \in DOMAIN tokens' \ revoked' : x \in DOMAIN tokens \ revoked /\ x # t
      BY <2>1
    <3> HIDE DEF t
    <3>5. \A t1, t2 \in DOMAIN tokens' \ revoked' : tokens'[t1].session = tokens'[t2].session => t1 = t2
      BY <2>1, <3>4 DEF HeirInv
    <3>6. ASSUME NEW d \in Senders, NEW e \in Senders, call'[d].at = "mint", call'[e].at = "mint",
                 tokens'[call'[d].token].session = tokens'[call'[e].token].session
          PROVE  d = e
      BY <2>1, <3>1, <3>3, <3>6 DEF HeirInv
    <3>7. \A d \in Senders, x \in DOMAIN tokens' \ revoked' :
            call'[d].at = "mint" => tokens'[call'[d].token].session # tokens'[x].session
      BY <2>1, <3>1, <3>2, <3>4 DEF HeirInv
    <3> QED
      BY <3>5, <3>6, <3>7 DEF HeirInv
  <2> QED
    BY <2>1, <2>2, <2>3
\* The new token carries on the session its refresh took over.
<1>8. ASSUME NEW c \in Senders, Users!Mint(c) PROVE HeirInv'
  <2> DEFINE n == tokens[call[c].token].session
             new == Len(tokens) + 1
  <2>1. /\ call[c].at = "mint" /\ Users!Issue(c, n) /\ Users!Ends(c) /\ revoked' = revoked
        /\ call[c].token \in DOMAIN tokens
    BY <1>0, <1>8 DEF Users!Mint, Users!Issue
  <2>2. n \in Nat
    <3>1. tokens[call[c].token] \in Users!Issued
      BY <1>0, <2>1, ElementOfSeq
    <3> QED
      BY <3>1 DEF Users!Issued
  <2>3. /\ DOMAIN tokens' = 1..new /\ \A t \in DOMAIN tokens : tokens'[t] = tokens[t]
        /\ tokens'[new] = [user |-> call[c].user, session |-> n, role |-> call[c].role,
                          over |-> call[c].user \in changed]
    BY <2>1, <2>2, Issues
  <2>4. tokens'[new].session = n /\ DOMAIN tokens' = DOMAIN tokens \cup {new} /\ new \notin DOMAIN tokens
    BY <1>0, <2>3
  <2>5. call'[c].at = "rest" /\ \A d \in Senders \ {c} : call'[d] = call[d]
    BY <2>1, CallEnds
  <2>6. \A d \in Senders : call'[d].at = "mint" => /\ d # c /\ call[d].at = "mint" /\ call'[d] = call[d]
                                                   /\ call[d].token \in DOMAIN tokens
                                                   /\ tokens'[call'[d].token] = tokens[call[d].token]
    BY <1>0, <2>3, <2>5
  <2>7. \A t \in DOMAIN tokens' \ revoked' :
          \/ t = new /\ tokens'[t].session = n
          \/ t \in DOMAIN tokens \ revoked /\ tokens'[t] = tokens[t]
    BY <2>1, <2>3, <2>4
  <2>8. \A t \in DOMAIN tokens \ revoked : tokens[t].session # n
    BY <2>1 DEF HeirInv
  <2>9. \A d \in Senders \ {c} : call[d].at = "mint" => tokens[call[d].token].session # n
    BY <2>1 DEF HeirInv
  <2> HIDE DEF n, new
  <2>10. \A t1, t2 \in DOMAIN tokens' \ revoked' : tokens'[t1].session = tokens'[t2].session => t1 = t2
    BY <2>7, <2>8 DEF HeirInv
  <2>11. \A d \in Senders, t \in DOMAIN tokens' \ revoked' :
           call'[d].at = "mint" => tokens'[call'[d].token].session # tokens'[t].session
    BY <2>6, <2>7, <2>9 DEF HeirInv
  <2>12. \A d, e \in Senders :
           call'[d].at = "mint" /\ call'[e].at = "mint"
             /\ tokens'[call'[d].token].session = tokens'[call'[e].token].session => d = e
    BY <2>6 DEF HeirInv
  <2> QED
    BY <2>10, <2>11, <2>12 DEF HeirInv
<1>9. ASSUME NEW c \in Senders, Users!Act(c) PROVE HeirInv'
  <2>1. /\ revoked' = revoked /\ Users!Ends(c)
        /\ \/ tokens' = tokens
           \/ tokens' = [t \in DOMAIN tokens |->
                           IF tokens[t].user = call[c].target THEN [tokens[t] EXCEPT !.over = TRUE] ELSE tokens[t]]
    BY <1>9 DEF Users!Act
  <2>2. DOMAIN tokens' = DOMAIN tokens /\ \A t \in DOMAIN tokens : tokens'[t].session = tokens[t].session
    BY <2>1, Overs
  <2>3. call'[c].at = "rest" /\ \A d \in Senders \ {c} : call'[d] = call[d]
    BY <2>1, CallEnds
  <2> QED
    BY <1>1, <2>1, <2>2, <2>3
<1>10. ASSUME NEW c \in Senders, NEW t \in DOMAIN tokens, Users!Refresh(c, t) PROVE HeirInv'
  <2>1. UNCHANGED <<tokens, revoked>>
        /\ call' = [call EXCEPT ![c] = [Users!Idle EXCEPT !.at = "claim", !.user = tokens[t].user,
                                         !.role = role[tokens[t].user], !.token = t]]
    BY <1>10 DEF Users!Refresh, Users!Goes, Users!table
  <2>2. call'[c].at # "mint" /\ \A d \in Senders \ {c} : call'[d] = call[d]
    BY <1>0, <2>1 DEF Users!Idle
  <2> QED
    BY <1>2, <2>1, <2>2
<1>11. ASSUME NEW c \in Senders, NEW t \in DOMAIN tokens, NEW u \in People, NEW to \in Users!Roles \cup {"gone"},
              Users!Request(c, t, u, to)
       PROVE  HeirInv'
  <2>1. UNCHANGED <<tokens, revoked>>
        /\ call' = [call EXCEPT ![c] = [Users!Idle EXCEPT !.at = "act", !.user = tokens[t].user,
                                         !.target = u, !.to = to]]
    BY <1>11 DEF Users!Request, Users!Goes, Users!table
  <2>2. call'[c].at # "mint" /\ \A d \in Senders \ {c} : call'[d] = call[d]
    BY <1>0, <2>1 DEF Users!Idle
  <2> QED
    BY <1>2, <2>1, <2>2
<1>12. \A t \in DOMAIN tokens : Users!Logout(t) => HeirInv'
  BY <1>1 DEF Users!Logout
<1>13. ASSUME (\E s \in Sources : Users!Forget(s)) \/ Users!Second \/ UNCHANGED Users!vars PROVE HeirInv'
  <2>1. UNCHANGED <<tokens, revoked, call>>
    BY <1>13 DEF Users!Forget, Users!Second, Users!vars, Users!table
  <2> QED
    BY <1>1, <2>1
<1> QED
  BY <1>3, <1>4, <1>5, <1>6, <1>7, <1>8, <1>9, <1>10, <1>11, <1>12, <1>13, UsersMoves

-----------------------------------------------------------------------------
\* While nobody was changed in the middle of a request of theirs, a token that counts and
\* a request under way have the role the user has now; so who acts is an admin, and is
\* one after it.
Roled ==
  /\ \E u \in People : role[u] = "admin"
  /\ \A t \in DOMAIN tokens : Users!Active(t) => tokens[t].role = role[tokens[t].user]
  /\ \A c \in Senders : call[c].at \in {"grant", "claim", "mint"} => call[c].role = role[call[c].user]
  /\ \A c \in Senders : call[c].at = "act" => role[call[c].user] = "admin"
RoleInv == collided \/ Roled
LEMMA RoledStep ==
  ASSUME UsersConstants, UsersTyped, SessionsRun, Roled, [Users!Next]_(Users!vars)
  PROVE  collided' \/ Roled'
<1>0. /\ tokens \in Seq(Users!Issued) /\ role \in [People -> Users!Roles \cup {"new", "gone"}]
      /\ call \in [Senders -> Users!Calls] /\ \A c \in Senders : Stage(c)
      /\ Len(tokens) \in Nat /\ DOMAIN tokens = 1..Len(tokens)
      /\ \A t \in DOMAIN tokens : tokens[t] \in Users!Issued
  BY UsersParts, LenProperties, ElementOfSeq DEF TablesTyped
\* The roles and the tokens stay, and one request goes on as it may.
<1>1. ASSUME UNCHANGED <<role, tokens>>, NEW c \in Senders, \A d \in Senders \ {c} : call'[d] = call[d],
             call'[c].at \in {"grant", "claim", "mint"} => call'[c].role = role[call'[c].user],
             call'[c].at = "act" => role[call'[c].user] = "admin"
      PROVE  Roled'
  <2>1. \A t \in DOMAIN tokens : Users!Active(t)' <=> Users!Active(t)
    BY <1>1 DEF Users!Active, Users!Exists
  <2> QED
    BY <1>1, <2>1 DEF Roled
<1>2. ASSUME UNCHANGED <<role, tokens, call>> PROVE Roled'
  <2>1. \A t \in DOMAIN tokens : Users!Active(t)' <=> Users!Active(t)
    BY <1>2 DEF Users!Active, Users!Exists
  <2> QED
    BY <1>2, <2>1 DEF Roled
<1>3. ASSUME NEW c \in Senders, NEW u \in People, NEW s \in Sources, Users!Login(c, u, s) PROVE Roled'
  <2>1. /\ UNCHANGED <<role, tokens>>
        /\ \/ call' = call
           \/ call' = [call EXCEPT ![c] = [Users!Idle EXCEPT !.at = "waits", !.user = u, !.source = s]]
    BY <1>3 DEF Users!Login, Users!Goes, Users!table
  <2>2. CASE call' = call
    BY <1>2, <2>1, <2>2
  <2>3. CASE call' = [call EXCEPT ![c] = [Users!Idle EXCEPT !.at = "waits", !.user = u, !.source = s]]
    <3>1. call'[c].at = "waits" /\ \A d \in Senders \ {c} : call'[d] = call[d]
      BY <1>0, <2>3 DEF Users!Idle
    <3> QED
      BY <1>1, <2>1, <3>1
  <2> QED
    BY <2>1, <2>2, <2>3
<1>4. ASSUME NEW c \in Senders, Users!Enter(c) PROVE Roled'
  <2>1. UNCHANGED <<role, tokens>> /\ (Users!Ends(c) \/ Users!Steps(c, "verify"))
    BY <1>4 DEF Users!Enter, Users!table
  <2>2. call'[c].at \in {"rest", "verify"} /\ \A d \in Senders \ {c} : call'[d] = call[d]
    BY <2>1, CallEnds, CallSteps
  <2> QED
    BY <1>1, <2>1, <2>2
<1>5. ASSUME NEW c \in Senders, Users!Verify(c) PROVE Roled'
  <2>1. /\ UNCHANGED <<role, tokens>>
        /\ \/ call' = [call EXCEPT ![c] = [call[c] EXCEPT !.at = "grant", !.role = role[call[c].user]]]
           \/ Users!Ends(c)
    BY <1>5 DEF Users!Verify, Users!Goes, Users!table
  <2>2. CASE Users!Ends(c)
    <3>1. call'[c].at = "rest" /\ \A d \in Senders \ {c} : call'[d] = call[d]
      BY <2>2, CallEnds
    <3> QED
      BY <1>1, <2>1, <3>1
  <2>3. CASE call' = [call EXCEPT ![c] = [call[c] EXCEPT !.at = "grant", !.role = role[call[c].user]]]
    <3>1. call[c] \in Users!Calls
      BY <1>0
    <3>2. call'[c].at = "grant" /\ call'[c].role = role[call'[c].user]
          /\ \A d \in Senders \ {c} : call'[d] = call[d]
      BY <1>0, <2>3, <3>1 DEF Users!Calls
    <3> QED
      BY <1>1, <2>1, <3>2
  <2> QED
    BY <2>1, <2>2, <2>3
\* A new token has the role its request has.
<1>6. ASSUME NEW c \in Senders, NEW session \in Nat, call[c].at \in {"grant", "mint"}, Users!Issue(c, session),
             role' = role
      PROVE  Roled'
  <2> DEFINE new == Len(tokens) + 1
  <2>1. /\ DOMAIN tokens' = 1..new /\ \A t \in DOMAIN tokens : tokens'[t] = tokens[t]
        /\ tokens'[new] = [user |-> call[c].user, session |-> session, role |-> call[c].role,
                          over |-> call[c].user \in changed]
    BY <1>6, Issues
  <2>2. DOMAIN tokens' = DOMAIN tokens \cup {new} /\ tokens'[new].role = role[tokens'[new].user]
    BY <1>0, <1>6, <2>1 DEF Roled
  <2>3. call'[c].at = "rest" /\ \A d \in Senders \ {c} : call'[d] = call[d]
    BY <1>6, CallEnds DEF Users!Issue
  <2> HIDE DEF new
  <2>4. \A t \in DOMAIN tokens : Users!Active(t)' <=> Users!Active(t)
    BY <1>6, <2>1 DEF Users!Active, Users!Exists
  <2>5. \A t \in DOMAIN tokens' : Users!Active(t)' => tokens'[t].role = role'[tokens'[t].user]
    BY <1>6, <2>1, <2>2, <2>4 DEF Roled
  <2> QED
    BY <1>6, <2>3, <2>5 DEF Roled
<1>7. ASSUME NEW c \in Senders, Users!Grant(c) PROVE Roled'
  BY <1>6, <1>7, SessionsCount DEF Users!Grant
<1>8. ASSUME NEW c \in Senders, Users!Mint(c) PROVE Roled'
  <2>1. call[c].at = "mint" /\ Users!Issue(c, tokens[call[c].token].session) /\ role' = role
        /\ call[c].token \in DOMAIN tokens
    BY <1>0, <1>8 DEF Users!Mint, Stage
  <2>2. tokens[call[c].token].session \in Nat
    BY <1>0, <2>1 DEF Users!Issued
  <2> QED
    BY <1>6, <2>1, <2>2
<1>9. ASSUME NEW c \in Senders, Users!Claim(c) PROVE Roled'
  <2>1. UNCHANGED <<role, tokens>> /\ call[c].at = "claim" /\ (Users!Ends(c) \/ Users!Steps(c, "mint"))
    BY <1>9 DEF Users!Claim
  <2>2. /\ call'[c].at = "rest" \/ (call'[c].at = "mint" /\ call'[c].role = call[c].role
                                    /\ call'[c].user = call[c].user)
        /\ \A d \in Senders \ {c} : call'[d] = call[d]
    BY <2>1, CallEnds, CallSteps
  <2>3. call[c].role = role[call[c].user]
    BY <2>1 DEF Roled
  <2> QED
    BY <1>1, <2>1, <2>2, <2>3
<1>10. ASSUME NEW c \in Senders, NEW t \in DOMAIN tokens, Users!Refresh(c, t) PROVE Roled'
  <2>1. UNCHANGED <<role, tokens>>
        /\ call' = [call EXCEPT ![c] = [Users!Idle EXCEPT !.at = "claim", !.user = tokens[t].user,
                                         !.role = role[tokens[t].user], !.token = t]]
    BY <1>10 DEF Users!Refresh, Users!Goes, Users!table
  <2>2. call'[c].at = "claim" /\ call'[c].role = role[call'[c].user] /\ \A d \in Senders \ {c} : call'[d] = call[d]
    BY <1>0, <2>1 DEF Users!Idle
  <2> QED
    BY <1>1, <2>1, <2>2
\* A request on a user is let in by a token that counts.
<1>11. ASSUME NEW c \in Senders, NEW t \in DOMAIN tokens, NEW u \in People, NEW to \in Users!Roles \cup {"gone"},
              Users!Request(c, t, u, to)
       PROVE  Roled'
  <2>1. UNCHANGED <<role, tokens>> /\ Users!Active(t) /\ tokens[t].role = "admin"
        /\ call' = [call EXCEPT ![c] = [Users!Idle EXCEPT !.at = "act", !.user = tokens[t].user,
                                         !.target = u, !.to = to]]
    BY <1>11 DEF Users!Request, Users!Goes, Users!table
  <2>2. call'[c].at = "act" /\ call'[c].user = tokens[t].user /\ \A d \in Senders \ {c} : call'[d] = call[d]
    BY <1>0, <2>1 DEF Users!Idle
  <2>3. role[tokens[t].user] = "admin"
    BY <2>1 DEF Roled
  <2> QED
    BY <1>1, <2>1, <2>2, <2>3
\* The admin who acts stays one, and the user changed has nothing left that counts.
<1>12. ASSUME NEW c \in Senders, Users!Act(c), ~collided' PROVE Roled'
  <2> DEFINE q == call[c]
  <2>1. /\ q.at = "act" /\ q.user \in People /\ role[q.user] = "admin" /\ q.target \in People
        /\ Users!Ends(c)
        /\ \/ UNCHANGED <<role, tokens>>
           \/ /\ Users!Allowed(c) /\ role' = [role EXCEPT ![q.target] = q.to]
              /\ tokens' = [t \in DOMAIN tokens |->
                              IF tokens[t].user = q.target THEN [tokens[t] EXCEPT !.over = TRUE] ELSE tokens[t]]
              /\ ~Users!UnderWay(q.target, c)
    <3>1. /\ q.at = "act" /\ Users!Ends(c)
          /\ \/ UNCHANGED <<role, tokens>>
             \/ /\ Users!Allowed(c) /\ role' = [role EXCEPT ![q.target] = q.to]
                /\ tokens' = [t \in DOMAIN tokens |->
                                IF tokens[t].user = q.target THEN [tokens[t] EXCEPT !.over = TRUE] ELSE tokens[t]]
                /\ collided' = (collided \/ Users!UnderWay(q.target, c))
      BY <1>12 DEF Users!Act
    <3>2. q.user \in People /\ q.target \in People
      BY <1>0, <3>1 DEF Stage
    <3>3. role[q.user] = "admin"
      BY <3>1 DEF Roled
    <3>4. collided' = (collided \/ Users!UnderWay(q.target, c)) => ~Users!UnderWay(q.target, c)
      BY <1>12, Zenon
    <3> QED
      BY <3>1, <3>2, <3>3, <3>4
  <2>2. call'[c].at = "rest" /\ \A d \in Senders \ {c} : call'[d] = call[d]
    BY <2>1, CallEnds
  <2>3. CASE UNCHANGED <<role, tokens>>
    BY <1>1, <2>2, <2>3
  <2>4. CASE /\ Users!Allowed(c) /\ role' = [role EXCEPT ![q.target] = q.to]
             /\ tokens' = [t \in DOMAIN tokens |->
                             IF tokens[t].user = q.target THEN [tokens[t] EXCEPT !.over = TRUE] ELSE tokens[t]]
             /\ ~Users!UnderWay(q.target, c)
    <3>1. /\ DOMAIN tokens' = DOMAIN tokens
          /\ \A t \in DOMAIN tokens :
               /\ tokens'[t].user = tokens[t].user /\ tokens'[t].role = tokens[t].role
               /\ tokens'[t].over = (tokens[t].over \/ tokens[t].user = q.target)
      BY <2>4, Overs
    <3>2. \A u \in People \ {q.target} : role'[u] = role[u]
      BY <1>0, <2>4
    <3>3. role'[q.user] = "admin"
      <4>1. CASE q.target # q.user
        BY <2>1, <3>2, <4>1
      <4>2. CASE q.target = q.user
        <5>1. q.to = role[q.target]
          BY <2>1, <2>4, <4>2 DEF Users!Allowed
        <5> QED
          BY <1>0, <2>1, <2>4, <4>2, <5>1
      <4> QED
        BY <4>1, <4>2
    <3>4. ASSUME NEW t \in DOMAIN tokens, Users!Active(t)'
          PROVE  tokens'[t].role = role'[tokens'[t].user]
      <4>1. ~tokens'[t].over /\ role'[tokens'[t].user] \in Users!Roles /\ tokens[t].user \in People
        BY <1>0, <3>4 DEF Users!Active, Users!Exists, Users!Issued, Users!Roles
      <4>2. ~tokens[t].over /\ tokens[t].user # q.target
        BY <3>1, <4>1, Zenon
      <4>3. role'[tokens'[t].user] = role[tokens[t].user]
        BY <3>1, <3>2, <4>1, <4>2
      <4>4. Users!Active(t)
        BY <4>1, <4>2, <4>3 DEF Users!Active, Users!Exists
      <4> QED
        BY <3>1, <4>3, <4>4 DEF Roled
    <3>5. \A d \in Senders \ {c} : call[d].at # "rest" => call[d].user # q.target
      BY <2>4 DEF Users!UnderWay
    <3>6. \A d \in Senders : call'[d].at \in {"grant", "claim", "mint", "act"} =>
            /\ call'[d] = call[d] /\ role'[call'[d].user] = role[call[d].user]
      <4>1. \A d \in Senders : call[d].at \in {"grant", "claim", "mint", "act"} => call[d].user \in People
        BY <1>0 DEF Stage
      <4> QED
        BY <2>2, <3>2, <3>5, <4>1
    <3> QED
      BY <2>1, <3>1, <3>3, <3>4, <3>6 DEF Roled
  <2> QED
    BY <2>1, <2>3, <2>4
<1>13. ASSUME (\E s \in Sources : Users!Forget(s)) \/ (\E t \in DOMAIN tokens : Users!Logout(t))
              \/ Users!Second \/ UNCHANGED Users!vars
       PROVE  Roled'
  <2>1. UNCHANGED <<role, tokens, call>>
    BY <1>13 DEF Users!Forget, Users!Logout, Users!Second, Users!vars, Users!table
  <2> QED
    BY <1>2, <2>1
<1> QED
  BY <1>3, <1>4, <1>5, <1>7, <1>8, <1>9, <1>10, <1>11, <1>12, <1>13, UsersMoves

\* Once two requests met so, it stays said.
LEMMA CollidedStays ==
  ASSUME collided, [Users!Next]_(Users!vars)
  PROVE  collided'
<1>1. \A c \in Senders : Users!Act(c) => collided'
  BY Zenon DEF Users!Act
<1>2. \A c \in Senders : Users!Enter(c) \/ Users!Verify(c) \/ Users!Grant(c) \/ Users!Claim(c) \/ Users!Mint(c)
                         => collided' = collided
  BY DEF Users!Enter, Users!Verify, Users!Grant, Users!Claim, Users!Mint
<1>3. /\ \A c \in Senders, u \in People, s \in Sources : Users!Login(c, u, s) => collided' = collided
      /\ \A c \in Senders, t \in DOMAIN tokens : Users!Refresh(c, t) => collided' = collided
      /\ \A c \in Senders, t \in DOMAIN tokens, u \in People, to \in Users!Roles \cup {"gone"} :
           Users!Request(c, t, u, to) => collided' = collided
  BY DEF Users!Login, Users!Refresh, Users!Request
<1>4. /\ \A t \in DOMAIN tokens : Users!Logout(t) => collided' = collided
      /\ \A s \in Sources : Users!Forget(s) => collided' = collided
      /\ Users!Second \/ UNCHANGED Users!vars => collided' = collided
  BY DEF Users!Logout, Users!Forget, Users!Second, Users!vars
<1> QED
  BY <1>1, <1>2, <1>3, <1>4, UsersMoves, Zenon

UsersInv == UsersTyped /\ SessionsRun /\ GuessInv /\ HeirInv /\ RoleInv
LEMMA UsersStep ==
  ASSUME UsersConstants, UsersInv, [Users!Next]_(Users!vars)
  PROVE  UsersInv'
<1>1. UsersTyped' /\ SessionsRun' /\ GuessInv' /\ HeirInv'
  BY UsersTypedStep, SessionsStep, GuessStep, HeirStep DEF UsersInv
<1>2. RoleInv'
  BY RoledStep, CollidedStays, Zenon DEF UsersInv, RoleInv
<1> QED
  BY <1>1, <1>2 DEF UsersInv

LEMMA UsersInit == ASSUME UsersConstants, Users!Init PROVE UsersInv
<1>1. PICK first \in People : role = [u \in People |-> IF u = first THEN "admin" ELSE "new"]
  BY DEF Users!Init
<1>2. /\ changed = {} /\ tokens = <<>> /\ revoked = {} /\ logins = 0 /\ edits = 0
      /\ failures = [s \in Sources |-> 0] /\ guesses = [s \in Sources |-> 0]
      /\ lock = [s \in Sources |-> None] /\ call = [c \in Senders |-> Users!Idle]
  BY DEF Users!Init
<1>3. collided = FALSE
  BY Zenon DEF Users!Init
<1>4. \A c \in Senders : call[c].at = "rest"
  BY <1>2, IdleCall
<1>5. UsersTyped
  <2>1. TablesTyped
    BY <1>1, <1>2 DEF TablesTyped, Users!Roles
  <2>2. LogTyped
    BY <1>2 DEF LogTyped, UsersConstants
  <2>3. lock \in [Sources -> Senders \cup {None}] /\ call \in [Senders -> Users!Calls]
    BY <1>2, IdleCall
  <2>4. \A c \in Senders : Stage(c)
    BY <1>4 DEF Stage
  <2> QED
    BY <1>3, <2>1, <2>2, <2>3, <2>4, UsersParts
<1>6. SessionsRun
  <2>1. Users!Sessions = 1..0
    BY <1>2 DEF Users!Sessions
  <2> QED
    BY <2>1 DEF SessionsRun
<1>7. GuessInv
  BY <1>2, <1>4 DEF GuessInv, UsersConstants
<1>8. HeirInv
  BY <1>2, <1>4 DEF HeirInv
<1>9. RoleInv
  BY <1>1, <1>2, <1>4 DEF RoleInv, Roled
<1> QED
  BY <1>5, <1>6, <1>7, <1>8, <1>9 DEF UsersInv

LEMMA UsersInvariant == ASSUME UsersConstants PROVE Users!Spec => []UsersInv
<1>1. Users!Init => UsersInv
  BY UsersInit
<1>2. UsersInv /\ [Users!Next]_(Users!vars) => UsersInv'
  BY UsersStep
<1> QED
  BY <1>1, <1>2, PTL DEF Users!Spec

\* Every variable of the accounts keeps its type.
THEOREM UsersTypeCorrect == ASSUME UsersConstants PROVE Users!Spec => []Users!TypeOK
<1>1. UsersInv => Users!TypeOK
  BY DEF UsersInv, UsersTyped
<1> QED
  BY <1>1, UsersInvariant, PTL

\* However many logins of a source run at once, no more than Limit wrong passwords are
\* checked for it in 15 minutes.
THEOREM GuessesAreCounted == ASSUME UsersConstants PROVE Users!Spec => []Users!GuessesCounted
<1>1. UsersInv => Users!GuessesCounted
  BY DEF UsersInv, GuessInv, Users!GuessesCounted
<1> QED
  BY <1>1, UsersInvariant, PTL

\* A set without two elements has one at most.
LEMMA OneAtMost ==
  ASSUME NEW S, \A x, y \in S : x = y
  PROVE  Users!Cardinality(S) \in 0..1 /\ (S # {} => Users!Cardinality(S) = 1) /\ (S = {} => Users!Cardinality(S) = 0)
<1>1. Users!Cardinality(S) = Cardinality(S)
  BY DEF Users!Cardinality, Cardinality
<1>2. CASE S = {}
  BY <1>1, <1>2, FS_EmptySet
<1>3. CASE S # {}
  <2>1. PICK x \in S : TRUE
    BY <1>3
  <2>2. S = {x}
    BY <2>1
  <2>3. Cardinality({x}) = 1
    BY FS_Singleton
  <2> QED
    BY <1>1, <1>3, <2>2, <2>3
<1> QED
  BY <1>2, <1>3

\* A session has at most one refresh token that is still good, whatever tabs exchange it at
\* once or log out meanwhile.
THEOREM HeirsAreOne == ASSUME UsersConstants PROVE Users!Spec => []Users!OneHeir
<1>1. ASSUME UsersInv PROVE Users!OneHeir
  <2> SUFFICES ASSUME NEW n \in Users!Sessions
               PROVE  Users!Cardinality(Users!Good(n)) + Users!Cardinality(Users!Minting(n)) <= 1
    BY DEF Users!OneHeir
  <2>1. \A x, y \in Users!Good(n) : x = y
    BY <1>1 DEF UsersInv, HeirInv, Users!Good
  <2>2. \A x, y \in Users!Minting(n) : x = y
    BY <1>1 DEF UsersInv, HeirInv, Users!Minting
  <2>3. Users!Good(n) = {} \/ Users!Minting(n) = {}
    BY <1>1 DEF UsersInv, HeirInv, Users!Good, Users!Minting
  <2>4. Users!Cardinality(Users!Good(n)) \in 0..1
        /\ (Users!Good(n) = {} => Users!Cardinality(Users!Good(n)) = 0)
    BY <2>1, OneAtMost
  <2>5. Users!Cardinality(Users!Minting(n)) \in 0..1
        /\ (Users!Minting(n) = {} => Users!Cardinality(Users!Minting(n)) = 0)
    BY <2>2, OneAtMost
  <2> QED
    BY <2>3, <2>4, <2>5
<1> QED
  BY <1>1, UsersInvariant, PTL

\* An admin is left, whatever admins do to each other one after the other.
THEOREM AdminIsLeft == ASSUME UsersConstants PROVE Users!Spec => []Users!AdminRemains
<1>1. UsersInv => Users!AdminRemains
  BY Zenon DEF UsersInv, RoleInv, Roled, Users!AdminRemains
<1> QED
  BY <1>1, UsersInvariant, PTL

(***************************************************************************)
(* Part 5.  JobStore.                                                      *)
(***************************************************************************)

\* A set of numbers has a least.
LEMMA LeastNumber == ASSUME NEW S \in SUBSET Nat, S # {} PROVE \E n \in S : \A k \in S : n <= k
<1> DEFINE Sooner == {p \in Nat \X Nat : p[1] < p[2]}
<1>1. IsWellFoundedOn(Sooner, Nat)
  BY NatLessThanWellFounded DEF OpToRel
<1>2. PICK n \in S : \A k \in S : ~(<<k, n>> \in Sooner)
  BY <1>1, WFMin
<1>3. ASSUME NEW k \in S PROVE n <= k
  <2>1. k \in Nat /\ n \in Nat /\ (<<k, n>> \in Sooner <=> k < n)
    OBVIOUS
  <2> QED
    BY <1>2, <2>1
<1> QED
  BY <1>3

\* What holds at first and after every step holds to the last.
LEMMA Upwards ==
  ASSUME NEW S, NEW last \in Nat, 0 \in S, \A n \in 0..last : n > 0 /\ n - 1 \in S => n \in S
  PROVE  \A n \in 0..last : n \in S
<1> DEFINE missed == {n \in 0..last : n \notin S}
<1>1. SUFFICES ASSUME missed # {} PROVE FALSE
  OBVIOUS
<1>2. PICK n \in missed : \A k \in missed : n <= k
  <2>1. missed \in SUBSET Nat
    OBVIOUS
  <2> HIDE DEF missed
  <2> QED
    BY <1>1, <2>1, LeastNumber
<1>3. n \in Nat /\ n # 0 /\ n \notin S /\ n \in 0..last
  BY <1>2
<1>4. n - 1 \in 0..last /\ n - 1 \notin missed
  BY <1>2, <1>3
<1> QED
  BY <1>3, <1>4

\* A recursive function over the steps of a transaction is what its definition says.
LEMMA TransactionRuns ==
  ASSUME NEW objs, NEW steps, Len(steps) \in Nat
  PROVE  \E tx : /\ tx = [n \in 0..Len(steps) |-> IF n = 0 THEN Store!Begun(objs)
                                                ELSE Store!Written(objs, tx[n - 1], steps[n])]
                 /\ Store!Transaction(objs, steps) = tx[Len(steps)]
<1> DEFINE W(t, n) == Store!Written(objs, t, steps[n])
           first == Store!Begun(objs)
           Is(f, m) == f = [n \in 0..m |-> IF n = 0 THEN first ELSE W(f[n - 1], n)]
           S == {m \in 0..Len(steps) : \E f : Is(f, m)}
<1>1. Store!Transaction(objs, steps) = (CHOOSE f : Is(f, Len(steps)))[Len(steps)]
  BY DEF Store!Transaction
<1> HIDE DEF W, first
<1>2. 0 \in S
  <2>1. Is([n \in 0..0 |-> first], 0)
    OBVIOUS
  <2>2. \E f : Is(f, 0)
    <3> HIDE DEF Is
    <3> QED
      BY <2>1
  <2> HIDE DEF Is
  <2> QED
    BY <2>2
<1>3. ASSUME NEW m \in 0..Len(steps), m > 0, m - 1 \in S PROVE m \in S
  <2>1. PICK f : Is(f, m - 1)
    BY <1>3
  <2> DEFINE g == [n \in 0..m |-> IF n < m THEN f[n] ELSE W(f[m - 1], m)]
  <2>2. \A n \in 0..(m - 1) : f[n] = IF n = 0 THEN first ELSE W(f[n - 1], n)
    BY <2>1
  <2>3. \A n \in 0..m : g[n] = IF n = 0 THEN first ELSE W(g[n - 1], n)
    <3>1. SUFFICES ASSUME NEW n \in 0..m PROVE g[n] = IF n = 0 THEN first ELSE W(g[n - 1], n)
      OBVIOUS
    <3>2. CASE n = 0
      BY <1>3, <2>2, <3>2
    <3>3. CASE n > 0 /\ n < m
      <4>1. n - 1 \in 0..m /\ n - 1 < m /\ n \in 0..(m - 1)
        BY <3>3
      <4> QED
        BY <2>2, <3>3, <4>1
    <3>4. CASE n = m
      <4>1. n - 1 \in 0..m /\ n - 1 < m
        BY <1>3, <3>4
      <4> QED
        BY <1>3, <3>4, <4>1
    <3> QED
      BY <3>2, <3>3, <3>4
  <2>4. Is(g, m)
    BY <2>3
  <2> QED
    BY <2>4
<1>4. Len(steps) \in S
  <2>1. \A m \in 0..Len(steps) : m > 0 /\ m - 1 \in S => m \in S
    BY <1>3
  <2> HIDE DEF S
  <2>2. \A m \in 0..Len(steps) : m \in S
    BY <1>2, <2>1, Upwards
  <2> QED
    BY <2>2
<1>5. PICK f : f = (CHOOSE g : Is(g, Len(steps))) /\ Is(f, Len(steps))
  BY <1>4
<1>6. f = [n \in 0..Len(steps) |-> IF n = 0 THEN Store!Begun(objs) ELSE Store!Written(objs, f[n - 1], steps[n])]
  BY <1>5, Zenon DEF W, first
<1> HIDE DEF Is
<1>7. Store!Transaction(objs, steps) = f[Len(steps)]
  BY <1>1, <1>5, Zenon
<1> QED
  BY <1>6, <1>7, Zenon

\* The jobs of the steps are kept in their order.
LEMMA KeptRuns ==
  ASSUME NEW steps, Len(steps) \in Nat
  PROVE  \E js : /\ js = [n \in 0..Len(steps) |-> IF n = 0 THEN <<>> ELSE IF steps[n] = Store!Skip THEN js[n - 1]
                                                ELSE Append(js[n - 1], steps[n].job)]
                 /\ Store!Kept(steps) = js[Len(steps)]
<1> DEFINE W(t, n) == IF steps[n] = Store!Skip THEN t ELSE Append(t, steps[n].job)
           Is(f, m) == f = [n \in 0..m |-> IF n = 0 THEN <<>> ELSE W(f[n - 1], n)]
           S == {m \in 0..Len(steps) : \E f : Is(f, m)}
<1>1. Store!Kept(steps) = (CHOOSE f : Is(f, Len(steps)))[Len(steps)]
  BY DEF Store!Kept
<1> HIDE DEF W
<1>2. 0 \in S
  <2>1. Is([n \in 0..0 |-> <<>>], 0)
    OBVIOUS
  <2>2. \E f : Is(f, 0)
    <3> HIDE DEF Is
    <3> QED
      BY <2>1
  <2> HIDE DEF Is
  <2> QED
    BY <2>2
<1>3. ASSUME NEW m \in 0..Len(steps), m > 0, m - 1 \in S PROVE m \in S
  <2>1. PICK f : Is(f, m - 1)
    BY <1>3
  <2> DEFINE g == [n \in 0..m |-> IF n < m THEN f[n] ELSE W(f[m - 1], m)]
  <2>2. \A n \in 0..(m - 1) : f[n] = IF n = 0 THEN <<>> ELSE W(f[n - 1], n)
    BY <2>1
  <2>3. \A n \in 0..m : g[n] = IF n = 0 THEN <<>> ELSE W(g[n - 1], n)
    <3>1. SUFFICES ASSUME NEW n \in 0..m PROVE g[n] = IF n = 0 THEN <<>> ELSE W(g[n - 1], n)
      OBVIOUS
    <3>2. CASE n = 0
      BY <1>3, <2>2, <3>2
    <3>3. CASE n > 0 /\ n < m
      <4>1. n - 1 \in 0..m /\ n - 1 < m /\ n \in 0..(m - 1)
        BY <3>3
      <4> QED
        BY <2>2, <3>3, <4>1
    <3>4. CASE n = m
      <4>1. n - 1 \in 0..m /\ n - 1 < m
        BY <1>3, <3>4
      <4> QED
        BY <1>3, <3>4, <4>1
    <3> QED
      BY <3>2, <3>3, <3>4
  <2>4. Is(g, m)
    BY <2>3
  <2> QED
    BY <2>4
<1>4. Len(steps) \in S
  <2>1. \A m \in 0..Len(steps) : m > 0 /\ m - 1 \in S => m \in S
    BY <1>3
  <2> HIDE DEF S
  <2>2. \A m \in 0..Len(steps) : m \in S
    BY <1>2, <2>1, Upwards
  <2> QED
    BY <2>2
<1>5. PICK f : f = (CHOOSE g : Is(g, Len(steps))) /\ Is(f, Len(steps))
  BY <1>4
<1>6. f = [n \in 0..Len(steps) |-> IF n = 0 THEN <<>> ELSE IF steps[n] = Store!Skip THEN f[n - 1]
                                  ELSE Append(f[n - 1], steps[n].job)]
  BY <1>5 DEF W
<1>7. Store!Kept(steps) = f[Len(steps)]
  BY <1>1, <1>5
<1> HIDE DEF S
<1> QED
  BY <1>6, <1>7, Zenon

\* What is kept for a retry are the jobs of the steps.
LEMMA KeptJobs ==
  ASSUME NEW steps, Len(steps) \in Nat, NEW T, \A n \in 1..Len(steps) : steps[n] # Store!Skip => steps[n].job \in T
  PROVE  /\ Store!Kept(steps) \in Seq(T)
         /\ \A x : x \in Store!Range(Store!Kept(steps)) <=> \E n \in 1..Len(steps) : steps[n] # Store!Skip /\ steps[n].job = x
<1>1. PICK js : /\ js = [n \in 0..Len(steps) |-> IF n = 0 THEN <<>> ELSE IF steps[n] = Store!Skip THEN js[n - 1]
                                                ELSE Append(js[n - 1], steps[n].job)]
                /\ Store!Kept(steps) = js[Len(steps)]
  BY KeptRuns
<1> DEFINE Good(q, n) == /\ q \in Seq(T)
                         /\ \A x : (\E k \in 1..Len(q) : q[k] = x)
                                   <=> \E k \in 1..n : steps[k] # Store!Skip /\ steps[k].job = x
           S == {n \in 0..Len(steps) : Good(js[n], n)}
<1>2. 0 \in S
  <2>1. js[0] = <<>> /\ 0 \in 0..Len(steps)
    BY <1>1
  <2>2. Good(<<>>, 0)
    OBVIOUS
  <2> HIDE DEF Good
  <2> QED
    BY <2>1, <2>2
<1>3. ASSUME NEW n \in 0..Len(steps), n > 0, n - 1 \in S PROVE n \in S
  <2> DEFINE q == js[n - 1]
             job == steps[n].job
  <2>1. n - 1 \in 0..Len(steps) /\ n \in 1..Len(steps) /\ Good(q, n - 1)
    BY <1>3
  <2>2. js[n] = IF steps[n] = Store!Skip THEN q ELSE Append(q, job)
    <3> HIDE DEF S
    <3>1. js[n] = IF n = 0 THEN <<>> ELSE IF steps[n] = Store!Skip THEN js[n - 1] ELSE Append(js[n - 1], steps[n].job)
      BY <1>1
    <3> QED
      BY <1>3, <3>1
  <2>3. CASE steps[n] = Store!Skip
    <3>1. \A x : (\E k \in 1..n : steps[k] # Store!Skip /\ steps[k].job = x)
                 <=> \E k \in 1..(n - 1) : steps[k] # Store!Skip /\ steps[k].job = x
      BY <2>1, <2>3
    <3>2. js[n] = q
      BY <2>2, <2>3
    <3> HIDE DEF q
    <3>3. Good(js[n], n)
      BY <2>1, <3>1, <3>2
    <3> QED
      BY <3>3
  <2>4. CASE steps[n] # Store!Skip
    <3> DEFINE r == Append(q, job)
    <3>1. job \in T /\ q \in Seq(T)
      BY <2>1, <2>4
    <3>2. /\ r \in Seq(T) /\ Len(r) = Len(q) + 1 /\ Len(q) \in Nat /\ r[Len(q) + 1] = job
          /\ \A k \in 1..Len(q) : r[k] = q[k]
      <4> HIDE DEF q, job
      <4> QED
        BY <3>1, AppendProperties
    <3>3. ASSUME NEW x PROVE (\E k \in 1..Len(r) : r[k] = x) <=> (\E k \in 1..Len(q) : q[k] = x) \/ x = job
      <4> HIDE DEF q, job, r
      <4>1. 1..Len(r) = 1..Len(q) \cup {Len(q) + 1}
        BY <3>2
      <4> QED
        BY <3>2, <4>1
    <3>4. ASSUME NEW x PROVE (\E k \in 1..n : steps[k] # Store!Skip /\ steps[k].job = x)
                             <=> (\E k \in 1..(n - 1) : steps[k] # Store!Skip /\ steps[k].job = x) \/ x = job
      <4>1. 1..n = 1..(n - 1) \cup {n}
        BY <2>1
      <4> QED
        BY <4>1, <2>4
    <3>5. js[n] = r
      BY <2>2, <2>4
    <3> HIDE DEF q, r, job
    <3>6. Good(js[n], n)
      BY <2>1, <3>2, <3>3, <3>4, <3>5
    <3> QED
      BY <3>6
  <2> QED
    BY <2>3, <2>4
<1>4. Good(Store!Kept(steps), Len(steps))
  <2>1. \A n \in 0..Len(steps) : n > 0 /\ n - 1 \in S => n \in S
    BY <1>3
  <2> HIDE DEF S
  <2>2. \A n \in 0..Len(steps) : n \in S
    BY <1>2, <2>1, Upwards
  <2>3. Len(steps) \in S
    BY <2>2
  <2> USE DEF S
  <2> HIDE DEF Good
  <2> QED
    BY <2>3, <1>1
<1> HIDE DEF S
<1> QED
  <2>1. DOMAIN Store!Kept(steps) = 1..Len(Store!Kept(steps))
    BY <1>4
  <2> QED
    BY <1>4, <2>1 DEF Store!Range

\* The prints an apply knows, the steps it writes and the transaction over them.
Live(os) == {i \in DOMAIN os : os[i] # None}
StoreSteps(os) == {Store!Skip} \cup [job : Live(os), columns : SUBSET Store!Columns]
Tables == Seq(Store!TableRows \cup {None})
Txs(os) == [table : Tables, ids : [DOMAIN os -> Nat \cup {None}], full : SUBSET Nat, dropped : SUBSET Nat,
            conflict : Nat \cup {None}, refused : BOOLEAN]
Single(t) == \A a, b \in Store!OpenIds(t) : a = b
Present(t, id) == id \in 1..Len(t) /\ t[id] # None
\* A job with a row has one in the table.
Placed(os, t) == \A i \in Live(os) : t.ids[i] # None => Present(t.table, t.ids[i])

\* What a step does to the transaction: it writes columns of a row,
Rewrites(os, t, u, i, columns) ==
  LET id == t.ids[i] IN
  /\ Present(t.table, id) /\ Present(u.table, id) /\ Len(u.table) = Len(t.table)
  /\ \A k \in 1..Len(t.table) : k # id => u.table[k] = t.table[k]
  /\ u.table[id].print = t.table[id].print /\ u.table[id].mark = t.table[id].mark
  /\ u.table[id].source = t.table[id].source
  /\ u.table[id].at = (IF "at" \in columns THEN os[i].at ELSE t.table[id].at)
  /\ u.table[id].result = (IF "result" \in columns THEN os[i].result ELSE t.table[id].result)
  /\ Single(u.table)
  /\ u.ids = t.ids /\ u.dropped = t.dropped /\ u.conflict = t.conflict /\ ~u.refused
\* it adds a row,
Adds(os, t, u, i) ==
  LET id == Len(t.table) + 1 IN
  /\ t.ids[i] = None /\ (os[i].result = None => Store!OpenIds(t.table) = {})
  /\ Len(u.table) = id /\ (\A k \in 1..Len(t.table) : u.table[k] = t.table[k])
  /\ u.table[id] = [print |-> os[i].print, at |-> os[i].at, result |-> os[i].result, mark |-> FALSE, source |-> "live"]
  /\ u.ids = [t.ids EXCEPT ![i] = id] /\ u.dropped = t.dropped /\ u.conflict = t.conflict /\ ~u.refused
\* or finds another print open.
Collides(os, t, u, i) ==
  /\ t.ids[i] = None /\ os[i].result = None /\ Store!OpenIds(t.table) # {}
  /\ u.table = t.table /\ u.ids = t.ids /\ u.dropped = t.dropped \cup {i} /\ ~u.refused
  /\ IF t.conflict = None THEN u.conflict \in Store!OpenIds(t.table) ELSE u.conflict = t.conflict
Takes(os, t, u, step) ==
  \/ Rewrites(os, t, u, step.job, step.columns) \/ Rewrites(os, t, u, step.job, Store!Columns)
  \/ Adds(os, t, u, step.job) \/ Collides(os, t, u, step.job)

\* A row of the table is typed.
LEMMA RowPresent == ASSUME NEW t \in Tables, NEW id, Present(t, id)
  PROVE  t[id] \in Store!TableRows /\ id \in DOMAIN t /\ id \in Nat
BY DEF Tables, Present

\* A job the process holds is typed.
LEMMA LiveJob == ASSUME NEW os \in Seq(Store!Jobs \cup {None}), NEW i \in Live(os)
  PROVE  os[i] \in Store!Jobs /\ i \in 1..Len(os) /\ i \in DOMAIN os /\ i \in Nat
BY DEF Live

\* An open row is there.
LEMMA OpenTyped == ASSUME NEW t \in Tables, NEW id \in Store!OpenIds(t) PROVE Present(t, id) /\ t[id].result = None
BY DEF Tables, Store!OpenIds, Present

\* _update_job.
UpdateOf(os, t, u, i, id, columns) ==
  /\ os \in Seq(Store!Jobs \cup {None}) /\ t \in Txs(os) /\ ~t.refused /\ i \in Live(os)
  /\ id = t.ids[i] /\ Present(t.table, id) /\ u = Store!Updated(t, id, os[i], columns)
\* _update_job writes the columns or is refused.
LEMMA Updating ==
  ASSUME StoreConstants, NEW os, NEW t, NEW u, NEW i, NEW id, NEW columns, UpdateOf(os, t, u, i, id, columns)
  PROVE  u \in Txs(os) /\ (u.refused \/ Rewrites(os, t, u, i, columns)) /\ u.full = t.full
<1> DEFINE new == [t.table[id] EXCEPT !.at = IF "at" \in columns THEN os[i].at ELSE @,
                                      !.result = IF "result" \in columns THEN os[i].result ELSE @]
           tab == [t.table EXCEPT ![id] = new]
           entry == t.table[id]
<1>0. UpdateOf(os, t, u, i, id, columns)
  OBVIOUS
<1>1. entry \in Store!TableRows /\ os[i] \in Store!Jobs /\ id \in 1..Len(t.table) /\ t.table \in Tables
  BY <1>0, RowPresent, LiveJob DEF Txs, Present, UpdateOf
<1>2. /\ new \in Store!TableRows /\ new.print = entry.print /\ new.mark = entry.mark /\ new.source = entry.source
      /\ new.at = (IF "at" \in columns THEN os[i].at ELSE entry.at)
      /\ new.result = (IF "result" \in columns THEN os[i].result ELSE entry.result)
  <2> HIDE DEF entry
  <2>1. new = [entry EXCEPT !.at = IF "at" \in columns THEN os[i].at ELSE @,
                          !.result = IF "result" \in columns THEN os[i].result ELSE @]
    BY DEF entry
  <2> QED
    BY <1>1, <2>1 DEF Store!TableRows, Store!Jobs
<1>3. new # None
  BY <1>2 DEF StoreConstants
<1> HIDE DEF new
<1>4. /\ tab \in Tables /\ Len(tab) = Len(t.table) /\ tab[id] = new
      /\ \A k \in 1..Len(t.table) : k # id => tab[k] = t.table[k]
  <2> DEFINE old == t.table
  <2>1. old \in Seq(Store!TableRows \cup {None}) /\ new \in Store!TableRows \cup {None} /\ id \in 1..Len(old)
    BY <1>1, <1>2 DEF Tables
  <2>2. tab = [old EXCEPT ![id] = new]
    OBVIOUS
  <2> HIDE DEF old, tab
  <2>3. /\ tab \in Seq(Store!TableRows \cup {None}) /\ Len(tab) = Len(old) /\ tab[id] = new
        /\ \A k \in 1..Len(old) : k # id => tab[k] = old[k]
    BY <2>1, <2>2
  <2> QED
    BY <2>3 DEF old, Tables
<1>5. u = IF \E a, b \in Store!OpenIds(tab) : a # b THEN [t EXCEPT !.refused = TRUE] ELSE [t EXCEPT !.table = tab]
  BY <1>0 DEF Store!Updated, new, UpdateOf
<1> HIDE DEF tab
<1>6. CASE \E a, b \in Store!OpenIds(tab) : a # b
  <2>1. u = [t EXCEPT !.refused = TRUE]
    BY <1>5, <1>6
  <2> QED
    BY <1>0, <2>1 DEF Txs, UpdateOf
<1>7. CASE ~\E a, b \in Store!OpenIds(tab) : a # b
  <2>1. u = [t EXCEPT !.table = tab]
    BY <1>5, <1>7
  <2>2. /\ u \in Txs(os) /\ u.table = tab /\ u.ids = t.ids /\ u.dropped = t.dropped /\ u.conflict = t.conflict
        /\ u.refused = t.refused /\ u.full = t.full
    BY <1>0, <1>4, <2>1 DEF Txs, UpdateOf
  <2>3. Present(tab, id) /\ Single(tab)
    BY <1>1, <1>3, <1>4, <1>7 DEF Present, Single
  <2>4. id = t.ids[i] /\ ~t.refused /\ Present(t.table, id)
    BY <1>0 DEF UpdateOf
  <2> QED
    BY <1>2, <1>4, <2>2, <2>3, <2>4 DEF Rewrites
<1> QED
  BY <1>6, <1>7

\* insert_job.
LEMMA Inserting ==
  ASSUME StoreConstants, NEW os \in Seq(Store!Jobs \cup {None}), NEW t \in Txs(os), ~t.refused, NEW i \in Live(os),
         t.ids[i] = None, NEW u, u = Store!Inserted(t, os, i)
  PROVE  u \in Txs(os) /\ (Adds(os, t, u, i) \/ Collides(os, t, u, i)) /\ u.full = t.full
<1> DEFINE entry == [print |-> os[i].print, at |-> os[i].at, result |-> os[i].result, mark |-> FALSE, source |-> "live"]
           tab == Append(t.table, entry)
           id == Len(t.table) + 1
<1>1. os[i] \in Store!Jobs /\ t.table \in Tables /\ i \in DOMAIN os /\ i \in Nat /\ t.ids \in [DOMAIN os -> Nat \cup {None}]
  BY LiveJob DEF Txs
<1>2. entry \in Store!TableRows
  BY <1>1 DEF Store!TableRows, Store!Jobs
<1>3. CASE os[i].result = None /\ Store!OpenIds(t.table) # {}
  <2> DEFINE c == IF t.conflict = None THEN CHOOSE k \in Store!OpenIds(t.table) : TRUE ELSE t.conflict
             d == t.dropped \cup {i}
  <2>1. u = [t EXCEPT !.conflict = c, !.dropped = d]
    BY <1>3 DEF Store!Inserted
  <2>2. c \in Nat \cup {None} /\ d \in SUBSET Nat
    <3>1. \A k \in Store!OpenIds(t.table) : k \in Nat
      BY <1>1, OpenTyped, RowPresent
    <3> QED
      BY <1>1, <1>3, <3>1 DEF Txs
  <2>3. IF t.conflict = None THEN c \in Store!OpenIds(t.table) ELSE c = t.conflict
    BY <1>3
  <2> HIDE DEF c, d
  <2>4. /\ u \in Txs(os) /\ u.conflict = c /\ u.dropped = d /\ u.table = t.table /\ u.ids = t.ids /\ u.full = t.full
        /\ u.refused = t.refused
    BY <2>1, <2>2 DEF Txs
  <2> QED
    BY <1>3, <2>3, <2>4 DEF Collides, d
<1>4. CASE ~(os[i].result = None /\ Store!OpenIds(t.table) # {})
  <2>1. u = [t EXCEPT !.table = tab, !.ids[i] = id]
    BY <1>4 DEF Store!Inserted
  <2>2. /\ tab \in Tables /\ Len(tab) = id /\ tab[id] = entry /\ id \in Nat
        /\ \A k \in 1..Len(t.table) : tab[k] = t.table[k]
    <3> DEFINE old == t.table
    <3>1. old \in Seq(Store!TableRows \cup {None}) /\ entry \in Store!TableRows \cup {None}
      BY <1>1, <1>2 DEF Tables
    <3> HIDE DEF old, entry
    <3>2. /\ Append(old, entry) \in Seq(Store!TableRows \cup {None}) /\ Len(Append(old, entry)) = Len(old) + 1
          /\ Append(old, entry)[Len(old) + 1] = entry /\ Len(old) + 1 \in Nat
          /\ \A k \in 1..Len(old) : Append(old, entry)[k] = old[k]
      BY <3>1, AppendProperties
    <3> QED
      BY <3>2 DEF Tables, old
  <2> HIDE DEF tab, entry, id
  <2>3. [t.ids EXCEPT ![i] = id] \in [DOMAIN os -> Nat \cup {None}]
    BY <1>1, <2>2
  <2>4. u = [t EXCEPT !.table = tab, !.ids = [t.ids EXCEPT ![i] = id]]
    BY <2>1
  <2>5. /\ u \in Txs(os) /\ u.table = tab /\ u.ids = [t.ids EXCEPT ![i] = id] /\ u.full = t.full
        /\ u.dropped = t.dropped /\ u.conflict = t.conflict /\ u.refused = t.refused
    <3> DEFINE ids == [t.ids EXCEPT ![i] = id]
    <3> HIDE DEF ids
    <3>1. ids \in [DOMAIN os -> Nat \cup {None}] /\ u = [t EXCEPT !.table = tab, !.ids = ids]
      BY <2>3, <2>4 DEF ids
    <3>2. /\ u \in Txs(os) /\ u.table = tab /\ u.ids = ids /\ u.full = t.full
          /\ u.dropped = t.dropped /\ u.conflict = t.conflict /\ u.refused = t.refused
      BY <2>2, <3>1 DEF Txs
    <3> QED
      BY <3>2 DEF ids
  <2> QED
    BY <1>4, <2>2, <2>5 DEF Adds, id, entry
<1> QED
  BY <1>3, <1>4

\* A step of the transaction, JournalDB.apply.
LEMMA Writing ==
  ASSUME StoreConstants, NEW os \in Seq(Store!Jobs \cup {None}), NEW t \in Txs(os), t.refused \/ Placed(os, t),
         NEW step \in StoreSteps(os), NEW u, u = Store!Written(os, t, step)
  PROVE  /\ u \in Txs(os)
         /\ u.refused \/ u = t \/ (step # Store!Skip /\ ~t.refused /\ Takes(os, t, u, step))
         /\ step # Store!Skip /\ ~u.refused =>
              step.job \in t.dropped \cup t.full \/ Takes(os, t, u, step)
         /\ step # Store!Skip /\ step.job \in t.dropped \cup t.full => u = t
         /\ ~u.refused => ~t.refused /\ t.full \subseteq u.full /\ (\A j \in u.full \ t.full : step # Store!Skip /\ step.job = j)
<1> DEFINE i == step.job
           id == t.ids[i]
           diff == step.columns # Store!Columns /\ id # None
<1>1. u = IF t.refused \/ i \in {None} \cup t.dropped \cup t.full THEN t
          ELSE IF diff THEN Store!Updated(t, id, os[i], step.columns)
          ELSE IF id # None THEN [Store!Updated(t, id, os[i], Store!Columns) EXCEPT !.full = @ \cup {i}]
          ELSE [Store!Inserted(t, os, i) EXCEPT !.full = @ \cup {i}]
  BY DEF Store!Written
<1>2. CASE t.refused \/ i \in {None} \cup t.dropped \cup t.full
  <2>1. u = t
    BY <1>1, <1>2
  <2>2. step # Store!Skip => i # None
    BY DEF StoreSteps, Live, StoreConstants
  <2> QED
    BY <1>2, <2>1, <2>2
<1>3. CASE ~(t.refused \/ i \in {None} \cup t.dropped \cup t.full)
  <2>1. step \in [job : Live(os), columns : SUBSET Store!Columns] /\ step # Store!Skip
    BY <1>3 DEF StoreSteps, Store!Skip
  <2>2. i \in Live(os) /\ step.columns \in SUBSET Store!Columns /\ i \in Nat /\ i \in DOMAIN os
    BY <2>1, LiveJob
  <2>3. id # None => Present(t.table, id)
    BY <1>3, <2>2 DEF Placed
  <2>4. CASE diff
    <3>1. u = Store!Updated(t, id, os[i], step.columns)
      BY <1>1, <1>3, <2>4
    <3>2. u \in Txs(os) /\ (u.refused \/ Rewrites(os, t, u, i, step.columns)) /\ u.full = t.full
      <4>1. ~t.refused /\ id = t.ids[i] /\ Present(t.table, id)
        BY <1>3, <2>3, <2>4
      <4> DEFINE columns == step.columns
      <4>2. i \in Live(os) /\ columns \in SUBSET Store!Columns /\ u = Store!Updated(t, id, os[i], columns)
        BY <2>2, <3>1
      <4> HIDE DEF i, id, columns
      <4>4. UpdateOf(os, t, u, i, id, columns)
        BY <4>1, <4>2 DEF UpdateOf
      <4>3. u \in Txs(os) /\ (u.refused \/ Rewrites(os, t, u, i, columns)) /\ u.full = t.full
        BY <4>4, Updating
      <4> QED
        BY <4>3 DEF columns
    <3> QED
      BY <1>3, <2>1, <3>2 DEF Takes
  <2>5. CASE ~diff /\ id # None
    <3> DEFINE v == Store!Updated(t, id, os[i], Store!Columns)
    <3>1. v \in Txs(os) /\ (v.refused \/ Rewrites(os, t, v, i, Store!Columns)) /\ v.full = t.full
      <4>1. ~t.refused /\ id = t.ids[i] /\ Present(t.table, id) /\ Store!Columns \in SUBSET Store!Columns
        BY <1>3, <2>3, <2>5
      <4> DEFINE columns == Store!Columns
      <4>2. i \in Live(os) /\ columns \in SUBSET Store!Columns /\ v = Store!Updated(t, id, os[i], columns)
        BY <2>2, <4>1
      <4> HIDE DEF i, id, columns, v
      <4>4. UpdateOf(os, t, v, i, id, columns)
        BY <4>1, <4>2 DEF UpdateOf
      <4>3. v \in Txs(os) /\ (v.refused \/ Rewrites(os, t, v, i, columns)) /\ v.full = t.full
        BY <4>4, Updating
      <4> QED
        BY <4>3 DEF columns
    <3>2. u = [v EXCEPT !.full = @ \cup {i}]
      BY <1>1, <1>3, <2>5
    <3> HIDE DEF v, i
    <3> DEFINE f == t.full \cup {i}
    <3>5. f \in SUBSET Nat /\ u = [v EXCEPT !.full = f]
      BY <2>2, <3>1, <3>2 DEF Txs
    <3> HIDE DEF f
    <3>6. /\ u \in Txs(os) /\ u.table = v.table /\ u.ids = v.ids /\ u.dropped = v.dropped /\ u.conflict = v.conflict
          /\ u.refused = v.refused /\ u.full = f
      BY <3>1, <3>5 DEF Txs
    <3>3. /\ u \in Txs(os) /\ u.table = v.table /\ u.ids = v.ids /\ u.dropped = v.dropped /\ u.conflict = v.conflict
          /\ u.refused = v.refused /\ u.full = t.full \cup {i}
      BY <3>6 DEF f
    <3>4. u.refused \/ Rewrites(os, t, u, i, Store!Columns)
      BY <3>1, <3>3 DEF Rewrites
    <3> USE DEF i
    <3> QED
      BY <1>3, <2>1, <3>3, <3>4 DEF Takes
  <2>6. CASE id = None
    <3> DEFINE v == Store!Inserted(t, os, i)
    <3>1. v \in Txs(os) /\ (Adds(os, t, v, i) \/ Collides(os, t, v, i)) /\ v.full = t.full
      <4> HIDE DEF i
      <4> QED
        BY <1>3, <2>2, <2>6, Inserting
    <3>2. u = [v EXCEPT !.full = @ \cup {i}]
      BY <1>1, <1>3, <2>6
    <3> HIDE DEF v, i
    <3> DEFINE f == t.full \cup {i}
    <3>5. f \in SUBSET Nat /\ u = [v EXCEPT !.full = f]
      BY <2>2, <3>1, <3>2 DEF Txs
    <3> HIDE DEF f
    <3>6. /\ u \in Txs(os) /\ u.table = v.table /\ u.ids = v.ids /\ u.dropped = v.dropped /\ u.conflict = v.conflict
          /\ u.refused = v.refused /\ u.full = f
      BY <3>1, <3>5 DEF Txs
    <3>3. /\ u \in Txs(os) /\ u.table = v.table /\ u.ids = v.ids /\ u.dropped = v.dropped /\ u.conflict = v.conflict
          /\ u.refused = v.refused /\ u.full = t.full \cup {i}
      BY <3>6 DEF f
    <3>4. Adds(os, t, u, i) \/ Collides(os, t, u, i)
      BY <3>1, <3>3 DEF Adds, Collides
    <3> USE DEF i
    <3> QED
      BY <1>3, <2>1, <3>3, <3>4 DEF Takes
  <2> QED
    BY <2>4, <2>5, <2>6
<1> QED
  BY <1>2, <1>3

\* What an apply starts from: a job with a row is the one of that row.
Given(os) == \A i \in Live(os) : os[i].row # None => Present(table, os[i].row) /\ table[os[i].row].print = os[i].print

\* The rows of before stay, each of the same print, with its mark and source;
Outlives(t) ==
  /\ Len(t.table) >= Len(table)
  /\ \A id \in 1..Len(table) :
       /\ t.table[id] = None <=> table[id] = None
       /\ table[id] # None => /\ t.table[id].print = table[id].print
                              /\ t.table[id].mark = table[id].mark /\ t.table[id].source = table[id].source
\* the rows after them are of jobs that had none;
FreshRows(os, t) ==
  \A id \in (Len(table) + 1)..Len(t.table) :
    /\ t.table[id] # None /\ t.table[id].source = "live" /\ t.table[id].mark = FALSE
    /\ \E i \in Live(os) : os[i].row = None /\ t.ids[i] = id
\* each job with a row is the one of that row.
OwnRows(os, t) ==
  \A i \in Live(os) :
    /\ os[i].row # None => t.ids[i] = os[i].row
    /\ os[i].row = None /\ t.ids[i] # None => t.ids[i] > Len(table)
    /\ t.ids[i] # None => Present(t.table, t.ids[i]) /\ t.table[t.ids[i]].print = os[i].print
Dropping(t) ==
  /\ t.conflict = None <=> t.dropped = {}
  /\ t.conflict # None => Present(t.table, t.conflict)
TxKnown(os, t) == Outlives(t) /\ FreshRows(os, t) /\ OwnRows(os, t) /\ Single(t.table) /\ Dropping(t)

Knowing(os, t) ==
  /\ os \in Seq(Store!Jobs \cup {None}) /\ table \in Tables /\ Given(os)
  /\ t \in Txs(os) /\ TxKnown(os, t)

\* Columns written leave the transaction sound:
LEMMA KnownRewrites ==
  ASSUME StoreConstants, NEW os, NEW t, Knowing(os, t), NEW u \in Txs(os), NEW i \in Live(os), NEW columns,
         Rewrites(os, t, u, i, columns)
  PROVE  TxKnown(os, u)
<1> DEFINE id == t.ids[i]
<1>1. /\ Present(t.table, id) /\ Present(u.table, id) /\ Len(u.table) = Len(t.table)
      /\ (\A k \in 1..Len(t.table) : k # id => u.table[k] = t.table[k])
      /\ u.table[id].print = t.table[id].print /\ u.table[id].mark = t.table[id].mark
      /\ u.table[id].source = t.table[id].source
      /\ Single(u.table) /\ u.ids = t.ids /\ u.dropped = t.dropped /\ u.conflict = t.conflict
  BY DEF Rewrites
<1>2. Outlives(t) /\ FreshRows(os, t) /\ OwnRows(os, t) /\ Dropping(t) /\ Len(t.table) \in Nat /\ Len(table) \in Nat
  BY DEF Knowing, TxKnown, Txs, Tables
<1> HIDE DEF id
<1>3. \A k \in 1..Len(t.table) : /\ t.table[k] = None <=> u.table[k] = None
                                 /\ u.table[k].print = t.table[k].print \/ t.table[k] = None
                                 /\ u.table[k].mark = t.table[k].mark \/ t.table[k] = None
                                 /\ u.table[k].source = t.table[k].source \/ t.table[k] = None
  BY <1>1 DEF Present
<1>4. Outlives(u)
  BY <1>1, <1>2, <1>3 DEF Outlives
<1>5. FreshRows(os, u)
  BY <1>1, <1>2, <1>3 DEF FreshRows
<1>6. OwnRows(os, u)
  BY <1>1, <1>2, <1>3 DEF OwnRows, Present
<1>7. Dropping(u)
  BY <1>1, <1>2, <1>3 DEF Dropping, Present
<1> QED
  BY <1>1, <1>4, <1>5, <1>6, <1>7 DEF TxKnown

\* so does a row added,
LEMMA KnownAdds ==
  ASSUME StoreConstants, NEW os, NEW t, Knowing(os, t), NEW u \in Txs(os), NEW i \in Live(os), Adds(os, t, u, i)
  PROVE  TxKnown(os, u)
<1> DEFINE id == Len(t.table) + 1
           entry == [print |-> os[i].print, at |-> os[i].at, result |-> os[i].result, mark |-> FALSE, source |-> "live"]
<1>1. /\ t.ids[i] = None /\ (os[i].result = None => Store!OpenIds(t.table) = {})
      /\ Len(u.table) = id /\ (\A k \in 1..Len(t.table) : u.table[k] = t.table[k])
      /\ u.table[id] = entry /\ u.ids = [t.ids EXCEPT ![i] = id]
      /\ u.dropped = t.dropped /\ u.conflict = t.conflict
  BY DEF Adds
<1>2. /\ Outlives(t) /\ FreshRows(os, t) /\ OwnRows(os, t) /\ Dropping(t) /\ Single(t.table) /\ Len(t.table) \in Nat /\ Len(table) \in Nat
      /\ t.ids \in [DOMAIN os -> Nat \cup {None}] /\ os[i] \in Store!Jobs /\ i \in DOMAIN os /\ t.table \in Tables
      /\ u.table \in Tables /\ Len(t.table) >= Len(table)
  <2>1. os \in Seq(Store!Jobs \cup {None})
    BY DEF Knowing
  <2>2. os[i] \in Store!Jobs /\ i \in DOMAIN os
    BY <2>1, LiveJob
  <2>3. /\ t.table \in Tables /\ u.table \in Tables /\ table \in Tables /\ t.ids \in [DOMAIN os -> Nat \cup {None}]
    BY DEF Knowing, Txs
  <2>4. /\ Outlives(t) /\ FreshRows(os, t) /\ OwnRows(os, t) /\ Dropping(t) /\ Single(t.table)
    BY DEF Knowing, TxKnown
  <2>5. Len(t.table) \in Nat /\ Len(table) \in Nat
    BY <2>3 DEF Tables
  <2>6. Len(t.table) >= Len(table)
    BY <2>4 DEF Outlives
  <2> QED
    BY <2>2, <2>3, <2>4, <2>5, <2>6
<1>3. entry \in Store!TableRows /\ entry # None /\ entry.print = os[i].print /\ entry.mark = FALSE /\ entry.source = "live"
      /\ entry.result = os[i].result
  <2>1. entry \in Store!TableRows
    BY <1>2 DEF Store!TableRows, Store!Jobs
  <2> QED
    BY <2>1 DEF StoreConstants
<1>4. /\ u.ids[i] = id /\ \A j \in Live(os) : j # i => u.ids[j] = t.ids[j]
  BY <1>1, <1>2 DEF Live
<1>5. os[i].row = None
  <2>1. os[i].row # None => t.ids[i] = os[i].row
    BY <1>2 DEF OwnRows
  <2> QED
    BY <1>1, <2>1
<1>6. id \in Nat /\ id > Len(table) /\ id # None /\ id > Len(t.table)
  BY <1>2 DEF StoreConstants
<1> HIDE DEF entry, id
<1>7. Outlives(u)
  BY <1>1, <1>2, <1>6 DEF Outlives
<1>8. FreshRows(os, u)
  <2>1. SUFFICES ASSUME NEW k \in (Len(table) + 1)..Len(u.table)
                 PROVE  /\ u.table[k] # None /\ u.table[k].source = "live" /\ u.table[k].mark = FALSE
                        /\ \E j \in Live(os) : os[j].row = None /\ u.ids[j] = k
    BY DEF FreshRows
  <2>2. CASE k = id
    BY <1>1, <1>3, <1>4, <1>5, <2>2
  <2>3. CASE k # id
    <3>1. k \in (Len(table) + 1)..Len(t.table) /\ u.table[k] = t.table[k]
      BY <1>1, <1>2, <2>3 DEF id
    <3>2. PICK j \in Live(os) : os[j].row = None /\ t.ids[j] = k
      BY <1>2, <3>1 DEF FreshRows
    <3>3. j # i
      BY <1>1, <3>1, <3>2, <1>2 DEF StoreConstants
    <3> QED
      BY <1>2, <1>4, <3>1, <3>2, <3>3 DEF FreshRows
  <2> QED
    BY <2>2, <2>3
<1>9. OwnRows(os, u)
  <2>1. SUFFICES ASSUME NEW j \in Live(os)
                 PROVE  /\ os[j].row # None => u.ids[j] = os[j].row
                        /\ os[j].row = None /\ u.ids[j] # None => u.ids[j] > Len(table)
                        /\ u.ids[j] # None => Present(u.table, u.ids[j]) /\ u.table[u.ids[j]].print = os[j].print
    BY DEF OwnRows
  <2>2. CASE j = i
    <3>1. Present(u.table, id)
      BY <1>1, <1>3, <1>6 DEF Present
    <3> QED
      BY <1>1, <1>3, <1>4, <1>5, <1>6, <2>2, <3>1
  <2>3. CASE j # i
    <3>1. u.ids[j] = t.ids[j]
      BY <1>4, <2>3
    <3>2. ASSUME t.ids[j] # None PROVE Present(u.table, t.ids[j]) /\ u.table[t.ids[j]].print = os[j].print
      <4>1. Present(t.table, t.ids[j]) /\ t.table[t.ids[j]].print = os[j].print
        BY <1>2, <3>2 DEF OwnRows
      <4> QED
        BY <1>1, <1>2, <1>6, <4>1 DEF Present
    <3> QED
      BY <1>2, <3>1, <3>2 DEF OwnRows
  <2> QED
    BY <2>2, <2>3
<1>10. Single(u.table)
  <2>1. SUFFICES ASSUME NEW a \in Store!OpenIds(u.table), NEW b \in Store!OpenIds(u.table) PROVE a = b
    BY DEF Single
  <2>2. \A k \in Store!OpenIds(u.table) : k = id \/ k \in Store!OpenIds(t.table)
    <3>1. SUFFICES ASSUME NEW k \in Store!OpenIds(u.table), k # id PROVE k \in Store!OpenIds(t.table)
      OBVIOUS
    <3>2. DOMAIN u.table = 1..Len(u.table) /\ DOMAIN t.table = 1..Len(t.table)
      BY <1>2 DEF Tables
    <3>3. k \in 1..Len(t.table)
      BY <1>1, <1>2, <3>1, <3>2 DEF Store!OpenIds, id
    <3> QED
      BY <1>1, <3>1, <3>2, <3>3 DEF Store!OpenIds
  <2>3. id \in Store!OpenIds(u.table) => os[i].result = None
    BY <1>1, <1>3 DEF Store!OpenIds
  <2> QED
    BY <1>1, <1>2, <2>2, <2>3 DEF Single
<1>11. Dropping(u)
  BY <1>1, <1>2, <1>6 DEF Dropping, Present
<1> QED
  BY <1>7, <1>8, <1>9, <1>10, <1>11 DEF TxKnown

\* so does an open print refused,
LEMMA KnownCollides ==
  ASSUME StoreConstants, NEW os, NEW t, Knowing(os, t), NEW u \in Txs(os), NEW i \in Live(os), Collides(os, t, u, i)
  PROVE  TxKnown(os, u)
<1>1. /\ u.table = t.table /\ u.ids = t.ids /\ u.dropped = t.dropped \cup {i}
      /\ IF t.conflict = None THEN u.conflict \in Store!OpenIds(t.table) ELSE u.conflict = t.conflict
  BY DEF Collides
<1>2. Outlives(t) /\ FreshRows(os, t) /\ OwnRows(os, t) /\ Dropping(t) /\ Single(t.table) /\ t.table \in Tables
  BY DEF Knowing, TxKnown, Txs
<1>3. \A k \in Store!OpenIds(t.table) : Present(t.table, k) /\ k # None
  <2>1. ASSUME NEW k \in Store!OpenIds(t.table) PROVE Present(t.table, k) /\ k # None
    <3>1. Present(t.table, k)
      BY <1>2, OpenTyped
    <3> QED
      BY <1>2, <3>1, RowPresent DEF StoreConstants
  <2> QED
    BY <2>1
<1>4. Dropping(u)
  BY <1>1, <1>2, <1>3 DEF Dropping
<1> QED
  BY <1>1, <1>2, <1>4 DEF TxKnown, Outlives, FreshRows, OwnRows

\* and so any step.
LEMMA KnownTakes ==
  ASSUME StoreConstants, NEW os, NEW t, Knowing(os, t), NEW u \in Txs(os), NEW step, step.job \in Live(os),
         Takes(os, t, u, step)
  PROVE  TxKnown(os, u)
<1> DEFINE i == step.job
           columns == step.columns
<1>1. i \in Live(os)
  OBVIOUS
<1>2. Rewrites(os, t, u, i, columns) \/ Rewrites(os, t, u, i, Store!Columns) \/ Adds(os, t, u, i) \/ Collides(os, t, u, i)
  BY DEF Takes
<1> HIDE DEF i, columns
<1> QED
  BY <1>1, <1>2, KnownRewrites, KnownAdds, KnownCollides

\* The jobs of the first n steps; each of them has its row, or found another print open.
Done(steps, n) == {steps[k].job : k \in {l \in 1..n : steps[l] # Store!Skip}}
Handled(steps, t, n) ==
  /\ t.full \cup t.dropped \subseteq Done(steps, n)
  /\ \A i \in Done(steps, n) : t.ids[i] # None \/ i \in t.dropped

\* What a saved process promises of its steps: they are of different prints, only the
\* running one is open and no other print follows it, what an operation leaves out the row has.
Sorted(os, steps, current) ==
  /\ \A i, j \in Live(os) : os[i].print = os[j].print => i = j
  /\ \A i \in Live(os) : os[i].result = None => i = current
  /\ \A k \in 1..Len(steps) : steps[k] # Store!Skip /\ os[steps[k].job].row # None =>
       /\ "at" \notin steps[k].columns => table[os[steps[k].job].row].at = os[steps[k].job].at
       /\ "result" \notin steps[k].columns => table[os[steps[k].job].row].result = os[steps[k].job].result
  /\ \A k, l \in 1..Len(steps) : k < l /\ steps[k] # Store!Skip /\ steps[k].job = current =>
       steps[l] = Store!Skip \/ steps[l].job = current
\* Then the rows of the jobs done are the jobs', the others are untouched.
SavedRows(os, steps, t, n) ==
  \A i \in Live(os) : t.ids[i] # None =>
    IF i \in Done(steps, n)
    THEN t.table[t.ids[i]].at = os[i].at /\ t.table[t.ids[i]].result = os[i].result
    ELSE /\ os[i].row # None
         /\ t.table[t.ids[i]].at = table[os[i].row].at /\ t.table[t.ids[i]].result = table[os[i].row].result
Refusing(t, current) == t.conflict # None => current \in t.dropped /\ t.table[t.conflict].result = None
SavedSoFar(os, steps, current, t, n) == SavedRows(os, steps, t, n) /\ Refusing(t, current)

\* What is handled stays handled.
LEMMA DoneGrows ==
  ASSUME NEW steps, NEW n \in Nat, n > 0
  PROVE  Done(steps, n) = IF steps[n] = Store!Skip THEN Done(steps, n - 1) ELSE Done(steps, n - 1) \cup {steps[n].job}
<1>1. 1..n = 1..(n - 1) \cup {n}
  OBVIOUS
<1> QED
  BY <1>1 DEF Done

\* A step handles its job.
LEMMA HandledTakes ==
  ASSUME StoreConstants, NEW os, NEW t \in Txs(os), NEW u \in Txs(os), NEW steps, NEW n \in Nat, n > 0, steps[n] # Store!Skip,
         steps[n].job \in Live(os), \A j \in u.full \ t.full : steps[n].job = j,
         Handled(steps, t, n - 1), Takes(os, t, u, steps[n]), TxKnown(os, u)
  PROVE  Handled(steps, u, n)
<1> DEFINE i == steps[n].job
           D == Done(steps, n - 1)
<1>1. Done(steps, n) = D \cup {i}
  BY DoneGrows
<1>2. t.full \cup t.dropped \subseteq D /\ \A j \in D : t.ids[j] # None \/ j \in t.dropped
  BY DEF Handled
<1>3. i \in DOMAIN os /\ t.ids \in [DOMAIN os -> Nat \cup {None}] /\ i \in Live(os) /\ Len(t.table) + 1 \in Nat
  BY DEF Live, Txs, Tables
<1>4. Rewrites(os, t, u, i, steps[n].columns) \/ Rewrites(os, t, u, i, Store!Columns) \/ Adds(os, t, u, i) \/ Collides(os, t, u, i)
  BY DEF Takes
<1>5. u.full \subseteq D \cup {i}
  BY <1>2
<1> HIDE DEF i, D
<1>6. /\ u.dropped \subseteq D \cup {i} /\ t.dropped \subseteq u.dropped
      /\ u.ids[i] # None \/ i \in u.dropped
      /\ \A j \in D : j # i => u.ids[j] = t.ids[j]
  <2>1. CASE Adds(os, t, u, i)
    <3>1. u.ids = [t.ids EXCEPT ![i] = Len(t.table) + 1] /\ u.dropped = t.dropped
      BY <2>1 DEF Adds
    <3>2. u.ids[i] = Len(t.table) + 1 /\ \A j : j # i => u.ids[j] = t.ids[j]
      BY <1>3, <3>1
    <3> QED
      BY <1>2, <1>3, <3>1, <3>2 DEF StoreConstants
  <2>2. CASE Collides(os, t, u, i)
    BY <1>2, <2>2 DEF Collides
  <2>3. CASE \E c : Rewrites(os, t, u, i, c)
    <3>1. u.ids = t.ids /\ u.dropped = t.dropped /\ Present(t.table, t.ids[i])
      BY <2>3 DEF Rewrites
    <3>2. t.ids[i] # None
      BY <3>1 DEF Present, StoreConstants, Txs, Tables
    <3> QED
      BY <1>2, <3>1, <3>2
  <2> QED
    BY <1>4, <2>1, <2>2, <2>3
<1> QED
  BY <1>1, <1>2, <1>5, <1>6 DEF Handled

\* A step keeps the rows equal to the jobs they were written from.
LEMMA SavedTakes ==
  ASSUME StoreConstants, NEW os, NEW t, Knowing(os, t), NEW u \in Txs(os), NEW steps, NEW n \in 1..Len(steps), Len(steps) \in Nat,
         steps[n] # Store!Skip, steps[n].job \in Live(os), steps[n].job \notin t.dropped, NEW current,
         Handled(steps, t, n - 1), Takes(os, t, u, steps[n]), TxKnown(os, u),
         Sorted(os, steps, current), SavedSoFar(os, steps, current, t, n - 1)
  PROVE  SavedSoFar(os, steps, current, u, n)
<1> DEFINE i == steps[n].job
           D == Done(steps, n - 1)
           columns == steps[n].columns
<1>1. Done(steps, n) = D \cup {i}
  BY DoneGrows
<1>2. /\ t \in Txs(os) /\ OwnRows(os, t) /\ t.ids \in [DOMAIN os -> Nat \cup {None}] /\ t.table \in Tables
      /\ Len(t.table) \in Nat /\ i \in DOMAIN os /\ i \in Live(os) /\ u.table \in Tables
  BY DEF Knowing, TxKnown, Txs, Tables, Live
<1>3. t.conflict = None
  <2>1. SUFFICES ASSUME t.conflict # None PROVE FALSE
    OBVIOUS
  <2>2. current \in t.dropped
    BY <2>1 DEF SavedSoFar, Refusing
  <2>3. current \in D
    BY <2>2 DEF Handled
  <2>4. PICK k \in 1..(n - 1) : steps[k] # Store!Skip /\ steps[k].job = current
    BY <2>3 DEF Done
  <2>5. k \in 1..Len(steps) /\ k < n
    OBVIOUS
  <2>6. steps[n].job = current
    BY <2>4, <2>5 DEF Sorted
  <2> QED
    BY <2>2, <2>6
<1>4. \A j \in Live(os) : j # i /\ t.ids[j] # None => t.ids[j] # t.ids[i]
  BY <1>2 DEF OwnRows, Sorted
<1>5. \A j \in Live(os) : t.ids[j] # None =>
        IF j \in D THEN t.table[t.ids[j]].at = os[j].at /\ t.table[t.ids[j]].result = os[j].result
        ELSE /\ os[j].row # None
             /\ t.table[t.ids[j]].at = table[os[j].row].at /\ t.table[t.ids[j]].result = table[os[j].row].result
  BY DEF SavedSoFar, SavedRows
<1>6. os[i].row # None =>
        /\ "at" \notin columns => table[os[i].row].at = os[i].at
        /\ "result" \notin columns => table[os[i].row].result = os[i].result
  BY DEF Sorted
<1>7. \A j \in Live(os) : t.ids[j] # None => t.ids[j] \in 1..Len(t.table)
  BY <1>2 DEF OwnRows, Present
<1>8. Rewrites(os, t, u, i, columns) \/ Rewrites(os, t, u, i, Store!Columns) \/ Adds(os, t, u, i) \/ Collides(os, t, u, i)
  BY DEF Takes
<1>9. os[i].result = None => i = current
  BY <1>2 DEF Sorted
<1> HIDE DEF i, D, columns
<1>10. ASSUME NEW c, Rewrites(os, t, u, i, c), c = columns \/ c = Store!Columns PROVE SavedSoFar(os, steps, current, u, n)
  <2> DEFINE id == t.ids[i]
  <2>1. /\ u.table[id].at = (IF "at" \in c THEN os[i].at ELSE t.table[id].at)
        /\ u.table[id].result = (IF "result" \in c THEN os[i].result ELSE t.table[id].result)
        /\ u.ids = t.ids /\ u.conflict = t.conflict /\ id # None
        /\ \A k \in 1..Len(t.table) : k # id => u.table[k] = t.table[k]
    BY <1>2, <1>10 DEF Rewrites, Present, StoreConstants, Tables
  <2>2. u.table[id].at = os[i].at /\ u.table[id].result = os[i].result
    BY <1>2, <1>5, <1>6, <1>10, <2>1 DEF Store!Columns
  <2>3. ASSUME NEW j \in Live(os), u.ids[j] # None
        PROVE  IF j \in Done(steps, n)
               THEN u.table[u.ids[j]].at = os[j].at /\ u.table[u.ids[j]].result = os[j].result
               ELSE /\ os[j].row # None
                    /\ u.table[u.ids[j]].at = table[os[j].row].at /\ u.table[u.ids[j]].result = table[os[j].row].result
    <3>1. CASE j = i
      BY <1>1, <2>1, <2>2, <3>1
    <3>2. CASE j # i
      <4>1. u.table[u.ids[j]] = t.table[t.ids[j]] /\ u.ids[j] = t.ids[j]
        BY <1>4, <1>7, <2>1, <2>3, <3>2
      <4>2. j \in Done(steps, n) <=> j \in D
        BY <1>1, <3>2
      <4> QED
        BY <1>5, <2>3, <4>1, <4>2
    <3> QED
      BY <3>1, <3>2
  <2>4. Refusing(u, current)
    BY <1>3, <2>1 DEF Refusing
  <2> QED
    BY <2>3, <2>4 DEF SavedSoFar, SavedRows
<1>11. ASSUME Adds(os, t, u, i) PROVE SavedSoFar(os, steps, current, u, n)
  <2> DEFINE id == Len(t.table) + 1
  <2>1. /\ u.table[id].at = os[i].at /\ u.table[id].result = os[i].result
        /\ u.ids = [t.ids EXCEPT ![i] = id] /\ u.conflict = t.conflict
        /\ \A k \in 1..Len(t.table) : u.table[k] = t.table[k]
    BY <1>11 DEF Adds
  <2>2. u.ids[i] = id /\ \A j : j # i => u.ids[j] = t.ids[j]
    BY <1>2, <2>1
  <2>3. ASSUME NEW j \in Live(os), u.ids[j] # None
        PROVE  IF j \in Done(steps, n)
               THEN u.table[u.ids[j]].at = os[j].at /\ u.table[u.ids[j]].result = os[j].result
               ELSE /\ os[j].row # None
                    /\ u.table[u.ids[j]].at = table[os[j].row].at /\ u.table[u.ids[j]].result = table[os[j].row].result
    <3>1. CASE j = i
      BY <1>1, <2>1, <2>2, <3>1
    <3>2. CASE j # i
      <4>1. u.table[u.ids[j]] = t.table[t.ids[j]] /\ u.ids[j] = t.ids[j]
        BY <1>7, <2>1, <2>2, <2>3, <3>2
      <4>2. j \in Done(steps, n) <=> j \in D
        BY <1>1, <3>2
      <4> QED
        BY <1>5, <2>3, <4>1, <4>2
    <3> QED
      BY <3>1, <3>2
  <2>4. Refusing(u, current)
    BY <1>3, <2>1 DEF Refusing
  <2> QED
    BY <2>3, <2>4 DEF SavedSoFar, SavedRows
<1>12. ASSUME Collides(os, t, u, i) PROVE SavedSoFar(os, steps, current, u, n)
  <2>1. /\ t.ids[i] = None /\ os[i].result = None /\ u.table = t.table /\ u.ids = t.ids /\ u.dropped = t.dropped \cup {i}
        /\ u.conflict \in Store!OpenIds(t.table)
    BY <1>3, <1>12 DEF Collides
  <2>2. ASSUME NEW j \in Live(os), u.ids[j] # None
        PROVE  IF j \in Done(steps, n)
               THEN u.table[u.ids[j]].at = os[j].at /\ u.table[u.ids[j]].result = os[j].result
               ELSE /\ os[j].row # None
                    /\ u.table[u.ids[j]].at = table[os[j].row].at /\ u.table[u.ids[j]].result = table[os[j].row].result
    <3>1. j # i
      BY <2>1, <2>2
    <3>2. j \in Done(steps, n) <=> j \in D
      BY <1>1, <3>1
    <3> QED
      BY <1>5, <2>1, <2>2, <3>2
  <2>3. Refusing(u, current)
    BY <1>9, <2>1 DEF Refusing, Store!OpenIds
  <2> QED
    BY <2>2, <2>3 DEF SavedSoFar, SavedRows
<1> QED
  BY <1>8, <1>10, <1>11, <1>12

Starting(os) == os \in Seq(Store!Jobs \cup {None}) /\ table \in Tables /\ Given(os) /\ Single(table)

\* A transaction begins with the table as it is.
LEMMA BeginsKnown ==
  ASSUME StoreConstants, NEW os, Starting(os), NEW steps, NEW current, NEW t, t = Store!Begun(os)
  PROVE  /\ t \in Txs(os) /\ TxKnown(os, t) /\ Handled(steps, t, 0)
         /\ SavedSoFar(os, steps, current, t, 0)
<1> DEFINE ids == [i \in DOMAIN os |-> IF os[i] = None THEN None ELSE os[i].row]
<1>1. t = [table |-> table, ids |-> ids, full |-> {}, dropped |-> {}, conflict |-> None, refused |-> FALSE]
  BY DEF Store!Begun
<1>2. \A i \in Live(os) : ids[i] = os[i].row /\ i \in DOMAIN os /\ os[i].row \in Nat \cup {None}
  <2>1. SUFFICES ASSUME NEW i \in Live(os) PROVE ids[i] = os[i].row /\ i \in DOMAIN os /\ os[i].row \in Nat \cup {None}
    OBVIOUS
  <2>2. os[i] \in Store!Jobs
    BY LiveJob DEF Starting
  <2> QED
    BY <2>2 DEF Live, Store!Jobs
<1>3. ids \in [DOMAIN os -> Nat \cup {None}]
  <2>1. ASSUME NEW i \in DOMAIN os PROVE ids[i] \in Nat \cup {None}
    BY <1>2 DEF Live
  <2> QED
    BY <2>1
<1>4. /\ table \in Tables /\ Single(table) /\ Len(table) \in Nat
      /\ \A i \in Live(os) : os[i].row # None => Present(table, os[i].row) /\ table[os[i].row].print = os[i].print
  BY DEF Starting, Given, Tables
<1>5. Done(steps, 0) = {}
  BY DEF Done
<1> HIDE DEF ids
<1>6. /\ t \in Txs(os) /\ t.table = table /\ t.ids = ids /\ t.full = {} /\ t.dropped = {} /\ t.conflict = None
  BY <1>1, <1>3, <1>4 DEF Txs
<1>7. Outlives(t) /\ FreshRows(os, t) /\ Dropping(t)
  BY <1>4, <1>6 DEF Outlives, FreshRows, Dropping
<1>8. OwnRows(os, t)
  BY <1>2, <1>4, <1>6 DEF OwnRows
<1>9. Handled(steps, t, 0)
  BY <1>5, <1>6 DEF Handled
<1>10. SavedSoFar(os, steps, current, t, 0)
  BY <1>2, <1>5, <1>6 DEF SavedSoFar, SavedRows, Refusing
<1> QED
  BY <1>4, <1>6, <1>7, <1>8, <1>9, <1>10 DEF TxKnown

\* What is known after n steps, of a process that is saved the more.
Going(os, steps, current, t, n) ==
  /\ t \in Txs(os)
  /\ t.refused \/ /\ TxKnown(os, t) /\ Handled(steps, t, n)
                  /\ Sorted(os, steps, current) => SavedSoFar(os, steps, current, t, n)

\* One more step of it.
LEMMA GoingOn ==
  ASSUME StoreConstants, NEW os, Starting(os), NEW steps \in Seq(StoreSteps(os)), NEW current, NEW n \in 1..Len(steps),
         NEW t, Going(os, steps, current, t, n - 1), NEW u, u = Store!Written(os, t, steps[n])
  PROVE  Going(os, steps, current, u, n)
<1> DEFINE step == steps[n]
<1>0. n \in Nat /\ n > 0 /\ n - 1 \in Nat /\ Len(steps) \in Nat
  OBVIOUS
<1>1. t \in Txs(os) /\ os \in Seq(Store!Jobs \cup {None}) /\ step \in StoreSteps(os) /\ u = Store!Written(os, t, step)
  BY DEF Going, Starting
<1>2. t.refused \/ Placed(os, t)
  BY DEF Going, TxKnown, OwnRows, Placed
<1>3. /\ u \in Txs(os)
      /\ u.refused \/ u = t \/ (step # Store!Skip /\ ~t.refused /\ Takes(os, t, u, step))
      /\ step # Store!Skip /\ ~u.refused => step.job \in t.dropped \cup t.full \/ Takes(os, t, u, step)
      /\ step # Store!Skip /\ step.job \in t.dropped \cup t.full => u = t
      /\ ~u.refused => ~t.refused /\ t.full \subseteq u.full /\ (\A j \in u.full \ t.full : step # Store!Skip /\ step.job = j)
  <2> HIDE DEF step
  <2> QED
    BY <1>1, <1>2, Writing
<1>4. CASE u.refused
  BY <1>3, <1>4 DEF Going
<1>5. CASE ~u.refused /\ (step = Store!Skip \/ step.job \in t.dropped \cup t.full)
  <2>1. ~t.refused
    BY <1>3, <1>5
  <2>5. TxKnown(os, t) /\ Handled(steps, t, n - 1)
    BY <2>1 DEF Going
  <2>2. u = t
    <3>1. CASE step.job \in t.dropped \cup t.full /\ step # Store!Skip
      BY <1>3, <3>1
    <3>2. CASE step = Store!Skip
      BY <1>3, <1>5, <3>2
    <3> QED
      BY <1>5, <3>1, <3>2
  <2>3. Done(steps, n) = Done(steps, n - 1)
    <3>1. step # Store!Skip => step.job \in Done(steps, n - 1)
      BY <1>5, <2>5 DEF Handled
    <3>2. Done(steps, n) = IF step = Store!Skip THEN Done(steps, n - 1) ELSE Done(steps, n - 1) \cup {step.job}
      BY <1>0, DoneGrows
    <3> QED
      BY <3>1, <3>2
  <2>4. TxKnown(os, u) /\ Handled(steps, u, n)
    BY <2>5, <2>2, <2>3 DEF Handled
  <2>6. Sorted(os, steps, current) => SavedSoFar(os, steps, current, u, n)
    BY <2>1, <2>2, <2>3 DEF Going, SavedSoFar, SavedRows
  <2> QED
    BY <1>3, <2>4, <2>6 DEF Going
<1>6. CASE ~u.refused /\ step # Store!Skip /\ step.job \notin t.dropped \cup t.full
  <2>1. ~t.refused /\ Takes(os, t, u, step) /\ step.job \in Live(os) /\ \A j \in u.full \ t.full : step.job = j
    <3>1. step.job \in Live(os)
      BY <1>1, <1>6 DEF StoreSteps
    <3> QED
      BY <1>3, <1>6, <3>1
  <2>2. Knowing(os, t) /\ Handled(steps, t, n - 1)
    BY <1>1, <2>1 DEF Going, Knowing, Starting
  <2>3. TxKnown(os, u)
    <3> HIDE DEF step
    <3> QED
      BY <1>3, <2>1, <2>2, KnownTakes
  <2>4. Handled(steps, u, n)
    BY <1>0, <1>1, <1>3, <1>6, <2>1, <2>2, <2>3, HandledTakes
  <2>5. ASSUME Sorted(os, steps, current) PROVE SavedSoFar(os, steps, current, u, n)
    <3>1. SavedSoFar(os, steps, current, t, n - 1)
      BY <2>1, <2>5 DEF Going
    <3> QED
      BY <1>0, <1>3, <1>6, <2>1, <2>2, <2>3, <2>5, <3>1, SavedTakes
  <2> QED
    BY <1>3, <2>3, <2>4, <2>5 DEF Going
<1> QED
  BY <1>4, <1>5, <1>6

\* The whole transaction.
LEMMA TransactionKnown ==
  ASSUME StoreConstants, NEW os, Starting(os), NEW steps \in Seq(StoreSteps(os)), NEW current
  PROVE  Going(os, steps, current, Store!Transaction(os, steps), Len(steps))
<1>0. Len(steps) \in Nat
  OBVIOUS
<1>1. PICK tx : /\ tx = [n \in 0..Len(steps) |-> IF n = 0 THEN Store!Begun(os)
                                                ELSE Store!Written(os, tx[n - 1], steps[n])]
                /\ Store!Transaction(os, steps) = tx[Len(steps)]
  BY <1>0, TransactionRuns
<1> DEFINE S == {n \in 0..Len(steps) : Going(os, steps, current, tx[n], n)}
<1>2. \A n \in 0..Len(steps) : tx[n] = IF n = 0 THEN Store!Begun(os) ELSE Store!Written(os, tx[n - 1], steps[n])
  <2> DEFINE W(t, n) == Store!Written(os, t, steps[n])
             first == Store!Begun(os)
  <2>1. tx = [n \in 0..Len(steps) |-> IF n = 0 THEN first ELSE W(tx[n - 1], n)]
    BY <1>1
  <2> HIDE DEF W, first
  <2>2. \A n \in 0..Len(steps) : tx[n] = IF n = 0 THEN first ELSE W(tx[n - 1], n)
    BY <2>1
  <2> QED
    BY <2>2 DEF W, first
<1>3. 0 \in S
  <2>1. tx[0] = Store!Begun(os) /\ 0 \in 0..Len(steps)
    BY <1>0, <1>2
  <2> DEFINE t == tx[0]
  <2>2. t = Store!Begun(os)
    BY <2>1
  <2> HIDE DEF t
  <2>3. Going(os, steps, current, t, 0)
    BY <2>2, BeginsKnown DEF Going
  <2> QED
    BY <2>1, <2>3 DEF t
<1>4. ASSUME NEW n \in 0..Len(steps), n > 0, n - 1 \in S PROVE n \in S
  <2> DEFINE t == tx[n - 1]
             u == tx[n]
  <2>1. Going(os, steps, current, t, n - 1) /\ n \in 1..Len(steps)
    BY <1>0, <1>4
  <2>2. u = Store!Written(os, t, steps[n])
    BY <1>2, <1>4
  <2> HIDE DEF t, u
  <2>3. Going(os, steps, current, u, n)
    BY <2>1, <2>2, GoingOn
  <2> QED
    BY <1>4, <2>3 DEF u
<1>5. \A n \in 0..Len(steps) : n > 0 /\ n - 1 \in S => n \in S
  BY <1>4
<1>6. Len(steps) \in S
  <2> HIDE DEF S
  <2>1. \A n \in 0..Len(steps) : n \in S
    BY <1>0, <1>3, <1>5, Upwards
  <2> QED
    BY <1>0, <2>1
<1> QED
  BY <1>1, <1>6

\* What is to be written: the retried jobs and those of the operations.
Feeding(os, queue, ops) ==
  /\ os \in Seq(Store!Jobs \cup {None}) /\ queue \in Seq(Live(os))
  /\ ops \in Seq([job : Live(os), columns : SUBSET Store!Columns])
Due(queue, ops) == Store!Range(queue) \cup {ops[n].job : n \in DOMAIN ops}
Closed(os, queue) == {i \in Store!Range(queue) : os[i].result # None}

\* The retried jobs in full.
LEMMA InFullIs ==
  ASSUME NEW os, NEW queue \in Seq(Live(os)), NEW jobs
  PROVE  /\ Store!InFull(queue, jobs) \in Seq(StoreSteps(os)) /\ Len(Store!InFull(queue, jobs)) = Len(queue)
         /\ \A n \in 1..Len(queue) : Store!InFull(queue, jobs)[n] =
              IF queue[n] \in jobs THEN [job |-> queue[n], columns |-> Store!Columns] ELSE Store!Skip
<1> DEFINE f == [n \in 1..Len(queue) |-> IF queue[n] \in jobs THEN [job |-> queue[n], columns |-> Store!Columns] ELSE Store!Skip]
<1>1. Store!InFull(queue, jobs) = f /\ Len(queue) \in Nat
  BY DEF Store!InFull
<1>2. \A n \in 1..Len(queue) : f[n] \in StoreSteps(os)
  <2>1. SUFFICES ASSUME NEW n \in 1..Len(queue) PROVE f[n] \in StoreSteps(os)
    OBVIOUS
  <2>2. queue[n] \in Live(os)
    OBVIOUS
  <2>3. [job |-> queue[n], columns |-> Store!Columns] \in StoreSteps(os)
    BY <2>2 DEF StoreSteps
  <2> QED
    BY <2>3 DEF StoreSteps
<1>3. f \in Seq(StoreSteps(os)) /\ Len(f) = Len(queue)
  <2>1. DOMAIN f = 1..Len(queue) /\ f \in [1..Len(queue) -> StoreSteps(os)]
    BY <1>2
  <2> HIDE DEF f
  <2> QED
    BY <1>1, <2>1
<1> QED
  BY <1>1, <1>3

\* An operation names a job the process holds.
LEMMA OpTyped == ASSUME NEW os, NEW queue, NEW ops, Feeding(os, queue, ops), NEW n \in 1..Len(ops)
  PROVE  ops[n].job \in Live(os) /\ ops[n].columns \in SUBSET Store!Columns /\ ops[n] \in [job : Live(os), columns : SUBSET Store!Columns]
<1> DEFINE R == [job : Live(os), columns : SUBSET Store!Columns]
<1>1. ops \in Seq(R)
  BY DEF Feeding
<1>2. ops[n] \in R
  <2> HIDE DEF R
  <2> QED
    BY <1>1
<1> QED
  BY <1>2

\* The steps: the closed jobs of the queue, its open ones, the operations of the others.
Laid(os, queue, ops, steps) ==
  LET q == Len(queue)
      closed == Closed(os, queue)
  IN /\ Len(steps) = q + q + Len(ops) /\ q \in Nat /\ Len(ops) \in Nat
     /\ \A n \in 1..q :
          /\ steps[n] = IF queue[n] \in closed THEN [job |-> queue[n], columns |-> Store!Columns] ELSE Store!Skip
          /\ steps[q + n] = IF queue[n] \in closed THEN Store!Skip ELSE [job |-> queue[n], columns |-> Store!Columns]
     /\ \A n \in 1..Len(ops) : steps[q + q + n] = IF ops[n].job \in Store!Range(queue) THEN Store!Skip ELSE ops[n]

\* The steps of an apply: the closed jobs, the others, the operations.
LEMMA StepsAre ==
  ASSUME NEW os, NEW queue, NEW ops, Feeding(os, queue, ops), NEW steps, steps = Store!Steps(os, queue, ops)
  PROVE  steps \in Seq(StoreSteps(os)) /\ Laid(os, queue, ops, steps)
<1> DEFINE closed == Closed(os, queue)
           a == Store!InFull(queue, closed)
           b == Store!InFull(queue, Store!Range(queue) \ closed)
           c == [n \in DOMAIN ops |-> IF ops[n].job \in Store!Range(queue) THEN Store!Skip ELSE ops[n]]
           T == StoreSteps(os)
<1>1. queue \in Seq(Live(os)) /\ ops \in Seq([job : Live(os), columns : SUBSET Store!Columns])
  BY DEF Feeding
<1>2. steps = (a \o b) \o c
  BY DEF Store!Steps, Closed
<1>3. /\ a \in Seq(T) /\ Len(a) = Len(queue)
      /\ \A n \in 1..Len(queue) : a[n] = IF queue[n] \in closed THEN [job |-> queue[n], columns |-> Store!Columns] ELSE Store!Skip
  BY <1>1, InFullIs
<1>4. /\ b \in Seq(T) /\ Len(b) = Len(queue)
      /\ \A n \in 1..Len(queue) : b[n] = IF queue[n] \in Store!Range(queue) \ closed
                                         THEN [job |-> queue[n], columns |-> Store!Columns] ELSE Store!Skip
  BY <1>1, InFullIs
<1>5. \A n \in 1..Len(queue) : queue[n] \in Store!Range(queue)
  BY <1>1 DEF Store!Range
<1>6. /\ c \in Seq(T) /\ Len(c) = Len(ops)
      /\ \A n \in 1..Len(ops) : c[n] = IF ops[n].job \in Store!Range(queue) THEN Store!Skip ELSE ops[n]
  <2>0. DOMAIN ops = 1..Len(ops) /\ Len(ops) \in Nat
    BY <1>1
  <2>3. \A n \in 1..Len(ops) : c[n] = IF ops[n].job \in Store!Range(queue) THEN Store!Skip ELSE ops[n]
    BY <2>0
  <2>1. \A n \in 1..Len(ops) : c[n] \in T
    <3>1. SUFFICES ASSUME NEW n \in 1..Len(ops) PROVE c[n] \in T
      OBVIOUS
    <3>2. ops[n] \in [job : Live(os), columns : SUBSET Store!Columns]
      BY OpTyped
    <3>3. ops[n] \in T /\ Store!Skip \in T
      BY <3>2 DEF StoreSteps
    <3> QED
      BY <2>3, <3>3
  <2>2. DOMAIN c = 1..Len(ops) /\ c \in [1..Len(ops) -> T] /\ Len(ops) \in Nat
    BY <2>0, <2>1
  <2> HIDE DEF c, T
  <2> QED
    BY <2>2, <2>3
<1>7. Len(queue) \in Nat /\ Len(ops) \in Nat
  BY <1>1
<1> DEFINE qlen == Len(queue)
           olen == Len(ops)
<1> HIDE DEF a, b, c, closed, T
<1>8. /\ a \o b \in Seq(T) /\ Len(a \o b) = qlen + qlen
      /\ \A n \in 1..(qlen + qlen) : (a \o b)[n] = IF n <= qlen THEN a[n] ELSE b[n - qlen]
  BY <1>3, <1>4, ConcatProperties
<1> DEFINE ab == a \o b
<1>9. ab \in Seq(T) /\ Len(ab) = qlen + qlen /\ \A n \in 1..(qlen + qlen) : ab[n] = IF n <= qlen THEN a[n] ELSE b[n - qlen]
  BY <1>8
<1>10. steps = ab \o c
  BY <1>2
<1> HIDE DEF ab
<1>11. /\ steps \in Seq(T) /\ Len(steps) = qlen + qlen + olen
       /\ \A n \in 1..(qlen + qlen + olen) : steps[n] = IF n <= qlen + qlen THEN ab[n] ELSE c[n - (qlen + qlen)]
  <2>1. ab \in Seq(T) /\ c \in Seq(T) /\ Len(ab) = qlen + qlen /\ Len(c) = olen
    BY <1>6, <1>9
  <2> HIDE DEF qlen, olen
  <2>2. /\ ab \o c \in Seq(T) /\ Len(ab \o c) = Len(ab) + Len(c)
        /\ \A n \in 1..(Len(ab) + Len(c)) : (ab \o c)[n] = IF n <= Len(ab) THEN ab[n] ELSE c[n - Len(ab)]
    BY <2>1, ConcatProperties
  <2> QED
    BY <1>10, <2>1, <2>2
<1> HIDE DEF qlen, olen
<1>12. qlen \in Nat /\ olen \in Nat
  BY <1>7 DEF qlen, olen
<1>13. ASSUME NEW n \in 1..qlen PROVE steps[n] = a[n] /\ steps[qlen + n] = b[n]
  <2>1. n \in 1..(qlen + qlen + olen) /\ n <= qlen + qlen /\ n \in 1..(qlen + qlen) /\ n <= qlen
    BY <1>12
  <2>2. steps[n] = ab[n] /\ ab[n] = a[n]
    BY <1>9, <1>11, <2>1
  <2>3. qlen + n \in 1..(qlen + qlen + olen) /\ qlen + n <= qlen + qlen /\ qlen + n \in 1..(qlen + qlen) /\ ~(qlen + n <= qlen)
        /\ (qlen + n) - qlen = n
    BY <1>12
  <2>4. steps[qlen + n] = ab[qlen + n] /\ ab[qlen + n] = b[(qlen + n) - qlen]
    BY <1>9, <1>11, <2>3
  <2> QED
    BY <2>2, <2>3, <2>4
<1>14. ASSUME NEW n \in 1..olen PROVE steps[qlen + qlen + n] = c[n]
  <2>1. qlen + qlen + n \in 1..(qlen + qlen + olen) /\ ~(qlen + qlen + n <= qlen + qlen) /\ (qlen + qlen + n) - (qlen + qlen) = n
    BY <1>12
  <2> QED
    BY <1>11, <2>1
<1>15. \A n \in 1..Len(queue) :
         /\ steps[n] = IF queue[n] \in closed THEN [job |-> queue[n], columns |-> Store!Columns] ELSE Store!Skip
         /\ steps[Len(queue) + n] = IF queue[n] \in closed THEN Store!Skip ELSE [job |-> queue[n], columns |-> Store!Columns]
  BY <1>3, <1>4, <1>5, <1>13 DEF qlen
<1>16. \A n \in 1..Len(ops) :
         steps[Len(queue) + Len(queue) + n] = IF ops[n].job \in Store!Range(queue) THEN Store!Skip ELSE ops[n]
  BY <1>6, <1>14 DEF qlen, olen
<1> QED
  BY <1>7, <1>11, <1>15, <1>16 DEF T, closed, qlen, olen, Laid

\* Every job due has a step.
LEMMA StepsDone ==
  ASSUME StoreConstants, NEW os, NEW queue, NEW ops, Feeding(os, queue, ops), NEW steps, steps = Store!Steps(os, queue, ops)
  PROVE  Done(steps, Len(steps)) = Due(queue, ops)
<1> DEFINE q == Len(queue)
           o == Len(ops)
           closed == Closed(os, queue)
<1>1. /\ Len(steps) = q + q + o /\ q \in Nat /\ o \in Nat
      /\ \A n \in 1..q :
           /\ steps[n] = IF queue[n] \in closed THEN [job |-> queue[n], columns |-> Store!Columns] ELSE Store!Skip
           /\ steps[q + n] = IF queue[n] \in closed THEN Store!Skip ELSE [job |-> queue[n], columns |-> Store!Columns]
      /\ \A n \in 1..o : steps[q + q + n] = IF ops[n].job \in Store!Range(queue) THEN Store!Skip ELSE ops[n]
  <2>1. Laid(os, queue, ops, steps)
    BY StepsAre
  <2> QED
    BY <2>1 DEF Laid
<1>2. /\ DOMAIN queue = 1..q /\ DOMAIN ops = 1..o
      /\ \A n \in 1..q : queue[n] # None
      /\ \A n \in 1..o : ops[n].job # None
  <2>1. \A n \in 1..q : queue[n] \in Live(os)
    BY DEF Feeding
  <2>2. \A n \in 1..o : ops[n].job \in Live(os)
    BY OpTyped
  <2>3. None \notin Live(os)
    BY DEF Feeding, Live, StoreConstants
  <2> QED
    BY <2>1, <2>2, <2>3 DEF Feeding
<1> HIDE DEF q, o, closed
<1>3. \A n \in 1..q : [job |-> queue[n], columns |-> Store!Columns] # Store!Skip
  <2>1. SUFFICES ASSUME NEW n \in 1..q, [job |-> queue[n], columns |-> Store!Columns] = Store!Skip PROVE FALSE
    OBVIOUS
  <2>2. [job |-> queue[n], columns |-> Store!Columns].job = Store!Skip.job
    BY <2>1
  <2> QED
    BY <1>2, <2>2 DEF Store!Skip
<1>4. \A n \in 1..o : ops[n] # Store!Skip
  BY <1>2 DEF Store!Skip
<1>5. ASSUME NEW n \in 1..(q + q + o), steps[n] # Store!Skip PROVE steps[n].job \in Due(queue, ops)
  <2>1. CASE n <= q
    <3>1. n \in 1..q
      BY <1>1, <2>1
    <3>2. steps[n] = [job |-> queue[n], columns |-> Store!Columns]
      BY <1>1, <1>5, <3>1
    <3> QED
      BY <1>2, <3>1, <3>2 DEF Due, Store!Range
  <2>2. CASE n > q /\ n <= q + q
    <3>1. n - q \in 1..q /\ q + (n - q) = n
      BY <1>1, <2>2
    <3>2. steps[n] = [job |-> queue[n - q], columns |-> Store!Columns]
      BY <1>1, <1>5, <3>1
    <3> QED
      BY <1>2, <3>1, <3>2 DEF Due, Store!Range
  <2>3. CASE n > q + q
    <3>1. n - (q + q) \in 1..o /\ q + q + (n - (q + q)) = n
      BY <1>1, <2>3
    <3>2. steps[n] = ops[n - (q + q)]
      BY <1>1, <1>5, <3>1
    <3> QED
      BY <1>2, <3>1, <3>2 DEF Due
  <2> QED
    BY <1>1, <2>1, <2>2, <2>3
<1>6. ASSUME NEW x \in Store!Range(queue) PROVE \E n \in 1..(q + q + o) : steps[n] # Store!Skip /\ steps[n].job = x
  <2>1. PICK n \in 1..q : queue[n] = x
    BY <1>2 DEF Store!Range
  <2>2. n \in 1..(q + q + o) /\ q + n \in 1..(q + q + o)
    BY <1>1
  <2> DEFINE step == [job |-> queue[n], columns |-> Store!Columns]
  <2>5. step # Store!Skip /\ step.job = x /\ (steps[n] = step \/ steps[q + n] = step)
    BY <1>1, <1>3, <2>1
  <2> HIDE DEF step
  <2>3. CASE steps[n] = step
    BY <2>2, <2>3, <2>5
  <2>4. CASE steps[q + n] = step
    BY <2>2, <2>4, <2>5
  <2> QED
    BY <2>3, <2>4, <2>5
<1>7. ASSUME NEW k \in 1..o PROVE \E n \in 1..(q + q + o) : steps[n] # Store!Skip /\ steps[n].job = ops[k].job
  <2>1. q + q + k \in 1..(q + q + o)
    BY <1>1
  <2>2. CASE ops[k].job \in Store!Range(queue)
    BY <1>6, <2>2
  <2>3. CASE ops[k].job \notin Store!Range(queue)
    BY <1>1, <1>4, <2>1, <2>3
  <2> QED
    BY <2>2, <2>3
<1>8. \A x : x \in Due(queue, ops) <=> x \in Store!Range(queue) \/ \E k \in 1..o : ops[k].job = x
  BY <1>2 DEF Due
<1>9. \A x : x \in Done(steps, q + q + o) <=> \E n \in 1..(q + q + o) : steps[n] # Store!Skip /\ steps[n].job = x
  BY DEF Done
<1>10. Len(steps) = q + q + o
  BY <1>1
<1>11. ASSUME NEW x PROVE x \in Done(steps, q + q + o) <=> x \in Due(queue, ops)
  BY <1>5, <1>6, <1>7, <1>8, <1>9
<1> QED
  BY <1>10, <1>11

\* What an observation gives to a saved process (see Sorted).
OpsFit(os, current, queue, ops) ==
  /\ \A n \in DOMAIN ops : ops[n].job \notin Store!Range(queue) /\ os[ops[n].job].row # None =>
       /\ "at" \notin ops[n].columns => table[os[ops[n].job].row].at = os[ops[n].job].at
       /\ "result" \notin ops[n].columns => table[os[ops[n].job].row].result = os[ops[n].job].result
  /\ current \in Store!Range(queue) => \A n \in DOMAIN ops : ops[n].job \in Store!Range(queue)
  /\ \A n \in DOMAIN ops : ops[n].job = current => n = Len(ops)
Ordered(os, current, queue, ops) ==
  /\ \A i, j \in Live(os) : os[i].print = os[j].print => i = j
  /\ \A i \in Live(os) : os[i].result = None <=> i = current
  /\ OpsFit(os, current, queue, ops)

\* The print that runs is written after those that ended.
LEMMA StepsSorted ==
  ASSUME StoreConstants, NEW os, NEW queue, NEW ops, Feeding(os, queue, ops), NEW steps, steps = Store!Steps(os, queue, ops),
         NEW current, Ordered(os, current, queue, ops)
  PROVE  Sorted(os, steps, current)
<1> DEFINE q == Len(queue)
           o == Len(ops)
           closed == Closed(os, queue)
<1>1. /\ Len(steps) = q + q + o /\ q \in Nat /\ o \in Nat
      /\ \A n \in 1..q :
           /\ steps[n] = IF queue[n] \in closed THEN [job |-> queue[n], columns |-> Store!Columns] ELSE Store!Skip
           /\ steps[q + n] = IF queue[n] \in closed THEN Store!Skip ELSE [job |-> queue[n], columns |-> Store!Columns]
      /\ \A n \in 1..o : steps[q + q + n] = IF ops[n].job \in Store!Range(queue) THEN Store!Skip ELSE ops[n]
  <2>1. Laid(os, queue, ops, steps)
    BY StepsAre
  <2> QED
    BY <2>1 DEF Laid
<1>2. /\ DOMAIN queue = 1..q /\ DOMAIN ops = 1..o
      /\ \A n \in 1..q : queue[n] \in Live(os) /\ queue[n] \in Store!Range(queue)
      /\ \A n \in 1..o : ops[n].job \in Live(os)
  <2>1. \A n \in 1..o : ops[n].job \in Live(os)
    BY OpTyped
  <2>2. DOMAIN queue = 1..q /\ DOMAIN ops = 1..o /\ \A n \in 1..q : queue[n] \in Live(os)
    BY DEF Feeding
  <2>3. \A n \in 1..q : queue[n] \in Store!Range(queue)
    BY <2>2 DEF Store!Range
  <2> QED
    BY <2>1, <2>2, <2>3
<1>3. \A i \in Live(os) : os[i].result = None <=> i = current
  BY DEF Ordered
<1>4. \A n \in 1..q : queue[n] \in closed <=> queue[n] # current
  BY <1>2, <1>3 DEF Closed
<1>5. /\ \A n \in 1..o : ops[n].job \notin Store!Range(queue) /\ os[ops[n].job].row # None =>
           /\ "at" \notin ops[n].columns => table[os[ops[n].job].row].at = os[ops[n].job].at
           /\ "result" \notin ops[n].columns => table[os[ops[n].job].row].result = os[ops[n].job].result
      /\ current \in Store!Range(queue) => \A n \in 1..o : ops[n].job \in Store!Range(queue)
      /\ \A n \in 1..o : ops[n].job = current => n = o
  BY <1>2 DEF Ordered, OpsFit
<1> HIDE DEF q, o, closed
<1>6. ASSUME NEW n \in 1..(q + q + o), steps[n] # Store!Skip
      PROVE  \/ n <= q /\ n \in 1..q /\ steps[n] = [job |-> queue[n], columns |-> Store!Columns] /\ queue[n] # current
             \/ n > q /\ n <= q + q /\ n - q \in 1..q /\ steps[n] = [job |-> queue[n - q], columns |-> Store!Columns]
                /\ queue[n - q] = current
             \/ n > q + q /\ n - (q + q) \in 1..o /\ steps[n] = ops[n - (q + q)] /\ ops[n - (q + q)].job \notin Store!Range(queue)
  <2>1. CASE n <= q
    <3>1. n \in 1..q
      BY <1>1, <2>1
    <3> QED
      BY <1>1, <1>4, <1>6, <2>1, <3>1
  <2>2. CASE n > q /\ n <= q + q
    <3>1. n - q \in 1..q /\ q + (n - q) = n
      BY <1>1, <2>2
    <3> QED
      BY <1>1, <1>4, <1>6, <2>2, <3>1
  <2>3. CASE n > q + q
    <3>1. n - (q + q) \in 1..o /\ q + q + (n - (q + q)) = n
      BY <1>1, <2>3
    <3> QED
      BY <1>1, <1>6, <2>3, <3>1
  <2> QED
    BY <1>1, <2>1, <2>2, <2>3
<1>7. ASSUME NEW n \in 1..Len(steps), steps[n] # Store!Skip, os[steps[n].job].row # None
      PROVE  /\ "at" \notin steps[n].columns => table[os[steps[n].job].row].at = os[steps[n].job].at
             /\ "result" \notin steps[n].columns => table[os[steps[n].job].row].result = os[steps[n].job].result
  <2>1. n \in 1..(q + q + o)
    BY <1>1
  <2>2. CASE steps[n].columns = Store!Columns
    BY <2>2 DEF Store!Columns
  <2>3. CASE steps[n].columns # Store!Columns
    <3>1. n - (q + q) \in 1..o /\ steps[n] = ops[n - (q + q)] /\ ops[n - (q + q)].job \notin Store!Range(queue)
      <4>1. \/ steps[n] = [job |-> queue[n], columns |-> Store!Columns]
            \/ steps[n] = [job |-> queue[n - q], columns |-> Store!Columns]
            \/ n - (q + q) \in 1..o /\ steps[n] = ops[n - (q + q)] /\ ops[n - (q + q)].job \notin Store!Range(queue)
        BY <1>6, <1>7, <2>1
      <4> QED
        BY <2>3, <4>1
    <3> QED
      BY <1>5, <1>7, <3>1
  <2> QED
    BY <2>2, <2>3
<1>8. ASSUME NEW k \in 1..Len(steps), NEW l \in 1..Len(steps), k < l, steps[k] # Store!Skip, steps[k].job = current,
             steps[l] # Store!Skip
      PROVE  steps[l].job = current
  <2>1. k \in 1..(q + q + o) /\ l \in 1..(q + q + o) /\ k \in Int /\ l \in Int
    BY <1>1
  <2>2. \/ k > q /\ k <= q + q /\ queue[k - q] = current /\ k - q \in 1..q
        \/ k > q + q /\ k - (q + q) \in 1..o /\ ops[k - (q + q)].job = current
    <3>1. \/ steps[k] = [job |-> queue[k], columns |-> Store!Columns] /\ queue[k] # current
          \/ k > q /\ k <= q + q /\ queue[k - q] = current /\ k - q \in 1..q
          \/ k > q + q /\ k - (q + q) \in 1..o /\ steps[k] = ops[k - (q + q)]
      BY <1>6, <1>8, <2>1
    <3> QED
      BY <1>8, <3>1
  <2>3. \/ l <= q
        \/ l > q /\ steps[l].job = current
        \/ l > q + q /\ l - (q + q) \in 1..o /\ ops[l - (q + q)].job \notin Store!Range(queue)
    <3>1. \/ l <= q
          \/ l > q /\ steps[l] = [job |-> queue[l - q], columns |-> Store!Columns] /\ queue[l - q] = current
          \/ l > q + q /\ l - (q + q) \in 1..o /\ steps[l] = ops[l - (q + q)] /\ ops[l - (q + q)].job \notin Store!Range(queue)
      BY <1>6, <1>8, <2>1
    <3> QED
      BY <3>1
  <2>4. CASE k > q /\ k <= q + q /\ queue[k - q] = current /\ k - q \in 1..q
    <3>1. current \in Store!Range(queue)
      BY <1>2, <2>4
    <3> QED
      BY <1>1, <1>5, <1>8, <2>1, <2>3, <2>4, <3>1
  <2>5. CASE k > q + q /\ k - (q + q) \in 1..o /\ ops[k - (q + q)].job = current
    <3>1. k - (q + q) = o
      BY <1>5, <2>5
    <3>2. FALSE
      BY <1>1, <1>8, <2>1, <3>1
    <3> QED
      BY <3>2
  <2> QED
    BY <2>2, <2>4, <2>5
<1> QED
  BY <1>3, <1>7, <1>8 DEF Sorted, Ordered

\* No print has two rows, and one print at most is open.
Recorded(tab, limit) ==
  /\ tab \in Tables /\ Single(tab)
  /\ \A id \in 1..Len(tab) : tab[id] # None => tab[id].print \in 1..limit
  /\ \A a, b \in 1..Len(tab) : tab[a] # None /\ tab[b] # None /\ tab[a].print = tab[b].print => a = b
\* A job has its print's row; those without are due, their prints newer than all on record.
Tracked(os, tab, due, limit, i) ==
  /\ os[i].emitted = Store!Content(os[i]) /\ os[i].print \in 1..limit
  /\ os[i].row = None => i \in due /\ \A id \in 1..Len(tab) : tab[id] # None => tab[id].print < os[i].print
  /\ os[i].row # None => Present(tab, os[i].row) /\ tab[os[i].row].print = os[i].print
\* What the machine holds.
Machined(os, current, last) ==
  /\ {current, last} \ {None} \subseteq Live(os)
  /\ current # None => last = None /\ os[current].result = None
  /\ last # None => os[last].result # None
Held(os, tab, current, last, due, limit) ==
  /\ os \in Seq(Store!Jobs \cup {None}) /\ Machined(os, current, last)
  /\ \A i \in Live(os) : Tracked(os, tab, due, limit, i)
  /\ \A i, j \in Live(os) : os[i].row = None /\ os[j].row = None /\ os[i].print = os[j].print => i = j
\* With nothing due that an error overtook, the rows are what the process holds.
Agrees(os, tab, i) ==
  Present(tab, os[i].row) /\ tab[os[i].row].at = os[i].at /\ tab[os[i].row].result = os[i].result
Saving(os, tab, current, due) ==
  /\ \A i \in Live(os) \ due : Agrees(os, tab, i)
  /\ \A i, j \in Live(os) : os[i].print = os[j].print => i = j
  /\ \A i \in Live(os) : os[i].result = None => i = current

\* What one write changes: rows of new prints come after the others.
Grown(old, new) ==
  /\ Len(new) >= Len(old)
  /\ \A id \in 1..Len(old) :
       /\ new[id] = None <=> old[id] = None
       /\ old[id] # None => /\ new[id].print = old[id].print /\ new[id].mark = old[id].mark
                            /\ new[id].source = old[id].source
  /\ \A id \in (Len(old) + 1)..Len(new) :
       /\ new[id] # None /\ new[id].source = "live" /\ new[id].mark = FALSE
       /\ \A k \in 1..Len(old) : old[k] # None => old[k].print < new[id].print

\* _sweep forgets the jobs nobody uses.
LEMMA SweptJobs ==
  ASSUME StoreConstants, NEW os \in Seq(Store!Jobs \cup {None}), NEW used, NEW remains, remains = Store!Swept(os, used)
  PROVE  /\ remains \in Seq(Store!Jobs \cup {None}) /\ Live(remains) = Live(os) \cap used
         /\ \A i \in Live(remains) : remains[i] = os[i]
<1>1. DOMAIN os = 1..Len(os) /\ Len(os) \in Nat /\ \A i \in 1..Len(os) : os[i] \in Store!Jobs \cup {None}
  OBVIOUS
<1>2. CASE used \cap DOMAIN os = {}
  <2>1. remains = <<>>
    BY <1>2 DEF Store!Swept
  <2> QED
    BY <1>2, <2>1 DEF Live
<1>3. CASE used \cap DOMAIN os # {}
  <2> DEFINE f == [i \in 1..Len(os) |-> IF i \in used THEN os[i] ELSE None]
             T == Store!Jobs \cup {None}
  <2>1. remains = f
    BY <1>1, <1>3 DEF Store!Swept
  <2>2. \A i \in 1..Len(os) : f[i] \in T /\ f[i] = IF i \in used THEN os[i] ELSE None
    BY <1>1
  <2>3. f \in [1..Len(os) -> T]
    BY <2>2
  <2>4. DOMAIN f = 1..Len(os)
    OBVIOUS
  <2> HIDE DEF f, T
  <2>5. f \in Seq(T)
    BY <1>1, <2>3
  <2>6. \A i : i \in Live(remains) <=> i \in 1..Len(os) /\ i \in used /\ os[i] # None
    BY <2>1, <2>2, <2>4 DEF Live
  <2>7. \A i : i \in Live(os) <=> i \in 1..Len(os) /\ os[i] # None
    BY <1>1 DEF Live
  <2>8. Live(remains) = Live(os) \cap used
    BY <2>6, <2>7
  <2>9. \A i \in Live(remains) : remains[i] = os[i]
    BY <2>1, <2>2, <2>6
  <2> QED
    BY <2>1, <2>5, <2>8, <2>9 DEF T
<1> QED
  BY <1>2, <1>3

\* What is used is as it was.
LEMMA HeldSwept ==
  ASSUME StoreConstants, NEW os, NEW tab, NEW current, NEW last, NEW due, NEW limit, Held(os, tab, current, last, due, limit),
         NEW used, {current, last} \ {None} \subseteq used, NEW remains, remains = Store!Swept(os, used)
  PROVE  /\ Held(remains, tab, current, last, due, limit) /\ Live(remains) = Live(os) \cap used
         /\ Saving(os, tab, current, due) => Saving(remains, tab, current, due)
<1>1. /\ os \in Seq(Store!Jobs \cup {None}) /\ Machined(os, current, last)
      /\ \A i \in Live(os) : Tracked(os, tab, due, limit, i)
      /\ \A i, j \in Live(os) : os[i].row = None /\ os[j].row = None /\ os[i].print = os[j].print => i = j
  BY DEF Held
<1>2. /\ remains \in Seq(Store!Jobs \cup {None}) /\ Live(remains) = Live(os) \cap used
      /\ \A i \in Live(remains) : remains[i] = os[i]
  BY <1>1, SweptJobs
<1>3. Machined(remains, current, last)
  BY <1>1, <1>2 DEF Machined
<1>4. \A i \in Live(remains) : Tracked(remains, tab, due, limit, i)
  BY <1>1, <1>2 DEF Tracked
<1>5. \A i, j \in Live(remains) : remains[i].row = None /\ remains[j].row = None /\ remains[i].print = remains[j].print => i = j
  BY <1>1, <1>2
<1>6. Saving(os, tab, current, due) => Saving(remains, tab, current, due)
  BY <1>2 DEF Saving, Agrees
<1> QED
  BY <1>2, <1>3, <1>4, <1>5, <1>6 DEF Held

\* The table after a transaction that was not refused.
LEMMA RecordedAfter ==
  ASSUME StoreConstants, NEW os, NEW current, NEW last, NEW due, NEW limit \in Nat, Held(os, table, current, last, due, limit),
         NEW old \in Nat, old <= limit, Recorded(table, old), NEW t \in Txs(os), TxKnown(os, t)
  PROVE  Recorded(t.table, limit) /\ Grown(table, t.table)
<1>1. /\ t.table \in Tables /\ Single(t.table) /\ Outlives(t) /\ FreshRows(os, t) /\ OwnRows(os, t)
      /\ Len(t.table) \in Nat /\ Len(table) \in Nat
  BY DEF TxKnown, Txs, Recorded, Tables
<1> DEFINE n == Len(table)
           tab == t.table
<1>2. ASSUME NEW id \in (n + 1)..Len(tab)
      PROVE  /\ tab[id] # None /\ tab[id].source = "live" /\ tab[id].mark = FALSE /\ tab[id].print \in 1..limit
             /\ \A k \in 1..n : table[k] # None => table[k].print < tab[id].print
             /\ \E i \in Live(os) : os[i].row = None /\ t.ids[i] = id /\ tab[id].print = os[i].print
  <2>1. PICK i \in Live(os) : os[i].row = None /\ t.ids[i] = id
    BY <1>1, <1>2 DEF FreshRows
  <2>2. t.ids[i] # None /\ tab[id].print = os[i].print
    BY <1>1, <2>1 DEF OwnRows, StoreConstants
  <2>3. Tracked(os, table, due, limit, i)
    BY DEF Held
  <2>4. os[i].print \in 1..limit /\ \A k \in 1..n : table[k] # None => table[k].print < os[i].print
    BY <2>1, <2>3 DEF Tracked
  <2> QED
    BY <1>1, <1>2, <2>1, <2>2, <2>4 DEF FreshRows
<1>3. ASSUME NEW id \in 1..n
      PROVE  /\ tab[id] = None <=> table[id] = None
             /\ table[id] # None => /\ tab[id].print = table[id].print
                                    /\ tab[id].mark = table[id].mark /\ tab[id].source = table[id].source
                                    /\ tab[id].print \in 1..limit
  BY <1>1 DEF Outlives, Recorded
<1>4. Len(tab) >= n
  BY <1>1 DEF Outlives
<1>5. Grown(table, tab)
  BY <1>2, <1>3, <1>4 DEF Grown
<1>6. \A id \in 1..Len(tab) : tab[id] # None => tab[id].print \in 1..limit
  <2>1. SUFFICES ASSUME NEW id \in 1..Len(tab), tab[id] # None PROVE tab[id].print \in 1..limit
    OBVIOUS
  <2>2. id \in 1..n \/ id \in (n + 1)..Len(tab)
    BY <1>1
  <2> QED
    BY <1>2, <1>3, <2>1, <2>2
<1>7. ASSUME NEW a \in 1..Len(tab), NEW b \in 1..Len(tab), tab[a] # None, tab[b] # None, tab[a].print = tab[b].print PROVE a = b
  <2>1. a \in 1..n \/ a \in (n + 1)..Len(tab)
    BY <1>1
  <2>2. b \in 1..n \/ b \in (n + 1)..Len(tab)
    BY <1>1
  <2>3. CASE a \in 1..n /\ b \in 1..n
    BY <1>3, <1>7, <2>3 DEF Recorded
  <2>4. CASE a \in (n + 1)..Len(tab) /\ b \in (n + 1)..Len(tab)
    <3>1. PICK i \in Live(os) : os[i].row = None /\ t.ids[i] = a /\ tab[a].print = os[i].print
      BY <1>2, <2>4
    <3>2. PICK j \in Live(os) : os[j].row = None /\ t.ids[j] = b /\ tab[b].print = os[j].print
      BY <1>2, <2>4
    <3>3. i = j
      BY <1>7, <3>1, <3>2 DEF Held
    <3> QED
      BY <3>1, <3>2, <3>3
  <2>5. CASE a \in 1..n /\ b \in (n + 1)..Len(tab)
    <3>1. table[a] # None /\ table[a].print = tab[a].print /\ table[a].print < tab[b].print /\ tab[a].print \in 1..limit
      BY <1>2, <1>3, <1>7, <2>5
    <3> QED
      BY <1>7, <3>1
  <2>6. CASE b \in 1..n /\ a \in (n + 1)..Len(tab)
    <3>1. table[b] # None /\ table[b].print = tab[b].print /\ table[b].print < tab[a].print /\ tab[b].print \in 1..limit
      BY <1>2, <1>3, <1>7, <2>6
    <3> QED
      BY <1>7, <3>1
  <2> QED
    BY <2>1, <2>2, <2>3, <2>4, <2>5, <2>6
<1> HIDE DEF tab
<1> QED
  BY <1>1, <1>5, <1>6, <1>7 DEF Recorded, tab

SavedJobs(os, t) ==
  [i \in DOMAIN os |-> IF os[i] = None THEN None
                       ELSE [os[i] EXCEPT !.row = t.ids[i],
                                          !.emitted = IF i \in t.full THEN Store!Content(os[i]) ELSE @]]

\* The jobs after a transaction have their rows.
LEMMA JobsSaved ==
  ASSUME StoreConstants, NEW os, NEW current, NEW last, NEW due, NEW limit, Held(os, table, current, last, due, limit),
         NEW t \in Txs(os), NEW remains, remains = SavedJobs(os, t)
  PROVE  /\ remains \in Seq(Store!Jobs \cup {None}) /\ Live(remains) = Live(os)
         /\ \A i \in Live(os) : /\ remains[i].row = t.ids[i] /\ remains[i].print = os[i].print /\ remains[i].at = os[i].at
                                /\ remains[i].result = os[i].result /\ remains[i].emitted = Store!Content(remains[i])
<1>1. /\ os \in Seq(Store!Jobs \cup {None}) /\ DOMAIN os = 1..Len(os) /\ Len(os) \in Nat
      /\ t.ids \in [DOMAIN os -> Nat \cup {None}]
  BY DEF Held, Txs
<1>2. DOMAIN remains = 1..Len(os) /\ \A i \in 1..Len(os) : os[i] = None => remains[i] = None
  BY <1>1 DEF SavedJobs
<1>3. ASSUME NEW i \in Live(os)
      PROVE  /\ remains[i] \in Store!Jobs /\ remains[i].row = t.ids[i] /\ remains[i].print = os[i].print /\ remains[i].at = os[i].at
             /\ remains[i].result = os[i].result /\ remains[i].emitted = Store!Content(remains[i])
  <2> DEFINE entry == t.ids[i]
             content == Store!Content(os[i])
             job == os[i]
  <2>1. os[i] \in Store!Jobs /\ i \in DOMAIN os /\ os[i] # None
    BY <1>1, LiveJob DEF Live
  <2>2. job.emitted = content
    BY DEF Held, Tracked
  <2>3. remains[i] = [job EXCEPT !.row = entry, !.emitted = IF i \in t.full THEN content ELSE @]
    BY <2>1 DEF SavedJobs
  <2>4. entry \in Nat \cup {None}
    BY <1>1, <2>1
  <2>5. content \in [at : 0..MaxAt, result : Store!Results \cup {None}]
    BY <2>1, <2>2 DEF Store!Jobs
  <2>6. job \in Store!Jobs
    BY <2>1
  <2> HIDE DEF entry, content, job
  <2>7. remains[i] = [job EXCEPT !.row = entry, !.emitted = content]
    BY <2>2, <2>3
  <2>8. /\ remains[i] \in Store!Jobs /\ remains[i].row = entry /\ remains[i].print = job.print /\ remains[i].at = job.at
        /\ remains[i].result = job.result /\ remains[i].emitted = content
    BY <2>4, <2>5, <2>6, <2>7 DEF Store!Jobs
  <2>9. Store!Content(remains[i]) = content
    <3>1. remains[i]["at"] = job["at"] /\ remains[i]["result"] = job["result"]
      BY <2>8
    <3>2. Store!Content(remains[i]) = Store!Content(job)
      BY <3>1 DEF Store!Content, Store!Columns
    <3> QED
      BY <3>2 DEF content, job
  <2> QED
    BY <2>8, <2>9 DEF entry, job
<1>4. \A i : i \in Live(os) <=> i \in 1..Len(os) /\ os[i] # None
  BY <1>1 DEF Live
<1>5. \A i \in 1..Len(os) : remains[i] \in Store!Jobs \cup {None}
  BY <1>2, <1>3, <1>4
<1>6. Live(remains) = Live(os)
  <2>1. \A i \in Live(os) : remains[i] # None
    BY <1>3 DEF StoreConstants
  <2>2. \A i : i \in Live(remains) <=> i \in 1..Len(os) /\ remains[i] # None
    BY <1>2 DEF Live
  <2> QED
    BY <1>2, <1>4, <2>1, <2>2
<1>7. remains \in Seq(Store!Jobs \cup {None})
  <2> DEFINE T == Store!Jobs \cup {None}
  <2>1. remains = [i \in 1..Len(os) |-> remains[i]]
    BY <1>1 DEF SavedJobs
  <2>2. remains \in [1..Len(os) -> T]
    BY <1>5, <2>1
  <2> HIDE DEF T
  <2>3. remains \in Seq(T)
    BY <1>1, <2>2
  <2> QED
    BY <2>3 DEF T
<1> QED
  BY <1>3, <1>6, <1>7

\* After a transaction that found no other print open, every job has its row.
LEMMA HeldSaved ==
  ASSUME StoreConstants, NEW os, NEW current, NEW last, NEW due, NEW limit, Held(os, table, current, last, due, limit),
         NEW t \in Txs(os), TxKnown(os, t), NEW remains, remains = SavedJobs(os, t),
         \A i \in due : t.ids[i] # None
  PROVE  Held(remains, t.table, current, last, {}, limit) /\ Live(remains) = Live(os)
<1>1. /\ remains \in Seq(Store!Jobs \cup {None}) /\ Live(remains) = Live(os)
      /\ \A i \in Live(os) : /\ remains[i].row = t.ids[i] /\ remains[i].print = os[i].print /\ remains[i].at = os[i].at
                             /\ remains[i].result = os[i].result /\ remains[i].emitted = Store!Content(remains[i])
  BY JobsSaved
<1>2. Machined(remains, current, last)
  BY <1>1 DEF Machined, Held
<1>3. OwnRows(os, t)
  BY DEF TxKnown
<1>4. ASSUME NEW i \in Live(os) PROVE Tracked(remains, t.table, {}, limit, i) /\ remains[i].row # None
  <2>1. Tracked(os, table, due, limit, i)
    BY DEF Held
  <2>2. t.ids[i] # None
    BY <1>3, <2>1 DEF Tracked, OwnRows
  <2> QED
    BY <1>1, <1>3, <2>1, <2>2 DEF Tracked, OwnRows
<1> QED
  BY <1>1, <1>2, <1>4 DEF Held

\* The rows are what the process holds.
LEMMA SavingSaved ==
  ASSUME StoreConstants, NEW os, NEW current, NEW last, NEW due, NEW limit, Held(os, table, current, last, due, limit),
         NEW t \in Txs(os), TxKnown(os, t), NEW remains, remains = SavedJobs(os, t),
         \A i \in due : t.ids[i] # None, NEW steps, NEW n, Done(steps, n) = due,
         SavedSoFar(os, steps, current, t, n), Saving(os, table, current, due)
  PROVE  Saving(remains, t.table, current, {})
<1>1. /\ Live(remains) = Live(os)
      /\ \A i \in Live(os) : /\ remains[i].row = t.ids[i] /\ remains[i].print = os[i].print /\ remains[i].at = os[i].at
                             /\ remains[i].result = os[i].result
  BY JobsSaved
<1>2. OwnRows(os, t)
  BY DEF TxKnown
<1>3. ASSUME NEW i \in Live(os) PROVE Agrees(remains, t.table, i)
  <2>1. Tracked(os, table, due, limit, i)
    BY DEF Held
  <2>2. t.ids[i] # None
    BY <1>2, <2>1 DEF Tracked, OwnRows
  <2>3. Present(t.table, t.ids[i])
    BY <1>2, <2>2 DEF OwnRows
  <2>4. IF i \in due THEN t.table[t.ids[i]].at = os[i].at /\ t.table[t.ids[i]].result = os[i].result
        ELSE /\ os[i].row # None
             /\ t.table[t.ids[i]].at = table[os[i].row].at /\ t.table[t.ids[i]].result = table[os[i].row].result
    BY <2>2 DEF SavedSoFar, SavedRows
  <2>5. i \notin due => table[os[i].row].at = os[i].at /\ table[os[i].row].result = os[i].result
    BY DEF Saving, Agrees
  <2> QED
    BY <1>1, <2>3, <2>4, <2>5 DEF Agrees
<1> QED
  BY <1>1, <1>3 DEF Saving

\* The print found open in its place is gone on with.
LEMMA HeldStored ==
  ASSUME StoreConstants, NEW tab, NEW limit, Recorded(tab, limit), NEW id, Present(tab, id), NEW job,
         job = Store!Object(id, tab[id].print, tab[id].at, None)
  PROVE  /\ Held(<<job>>, tab, 1, None, {}, limit) /\ Live(<<job>>) = {1} /\ job \in Store!Jobs
         /\ tab[id].result = None => Saving(<<job>>, tab, 1, {})
<1>1. tab[id] \in Store!TableRows /\ id \in Nat /\ id \in 1..Len(tab) /\ tab[id] # None
  <2>1. tab \in Tables
    BY DEF Recorded
  <2> QED
    BY <2>1, RowPresent DEF Present
<1> DEFINE which == tab[id].print
           when == tab[id].at
<1>2. which \in Prints /\ when \in 0..MaxAt /\ which \in 1..limit
  BY <1>1 DEF Store!TableRows, Recorded
<1> HIDE DEF which, when
<1> DEFINE emitted == [c \in Store!Columns |-> IF c = "at" THEN when ELSE None]
<1>3. job = [row |-> id, print |-> which, at |-> when, result |-> None, emitted |-> emitted]
  BY DEF Store!Object, which, when
<1>4. emitted = [at |-> when, result |-> None]
  BY DEF Store!Columns
<1>5. emitted \in [at : 0..MaxAt, result : Store!Results \cup {None}]
  BY <1>2, <1>4
<1> HIDE DEF emitted
<1>6. /\ job \in Store!Jobs /\ job.row = id /\ job.print = which /\ job.at = when /\ job.result = None /\ job.emitted = emitted
      /\ job["at"] = when /\ job["result"] = None
  BY <1>1, <1>2, <1>3, <1>5 DEF Store!Jobs
<1>7. Store!Content(job) = emitted
  BY <1>4, <1>6 DEF Store!Content, Store!Columns
<1> DEFINE os == <<job>>
<1>8. os \in Seq(Store!Jobs \cup {None}) /\ DOMAIN os = {1} /\ os[1] = job
  BY <1>6
<1>9. job # None /\ id # None
  BY <1>1, <1>6 DEF StoreConstants
<1> HIDE DEF os
<1>10. Live(os) = {1}
  BY <1>8, <1>9 DEF Live
<1>11. Tracked(os, tab, {}, limit, 1)
  BY <1>1, <1>2, <1>6, <1>7, <1>8, <1>9 DEF Tracked, Present, which
<1>12. Machined(os, 1, None)
  BY <1>6, <1>8, <1>10 DEF Machined
<1>13. Held(os, tab, 1, None, {}, limit)
  BY <1>8, <1>10, <1>11, <1>12 DEF Held
<1>14. tab[id].result = None => Saving(os, tab, 1, {})
  BY <1>1, <1>6, <1>8, <1>10 DEF Saving, Agrees, Present, when
<1> QED
  BY <1>6, <1>10, <1>13, <1>14 DEF os

\* What a poll hands to JournalDB.apply,
ApplyReady(os, m, ops, queue, limit) ==
  /\ Feeding(os, queue, ops) /\ Held(os, table, m.open, m.ended, Due(queue, ops), limit)
  /\ ~overtaken => Ordered(os, m.open, queue, ops) /\ Saving(os, table, m.open, Due(queue, ops))
\* and what it leaves.
ApplyDone(limit) ==
  /\ Recorded(table', limit) /\ Grown(table, table')
  /\ retry' \in Seq(Live(objects')) /\ Held(objects', table', open', ended', Store!Range(retry'), limit)
  /\ ~overtaken => Saving(objects', table', open', Store!Range(retry'))
  /\ slips' \in 0..MaxSlips

\* A table that stays.
LEMMA Remembering ==
  ASSUME StoreConstants, NEW limit, NEW tab, Recorded(tab, limit)
  PROVE  Grown(tab, tab)
BY DEF Grown, Recorded, Tables

\* A print more may begin.
LEMMA RecordedMore ==
  ASSUME NEW limit \in Nat, NEW old \in Nat, old <= limit, NEW tab, Recorded(tab, old)
  PROVE  Recorded(tab, limit)
BY DEF Recorded

\* Nothing is due of nothing.
LEMMA NothingDue == Store!Range(<<>>) = {} /\ Due(<<>>, <<>>) = {}
BY DEF Store!Range, Due

\* JournalDB.apply: written, refused or failed, nothing is lost.
LEMMA Applying ==
  ASSUME StoreConstants, NEW os, NEW m, NEW ops, NEW queue, NEW limit \in Nat, NEW works \in BOOLEAN, NEW old \in Nat, old <= limit,
         Recorded(table, old), slips \in 0..MaxSlips,
         ApplyReady(os, m, ops, queue, limit), Store!Apply(os, m, ops, queue, works)
  PROVE  ApplyDone(limit)
<1> DEFINE current == m.open
           last == m.ended
           due == Due(queue, ops)
           steps == Store!Steps(os, queue, ops)
           tx == Store!Transaction(os, steps)
           keep == Store!Kept(steps)
           remains == SavedJobs(os, tx)
           taken == tx.table[tx.conflict]
           used == {current, last}
<1>1. /\ Feeding(os, queue, ops) /\ Held(os, table, current, last, due, limit)
      /\ ~overtaken => Ordered(os, current, queue, ops) /\ Saving(os, table, current, due)
      /\ MaxSlips \in Nat
  BY DEF ApplyReady, StoreConstants
<1>2. IF queue = <<>> /\ ops = <<>>
      THEN /\ objects' = Store!Swept(os, used) /\ retry' = <<>>
           /\ open' = current /\ ended' = last /\ table' = table /\ slips' = slips
      ELSE IF works /\ ~tx.refused
      THEN /\ table' = tx.table /\ retry' = <<>> /\ slips' = slips
           /\ IF tx.conflict = None
              THEN /\ objects' = Store!Swept(remains, used)
                   /\ open' = current /\ ended' = last
              ELSE /\ objects' = <<Store!Object(tx.conflict, taken.print, taken.at, None)>>
                   /\ open' = 1 /\ ended' = None
      ELSE /\ tx.refused \/ slips < MaxSlips
           /\ slips' = IF tx.refused THEN slips ELSE slips + 1
           /\ retry' = keep /\ objects' = Store!Swept(os, used \cup Store!Range(keep))
           /\ open' = current /\ ended' = last /\ table' = table
  BY DEF Store!Apply, SavedJobs
<1>3. StoreConstants /\ Recorded(table, old) /\ old \in Nat /\ limit \in Nat /\ old <= limit /\ slips \in 0..MaxSlips
  OBVIOUS
<1> HIDE DEF current, last, due, steps, tx, keep, remains, taken
<1>4. CASE queue = <<>> /\ ops = <<>>
  <2>1. due = {} /\ Store!Range(<<>>) = {}
    BY <1>4, NothingDue DEF due
  <2>2. /\ objects' = Store!Swept(os, used) /\ retry' = <<>> /\ open' = current /\ ended' = last
        /\ table' = table /\ slips' = slips
    BY <1>2, <1>4
  <2>3. /\ Held(objects', table, current, last, {}, limit)
        /\ Saving(os, table, current, {}) => Saving(objects', table, current, {})
    BY <1>1, <1>3, <2>1, <2>2, HeldSwept
  <2>4. Recorded(table, limit) /\ Grown(table, table)
    BY <1>3, RecordedMore, Remembering
  <2>5. retry' \in Seq(Live(objects')) /\ Store!Range(retry') = {}
    BY <2>1, <2>2
  <2> QED
    BY <1>1, <1>3, <2>1, <2>2, <2>3, <2>4, <2>5 DEF ApplyDone
<1>5. ASSUME ~(queue = <<>> /\ ops = <<>>) PROVE ApplyDone(limit)
  <2>1. Starting(os)
    <3>1. ASSUME NEW i \in Live(os), os[i].row # None PROVE Present(table, os[i].row) /\ table[os[i].row].print = os[i].print
      <4>1. Tracked(os, table, due, limit, i)
        BY <1>1 DEF Held
      <4> QED
        BY <3>1, <4>1 DEF Tracked
    <3> QED
      BY <1>1, <1>3, <3>1 DEF Starting, Given, Held, Recorded
  <2>2. steps \in Seq(StoreSteps(os)) /\ Done(steps, Len(steps)) = due /\ Len(steps) \in Nat
    BY <1>1, <1>3, StepsAre, StepsDone DEF steps, due
  <2>3. Going(os, steps, current, tx, Len(steps))
    BY <1>3, <2>1, <2>2, TransactionKnown DEF tx
  <2>4. ~overtaken => Sorted(os, steps, current) /\ Saving(os, table, current, due)
    <3>1. ASSUME ~overtaken PROVE Sorted(os, steps, current)
      BY <1>1, <1>3, <3>1, StepsSorted DEF steps
    <3> QED
      BY <1>1, <3>1
  <2>5. CASE works /\ ~tx.refused
    <3>1. table' = tx.table /\ retry' = <<>> /\ slips' = slips
      BY <1>2, <1>5, <2>5
    <3>2. /\ tx \in Txs(os) /\ TxKnown(os, tx) /\ Handled(steps, tx, Len(steps))
          /\ Sorted(os, steps, current) => SavedSoFar(os, steps, current, tx, Len(steps))
      BY <2>3, <2>5 DEF Going
    <3>3. Recorded(tx.table, limit) /\ Grown(table, tx.table)
      BY <1>1, <1>3, <3>2, RecordedAfter
    <3>4. retry' \in Seq(Live(objects')) /\ Store!Range(retry') = {}
      BY <3>1, NothingDue
    <3>5. CASE tx.conflict = None
      <4>1. objects' = Store!Swept(remains, used) /\ open' = current /\ ended' = last
        BY <1>2, <1>5, <2>5, <3>5
      <4>2. \A i \in due : tx.ids[i] # None
        BY <2>2, <3>2, <3>5 DEF TxKnown, Dropping, Handled
      <4>3. Held(remains, tx.table, current, last, {}, limit)
        BY <1>1, <1>3, <3>2, <4>2, HeldSaved DEF remains
      <4>4. /\ Held(objects', tx.table, current, last, {}, limit)
            /\ Saving(remains, tx.table, current, {}) => Saving(objects', tx.table, current, {})
        BY <1>3, <4>1, <4>3, HeldSwept
      <4>5. ~overtaken => Saving(remains, tx.table, current, {})
        <5>1. SUFFICES ASSUME ~overtaken PROVE Saving(remains, tx.table, current, {})
          OBVIOUS
        <5>2. SavedSoFar(os, steps, current, tx, Len(steps)) /\ Saving(os, table, current, due)
          BY <2>4, <3>2, <5>1
        <5> QED
          BY <1>1, <1>3, <2>2, <3>2, <4>2, <5>2, SavingSaved DEF remains
      <4> QED
        BY <1>3, <3>1, <3>3, <3>4, <4>1, <4>4, <4>5 DEF ApplyDone
    <3>6. CASE tx.conflict # None
      <4> DEFINE job == Store!Object(tx.conflict, taken.print, taken.at, None)
      <4>1. objects' = <<job>> /\ open' = 1 /\ ended' = None
        BY <1>2, <1>5, <2>5, <3>6
      <4>2. Present(tx.table, tx.conflict)
        BY <3>2, <3>6 DEF TxKnown, Dropping
      <4>3. /\ Held(<<job>>, tx.table, 1, None, {}, limit)
            /\ tx.table[tx.conflict].result = None => Saving(<<job>>, tx.table, 1, {})
        BY <1>3, <3>3, <4>2, HeldStored DEF taken
      <4>4. ~overtaken => tx.table[tx.conflict].result = None
        BY <2>4, <3>2, <3>6 DEF SavedSoFar, Refusing
      <4> HIDE DEF job
      <4> QED
        BY <1>3, <3>1, <3>3, <3>4, <4>1, <4>3, <4>4 DEF ApplyDone
    <3> QED
      BY <3>5, <3>6
  <2>6. CASE ~(works /\ ~tx.refused)
    <3>1. /\ tx.refused \/ slips < MaxSlips
          /\ slips' = IF tx.refused THEN slips ELSE slips + 1
          /\ retry' = keep /\ objects' = Store!Swept(os, used \cup Store!Range(keep))
          /\ open' = current /\ ended' = last /\ table' = table
      BY <1>2, <1>5, <2>6
    <3>2. keep \in Seq(due) /\ Store!Range(keep) = due
      <4>1. \A n \in 1..Len(steps) : steps[n] # Store!Skip => steps[n].job \in due
        BY <2>2 DEF Done
      <4>2. /\ keep \in Seq(due)
            /\ \A x : x \in Store!Range(keep) <=> \E n \in 1..Len(steps) : steps[n] # Store!Skip /\ steps[n].job = x
        BY <2>2, <4>1, KeptJobs DEF keep
      <4>3. \A x : x \in due <=> \E n \in 1..Len(steps) : steps[n] # Store!Skip /\ steps[n].job = x
        BY <2>2 DEF Done
      <4>4. \A x : x \in Store!Range(keep) <=> x \in due
        BY <4>2, <4>3
      <4> QED
        BY <4>2, <4>4
    <3>3. /\ Held(objects', table, current, last, due, limit) /\ Live(objects') = Live(os) \cap (used \cup due)
          /\ Saving(os, table, current, due) => Saving(objects', table, current, due)
      <4>1. {current, last} \ {None} \subseteq used \cup due
        OBVIOUS
      <4> QED
        BY <1>1, <1>3, <3>1, <3>2, <4>1, HeldSwept
    <3>4. due \subseteq Live(os)
      <4>1. \A i \in Store!Range(queue) : i \in Live(os)
        BY <1>1 DEF Feeding, Store!Range
      <4>2. \A n \in DOMAIN ops : ops[n].job \in Live(os)
        <5>1. DOMAIN ops = 1..Len(ops)
          BY <1>1 DEF Feeding
        <5> QED
          BY <1>1, <5>1, OpTyped
      <4> QED
        BY <4>1, <4>2 DEF due, Due
    <3>5. retry' \in Seq(Live(objects')) /\ Store!Range(retry') = due
      <4>1. due \subseteq Live(objects')
        BY <3>3, <3>4
      <4>2. keep \in Seq(Live(objects'))
        BY <3>2, <4>1, SeqMonotonic
      <4> QED
        BY <3>1, <3>2, <4>2
    <3>6. Recorded(table, limit) /\ Grown(table, table)
      BY <1>3, RecordedMore, Remembering
    <3>7. slips' \in 0..MaxSlips
      BY <1>1, <1>3, <3>1
    <3> QED
      BY <2>4, <3>1, <3>3, <3>5, <3>6, <3>7 DEF ApplyDone
  <2> QED
    BY <2>5, <2>6
<1> QED
  BY <1>4, <1>5

\* A job more.
LEMMA AppendedJobs ==
  ASSUME StoreConstants, NEW os \in Seq(Store!Jobs \cup {None}), NEW job \in Store!Jobs, NEW more, more = Append(os, job),
         NEW n, n = Len(os) + 1
  PROVE  /\ more \in Seq(Store!Jobs \cup {None}) /\ n \notin Live(os) /\ Live(more) = Live(os) \cup {n} /\ more[n] = job
         /\ \A i \in Live(os) : more[i] = os[i]
         /\ n \in Nat
<1> DEFINE T == Store!Jobs \cup {None}
<1>0. job # None
  BY DEF StoreConstants
<1>1. os \in Seq(T) /\ job \in T
  OBVIOUS
<1> HIDE DEF T
<1>2. /\ more \in Seq(T) /\ Len(more) = n /\ more[n] = job /\ \A i \in 1..Len(os) : more[i] = os[i]
  BY <1>1, AppendProperties
<1>3. DOMAIN more = 1..n /\ DOMAIN os = 1..Len(os) /\ Len(os) \in Nat
  BY <1>1, <1>2
<1>4. \A i : i \in Live(more) <=> i \in 1..n /\ more[i] # None
  BY <1>3 DEF Live
<1>5. \A i : i \in Live(os) <=> i \in 1..Len(os) /\ os[i] # None
  BY <1>3 DEF Live
<1>6. n \notin Live(os) /\ Live(more) = Live(os) \cup {n}
  <2>1. 1..n = 1..Len(os) \cup {n} /\ n \notin 1..Len(os)
    BY <1>3
  <2> QED
    BY <1>0, <1>2, <1>4, <1>5, <2>1
<1> QED
  BY <1>2, <1>3, <1>5, <1>6 DEF T

\* What insert_job is called with: the print that begins.
Rowless(os, i) == os[i].row = None
OpeningOf(os, last, due, limit, more, n) ==
  /\ limit \in Nat /\ limit < Cardinality(Prints) /\ Held(os, table, None, last, due, limit) /\ Recorded(table, limit)
  /\ more = Append(os, Store!Object(None, limit + 1, 0, None)) /\ n = Len(os) + 1
\* A print begins.
LEMMA Opening ==
  ASSUME StoreConstants, NEW os, NEW last, NEW due, NEW limit, NEW more, NEW n, OpeningOf(os, last, due, limit, more, n)
  PROVE  /\ Held(more, table, n, None, due \cup {n}, limit + 1)
         /\ n \notin Live(os) /\ Live(more) = Live(os) \cup {n} /\ Rowless(more, n)
         /\ \A i \in Live(os) : more[i] = os[i]
         /\ Saving(os, table, None, due) => Saving(more, table, n, due \cup {n})
<1>0. /\ limit \in Nat /\ limit < Cardinality(Prints) /\ Held(os, table, None, last, due, limit) /\ Recorded(table, limit)
      /\ more = Append(os, Store!Object(None, limit + 1, 0, None)) /\ n = Len(os) + 1
  BY DEF OpeningOf
<1> USE <1>0
<1> DEFINE job == Store!Object(None, limit + 1, 0, None)
           emitted == [c \in Store!Columns |-> IF c = "at" THEN 0 ELSE None]
<1>1. emitted = [at |-> 0, result |-> None]
  BY DEF Store!Columns
<1>2. limit + 1 \in Prints /\ limit + 1 \in 1..(limit + 1) /\ 0 \in 0..MaxAt
  BY DEF StoreConstants
<1>3. job = [row |-> None, print |-> limit + 1, at |-> 0, result |-> None, emitted |-> emitted]
  BY DEF Store!Object
<1>4. emitted \in [at : 0..MaxAt, result : Store!Results \cup {None}]
  BY <1>1, <1>2
<1> HIDE DEF job, emitted
<1>5. /\ job \in Store!Jobs /\ job.row = None /\ job.print = limit + 1 /\ job.result = None /\ job.emitted = emitted
      /\ job["at"] = 0 /\ job["result"] = None
  BY <1>2, <1>3, <1>4 DEF Store!Jobs
<1>6. job.emitted = Store!Content(job)
  BY <1>1, <1>5 DEF Store!Content, Store!Columns
<1>7. /\ more \in Seq(Store!Jobs \cup {None}) /\ n \notin Live(os) /\ Live(more) = Live(os) \cup {n} /\ more[n] = job
      /\ \A i \in Live(os) : more[i] = os[i]
      /\ n \in Nat
  <2>1. os \in Seq(Store!Jobs \cup {None})
    BY DEF Held
  <2>2. more = Append(os, job)
    BY DEF job
  <2>3. StoreConstants /\ job \in Store!Jobs /\ n = Len(os) + 1
    BY <1>5
  <2> QED
    BY <2>1, <2>2, <2>3, AppendedJobs
<1>8. Machined(more, n, None)
  BY <1>5, <1>7 DEF Machined
<1>9. \A i \in Live(os) : Tracked(os, table, due, limit, i)
  BY DEF Held
<1>12. ASSUME NEW i \in Live(os) PROVE more[i] = os[i] /\ i # n /\ os[i].print \in 1..limit /\ os[i].print # limit + 1
  <2>1. os[i].print \in 1..limit
    BY <1>9 DEF Tracked
  <2>2. more[i] = os[i] /\ i # n
    BY <1>7, Zenon
  <2>3. ASSUME NEW p \in 1..limit PROVE p # limit + 1
    OBVIOUS
  <2> QED
    BY <2>1, <2>2, <2>3, Zenon
<1>10. \A i \in Live(os) : Tracked(more, table, due \cup {n}, limit + 1, i)
  <2>1. SUFFICES ASSUME NEW i \in Live(os) PROVE Tracked(more, table, due \cup {n}, limit + 1, i)
    OBVIOUS
  <2>3. ASSUME NEW p \in 1..limit PROVE p \in 1..(limit + 1)
    OBVIOUS
  <2>2. Tracked(os, table, due, limit, i) /\ more[i] = os[i] /\ os[i].print \in 1..(limit + 1)
    BY <1>9, <1>12, <2>3, Zenon
  <2> QED
    BY <2>2 DEF Tracked
<1>11. Tracked(more, table, due \cup {n}, limit + 1, n)
  <2>1. \A id \in 1..Len(table) : table[id] # None => table[id].print < limit + 1
    BY DEF Recorded
  <2> QED
    BY <1>2, <1>5, <1>6, <1>7, <2>1 DEF Tracked
<1>13. \A i, j \in Live(more) : more[i].row = None /\ more[j].row = None /\ more[i].print = more[j].print => i = j
  <2>1. \A i, j \in Live(os) : os[i].row = None /\ os[j].row = None /\ os[i].print = os[j].print => i = j
    BY DEF Held
  <2>2. \A i \in Live(more) : (i = n /\ more[i].print = limit + 1) \/ (i \in Live(os) /\ more[i] = os[i] /\ os[i].print # limit + 1)
    BY <1>5, <1>7, <1>12
  <2>3. more[n].print = limit + 1
    BY <1>5, <1>7
  <2>4. SUFFICES ASSUME NEW i \in Live(more), NEW j \in Live(more), more[i].row = None, more[j].row = None, more[i].print = more[j].print
                 PROVE  i = j
    OBVIOUS
  <2>5. i = n <=> more[i].print = limit + 1
    BY <2>2, <2>3, Zenon
  <2>6. j = n <=> more[j].print = limit + 1
    BY <2>2, <2>3, Zenon
  <2>7. CASE i = n
    BY <2>4, <2>5, <2>6, <2>7, Zenon
  <2>8. CASE i # n
    <3>1. j # n
      BY <2>4, <2>5, <2>6, <2>8, Zenon
    <3>2. i \in Live(os) /\ more[i] = os[i] /\ j \in Live(os) /\ more[j] = os[j]
      BY <2>2, <2>8, <3>1, Zenon
    <3>3. os[i].row = None /\ os[j].row = None /\ os[i].print = os[j].print
      BY <2>4, <3>2, Zenon
    <3> QED
      BY <2>1, <3>2, <3>3, Zenon
  <2> QED
    BY <2>7, <2>8
<1>14. Held(more, table, n, None, due \cup {n}, limit + 1)
  BY <1>7, <1>8, <1>10, <1>11, <1>13 DEF Held
<1>15. ASSUME Saving(os, table, None, due) PROVE Saving(more, table, n, due \cup {n})
  <2>1. \A i \in Live(more) \ (due \cup {n}) : Agrees(more, table, i)
    <3>1. SUFFICES ASSUME NEW i \in Live(more) \ (due \cup {n}) PROVE Agrees(more, table, i)
      OBVIOUS
    <3>2. i \in Live(os) \ due /\ more[i] = os[i]
      BY <1>7
    <3>3. Agrees(os, table, i)
      BY <1>15, <3>2 DEF Saving
    <3> QED
      BY <3>2, <3>3 DEF Agrees
  <2>2. \A i, j \in Live(more) : more[i].print = more[j].print => i = j
    <3>1. \A i \in Live(more) : (i = n /\ more[i].print = limit + 1) \/ (i \in Live(os) /\ more[i] = os[i] /\ os[i].print # limit + 1)
      BY <1>5, <1>7, <1>12
    <3>2. \A i, j \in Live(os) : os[i].print = os[j].print => i = j
      BY <1>15 DEF Saving
    <3> QED
      BY <3>1, <3>2
  <2>3. \A i \in Live(more) : more[i].result = None => i = n
    <3>1. \A i \in Live(os) : i # None
      BY DEF Live, Held, StoreConstants
    <3> QED
      BY <1>7, <1>15, <3>1 DEF Saving
  <2> QED
    BY <2>1, <2>2, <2>3 DEF Saving
<1> QED
  BY <1>5, <1>7, <1>14, <1>15 DEF Rowless

\* What _emit leaves of a job whose print goes on or ends.
Revised(os, i, when, result) ==
  [os EXCEPT ![i] = Store!Emitted([@ EXCEPT !.at = when, !.result = result])]

\* A job goes on, or ends.
LEMMA RevisedJobs ==
  ASSUME StoreConstants, NEW os \in Seq(Store!Jobs \cup {None}), NEW i \in Live(os), NEW when \in 0..MaxAt,
         NEW result \in Store!Results \cup {None}, NEW new, new = Revised(os, i, when, result)
  PROVE  /\ new \in Seq(Store!Jobs \cup {None}) /\ Live(new) = Live(os) /\ Len(new) = Len(os)
         /\ \A j \in Live(os) : j # i => new[j] = os[j]
         /\ new[i].row = os[i].row /\ new[i].print = os[i].print /\ new[i].at = when /\ new[i].result = result
         /\ new[i].emitted = Store!Content(new[i])
<1> DEFINE job == os[i]
           next == [job EXCEPT !.at = when, !.result = result]
           emitted == Store!Content(next)
           T == Store!Jobs \cup {None}
<1>1. job \in Store!Jobs /\ i \in 1..Len(os) /\ os[i] # None
  BY LiveJob DEF Live
<1> HIDE DEF job
<1>2. next \in Store!Jobs /\ next.row = job.row /\ next.print = job.print /\ next.at = when /\ next.result = result
      /\ next["at"] = when /\ next["result"] = result
  BY <1>1 DEF Store!Jobs
<1> HIDE DEF next
<1>3. emitted = [at |-> when, result |-> result]
  BY <1>2 DEF Store!Content, Store!Columns
<1>4. emitted \in [at : 0..MaxAt, result : Store!Results \cup {None}]
  BY <1>3
<1> HIDE DEF emitted
<1> DEFINE last == [next EXCEPT !.emitted = emitted]
<1>5. /\ last \in Store!Jobs /\ last.row = job.row /\ last.print = job.print /\ last.at = when /\ last.result = result
      /\ last.emitted = emitted /\ last["at"] = when /\ last["result"] = result
  BY <1>2, <1>4 DEF Store!Jobs
<1>6. new = [os EXCEPT ![i] = last]
  BY <1>1 DEF Revised, Store!Emitted, last, next, job, emitted
<1> HIDE DEF last
<1>7. Store!Content(last) = emitted
  BY <1>3, <1>5 DEF Store!Content, Store!Columns
<1>8. os \in Seq(T) /\ last \in T /\ last # None
  BY <1>5 DEF StoreConstants
<1> HIDE DEF T
<1>9. new \in Seq(T) /\ Len(new) = Len(os) /\ \A j \in 1..Len(os) : new[j] = IF j = i THEN last ELSE os[j]
  BY <1>1, <1>6, <1>8, ExceptSeq
<1>10. \A j : j \in Live(new) <=> j \in 1..Len(os) /\ new[j] # None
  BY <1>9 DEF Live
<1>11. \A j : j \in Live(os) <=> j \in 1..Len(os) /\ os[j] # None
  BY <1>8 DEF Live
<1>12. Live(new) = Live(os)
  BY <1>1, <1>8, <1>9, <1>10, <1>11
<1> QED
  BY <1>1, <1>5, <1>7, <1>9, <1>11, <1>12 DEF T, job

RevisingOf(os, was, due, limit, i, when, result, new, current, last) ==
  /\ \E before : Held(os, table, was, before, due, limit)
  /\ i \in Live(os) /\ was \in {None, i} /\ when \in 0..MaxAt /\ result \in Store!Results \cup {None}
  /\ new = Revised(os, i, when, result)
  /\ IF result = None THEN current = i /\ last = None ELSE current = None /\ last \in {None, i}
\* The machine holds it still.
LEMMA Revising ==
  ASSUME StoreConstants, NEW os, NEW was, NEW due, NEW limit \in Nat, NEW i, NEW when, NEW result, NEW new, NEW current, NEW last,
         RevisingOf(os, was, due, limit, i, when, result, new, current, last)
  PROVE  /\ Held(new, table, current, last, due \cup {i}, limit) /\ Live(new) = Live(os) /\ Len(new) = Len(os)
         /\ Saving(os, table, was, due) => Saving(new, table, current, due \cup {i})
<1>0. PICK before : /\ Held(os, table, was, before, due, limit)
                     /\ i \in Live(os) /\ was \in {None, i} /\ when \in 0..MaxAt /\ result \in Store!Results \cup {None}
                     /\ new = Revised(os, i, when, result)
                     /\ IF result = None THEN current = i /\ last = None ELSE current = None /\ last \in {None, i}
  BY DEF RevisingOf
<1> USE <1>0
<1>1. /\ new \in Seq(Store!Jobs \cup {None}) /\ Live(new) = Live(os) /\ Len(new) = Len(os)
      /\ \A j \in Live(os) : j # i => new[j] = os[j]
      /\ new[i].row = os[i].row /\ new[i].print = os[i].print /\ new[i].at = when /\ new[i].result = result
      /\ new[i].emitted = Store!Content(new[i])
  <2>1. os \in Seq(Store!Jobs \cup {None})
    BY DEF Held
  <2> QED
    BY <2>1, RevisedJobs
<1>2. None \notin Live(os)
  BY DEF Held, Live, StoreConstants
<1>3. Machined(new, current, last)
  BY <1>1, <1>2 DEF Machined
<1>4. \A j \in Live(os) : Tracked(os, table, due, limit, j)
  BY DEF Held
<1>5. \A j \in Live(os) : j # i => Tracked(new, table, due \cup {i}, limit, j)
  BY <1>1, <1>4 DEF Tracked
<1>6. Tracked(new, table, due \cup {i}, limit, i)
  BY <1>1, <1>4 DEF Tracked
<1>7. \A j \in Live(os) : new[j].row = os[j].row /\ new[j].print = os[j].print
  BY <1>1
<1>8. \A j, k \in Live(new) : new[j].row = None /\ new[k].row = None /\ new[j].print = new[k].print => j = k
  BY <1>1, <1>7 DEF Held
<1>9. ASSUME Saving(os, table, was, due) PROVE Saving(new, table, current, due \cup {i})
  <2>1. \A j \in Live(new) \ (due \cup {i}) : Agrees(new, table, j)
    BY <1>1, <1>9 DEF Saving, Agrees
  <2>2. \A j, k \in Live(new) : new[j].print = new[k].print => j = k
    BY <1>1, <1>7, <1>9 DEF Saving
  <2>3. \A j \in Live(new) : new[j].result = None => j = current
    BY <1>1, <1>2, <1>9 DEF Saving
  <2> QED
    BY <2>1, <2>2, <2>3 DEF Saving
<1> QED
  BY <1>1, <1>3, <1>5, <1>6, <1>8, <1>9 DEF Held

\* The print open in the table is gone on with.
RestoringOf(os, last, due, limit, id, more, n) ==
  /\ limit \in Nat /\ Held(os, table, None, last, due, limit) /\ Recorded(table, limit) /\ id \in Store!OpenIds(table)
  /\ more = Append(os, Store!Object(id, table[id].print, table[id].at, None)) /\ n = Len(os) + 1
\* The open print of the table is taken up.
LEMMA Restoring ==
  ASSUME StoreConstants, NEW os, NEW last, NEW due, NEW limit, NEW id, NEW more, NEW n,
         RestoringOf(os, last, due, limit, id, more, n)
  PROVE  /\ Held(more, table, n, None, due, limit) /\ Live(more) = Live(os) \cup {n}
         /\ os = <<>> => Saving(more, table, n, due)
<1>0. /\ limit \in Nat /\ Held(os, table, None, last, due, limit) /\ Recorded(table, limit) /\ id \in Store!OpenIds(table)
      /\ more = Append(os, Store!Object(id, table[id].print, table[id].at, None)) /\ n = Len(os) + 1
  BY DEF RestoringOf
<1> USE <1>0
<1> DEFINE job == Store!Object(id, table[id].print, table[id].at, None)
<1>1. Present(table, id) /\ table[id].result = None /\ table \in Tables
  BY OpenTyped DEF Recorded
<1>2. /\ Held(<<job>>, table, 1, None, {}, limit) /\ Live(<<job>>) = {1} /\ job \in Store!Jobs
      /\ Saving(<<job>>, table, 1, {})
  <2> DEFINE j == job
  <2>1. j = Store!Object(id, table[id].print, table[id].at, None)
    OBVIOUS
  <2> HIDE DEF j
  <2>2. /\ Held(<<j>>, table, 1, None, {}, limit) /\ Live(<<j>>) = {1} /\ j \in Store!Jobs
        /\ Saving(<<j>>, table, 1, {})
    BY <1>1, <2>1, HeldStored
  <2> QED
    BY <2>2 DEF j
<1> HIDE DEF job
<1>3. more = Append(os, job)
  BY DEF job
<1>4. /\ more \in Seq(Store!Jobs \cup {None}) /\ n \notin Live(os) /\ Live(more) = Live(os) \cup {n} /\ more[n] = job
      /\ \A i \in Live(os) : more[i] = os[i]
      /\ n \in Nat
  <2>1. os \in Seq(Store!Jobs \cup {None})
    BY DEF Held
  <2>2. StoreConstants /\ job \in Store!Jobs /\ n = Len(os) + 1
    BY <1>2
  <2> QED
    BY <1>3, <2>1, <2>2, AppendedJobs
<1>5. <<job>>[1] = job /\ 1 \in Live(<<job>>)
  BY <1>2
<1>6. Tracked(<<job>>, table, {}, limit, 1) /\ Machined(<<job>>, 1, None)
  BY <1>2, <1>5 DEF Held
<1>7. Tracked(more, table, due, limit, n) /\ job.row # None /\ job.result = None
  <2>1. job.row = id
    BY DEF job, Store!Object
  <2>2. id # None
    BY <1>1, RowPresent DEF StoreConstants
  <2>3. job.result = None
    BY DEF job, Store!Object
  <2> QED
    BY <1>4, <1>5, <1>6, <2>1, <2>2, <2>3 DEF Tracked
<1>8. \A i \in Live(os) : Tracked(more, table, due, limit, i)
  BY <1>4 DEF Held, Tracked
<1>9. Machined(more, n, None)
  BY <1>4, <1>7 DEF Machined
<1>10. Held(more, table, n, None, due, limit)
  <2>1. more[n].row # None /\ \A i \in Live(more) : i = n \/ (i \in Live(os) /\ more[i] = os[i])
    BY <1>4, <1>7
  <2>2. \A i, j \in Live(os) : os[i].row = None /\ os[j].row = None /\ os[i].print = os[j].print => i = j
    BY DEF Held
  <2>3. \A i, j \in Live(more) : more[i].row = None /\ more[j].row = None /\ more[i].print = more[j].print => i = j
    <3>1. SUFFICES ASSUME NEW i \in Live(more), NEW j \in Live(more), more[i].row = None, more[j].row = None, more[i].print = more[j].print
                   PROVE  i = j
      OBVIOUS
    <3>2. i \in Live(os) /\ more[i] = os[i]
      BY <2>1, <3>1, Zenon
    <3>3. j \in Live(os) /\ more[j] = os[j]
      BY <2>1, <3>1, Zenon
    <3>4. os[i].row = None /\ os[j].row = None /\ os[i].print = os[j].print
      BY <3>1, <3>2, <3>3, Zenon
    <3> QED
      BY <2>2, <3>2, <3>3, <3>4, Zenon
  <2>4. \A i \in Live(more) : Tracked(more, table, due, limit, i)
    BY <1>7, <1>8, <2>1
  <2> QED
    BY <1>4, <1>9, <2>3, <2>4 DEF Held
<1>11. ASSUME os = <<>> PROVE Saving(more, table, n, due)
  <2>1. Live(os) = {}
    BY <1>11 DEF Live
  <2>2. Agrees(<<job>>, table, 1)
    BY <1>2 DEF Saving
  <2>3. Agrees(more, table, n)
    BY <1>4, <1>5, <2>2 DEF Agrees
  <2> QED
    BY <1>4, <2>1, <2>3 DEF Saving
<1> QED
  BY <1>4, <1>10, <1>11

StorePhases ==
  /\ began \in 0..Cardinality(Prints) /\ slips \in 0..MaxSlips
  /\ phase \in {"down", "replay", "load", "up"} /\ version \in BOOLEAN /\ overtaken \in BOOLEAN
  /\ phase # "up" => objects = <<>> /\ open = None /\ ended = None /\ retry = <<>> /\ ~overtaken
  /\ phase = "replay" => ~version
StoreInv ==
  /\ StorePhases /\ Recorded(table, began)
  /\ retry \in Seq(Live(objects)) /\ Held(objects, table, open, ended, Store!Range(retry), began)
  /\ ~overtaken => Saving(objects, table, open, Store!Range(retry))

\* What a step of the process may do to the table (JobLedger has it).
StoreWrites == Grown(table, table') /\ version' = version

\* A poll keeps the invariant when its apply is ready.
LEMMA FeedKeeps ==
  ASSUME StoreConstants, StoreInv, NEW os, NEW m, NEW ops, NEW limit \in began..Cardinality(Prints),
         ApplyReady(os, m, ops, retry, limit), Store!Feed(os, m, ops, limit)
  PROVE  StoreInv' /\ StoreWrites
<1>1. /\ phase = "up" /\ began' = limit /\ phase' = phase /\ version' = version /\ overtaken' = overtaken
  BY DEF Store!Feed, Store!Observing
<1>2. PICK works \in BOOLEAN : Store!Apply(os, m, ops, retry, works)
  BY DEF Store!Feed
<1>3. /\ began \in Nat /\ limit \in Nat /\ began <= limit /\ limit \in 0..Cardinality(Prints)
      /\ slips \in 0..MaxSlips /\ Recorded(table, began)
  BY DEF StoreInv, StorePhases, StoreConstants
<1>4. ApplyDone(limit)
  BY <1>2, <1>3, Applying
<1>5. StorePhases'
  BY <1>1, <1>3, <1>4 DEF StoreInv, StorePhases, ApplyDone
<1> QED
  BY <1>1, <1>4, <1>5 DEF StoreInv, ApplyDone, StoreWrites

\* A saved process writes in order.
LEMMA OrderedFrom ==
  ASSUME StoreConstants, NEW os, NEW current, NEW last, NEW due, NEW limit, Held(os, table, current, last, due, limit),
         Saving(os, table, current, due), NEW queue, NEW ops, OpsFit(os, current, queue, ops)
  PROVE  Ordered(os, current, queue, ops)
<1>1. None \notin Live(os)
  BY DEF Held, Live, StoreConstants
<1>2. current # None => current \in Live(os) /\ os[current].result = None
  BY DEF Held, Machined
<1> QED
  BY <1>1, <1>2 DEF Ordered, Saving

\* What an apply needs, for the operations of each feed.
LEMMA Readied ==
  ASSUME StoreConstants, NEW os, NEW current, NEW last, NEW ops, NEW queue \in Seq(Live(os)), NEW limit,
         ops \in Seq([job : Live(os), columns : SUBSET Store!Columns]),
         Held(os, table, current, last, Due(queue, ops), limit),
         ~overtaken => Saving(os, table, current, Due(queue, ops)) /\ OpsFit(os, current, queue, ops)
  PROVE  ApplyReady(os, [open |-> current, ended |-> last], ops, queue, limit)
<1> DEFINE m == [open |-> current, ended |-> last]
<1>1. m.open = current /\ m.ended = last
  OBVIOUS
<1> HIDE DEF m
<1>2. Feeding(os, queue, ops)
  BY DEF Feeding, Held
<1>3. ASSUME ~overtaken PROVE Ordered(os, current, queue, ops)
  BY <1>3, OrderedFrom
<1>4. ApplyReady(os, m, ops, queue, limit)
  BY <1>1, <1>2, <1>3 DEF ApplyReady
<1> QED
  BY <1>4 DEF m

\* A poll without operations: the retry alone.
LEMMA NothingFed ==
  ASSUME StoreConstants, StoreInv, Store!FeedNothing
  PROVE  StoreInv' /\ StoreWrites
<1> DEFINE m == [open |-> open, ended |-> ended]
           queue == retry
           ops == <<>>
<1>1. Due(queue, ops) = Store!Range(retry) /\ ops \in Seq([job : Live(objects), columns : SUBSET Store!Columns])
  BY DEF Due
<1>2. OpsFit(objects, open, queue, ops)
  BY DEF OpsFit
<1>3. /\ queue \in Seq(Live(objects)) /\ Held(objects, table, open, ended, Store!Range(retry), began)
      /\ ~overtaken => Saving(objects, table, open, Store!Range(retry))
      /\ began \in began..Cardinality(Prints)
  BY DEF StoreInv, StorePhases, StoreConstants
<1>4. Store!Feed(objects, m, ops, began)
  BY DEF Store!FeedNothing
<1> HIDE DEF ops, queue
<1>5. ApplyReady(objects, m, ops, queue, began)
  BY <1>1, <1>2, <1>3, Readied
<1> QED
  BY <1>3, <1>4, <1>5, FeedKeeps DEF queue

\* A poll that begins a print.
LEMMA OpenFed ==
  ASSUME StoreConstants, StoreInv, Store!FeedOpen
  PROVE  StoreInv' /\ StoreWrites
<1> DEFINE n == Len(objects) + 1
           os == Append(objects, Store!Object(None, began + 1, 0, None))
           op == [job |-> n, columns |-> Store!Columns]
           ops == <<op>>
           due == Store!Range(retry)
<1>1. /\ Store!Feed(os, [open |-> n, ended |-> None], ops, began + 1) /\ open = None /\ began < Cardinality(Prints)
  BY DEF Store!FeedOpen, Store!NewPrint, Store!Opens, Store!Cardinality, Cardinality
<1>2. /\ Held(objects, table, None, ended, due, began) /\ Recorded(table, began) /\ began \in Nat
      /\ ~overtaken => Saving(objects, table, None, due)
      /\ retry \in Seq(Live(objects)) /\ began + 1 \in began..Cardinality(Prints)
  BY <1>1 DEF StoreInv, StorePhases, StoreConstants
<1>3. /\ Held(os, table, n, None, due \cup {n}, began + 1)
      /\ n \notin Live(objects) /\ Live(os) = Live(objects) \cup {n} /\ Rowless(os, n)
      /\ Saving(objects, table, None, due) => Saving(os, table, n, due \cup {n})
  <2> HIDE DEF n, due, os
  <2>1. os = Append(objects, Store!Object(None, began + 1, 0, None)) /\ n = Len(objects) + 1
    BY DEF os, n
  <2>2. StoreConstants /\ began \in Nat /\ began < Cardinality(Prints) /\ Held(objects, table, None, ended, due, began)
        /\ Recorded(table, began)
    BY <1>1, <1>2
  <2>3. OpeningOf(objects, ended, due, began, os, n)
    BY <2>1, <2>2 DEF OpeningOf
  <2> QED
    BY <2>3, Opening
<1> HIDE DEF n, os
<1>4. op \in [job : Live(os), columns : SUBSET Store!Columns] /\ op.job = n
  BY <1>3
<1> HIDE DEF op
<1>5. /\ ops \in Seq([job : Live(os), columns : SUBSET Store!Columns]) /\ DOMAIN ops = {1} /\ Len(ops) = 1 /\ ops[1] = op
  <2> DEFINE R == [job : Live(os), columns : SUBSET Store!Columns]
  <2>1. op \in R
    BY <1>4
  <2> HIDE DEF R
  <2>2. ops \in Seq(R) /\ DOMAIN ops = {1} /\ Len(ops) = 1 /\ ops[1] = op
    BY <2>1
  <2> QED
    BY <2>2 DEF R
<1> HIDE DEF ops
<1>6. Due(retry, ops) = due \cup {n}
  BY <1>4, <1>5 DEF Due
<1>7. n \notin due
  BY <1>2, <1>3 DEF Store!Range
<1>8. OpsFit(os, n, retry, ops)
  BY <1>3, <1>4, <1>5, <1>7 DEF OpsFit, Rowless
<1>9. retry \in Seq(Live(os))
  BY <1>2, <1>3, SeqMonotonic
<1>10. ApplyReady(os, [open |-> n, ended |-> None], ops, retry, began + 1)
  <2>1. /\ Held(os, table, n, None, Due(retry, ops), began + 1)
        /\ ~overtaken => Saving(os, table, n, Due(retry, ops)) /\ OpsFit(os, n, retry, ops)
    BY <1>2, <1>3, <1>6, <1>8
  <2> QED
    BY <1>5, <1>9, <2>1, Readied
<1> QED
  BY <1>1, <1>2, <1>10, FeedKeeps DEF ops

\* The columns of an operation are those its job changed.
Differs(columns, i, when, result) ==
  /\ columns \in SUBSET Store!Columns
  /\ "at" \notin columns => objects[i].at = when
  /\ "result" \notin columns => objects[i].result = result

\* A job changed and its operation.
LEMMA ChangedIs ==
  ASSUME StoreConstants, StoreInv, NEW i \in Live(objects), NEW when \in 0..MaxAt, NEW result \in Store!Results \cup {None},
         NEW objs, objs = Store!Changed(i, when, result)
  PROVE  /\ Store!Emit(objs, i) = Revised(objects, i, when, result)
         /\ \E columns : Store!Op(objs[i], i) = [job |-> i, columns |-> columns] /\ Differs(columns, i, when, result)
<1> DEFINE job == objects[i]
           next == [job EXCEPT !.at = when, !.result = result]
           columns == {c \in Store!Columns : next[c] # next.emitted[c]}
<1>1. job \in Store!Jobs /\ i \in DOMAIN objects /\ job.emitted = Store!Content(job)
  <2>1. objects \in Seq(Store!Jobs \cup {None}) /\ job.emitted = Store!Content(job)
    BY DEF StoreInv, Held, Tracked
  <2> QED
    BY <2>1, LiveJob
<1>2. objs = [objects EXCEPT ![i] = next]
  BY DEF Store!Changed
<1> HIDE DEF job
<1>3. next["at"] = when /\ next["result"] = result /\ next.emitted = job.emitted
  BY <1>1 DEF Store!Jobs
<1> HIDE DEF next
<1>4. objs[i] = next
  BY <1>1, <1>2
<1>5. Store!Op(objs[i], i) = [job |-> i, columns |-> columns]
  BY <1>4 DEF Store!Op
<1>6. job.emitted["at"] = job.at /\ job.emitted["result"] = job.result
  <2>1. job["at"] = job.at /\ job["result"] = job.result
    BY <1>1 DEF Store!Jobs
  <2> QED
    BY <1>1, <2>1 DEF Store!Content, Store!Columns
<1>7. Differs(columns, i, when, result)
  BY <1>3, <1>6 DEF Differs, Store!Columns, job
<1> HIDE DEF columns
<1>8. Store!Emit(objs, i) = [objects EXCEPT ![i] = Store!Emitted(next)]
  <2>1. Store!Emit(objs, i) = [objs EXCEPT ![i] = Store!Emitted(next)]
    BY <1>4 DEF Store!Emit
  <2> DEFINE last == Store!Emitted(next)
  <2> HIDE DEF last
  <2>2. [objs EXCEPT ![i] = last] = [objects EXCEPT ![i] = last]
    BY <1>2
  <2> QED
    BY <2>1, <2>2 DEF last
<1> QED
  BY <1>5, <1>7, <1>8 DEF Revised, next, job

\* What an operation leaves out the row has.
OpFits(os, i, columns) ==
  ~overtaken /\ i \notin Store!Range(retry) /\ os[i].row # None =>
    /\ "at" \notin columns => table[os[i].row].at = os[i].at
    /\ "result" \notin columns => table[os[i].row].result = os[i].result

\* One operation on a job of the process.
LEMMA ReadyRevised ==
  ASSUME StoreConstants, StoreInv, NEW i, NEW when, NEW result, NEW os, NEW current, NEW last,
         RevisingOf(objects, open, Store!Range(retry), began, i, when, result, os, current, last),
         NEW columns, Differs(columns, i, when, result), NEW op, op = [job |-> i, columns |-> columns]
  PROVE  /\ ApplyReady(os, [open |-> current, ended |-> last], <<op>>, retry, began)
         /\ Live(os) = Live(objects) /\ Len(os) = Len(objects)
         /\ os[i].row = objects[i].row
         /\ Held(os, table, current, last, Store!Range(retry) \cup {i}, began)
         /\ ~overtaken => Saving(os, table, current, Store!Range(retry) \cup {i})
         /\ OpFits(os, i, columns)
<1> DEFINE due == Store!Range(retry)
           ops == <<op>>
<1>1. /\ retry \in Seq(Live(objects)) /\ began \in Nat /\ (~overtaken => Saving(objects, table, open, due))
      /\ objects \in Seq(Store!Jobs \cup {None})
  BY DEF StoreInv, StorePhases, StoreConstants, Held
<1>2. /\ i \in Live(objects) /\ when \in 0..MaxAt /\ result \in Store!Results \cup {None} /\ os = Revised(objects, i, when, result)
      /\ current \in {None, i}
  BY DEF RevisingOf
<1>3. /\ Held(os, table, current, last, due \cup {i}, began) /\ Live(os) = Live(objects) /\ Len(os) = Len(objects)
      /\ Saving(objects, table, open, due) => Saving(os, table, current, due \cup {i})
  <2> HIDE DEF due
  <2>1. RevisingOf(objects, open, due, began, i, when, result, os, current, last)
    BY DEF due
  <2> QED
    BY <1>1, <2>1, Revising
<1>4. os[i].row = objects[i].row /\ os[i].at = when /\ os[i].result = result
  BY <1>1, <1>2, RevisedJobs
<1>5. op \in [job : Live(os), columns : SUBSET Store!Columns] /\ op.job = i /\ op.columns = columns
  BY <1>2, <1>3 DEF Differs
<1>6. /\ ops \in Seq([job : Live(os), columns : SUBSET Store!Columns]) /\ DOMAIN ops = {1} /\ Len(ops) = 1 /\ ops[1] = op
  <2> DEFINE R == [job : Live(os), columns : SUBSET Store!Columns]
  <2>1. op \in R
    BY <1>5
  <2> HIDE DEF R
  <2>2. ops \in Seq(R) /\ DOMAIN ops = {1} /\ Len(ops) = 1 /\ ops[1] = op
    BY <2>1
  <2> QED
    BY <2>2 DEF R
<1> HIDE DEF ops
<1>7. Due(retry, ops) = due \cup {i}
  BY <1>5, <1>6 DEF Due
<1>8. ASSUME ~overtaken, i \notin due, os[i].row # None
      PROVE  /\ "at" \notin columns => table[os[i].row].at = os[i].at
             /\ "result" \notin columns => table[os[i].row].result = os[i].result
  <2>1. Agrees(objects, table, i)
    BY <1>1, <1>2, <1>8 DEF Saving
  <2> QED
    BY <1>4, <2>1 DEF Agrees, Differs
<1>9. None \notin due
  <2>1. \A n \in DOMAIN retry : retry[n] \in Live(objects)
    BY <1>1
  <2>2. None \notin Live(objects)
    BY <1>1 DEF Live, StoreConstants
  <2> QED
    BY <2>1, <2>2 DEF Store!Range
<1>10. ~overtaken => OpsFit(os, current, retry, ops)
  BY <1>2, <1>5, <1>6, <1>8, <1>9 DEF OpsFit
<1>11. ApplyReady(os, [open |-> current, ended |-> last], ops, retry, began)
  <2>1. retry \in Seq(Live(os))
    BY <1>1, <1>3
  <2>2. /\ Held(os, table, current, last, Due(retry, ops), began)
        /\ ~overtaken => Saving(os, table, current, Due(retry, ops)) /\ OpsFit(os, current, retry, ops)
    BY <1>1, <1>3, <1>7, <1>10
  <2> QED
    BY <1>6, <2>1, <2>2, Readied
<1> QED
  BY <1>1, <1>3, <1>4, <1>8, <1>11 DEF ops, OpFits

\* A poll that changes one job.
LEMMA OneFed ==
  ASSUME StoreConstants, StoreInv, NEW i, NEW when, NEW result, NEW current, NEW last,
         RevisingOf(objects, open, Store!Range(retry), began, i, when, result, Revised(objects, i, when, result), current, last),
         Store!Feed(Store!Emit(Store!Changed(i, when, result), i), [open |-> current, ended |-> last],
                    <<Store!Op(Store!Changed(i, when, result)[i], i)>>, began)
  PROVE  StoreInv' /\ StoreWrites
<1> DEFINE objs == Store!Changed(i, when, result)
           os == Revised(objects, i, when, result)
           m == [open |-> current, ended |-> last]
           op == Store!Op(objs[i], i)
<1>1. i \in Live(objects) /\ when \in 0..MaxAt /\ result \in Store!Results \cup {None}
  BY DEF RevisingOf
<1>2. PICK columns : op = [job |-> i, columns |-> columns] /\ Differs(columns, i, when, result)
  <2> HIDE DEF objs
  <2>1. objs = Store!Changed(i, when, result)
    BY DEF objs
  <2> QED
    BY <1>1, <2>1, ChangedIs
<1>3. Store!Emit(objs, i) = os
  <2> HIDE DEF objs
  <2>1. objs = Store!Changed(i, when, result)
    BY DEF objs
  <2> QED
    BY <1>1, <2>1, ChangedIs
<1>4. Store!Feed(os, m, <<op>>, began)
  BY <1>3
<1>5. RevisingOf(objects, open, Store!Range(retry), began, i, when, result, os, current, last)
  OBVIOUS
<1> HIDE DEF os, op
<1>6. ApplyReady(os, m, <<op>>, retry, began)
  BY <1>2, <1>5, ReadyRevised
<1> HIDE DEF m
<1>7. began \in began..Cardinality(Prints)
  BY DEF StoreInv, StorePhases, StoreConstants
<1> DEFINE ops == <<op>>
<1>8. ApplyReady(os, m, ops, retry, began) /\ Store!Feed(os, m, ops, began)
  BY <1>4, <1>6
<1> HIDE DEF ops
<1> QED
  BY <1>7, <1>8, FeedKeeps

\* The jobs the machine names.
LEMMA OpenJob ==
  ASSUME StoreConstants, StoreInv, NEW i, i \in {open, ended} \ {None}
  PROVE  /\ i \in Live(objects) /\ objects[i].at \in 0..MaxAt
         /\ open # None => ended = None /\ i = open
         /\ Held(objects, table, open, ended, Store!Range(retry), began)
<1>1. Held(objects, table, open, ended, Store!Range(retry), began)
  BY DEF StoreInv
<1>2. objects \in Seq(Store!Jobs \cup {None}) /\ i \in Live(objects) /\ (open # None => ended = None)
  BY <1>1 DEF Held, Machined
<1>3. objects[i] \in Store!Jobs
  BY <1>2, LiveJob
<1> QED
  BY <1>1, <1>2, <1>3 DEF Store!Jobs

\* A poll in which the print goes on,
LEMMA UpdateFed == ASSUME StoreConstants, StoreInv, Store!FeedUpdate PROVE StoreInv' /\ StoreWrites
<1> DEFINE when == objects[open].at + 1
<1>1. /\ open # None /\ objects[open].at < MaxAt
      /\ Store!Feed(Store!Emit(Store!Changed(open, when, None), open), [open |-> open, ended |-> ended],
                    <<Store!Op(Store!Changed(open, when, None)[open], open)>>, began)
  BY DEF Store!FeedUpdate
<1>2. /\ open \in Live(objects) /\ objects[open].at \in 0..MaxAt /\ ended = None
      /\ Held(objects, table, open, ended, Store!Range(retry), began)
  BY <1>1, OpenJob
<1>3. when \in 0..MaxAt
  BY <1>1, <1>2 DEF StoreConstants
<1> HIDE DEF when
<1>4. RevisingOf(objects, open, Store!Range(retry), began, open, when, None, Revised(objects, open, when, None), open, ended)
  BY <1>2, <1>3 DEF RevisingOf
<1> QED
  BY <1>1, <1>4, OneFed

\* one in which it ends,
LEMMA CloseFed ==
  ASSUME StoreConstants, StoreInv, NEW reopenable \in BOOLEAN, Store!FeedClose(reopenable)
  PROVE  StoreInv' /\ StoreWrites
<1> DEFINE when == objects[open].at
           last == IF reopenable THEN open ELSE None
<1>1. /\ open # None
      /\ Store!Feed(Store!Emit(Store!Changed(open, when, "stopped"), open), [open |-> None, ended |-> last],
                    <<Store!Op(Store!Changed(open, when, "stopped")[open], open)>>, began)
  BY DEF Store!FeedClose
<1>2. /\ open \in Live(objects) /\ when \in 0..MaxAt /\ last \in {None, open} /\ "stopped" \in Store!Results /\ "stopped" # None
      /\ Held(objects, table, open, ended, Store!Range(retry), began)
  BY <1>1, OpenJob DEF StoreConstants, Store!Results
<1> HIDE DEF when, last
<1>4. RevisingOf(objects, open, Store!Range(retry), began, open, when, "stopped", Revised(objects, open, when, "stopped"), None, last)
  BY <1>2 DEF RevisingOf
<1> QED
  BY <1>1, <1>4, OneFed

\* one that takes it up again,
LEMMA ReopenFed == ASSUME StoreConstants, StoreInv, Store!FeedReopen PROVE StoreInv' /\ StoreWrites
<1> DEFINE when == objects[ended].at
<1>1. /\ open = None /\ ended # None
      /\ Store!Feed(Store!Emit(Store!Changed(ended, when, None), ended), [open |-> ended, ended |-> None],
                    <<Store!Op(Store!Changed(ended, when, None)[ended], ended)>>, began)
  BY DEF Store!FeedReopen
<1>2. /\ ended \in Live(objects) /\ when \in 0..MaxAt
      /\ Held(objects, table, open, ended, Store!Range(retry), began)
  BY <1>1, OpenJob
<1> HIDE DEF when
<1>4. RevisingOf(objects, open, Store!Range(retry), began, ended, when, None, Revised(objects, ended, when, None), ended, None)
  BY <1>1, <1>2 DEF RevisingOf
<1> QED
  BY <1>1, <1>4, OneFed

\* one that learns how it ended,
LEMMA AmendFed == ASSUME StoreConstants, StoreInv, Store!FeedAmend PROVE StoreInv' /\ StoreWrites
<1> DEFINE when == objects[ended].at
<1>1. /\ open = None /\ ended # None
      /\ Store!Feed(Store!Emit(Store!Changed(ended, when, "failed"), ended), [open |-> None, ended |-> ended],
                    <<Store!Op(Store!Changed(ended, when, "failed")[ended], ended)>>, began)
  BY DEF Store!FeedAmend
<1>2. /\ ended \in Live(objects) /\ when \in 0..MaxAt /\ "failed" \in Store!Results /\ "failed" # None
      /\ Held(objects, table, open, ended, Store!Range(retry), began)
  BY <1>1, OpenJob DEF StoreConstants, Store!Results
<1> HIDE DEF when
<1>4. RevisingOf(objects, open, Store!Range(retry), began, ended, when, "failed", Revised(objects, ended, when, "failed"), None, ended)
  BY <1>1, <1>2 DEF RevisingOf
<1> QED
  BY <1>1, <1>4, OneFed

\* and one in which the next begins at once.
LEMMA SplitFed == ASSUME StoreConstants, StoreInv, Store!FeedSplit PROVE StoreInv' /\ StoreWrites
<1> DEFINE when == objects[open].at
           objs == Store!Changed(open, when, "stopped")
           first == Store!Emit(objs, open)
           os == Append(first, Store!Object(None, began + 1, 0, None))
           n == Len(objects) + 1
           one == Store!Op(objs[open], open)
           two == [job |-> n, columns |-> Store!Columns]
           ops == <<one, two>>
           m == [open |-> n, ended |-> None]
           due == Store!Range(retry)
<1>1. open # None /\ began < Cardinality(Prints) /\ Store!Feed(os, m, ops, began + 1)
  BY DEF Store!FeedSplit, Store!NewPrint, Store!Opens, Store!Cardinality, Cardinality
<1>2. /\ open \in Live(objects) /\ when \in 0..MaxAt /\ "stopped" \in Store!Results \cup {None} /\ "stopped" # None
      /\ Held(objects, table, open, ended, Store!Range(retry), began)
  BY <1>1, OpenJob DEF StoreConstants, Store!Results
<1>3. /\ retry \in Seq(Live(objects)) /\ Recorded(table, began) /\ began \in Nat /\ began + 1 \in began..Cardinality(Prints)
  BY <1>1 DEF StoreInv, StorePhases, StoreConstants
<1>4. first = Revised(objects, open, when, "stopped")
  <2> HIDE DEF objs, when
  <2>1. objs = Store!Changed(open, when, "stopped")
    BY DEF objs
  <2> QED
    BY <1>2, <2>1, ChangedIs
<1>5. PICK columns : one = [job |-> open, columns |-> columns] /\ Differs(columns, open, when, "stopped")
  <2> HIDE DEF objs, when
  <2>1. objs = Store!Changed(open, when, "stopped")
    BY DEF objs
  <2> QED
    BY <1>2, <2>1, ChangedIs
<1> HIDE DEF when, objs, first, one
<1>6. RevisingOf(objects, open, due, began, open, when, "stopped", first, None, None)
  BY <1>2, <1>4 DEF RevisingOf
<1>7. /\ Live(first) = Live(objects) /\ Len(first) = Len(objects)
      /\ Held(first, table, None, None, due \cup {open}, began)
      /\ ~overtaken => Saving(first, table, None, due \cup {open})
      /\ OpFits(first, open, columns)
  BY <1>5, <1>6, ReadyRevised
<1> HIDE DEF os, n, due
<1>8. OpeningOf(first, None, due \cup {open}, began, os, n)
  BY <1>1, <1>3, <1>7 DEF OpeningOf, os, n
<1>9. /\ Held(os, table, n, None, (due \cup {open}) \cup {n}, began + 1)
      /\ n \notin Live(first) /\ Live(os) = Live(first) \cup {n} /\ Rowless(os, n)
      /\ \A i \in Live(first) : os[i] = first[i]
      /\ Saving(first, table, None, due \cup {open}) => Saving(os, table, n, (due \cup {open}) \cup {n})
  BY <1>8, Opening
<1>10. /\ two \in [job : Live(os), columns : SUBSET Store!Columns] /\ two.job = n /\ two.columns = Store!Columns
       /\ one \in [job : Live(os), columns : SUBSET Store!Columns] /\ one.job = open /\ one.columns = columns
  BY <1>2, <1>5, <1>7, <1>9 DEF Differs
<1> HIDE DEF two
<1>11. /\ ops \in Seq([job : Live(os), columns : SUBSET Store!Columns]) /\ DOMAIN ops = {1, 2} /\ Len(ops) = 2
       /\ ops[1] = one /\ ops[2] = two
  <2> DEFINE R == [job : Live(os), columns : SUBSET Store!Columns]
  <2>1. one \in R /\ two \in R
    BY <1>10
  <2> HIDE DEF R
  <2>2. ops \in Seq(R) /\ DOMAIN ops = {1, 2} /\ Len(ops) = 2 /\ ops[1] = one /\ ops[2] = two
    BY <2>1
  <2> QED
    BY <2>2 DEF R
<1> HIDE DEF ops
<1>12. Due(retry, ops) = (due \cup {open}) \cup {n}
  BY <1>10, <1>11 DEF Due, due
<1>13. n \notin due /\ n # open
  <2>1. \A k \in DOMAIN retry : retry[k] \in Live(objects)
    BY <1>3
  <2> QED
    BY <1>2, <1>7, <1>9, <2>1 DEF Store!Range, due
<1>14. os[open] = first[open] /\ os[n].row = None
  BY <1>2, <1>7, <1>9 DEF Rowless
<1>15. ~overtaken => OpsFit(os, n, retry, ops)
  <2>1. SUFFICES ASSUME ~overtaken PROVE OpsFit(os, n, retry, ops)
    OBVIOUS
  <2>2. n \notin Store!Range(retry) /\ (open \notin Store!Range(retry) /\ os[open].row # None =>
                     /\ "at" \notin columns => table[os[open].row].at = os[open].at
                     /\ "result" \notin columns => table[os[open].row].result = os[open].result)
    BY <1>7, <1>13, <1>14, <2>1 DEF OpFits, due
  <2> QED
    BY <1>10, <1>11, <1>13, <1>14, <2>2 DEF OpsFit
<1>16. ApplyReady(os, m, ops, retry, began + 1)
  <2>1. retry \in Seq(Live(os))
    BY <1>3, <1>7, <1>9, SeqMonotonic
  <2>2. /\ Held(os, table, n, None, Due(retry, ops), began + 1)
        /\ ~overtaken => Saving(os, table, n, Due(retry, ops)) /\ OpsFit(os, n, retry, ops)
    BY <1>7, <1>9, <1>12, <1>15
  <2> QED
    BY <1>11, <2>1, <2>2, Readied
<1> HIDE DEF m
<1>17. Store!Feed(os, m, ops, began + 1)
  BY <1>1 DEF os, m, ops, two, n
<1> QED
  BY <1>3, <1>16, <1>17, FeedKeeps

\* The open print of the table, if it can be read and there is one.
LEMMA Restored ==
  ASSUME StoreConstants, NEW os, NEW due, NEW limit \in Nat, NEW last, Held(os, table, None, last, due, limit),
         Recorded(table, limit), NEW readable, NEW r, r = Store!Restored(os, readable)
  PROVE  /\ Held(r.objects, table, r.open, None, due, limit) /\ Live(os) \subseteq Live(r.objects)
         /\ os = <<>> => Saving(r.objects, table, r.open, due)
<1> DEFINE found == IF readable THEN Store!OpenIds(table) ELSE {}
           id == CHOOSE i \in found : TRUE
           more == Append(os, Store!Object(id, table[id].print, table[id].at, None))
           n == Len(os) + 1
<1>1. r = IF found = {} THEN [objects |-> os, open |-> None] ELSE [objects |-> more, open |-> n]
  BY DEF Store!Restored
<1>2. CASE found = {}
  <2>1. r.objects = os /\ r.open = None
    BY <1>1, <1>2
  <2>2. Machined(os, None, None)
    BY DEF Held, Machined
  <2>3. Held(os, table, None, None, due, limit)
    BY <2>2 DEF Held
  <2>4. os = <<>> => Saving(os, table, None, due)
    BY DEF Saving, Live
  <2> QED
    BY <2>1, <2>3, <2>4
<1>3. CASE found # {}
  <2>1. r.objects = more /\ r.open = n
    BY <1>1, <1>3
  <2>2. id \in Store!OpenIds(table)
    BY <1>3
  <2> DEFINE x == id
  <2>3. RestoringOf(os, last, due, limit, x, more, n)
    <3>1. more = Append(os, Store!Object(x, table[x].print, table[x].at, None)) /\ n = Len(os) + 1 /\ x \in Store!OpenIds(table)
      BY <2>2
    <3> HIDE DEF x, more, n
    <3> QED
      BY <3>1 DEF RestoringOf
  <2> HIDE DEF x, more, n
  <2>4. Held(more, table, n, None, due, limit) /\ Live(more) = Live(os) \cup {n} /\ (os = <<>> => Saving(more, table, n, due))
    BY <2>3, Restoring
  <2> QED
    BY <2>1, <2>4
<1> QED
  BY <1>2, <1>3

\* The parts of the invariant that each step asks for.
LEMMA InvParts ==
  ASSUME StoreConstants, StoreInv
  PROVE  /\ Recorded(table, began) /\ began \in Nat /\ retry \in Seq(Live(objects))
         /\ Held(objects, table, open, ended, Store!Range(retry), began)
         /\ Held(objects, table, None, None, Store!Range(retry), began)
         /\ Grown(table, table)
<1>1. /\ Recorded(table, began) /\ began \in Nat /\ retry \in Seq(Live(objects))
      /\ Held(objects, table, open, ended, Store!Range(retry), began)
  BY DEF StoreInv, StorePhases, StoreConstants
<1>2. Machined(objects, None, None)
  BY DEF Machined
<1> QED
  BY <1>1, <1>2, Remembering DEF Held

\* An error in the feed drops the machine, not the writes due.
LEMMA ReloadKeeps == ASSUME StoreConstants, StoreInv, Store!Reload PROVE StoreInv' /\ StoreWrites
<1> DEFINE due == Store!Range(retry)
           swept == Store!Swept(objects, due)
<1>1. PICK readable \in BOOLEAN :
        objects' = Store!Restored(swept, readable).objects /\ open' = Store!Restored(swept, readable).open
  BY DEF Store!Reload
<1> DEFINE r == Store!Restored(swept, readable)
<1>2. /\ ended' = None /\ overtaken' = (overtaken \/ retry # <<>>) /\ began' = began /\ retry' = retry /\ table' = table
      /\ phase' = phase /\ version' = version /\ phase = "up" /\ slips < MaxSlips /\ slips' = slips + 1
  BY DEF Store!Reload, Store!Observing, Store!Slip
<1>3. /\ Recorded(table, began) /\ began \in Nat /\ retry \in Seq(Live(objects)) /\ Grown(table, table)
      /\ Held(objects, table, None, None, due, began)
  BY InvParts
<1>4. swept = <<>> \/ retry # <<>>
  <2>1. retry = <<>> => due = {}
    BY NothingDue
  <2>2. due = {} => swept = <<>>
    BY DEF Store!Swept
  <2> QED
    BY <2>1, <2>2
<1>5. \A x \in due : x \in Live(objects)
  BY <1>3 DEF Store!Range
<1>6. Held(swept, table, None, None, due, began) /\ Live(swept) = Live(objects) \cap due
  <2> HIDE DEF due, swept
  <2>1. swept = Store!Swept(objects, due) /\ {None, None} \ {None} \subseteq due
    BY DEF swept
  <2> QED
    BY <1>3, <2>1, HeldSwept
<1>7. /\ Held(r.objects, table, r.open, None, due, began) /\ Live(swept) \subseteq Live(r.objects)
      /\ swept = <<>> => Saving(r.objects, table, r.open, due)
  <2> DEFINE x == r
  <2>1. x = Store!Restored(swept, readable)
    OBVIOUS
  <2> HIDE DEF due, swept, x
  <2>2. /\ Held(x.objects, table, x.open, None, due, began) /\ Live(swept) \subseteq Live(x.objects)
        /\ swept = <<>> => Saving(x.objects, table, x.open, due)
    BY <1>3, <1>6, <2>1, Restored
  <2> QED
    BY <2>2 DEF x
<1>8. r.objects = objects' /\ r.open = open'
  BY <1>1
<1> HIDE DEF r
<1>9. /\ Held(objects', table, open', None, due, began) /\ Live(swept) \subseteq Live(objects')
      /\ swept = <<>> => Saving(objects', table, open', due)
  BY <1>7, <1>8
<1> HIDE DEF swept
<1>10. retry \in Seq(Live(objects'))
  <2>1. \A k \in 1..Len(retry) : retry[k] \in due
    BY <1>3 DEF Store!Range
  <2>2. \A k \in 1..Len(retry) : retry[k] \in Live(objects')
    BY <1>5, <1>6, <1>9, <2>1
  <2> QED
    BY <1>3, <2>2
<1>11. ~overtaken' => Saving(objects', table, open', due)
  BY <1>2, <1>4, <1>9
<1>12. StorePhases'
  BY <1>2 DEF StoreInv, StorePhases, StoreConstants
<1> QED
  BY <1>2, <1>3, <1>9, <1>10, <1>11, <1>12 DEF StoreInv, StoreWrites, due

\* A process that holds nothing.
LEMMA NothingHeld ==
  ASSUME StoreConstants, NEW tab, NEW limit
  PROVE  /\ Held(<<>>, tab, None, None, {}, limit) /\ Saving(<<>>, tab, None, {}) /\ Live(<<>>) = {}
         /\ <<>> \in Seq(Live(<<>>)) /\ Store!Range(<<>>) = {}
<1>1. Live(<<>>) = {}
  BY DEF Live
<1>2. Machined(<<>>, None, None)
  BY DEF Machined
<1> QED
  BY <1>1, <1>2, NothingDue DEF Held, Saving

\* The service stops.
LEMMA CrashKeeps == ASSUME StoreConstants, StoreInv, Store!Crash PROVE StoreInv' /\ StoreWrites
<1>1. /\ phase' = "down" /\ objects' = <<>> /\ open' = None /\ ended' = None /\ retry' = <<>> /\ overtaken' = FALSE
      /\ began' = began /\ table' = table /\ version' = version /\ slips < MaxSlips /\ slips' = slips + 1
  BY DEF Store!Crash, Store!Slip
<1>2. StorePhases'
  <2>1. /\ began' \in 0..Cardinality(Prints) /\ slips' \in 0..MaxSlips
        /\ phase' = "down" /\ version' \in BOOLEAN
    BY <1>1 DEF StoreInv, StorePhases, StoreConstants
  <2>2. overtaken' \in BOOLEAN /\ ~overtaken'
    BY <1>1
  <2> QED
    BY <1>1, <2>1, <2>2 DEF StorePhases
<1>3. Recorded(table, began) /\ Grown(table, table)
  BY InvParts
<1> QED
  BY <1>1, <1>2, <1>3, NothingHeld DEF StoreInv, StoreWrites

\* It starts.
LEMMA StartKeeps == ASSUME StoreConstants, StoreInv, Store!Start PROVE StoreInv' /\ StoreWrites
<1>1. /\ phase = "down" /\ phase' = IF version THEN "load" ELSE "replay"
      /\ began' = began /\ objects' = objects /\ open' = open /\ ended' = ended /\ retry' = retry /\ table' = table
      /\ version' = version /\ slips' = slips /\ overtaken' = overtaken
  BY DEF Store!Start, Store!process
<1>2. StorePhases'
  BY <1>1 DEF StoreInv, StorePhases
<1>3. Grown(table, table)
  BY InvParts
<1> QED
  BY <1>1, <1>2, <1>3 DEF StoreInv, StoreWrites

\* The first job of a process that goes on with the print of the table.
LEMMA FirstJob ==
  ASSUME StoreConstants, Recorded(table, began), began \in Nat, NEW readable, NEW r, r = Store!Restored(<<>>, readable)
  PROVE  /\ Held(r.objects, table, r.open, None, {}, began) /\ Saving(r.objects, table, r.open, {})
         /\ <<>> \in Seq(Live(r.objects))
         /\ readable /\ Store!OpenIds(table) # {} => r.open = 1 /\ 1 \in Live(r.objects)
<1>1. Held(<<>>, table, None, None, {}, began)
  BY NothingHeld
<1>2. Held(r.objects, table, r.open, None, {}, began) /\ Saving(r.objects, table, r.open, {})
  BY <1>1, Restored
<1>3. ASSUME readable, Store!OpenIds(table) # {} PROVE r.open = 1 /\ 1 \in Live(r.objects)
  <2>1. r.open = Len(<<>>) + 1
    BY <1>3 DEF Store!Restored
  <2>2. r.open = 1 /\ None # 1
    BY <2>1 DEF StoreConstants
  <2> QED
    BY <1>2, <2>2 DEF Held, Machined
<1> QED
  BY <1>2, <1>3

\* The open print is too old: its machine closes it as lost.
LEMMA LostApplied ==
  ASSUME StoreConstants, StoreInv, phase = "load", Store!OpenIds(table) # {}, NEW works \in BOOLEAN, NEW r, r = Store!Restored(<<>>, TRUE),
         Store!Apply([r.objects EXCEPT ![1] = Store!Emitted([@ EXCEPT !.result = "lost"])], [open |-> None, ended |-> None],
                     <<[job |-> 1, columns |-> {"result"}]>>, <<>>, works)
  PROVE  ApplyDone(began)
<1> DEFINE os == r.objects
           lost == [os EXCEPT ![1] = Store!Emitted([@ EXCEPT !.result = "lost"])]
           m == [open |-> None, ended |-> None]
           op == [job |-> 1, columns |-> {"result"}]
           ops == <<op>>
           queue == <<>>
<1>1. /\ Recorded(table, began) /\ began \in Nat /\ slips \in 0..MaxSlips
  BY DEF StoreInv, StorePhases, StoreConstants
<1>2. Store!Apply(lost, m, ops, queue, works)
  OBVIOUS
<1>3. Held(os, table, 1, None, {}, began) /\ Saving(os, table, 1, {}) /\ 1 \in Live(os)
  <2>1. TRUE /\ Store!OpenIds(table) # {}
    OBVIOUS
  <2> QED
    BY <1>1, <2>1, FirstJob
<1> HIDE DEF os
<1>4. os[1] \in Store!Jobs /\ 1 \in DOMAIN os /\ os \in Seq(Store!Jobs \cup {None})
  BY <1>3, LiveJob DEF Held
<1> DEFINE when == os[1].at
<1>5. when \in 0..MaxAt /\ "lost" \in Store!Results
  BY <1>4 DEF Store!Jobs, Store!Results
<1>6. lost = Revised(os, 1, when, "lost")
  <2> DEFINE job == os[1]
  <2>1. [job EXCEPT !.result = "lost"] = [job EXCEPT !.at = job.at, !.result = "lost"]
    <3>1. job \in Store!Jobs
      BY <1>4
    <3> HIDE DEF job
    <3> QED
      BY <3>1 DEF Store!Jobs
  <2> QED
    BY <2>1 DEF Revised
<1> HIDE DEF lost, when
<1>7. RevisingOf(os, 1, {}, began, 1, when, "lost", lost, None, None)
  <2>1. "lost" # None
    BY DEF StoreConstants
  <2> QED
    BY <1>3, <1>5, <1>6, <2>1 DEF RevisingOf
<1>8. Held(lost, table, None, None, {1}, began) /\ Live(lost) = Live(os) /\ Saving(lost, table, None, {1})
  <2> DEFINE due == {}
  <2>1. due \cup {1} = {1} /\ Saving(os, table, 1, due) /\ RevisingOf(os, 1, due, began, 1, when, "lost", lost, None, None)
    BY <1>3, <1>7
  <2> HIDE DEF due
  <2>2. /\ Held(lost, table, None, None, due \cup {1}, began) /\ Live(lost) = Live(os) /\ Len(lost) = Len(os)
        /\ Saving(os, table, 1, due) => Saving(lost, table, None, due \cup {1})
    BY <1>1, <2>1, Revising
  <2> QED
    BY <2>1, <2>2
<1>9. lost[1].row = os[1].row /\ lost[1].at = os[1].at /\ lost[1].result = "lost"
  BY <1>3, <1>4, <1>5, <1>6, RevisedJobs DEF when
<1>10. op \in [job : Live(lost), columns : SUBSET Store!Columns] /\ op.job = 1 /\ op.columns = {"result"}
  BY <1>3, <1>8 DEF Store!Columns
<1> HIDE DEF op
<1>11. /\ ops \in Seq([job : Live(lost), columns : SUBSET Store!Columns]) /\ DOMAIN ops = {1} /\ Len(ops) = 1 /\ ops[1] = op
  <2> DEFINE R == [job : Live(lost), columns : SUBSET Store!Columns]
  <2>1. op \in R
    BY <1>10
  <2> HIDE DEF R
  <2>2. ops \in Seq(R) /\ DOMAIN ops = {1} /\ Len(ops) = 1 /\ ops[1] = op
    BY <2>1
  <2> QED
    BY <2>2 DEF R
<1> HIDE DEF ops
<1>12. Due(queue, ops) = {1} /\ queue \in Seq(Live(lost)) /\ Store!Range(queue) = {}
  BY <1>10, <1>11 DEF Due, Store!Range
<1> HIDE DEF queue
<1>13. Agrees(os, table, 1)
  BY <1>3 DEF Saving
<1>14. table[lost[1].row].at = lost[1].at
  BY <1>9, <1>13 DEF Agrees
<1>15. OpsFit(lost, None, queue, ops)
  BY <1>9, <1>10, <1>11, <1>12, <1>14 DEF OpsFit
<1>16. ApplyReady(lost, m, ops, queue, began)
  <2>1. Held(lost, table, None, None, Due(queue, ops), began) /\ Saving(lost, table, None, Due(queue, ops))
    BY <1>8, <1>12
  <2> QED
    BY <1>11, <1>12, <1>15, <2>1, Readied
<1> HIDE DEF m
<1>17. began <= began
  BY <1>1
<1> QED
  BY <1>1, <1>2, <1>16, <1>17, Applying

\* load_open.
LEMMA LoadKeeps == ASSUME StoreConstants, StoreInv, Store!LoadOpen PROVE StoreInv' /\ StoreWrites
<1> DEFINE r == Store!Restored(<<>>, TRUE)
<1>1. /\ phase = "load" /\ phase' = "up" /\ began' = began /\ version' = version /\ overtaken' = overtaken
  BY DEF Store!LoadOpen
<1>2. /\ objects = <<>> /\ open = None /\ ended = None /\ retry = <<>> /\ ~overtaken
      /\ Recorded(table, began) /\ began \in Nat /\ began \in 0..Cardinality(Prints) /\ slips \in 0..MaxSlips
      /\ version \in BOOLEAN /\ overtaken \in BOOLEAN
  <2>1. StorePhases /\ Recorded(table, began)
    BY DEF StoreInv
  <2> QED
    BY <1>1, <2>1 DEF StorePhases, StoreConstants
<1>3. SUFFICES ASSUME TRUE PROVE ApplyDone(began)
  <2>1. slips' \in 0..MaxSlips
    BY <1>3 DEF ApplyDone
  <2>2. StorePhases'
    BY <1>1, <1>2, <2>1 DEF StorePhases
  <2> QED
    BY <1>1, <1>3, <2>2 DEF StoreInv, ApplyDone, StoreWrites
<1>4. Grown(table, table) /\ Store!Range(<<>>) = {}
  BY <1>2, Remembering, NothingDue
<1>5. \/ Store!Slip /\ objects' = objects /\ open' = open /\ ended' = ended /\ retry' = retry /\ table' = table
      \/ /\ objects' = r.objects /\ open' = r.open
         /\ ended' = ended /\ retry' = retry /\ table' = table /\ slips' = slips
      \/ /\ Store!OpenIds(table) # {}
         /\ \E works \in BOOLEAN :
              Store!Apply([r.objects EXCEPT ![1] = Store!Emitted([@ EXCEPT !.result = "lost"])], [open |-> None, ended |-> None],
                          <<[job |-> 1, columns |-> {"result"}]>>, <<>>, works)
  BY DEF Store!LoadOpen, Store!process
<1>6. CASE Store!Slip /\ objects' = objects /\ open' = open /\ ended' = ended /\ retry' = retry /\ table' = table
  <2>1. slips' \in 0..MaxSlips
    BY <1>2, <1>6 DEF Store!Slip, StoreConstants
  <2> QED
    BY <1>1, <1>2, <1>4, <1>6, <2>1, NothingHeld DEF ApplyDone
<1>7. CASE /\ objects' = r.objects /\ open' = r.open
           /\ ended' = ended /\ retry' = retry /\ table' = table /\ slips' = slips
  <2> DEFINE x == r
  <2>1. x = Store!Restored(<<>>, TRUE) /\ objects' = x.objects /\ open' = x.open
    BY <1>7
  <2> HIDE DEF x
  <2>2. Held(x.objects, table, x.open, None, {}, began) /\ Saving(x.objects, table, x.open, {}) /\ <<>> \in Seq(Live(x.objects))
    BY <1>2, <2>1, FirstJob
  <2> QED
    BY <1>1, <1>2, <1>4, <1>7, <2>1, <2>2 DEF ApplyDone
<1>8. CASE Store!OpenIds(table) # {} /\ \E works \in BOOLEAN :
              Store!Apply([r.objects EXCEPT ![1] = Store!Emitted([@ EXCEPT !.result = "lost"])], [open |-> None, ended |-> None],
                          <<[job |-> 1, columns |-> {"result"}]>>, <<>>, works)
  <2> DEFINE x == r
  <2>1. PICK works \in BOOLEAN :
              Store!Apply([x.objects EXCEPT ![1] = Store!Emitted([@ EXCEPT !.result = "lost"])], [open |-> None, ended |-> None],
                          <<[job |-> 1, columns |-> {"result"}]>>, <<>>, works)
    BY <1>8
  <2>2. x = Store!Restored(<<>>, TRUE)
    OBVIOUS
  <2> HIDE DEF x
  <2> QED
    BY <1>1, <1>8, <2>1, <2>2, LostApplied
<1> QED
  BY <1>5, <1>6, <1>7, <1>8

\* A mark comes or goes: a print that has ended keeps all else.
Remarked(old, new) ==
  /\ new \in Tables /\ Len(new) = Len(old)
  /\ \A id \in 1..Len(old) :
       /\ new[id] = None <=> old[id] = None
       /\ old[id] # None => /\ new[id].print = old[id].print /\ new[id].at = old[id].at
                            /\ new[id].result = old[id].result /\ new[id].source = old[id].source
MarkedOne(old, new, id) ==
  /\ Remarked(old, new) /\ Present(old, id) /\ old[id].result # None
  /\ \A k \in 1..Len(old) : k # id => new[k] = old[k]

\* set_verdict changes one mark.
LEMMA Marking ==
  ASSUME StoreConstants, StoreInv, Store!SetVerdict
  PROVE  /\ \E id : MarkedOne(table, table', id)
         /\ /\ began' = began /\ objects' = objects /\ open' = open /\ ended' = ended /\ retry' = retry
            /\ phase' = phase /\ version' = version /\ slips' = slips /\ overtaken' = overtaken
<1>1. PICK id \in Store!Rows, mark \in BOOLEAN : table[id].result # None /\ table' = [table EXCEPT ![id].mark = mark]
  BY DEF Store!SetVerdict
<1>2. table \in Tables /\ Len(table) \in Nat /\ DOMAIN table = 1..Len(table)
  BY DEF StoreInv, Recorded, Tables
<1>3. Present(table, id) /\ table[id] \in Store!TableRows
  <2>1. Present(table, id)
    BY <1>2 DEF Store!Rows, Present
  <2> QED
    BY <1>2, <2>1, RowPresent
<1> DEFINE entry == table[id]
           next == [entry EXCEPT !.mark = mark]
           new == [table EXCEPT ![id] = next]
<1>4. table' = new
  BY <1>1
<1>5. /\ next \in Store!TableRows /\ next.print = entry.print /\ next.at = entry.at /\ next.result = entry.result
      /\ next.source = entry.source
  <2>1. entry \in Store!TableRows
    BY <1>3
  <2> HIDE DEF entry
  <2> QED
    BY <2>1 DEF Store!TableRows
<1>6. next # None
  BY <1>5 DEF StoreConstants
<1> HIDE DEF next
<1>7. /\ new \in Tables /\ Len(new) = Len(table) /\ new[id] = next
      /\ \A k \in 1..Len(table) : k # id => new[k] = table[k]
  <2> DEFINE T == Store!TableRows \cup {None}
  <2>1. table \in Seq(T) /\ next \in T /\ id \in 1..Len(table)
    BY <1>2, <1>3, <1>5 DEF Tables, Present
  <2> HIDE DEF T
  <2>2. new \in Seq(T) /\ Len(new) = Len(table) /\ new[id] = next /\ \A k \in 1..Len(table) : k # id => new[k] = table[k]
    BY <2>1, ExceptSeq
  <2> QED
    BY <2>2 DEF Tables, T
<1>8. \A k \in 1..Len(table) :
       /\ new[k] = None <=> table[k] = None
       /\ table[k] # None => /\ new[k].print = table[k].print /\ new[k].at = table[k].at
                             /\ new[k].result = table[k].result /\ new[k].source = table[k].source
  <2>1. TAKE k \in 1..Len(table)
  <2>2. CASE k = id
    BY <1>3, <1>5, <1>6, <1>7, <2>2 DEF Present, entry
  <2>3. CASE k # id
    BY <1>7, <2>3
  <2> QED
    BY <2>2, <2>3
<1> HIDE DEF new
<1>9. MarkedOne(table, new, id)
  BY <1>1, <1>3, <1>7, <1>8 DEF MarkedOne, Remarked
<1>10. /\ began' = began /\ objects' = objects /\ open' = open /\ ended' = ended /\ retry' = retry
       /\ phase' = phase /\ version' = version /\ slips' = slips /\ overtaken' = overtaken
  BY DEF Store!SetVerdict, Store!process
<1> QED
  BY <1>4, <1>9, <1>10

\* A mark is nothing to the machine.
LEMMA HeldRemarked ==
  ASSUME StoreConstants, NEW old, NEW new, Remarked(old, new), NEW limit, Recorded(old, limit)
  PROVE  /\ Recorded(new, limit)
         /\ \A os, current, last, due : Held(os, old, current, last, due, limit) => Held(os, new, current, last, due, limit)
         /\ \A os, current, due : Saving(os, old, current, due) => Saving(os, new, current, due)
<1>1. /\ old \in Tables /\ new \in Tables /\ Len(old) \in Nat /\ Len(new) = Len(old) /\ Single(old)
      /\ DOMAIN old = 1..Len(old) /\ DOMAIN new = 1..Len(old)
  BY DEF Remarked, Recorded, Tables
<1>2. \A id \in 1..Len(old) :
       /\ new[id] = None <=> old[id] = None
       /\ old[id] # None => /\ new[id].print = old[id].print /\ new[id].at = old[id].at
                            /\ new[id].result = old[id].result /\ new[id].source = old[id].source
  BY DEF Remarked
<1>3. Store!OpenIds(new) = Store!OpenIds(old)
  BY <1>1, <1>2 DEF Store!OpenIds
<1>4. Recorded(new, limit)
  BY <1>1, <1>2, <1>3 DEF Recorded, Single
<1>5. \A id : Present(new, id) <=> Present(old, id)
  BY <1>1, <1>2 DEF Present
<1>6. ASSUME NEW os, NEW due, NEW i, Tracked(os, old, due, limit, i) PROVE Tracked(os, new, due, limit, i)
  <2>1. os[i].row # None => Present(new, os[i].row) /\ new[os[i].row].print = os[i].print
    BY <1>2, <1>5, <1>6 DEF Tracked, Present
  <2>2. os[i].row = None => i \in due /\ \A id \in 1..Len(new) : new[id] # None => new[id].print < os[i].print
    BY <1>1, <1>2, <1>6 DEF Tracked
  <2> QED
    BY <1>6, <2>1, <2>2 DEF Tracked
<1>7. ASSUME NEW os, NEW i, Agrees(os, old, i) PROVE Agrees(os, new, i)
  BY <1>2, <1>5, <1>7 DEF Agrees, Present
<1>8. ASSUME NEW os, NEW current, NEW last, NEW due, Held(os, old, current, last, due, limit)
      PROVE  Held(os, new, current, last, due, limit)
  BY <1>6, <1>8 DEF Held
<1>9. ASSUME NEW os, NEW current, NEW due, Saving(os, old, current, due) PROVE Saving(os, new, current, due)
  BY <1>7, <1>9 DEF Saving
<1> QED
  BY <1>4, <1>8, <1>9

\* set_verdict keeps the invariant.
LEMMA MarkKeeps == ASSUME StoreConstants, StoreInv, Store!SetVerdict PROVE StoreInv'
<1>1. /\ began' = began /\ objects' = objects /\ open' = open /\ ended' = ended /\ retry' = retry
      /\ phase' = phase /\ version' = version /\ slips' = slips /\ overtaken' = overtaken
  BY Marking
<1>2. Remarked(table, table')
  BY Marking DEF MarkedOne
<1>3. StorePhases /\ Recorded(table, began) /\ Held(objects, table, open, ended, Store!Range(retry), began)
  BY DEF StoreInv
<1>4. Recorded(table', began) /\ Held(objects, table', open, ended, Store!Range(retry), began)
  BY <1>2, <1>3, HeldRemarked
<1>5. Saving(objects, table, open, Store!Range(retry)) => Saving(objects, table', open, Store!Range(retry))
  BY <1>2, <1>3, HeldRemarked
<1>6. StorePhases'
  BY <1>1, <1>3 DEF StorePhases
<1> QED
  BY <1>1, <1>4, <1>5, <1>6 DEF StoreInv

\* The invariant holds at first.
LEMMA StoreInitial == ASSUME StoreConstants, Store!Init PROVE StoreInv
<1>1. /\ objects = <<>> /\ open = None /\ ended = None /\ retry = <<>>
      /\ phase = "down" /\ version = FALSE /\ slips = 0 /\ overtaken = FALSE /\ began = Cardinality(Past)
  BY DEF Store!Init, Store!Cardinality, Cardinality
<1>2. /\ began \in 1..Cardinality(Prints) /\ MaxSlips \in Nat /\ 1 \in Prints /\ MaxAt \in Nat
  <2>1. /\ Cardinality(Past) \in Nat \ {0} /\ Past = 1..Cardinality(Past) /\ Past \subseteq Prints
        /\ Cardinality(Prints) \in Nat /\ Prints = 1..Cardinality(Prints) /\ MaxSlips \in Nat /\ MaxAt \in Nat
    BY DEF StoreConstants
  <2>2. Cardinality(Past) \in Past /\ 1 \in Past
    BY <2>1
  <2>3. Cardinality(Past) \in 1..Cardinality(Prints) /\ 1 \in Prints
    BY <2>1, <2>2
  <2> QED
    BY <1>1, <2>1, <2>3
<1>3. StorePhases
  <2>1. version \in BOOLEAN /\ overtaken \in BOOLEAN /\ ~overtaken /\ ~version
    BY <1>1, Zenon
  <2>2. began \in 0..Cardinality(Prints) /\ slips \in 0..MaxSlips
    BY <1>1, <1>2 DEF StoreConstants
  <2> QED
    BY <1>1, <2>1, <2>2 DEF StorePhases
<1>4. Recorded(table, began)
  <2>1. CASE table = <<>>
    BY <2>1 DEF Recorded, Tables, Single, Store!OpenIds
  <2>2. CASE table # <<>>
    <3>1. PICK r \in {None, "stopped"}, source \in {"live", "backfill"} :
            table = <<[print |-> 1, at |-> 0, result |-> r, mark |-> r # None /\ source = "backfill", source |-> source]>>
      BY <2>2 DEF Store!Init
    <3> DEFINE mark == r # None /\ source = "backfill"
               entry == [print |-> 1, at |-> 0, result |-> r, mark |-> mark, source |-> source]
    <3>2. mark \in BOOLEAN
      OBVIOUS
    <3> HIDE DEF mark
    <3>3. entry \in Store!TableRows /\ entry.print = 1
      BY <1>2, <3>2 DEF Store!TableRows, Store!Results
    <3>4. table = <<entry>>
      BY <3>1 DEF mark
    <3> HIDE DEF entry
    <3>5. table \in Tables /\ Len(table) = 1 /\ DOMAIN table = {1} /\ table[1] = entry
      BY <3>3, <3>4 DEF Tables
    <3> QED
      BY <1>2, <3>3, <3>5 DEF Recorded, Single, Store!OpenIds
  <2> QED
    BY <2>1, <2>2
<1>5. /\ Held(<<>>, table, None, None, {}, began) /\ Saving(<<>>, table, None, {})
      /\ <<>> \in Seq(Live(<<>>)) /\ Store!Range(<<>>) = {}
  BY NothingHeld
<1> QED
  BY <1>1, <1>3, <1>4, <1>5 DEF StoreInv

\* The rows of the history in place of those that were replaced.
Replaced(since) == {id \in Store!Rows : table[id].source = "backfill" /\ table[id].result # None /\ table[id].print >= since}
Staying(since) == {table[id].print : id \in Store!Rows \ Replaced(since)}
MarkedBefore(since, p) == \E id \in Replaced(since) : table[id].print = p /\ table[id].mark
Found(found, since, current) == {p \in found \ Staying(since) : p = current => Store!OpenIds(table) = {}}
Rebuilt(tab, found, since, current) ==
  LET n == Len(table) IN
  /\ tab \in Tables /\ Len(tab) = n + began
  /\ \A id \in 1..n : tab[id] = IF id \in Replaced(since) THEN None ELSE table[id]
  /\ \A p \in 1..began : p \notin Found(found, since, current) => tab[n + p] = None
  /\ \A p \in Found(found, since, current) :
       /\ tab[n + p] # None /\ tab[n + p].print = p /\ tab[n + p].source = "backfill"
       /\ tab[n + p].result = (IF p = current THEN None ELSE "stopped")
       /\ tab[n + p].mark = (p # current /\ MarkedBefore(since, p))

\* _write_backfill, row by row.
LEMMA Rebuilding ==
  ASSUME StoreConstants, Recorded(table, began), began \in 0..Cardinality(Prints), NEW found \in SUBSET (1..began), NEW since, NEW current,
         NEW tab, tab = Store!RebuiltTable(found, since, current)
  PROVE  Rebuilt(tab, found, since, current)
<1> DEFINE n == Len(table)
           T == Store!TableRows \cup {None}
           new == Found(found, since, current)
           first == [id \in DOMAIN table |-> IF id \in Replaced(since) THEN None ELSE table[id]]
           entry(p) == [print |-> p, at |-> MaxAt, mark |-> p # current /\ MarkedBefore(since, p), source |-> "backfill",
                      result |-> IF p = current THEN None ELSE "stopped"]
           last == [p \in 1..began |-> IF p \notin new THEN None ELSE entry(p)]
<1>1. tab = first \o last
  BY DEF Store!RebuiltTable, Replaced, Staying, MarkedBefore, Found
<1>2. table \in Seq(T) /\ n \in Nat /\ DOMAIN table = 1..n /\ began \in Nat /\ 1..began \subseteq Prints /\ MaxAt \in Nat
  BY DEF Recorded, Tables, StoreConstants
<1>3. /\ first \in Seq(T) /\ Len(first) = n
      /\ \A id \in 1..n : first[id] = IF id \in Replaced(since) THEN None ELSE table[id]
  <2>1. \A id \in 1..n : table[id] \in T /\ None \in T
    BY <1>2
  <2> HIDE DEF T
  <2>2. DOMAIN first = 1..n /\ first \in [1..n -> T]
    BY <1>2, <2>1
  <2>3. \A id \in 1..n : first[id] = IF id \in Replaced(since) THEN None ELSE table[id]
    BY <1>2
  <2> HIDE DEF first
  <2> QED
    BY <1>2, <2>2, <2>3
<1>4. ASSUME NEW p \in 1..began
      PROVE  /\ entry(p) \in T /\ entry(p).print = p /\ entry(p).source = "backfill"
             /\ entry(p).result = (IF p = current THEN None ELSE "stopped")
             /\ entry(p).mark = (p # current /\ MarkedBefore(since, p)) /\ entry(p) # None
  <2> DEFINE mark == p # current /\ MarkedBefore(since, p)
             result == IF p = current THEN None ELSE "stopped"
             r == [print |-> p, at |-> MaxAt, mark |-> mark, source |-> "backfill", result |-> result]
  <2>1. mark \in BOOLEAN
    OBVIOUS
  <2>2. result \in Store!Results \cup {None}
    BY DEF Store!Results
  <2>3. p \in Prints /\ MaxAt \in 0..MaxAt
    BY <1>2
  <2> HIDE DEF mark, result
  <2>4. r \in Store!TableRows /\ r.print = p /\ r.source = "backfill" /\ r.result = result /\ r.mark = mark
    BY <2>1, <2>2, <2>3 DEF Store!TableRows
  <2>5. r # None
    BY <2>4 DEF StoreConstants
  <2>6. entry(p) = r
    BY DEF mark, result
  <2> HIDE DEF r
  <2>7. /\ entry(p) \in T /\ entry(p).print = p /\ entry(p).source = "backfill"
        /\ entry(p).result = result
        /\ entry(p).mark = mark /\ entry(p) # None
    BY <2>4, <2>5, <2>6
  <2> QED
    BY <2>7 DEF mark, result
<1> HIDE DEF entry
<1>5. /\ last \in Seq(T) /\ Len(last) = began
      /\ \A p \in 1..began : last[p] = IF p \notin new THEN None ELSE entry(p)
  <2>1. \A p \in 1..began : entry(p) \in T /\ None \in T
    BY <1>4
  <2> HIDE DEF T, new
  <2>2. DOMAIN last = 1..began /\ last \in [1..began -> T]
    BY <2>1
  <2>3. \A p \in 1..began : last[p] = IF p \notin new THEN None ELSE entry(p)
    OBVIOUS
  <2> HIDE DEF last
  <2> QED
    BY <1>2, <2>2, <2>3
<1> HIDE DEF first, last
<1>6. /\ tab \in Tables /\ Len(tab) = n + began
      /\ \A id \in 1..n : tab[id] = first[id]
      /\ \A p \in 1..began : tab[n + p] = last[p]
  <2>1. /\ tab \in Seq(T) /\ Len(tab) = n + began
        /\ \A k \in 1..(n + began) : tab[k] = IF k <= n THEN first[k] ELSE last[k - n]
    <3> HIDE DEF T, n
    <3>1. first \in Seq(T) /\ last \in Seq(T) /\ Len(first) = n /\ Len(last) = began /\ tab = first \o last
      BY <1>1, <1>3, <1>5
    <3>2. /\ first \o last \in Seq(T) /\ Len(first \o last) = Len(first) + Len(last)
          /\ \A k \in 1..(Len(first) + Len(last)) : (first \o last)[k] = IF k <= Len(first) THEN first[k] ELSE last[k - Len(first)]
      BY <3>1, ConcatProperties
    <3> QED
      BY <3>1, <3>2
  <2>2. \A id \in 1..n : tab[id] = first[id]
    BY <1>2, <2>1
  <2>3. \A p \in 1..began : tab[n + p] = last[p]
    <3>1. TAKE p \in 1..began
    <3>2. n + p \in 1..(n + began) /\ ~(n + p <= n) /\ (n + p) - n = p
      BY <1>2
    <3> QED
      BY <2>1, <3>2
  <2> QED
    BY <2>1, <2>2, <2>3 DEF Tables
<1>7. new \subseteq 1..began
  BY DEF Found
<1>8. \A id \in 1..n : tab[id] = IF id \in Replaced(since) THEN None ELSE table[id]
  BY <1>3, <1>6
<1>9. \A p \in 1..began : p \notin new => tab[n + p] = None
  BY <1>5, <1>6
<1>10. \A p \in new : tab[n + p] = entry(p)
  BY <1>5, <1>6, <1>7
<1>11. \A p \in new :
       /\ tab[n + p] # None /\ tab[n + p].print = p /\ tab[n + p].source = "backfill"
       /\ tab[n + p].result = (IF p = current THEN None ELSE "stopped")
       /\ tab[n + p].mark = (p # current /\ MarkedBefore(since, p))
  <2>1. TAKE p \in new
  <2>2. p \in 1..began /\ tab[n + p] = entry(p)
    BY <1>7, <1>10
  <2> QED
    BY <1>4, <2>2
<1> QED
  BY <1>6, <1>8, <1>9, <1>11 DEF Rebuilt

\* A row of the rebuilt table: one that stays, or one of the history.
LEMMA RebuiltRows ==
  ASSUME StoreConstants, Recorded(table, began), began \in 0..Cardinality(Prints), NEW found \in SUBSET (1..began), NEW since, NEW current,
         NEW tab, Rebuilt(tab, found, since, current)
  PROVE  /\ \A id \in 1..Len(tab) : tab[id] # None =>
              \/ id \in 1..Len(table) /\ id \notin Replaced(since) /\ table[id] # None /\ tab[id] = table[id]
                 /\ table[id].print \in Staying(since)
              \/ \E p \in Found(found, since, current) : id = Len(table) + p
         /\ \A id \in 1..Len(table) : table[id] # None /\ id \notin Replaced(since) =>
              id \in 1..Len(tab) /\ tab[id] = table[id] /\ table[id].print \in Staying(since)
         /\ \A p \in Found(found, since, current) : p \in 1..began /\ Len(table) + p \in 1..Len(tab) /\ p \notin Staying(since)
<1> DEFINE n == Len(table)
<1>1. /\ Len(tab) = n + began /\ n \in Nat /\ began \in Nat /\ DOMAIN table = 1..n
      /\ \A id \in 1..n : tab[id] = IF id \in Replaced(since) THEN None ELSE table[id]
      /\ \A p \in 1..began : p \notin Found(found, since, current) => tab[n + p] = None
  BY DEF Rebuilt, Recorded, Tables, StoreConstants
<1>2. ASSUME NEW id \in 1..n, table[id] # None, id \notin Replaced(since)
      PROVE  id \in 1..Len(tab) /\ tab[id] = table[id] /\ table[id].print \in Staying(since)
  BY <1>1, <1>2 DEF Staying, Store!Rows
<1>3. ASSUME NEW p \in Found(found, since, current) PROVE p \in 1..began /\ n + p \in 1..Len(tab) /\ p \notin Staying(since)
  <2>1. p \in 1..began /\ p \notin Staying(since)
    BY DEF Found
  <2> QED
    BY <1>1, <2>1
<1>4. ASSUME NEW id \in 1..Len(tab), tab[id] # None
      PROVE  \/ id \in 1..n /\ id \notin Replaced(since) /\ table[id] # None /\ tab[id] = table[id] /\ table[id].print \in Staying(since)
             \/ \E p \in Found(found, since, current) : id = n + p
  <2>1. CASE id \in 1..n
    BY <1>1, <1>2, <1>4, <2>1
  <2>2. CASE id \notin 1..n
    <3>1. id - n \in 1..began /\ id = n + (id - n)
      BY <1>1, <2>2
    <3> DEFINE p == id - n
    <3> HIDE DEF p
    <3>2. p \in Found(found, since, current) /\ id = n + p
      BY <1>1, <1>4, <3>1 DEF p
    <3> QED
      BY <3>2
  <2> QED
    BY <2>1, <2>2
<1> QED
  BY <1>2, <1>3, <1>4

\* After the replay no print has two rows still, and one at most is open.
LEMMA RebuiltRecorded ==
  ASSUME StoreConstants, Recorded(table, began), began \in 0..Cardinality(Prints), NEW found \in SUBSET (1..began), NEW since, NEW current,
         NEW tab, Rebuilt(tab, found, since, current)
  PROVE  Recorded(tab, began)
<1> DEFINE n == Len(table)
           new == Found(found, since, current)
<1>1. /\ tab \in Tables /\ Single(table) /\ DOMAIN tab = 1..Len(tab) /\ DOMAIN table = 1..n
      /\ \A p \in new : tab[n + p].print = p /\ tab[n + p].result = (IF p = current THEN None ELSE "stopped")
  BY DEF Rebuilt, Recorded, Tables
<1>2. /\ \A id \in 1..Len(tab) : tab[id] # None =>
              \/ id \in 1..n /\ id \notin Replaced(since) /\ table[id] # None /\ tab[id] = table[id]
                 /\ table[id].print \in Staying(since)
              \/ \E p \in new : id = n + p
      /\ \A p \in new : p \in 1..began /\ n + p \in 1..Len(tab) /\ p \notin Staying(since)
  BY RebuiltRows
<1>3. \A p \in new : p = current => Store!OpenIds(table) = {}
  BY DEF Found
<1>4. "stopped" # None
  BY DEF StoreConstants
<1>5. \A id \in Store!OpenIds(tab) : id \in Store!OpenIds(table) \/ \E p \in new : id = n + p /\ p = current
  <2> HIDE DEF new
  <2>1. SUFFICES ASSUME NEW id \in Store!OpenIds(tab) PROVE id \in Store!OpenIds(table) \/ \E p \in new : id = n + p /\ p = current
    OBVIOUS
  <2>2. id \in 1..Len(tab) /\ tab[id] # None /\ tab[id].result = None
    BY <1>1 DEF Store!OpenIds
  <2> QED
    BY <1>1, <1>2, <1>4, <2>2 DEF Store!OpenIds
<1> HIDE DEF new
<1>6. Single(tab)
  <2>1. SUFFICES ASSUME NEW a \in Store!OpenIds(tab), NEW b \in Store!OpenIds(tab) PROVE a = b
    BY DEF Single
  <2>2. CASE a \in Store!OpenIds(table) /\ b \in Store!OpenIds(table)
    BY <1>1, <2>2 DEF Single
  <2>3. CASE \E p \in new : a = n + p /\ p = current
    BY <1>3, <1>5, <2>3
  <2>4. CASE \E p \in new : b = n + p /\ p = current
    BY <1>3, <1>5, <2>4
  <2> QED
    BY <1>5, <2>2, <2>3, <2>4
<1>7. \A id \in 1..Len(tab) : tab[id] # None => tab[id].print \in 1..began
  BY <1>1, <1>2 DEF Recorded
<1>8. ASSUME NEW a \in 1..Len(tab), NEW b \in 1..Len(tab), tab[a] # None, tab[b] # None, tab[a].print = tab[b].print PROVE a = b
  <2>1. CASE a \in 1..n /\ b \in 1..n /\ table[a] # None /\ table[b] # None /\ tab[a] = table[a] /\ tab[b] = table[b]
    BY <1>8, <2>1 DEF Recorded
  <2>2. CASE (\E p \in new : a = n + p) /\ (\E p \in new : b = n + p)
    BY <1>1, <1>8, <2>2
  <2>3. ASSUME NEW c \in 1..Len(tab), NEW d \in 1..Len(tab), tab[c].print = tab[d].print,
               tab[c] = table[c], table[c].print \in Staying(since), \E p \in new : d = n + p
        PROVE  FALSE
    BY <1>1, <1>2, <2>3
  <2> QED
    BY <1>2, <1>8, <2>1, <2>2, <2>3
<1> QED
  BY <1>1, <1>6, <1>7, <1>8 DEF Recorded

\* What a replay may do to the table (JobLedger has it).
StoreRebuilds == \E found \in SUBSET (1..began) : \E since, current : Rebuilt(table', found, since, current)

\* The replay of the history keeps the invariant.
LEMMA BackfillKeeps ==
  ASSUME StoreConstants, StoreInv, Store!Backfill
  PROVE  StoreInv' /\ (StoreWrites \/ (StoreRebuilds /\ ~version /\ version' = TRUE))
<1>1. /\ phase = "replay" /\ phase' = "load" /\ began' = began /\ overtaken' = overtaken
      /\ objects' = objects /\ open' = open /\ ended' = ended /\ retry' = retry
  BY DEF Store!Backfill, Store!process
<1>2. /\ objects = <<>> /\ open = None /\ ended = None /\ retry = <<>> /\ ~overtaken /\ ~version
      /\ Recorded(table, began) /\ began \in 0..Cardinality(Prints) /\ slips \in 0..MaxSlips /\ MaxSlips \in Nat
      /\ version \in BOOLEAN /\ overtaken \in BOOLEAN
  <2>1. StorePhases /\ Recorded(table, began)
    BY DEF StoreInv
  <2> QED
    BY <1>1, <2>1 DEF StorePhases, StoreConstants
<1>3. /\ \A tab : Held(<<>>, tab, None, None, {}, began) /\ Saving(<<>>, tab, None, {})
      /\ <<>> \in Seq(Live(<<>>)) /\ Store!Range(<<>>) = {}
  BY NothingHeld
<1>4. ASSUME Recorded(table', began), slips' \in 0..MaxSlips, version' \in BOOLEAN PROVE StoreInv'
  <2>1. StorePhases'
    BY <1>1, <1>2, <1>4 DEF StorePhases
  <2> QED
    BY <1>1, <1>2, <1>3, <1>4, <2>1 DEF StoreInv
<1>5. CASE /\ \E found \in Store!Replayed, since \in Past, current \in {None, began} :
                table' = Store!RebuiltTable(found, since, current)
           /\ version' = TRUE /\ slips' = slips
  <2>1. PICK found \in SUBSET (1..began), since \in Past, current \in {None, began} :
               table' = Store!RebuiltTable(found, since, current)
    BY <1>5 DEF Store!Replayed
  <2> DEFINE tab == table'
  <2>2. tab = Store!RebuiltTable(found, since, current)
    BY <2>1
  <2> HIDE DEF tab
  <2>3. Rebuilt(tab, found, since, current)
    BY <1>2, <2>2, Rebuilding
  <2>4. Recorded(tab, began)
    BY <1>2, <2>3, RebuiltRecorded
  <2>5. StoreRebuilds
    BY <2>3 DEF StoreRebuilds, tab
  <2>6. version' \in BOOLEAN /\ slips' \in 0..MaxSlips
    BY <1>2, <1>5
  <2> QED
    BY <1>2, <1>4, <1>5, <2>4, <2>5, <2>6 DEF tab
<1>6. CASE Store!Slip /\ table' = table /\ version' = version
  <2>1. slips' \in 0..MaxSlips /\ version' \in BOOLEAN
    BY <1>2, <1>6 DEF Store!Slip
  <2>2. Grown(table, table)
    BY <1>2, Remembering
  <2> QED
    BY <1>2, <1>4, <1>6, <2>1, <2>2 DEF StoreWrites
<1> QED
  BY <1>5, <1>6 DEF Store!Backfill

\* What each step of the store does.
LEMMA StoreStepKeeps ==
  ASSUME StoreConstants, StoreInv, Store!Next
  PROVE  /\ StoreInv'
         /\ \/ StoreWrites
            \/ Store!SetVerdict
            \/ StoreRebuilds /\ ~version /\ version' = TRUE
<1>1. CASE Store!FeedNothing \/ Store!FeedOpen \/ Store!FeedUpdate \/ Store!FeedSplit \/ Store!FeedReopen \/ Store!FeedAmend
  BY <1>1, NothingFed, OpenFed, UpdateFed, SplitFed, ReopenFed, AmendFed
<1>2. CASE \E reopenable \in BOOLEAN : Store!FeedClose(reopenable)
  BY <1>2, CloseFed
<1>3. CASE Store!Reload \/ Store!Crash \/ Store!Start \/ Store!LoadOpen
  BY <1>3, ReloadKeeps, CrashKeeps, StartKeeps, LoadKeeps
<1>4. CASE Store!Backfill
  BY <1>4, BackfillKeeps
<1>5. CASE Store!SetVerdict
  BY <1>5, MarkKeeps
<1> QED
  BY <1>1, <1>2, <1>3, <1>4, <1>5 DEF Store!Next

\* A stutter.
LEMMA StoreStands == ASSUME StoreConstants, StoreInv, Store!vars' = Store!vars PROVE StoreInv' /\ table' = table /\ version' = version
<1>1. /\ began' = began /\ objects' = objects /\ open' = open /\ ended' = ended /\ retry' = retry /\ table' = table
      /\ phase' = phase /\ version' = version /\ slips' = slips /\ overtaken' = overtaken
  BY DEF Store!vars, Store!process
<1>2. StorePhases' <=> StorePhases
  BY <1>1 DEF StorePhases
<1>3. StorePhases /\ Recorded(table, began) /\ retry \in Seq(Live(objects))
      /\ Held(objects, table, open, ended, Store!Range(retry), began)
      /\ (~overtaken => Saving(objects, table, open, Store!Range(retry)))
  BY DEF StoreInv
<1> QED
  BY <1>1, <1>2, <1>3 DEF StoreInv

\* job_journal.py JournalDB.apply, observe, load_open, _write_backfill: whatever fails, no print
\* has two rows, one print at most is open, a job the process holds has its row or owes it, and with
\* nothing due the rows are what it holds.
THEOREM StoreInvariant == ASSUME StoreConstants PROVE Store!Spec => []StoreInv
<1>1. Store!Init => StoreInv
  BY StoreInitial
<1>2. StoreInv /\ [Store!Next]_Store!vars => StoreInv'
  BY StoreStepKeeps, StoreStands
<1> QED
  BY <1>1, <1>2, PTL DEF Store!Spec

\* Every variable of job_journal.py's store keeps its type: what the machine and the retry name
\* is a job the process holds, and a stopped service holds none.
THEOREM StoreTypeCorrect == ASSUME StoreConstants PROVE Store!Spec => []Store!TypeOK
<1>1. StoreInv => Store!TypeOK
  <2> SUFFICES ASSUME StoreInv PROVE Store!TypeOK
    OBVIOUS
  <2>1. StorePhases /\ Recorded(table, began) /\ retry \in Seq(Live(objects)) /\ Held(objects, table, open, ended, Store!Range(retry), began)
    BY DEF StoreInv
  <2>2. table \in Seq(Store!TableRows \cup {None}) /\ objects \in Seq(Store!Jobs \cup {None})
        /\ {open, ended} \ {None} \subseteq Live(objects)
    BY <2>1 DEF Recorded, Tables, Held, Machined
  <2>3. Live(objects) \subseteq DOMAIN objects /\ \A i \in Live(objects) : objects[i] # None
    BY DEF Live
  <2>4. retry \in Seq(DOMAIN objects)
    BY <2>1, <2>3, SeqMonotonic
  <2>5. \A i \in Store!Range(retry) : i \in Live(objects)
    BY <2>1 DEF Store!Range
  <2>6. \A i \in Store!Range(retry) \cup ({open, ended} \ {None}) : objects[i] # None
    BY <2>2, <2>3, <2>5
  <2>7. phase # "up" => Store!process = <<<<>>, None, None, <<>>>>
    BY <2>1 DEF StorePhases, Store!process
  <2>8. {open, ended} \ {None} \subseteq DOMAIN objects
    BY <2>2, <2>3
  <2>9. /\ began \in 0..Store!Cardinality(Prints) /\ slips \in 0..MaxSlips
        /\ phase \in {"down", "replay", "load", "up"} /\ version \in BOOLEAN /\ overtaken \in BOOLEAN
    <3>1. Store!Cardinality(Prints) = Cardinality(Prints)
      BY DEF Store!Cardinality, Cardinality
    <3> QED
      BY <2>1, <3>1 DEF StorePhases
  <2> QED
    BY <2>2, <2>4, <2>6, <2>7, <2>8, <2>9 DEF Store!TypeOK
<1> QED
  BY <1>1, StoreInvariant, PTL

\* The row of a print, if it has one.
LEMMA OneRow ==
  ASSUME StoreConstants, Recorded(table, began)
  PROVE  /\ \A p \in Prints : Store!RowOf(p) = {} \/ \E id \in Store!Rows : Store!RowOf(p) = {id} /\ table[id].print = p
         /\ \A id \in Store!Rows : table[id].print \in Prints /\ Store!RowOf(table[id].print) = {id}
<1>1. DOMAIN table = 1..Len(table) /\ table \in Tables
  BY DEF Recorded, Tables
<1>2. \A a, b \in Store!Rows : table[a].print = table[b].print => a = b
  BY <1>1 DEF Recorded, Store!Rows
<1>3. \A id \in Store!Rows : table[id].print \in Prints
  <2>1. SUFFICES ASSUME NEW id \in Store!Rows PROVE table[id].print \in Prints
    OBVIOUS
  <2>2. table[id] \in Store!TableRows
    BY <1>1, RowPresent DEF Store!Rows, Present
  <2> QED
    BY <2>2 DEF Store!TableRows
<1>4. \A p : Store!RowOf(p) = {id \in Store!Rows : table[id].print = p}
  BY DEF Store!RowOf
<1>5. ASSUME NEW id \in Store!Rows PROVE Store!RowOf(table[id].print) = {id}
  BY <1>2, <1>4
<1>6. ASSUME NEW p \in Prints, Store!RowOf(p) # {}
      PROVE  \E id \in Store!Rows : Store!RowOf(p) = {id} /\ table[id].print = p
  <2>1. PICK id \in Store!Rows : table[id].print = p
    BY <1>4, <1>6
  <2> QED
    BY <1>5, <2>1
<1> QED
  BY <1>3, <1>5, <1>6

\* job_journal.py JournalDB.apply, _update_job, insert_job: no print has two rows, over failed
\* writes, restarts and the replay; with no write due the row of the print that runs and of the one
\* that may be taken up again is what the machine holds.
THEOREM PrintsAreSaved == ASSUME StoreConstants PROVE Store!Spec => []Store!Saved
<1>1. StoreInv => Store!Saved
  <2> SUFFICES ASSUME StoreInv PROVE Store!Saved
    OBVIOUS
  <2>1. /\ Recorded(table, began) /\ Held(objects, table, open, ended, Store!Range(retry), began)
        /\ (~overtaken => Saving(objects, table, open, Store!Range(retry)))
    BY DEF StoreInv
  <2>2. ASSUME NEW p \in Prints PROVE Store!Cardinality(Store!RowOf(p)) <= 1
    <3>1. Store!RowOf(p) = {} \/ \E id : Store!RowOf(p) = {id}
      BY <2>1, OneRow
    <3>2. Cardinality({}) = 0 /\ \A id : Cardinality({id}) = 1
      BY FS_EmptySet, FS_Singleton
    <3>3. Cardinality(Store!RowOf(p)) \in {0, 1}
      <4>1. CASE Store!RowOf(p) = {}
        BY <3>2, <4>1
      <4>2. CASE \E id : Store!RowOf(p) = {id}
        BY <3>2, <4>2, Zenon
      <4> QED
        BY <3>1, <4>1, <4>2
    <3>4. Store!Cardinality(Store!RowOf(p)) = Cardinality(Store!RowOf(p))
      BY DEF Store!Cardinality, Cardinality
    <3> QED
      BY <3>3, <3>4
  <2>3. ASSUME NEW i \in {open, ended} \ {None}, retry = <<>>, ~overtaken
        PROVE  /\ objects[i].row \in Store!Rows
               /\ table[objects[i].row].print = objects[i].print
               /\ [c \in Store!Columns |-> table[objects[i].row][c]] = Store!Content(objects[i])
    <3>1. i \in Live(objects)
      BY <2>1 DEF Held, Machined
    <3>2. Store!Range(retry) = {}
      BY <2>3 DEF Store!Range
    <3>3. Agrees(objects, table, i) /\ Tracked(objects, table, Store!Range(retry), began, i)
      BY <2>1, <2>3, <3>1, <3>2 DEF Saving, Held
    <3>4. objects[i].row # None
      BY <3>2, <3>3 DEF Tracked
    <3>5. Present(table, objects[i].row) /\ table[objects[i].row].print = objects[i].print
      BY <3>3, <3>4 DEF Tracked
    <3>6. objects[i] \in Store!Jobs /\ table[objects[i].row] \in Store!TableRows /\ objects[i].row \in DOMAIN table
      BY <2>1, <3>1, <3>5, LiveJob, RowPresent DEF Held, Recorded
    <3> DEFINE job == objects[i]
               entry == table[objects[i].row]
    <3>7. job \in Store!Jobs /\ entry \in Store!TableRows /\ entry.at = job.at /\ entry.result = job.result
      BY <3>3, <3>6 DEF Agrees
    <3> HIDE DEF job, entry
    <3>8. entry["at"] = job["at"] /\ entry["result"] = job["result"]
      BY <3>7 DEF Store!Jobs, Store!TableRows
    <3>9. [c \in Store!Columns |-> entry[c]] = Store!Content(job)
      BY <3>8 DEF Store!Content, Store!Columns
    <3> QED
      BY <3>5, <3>6, <3>9 DEF Store!Rows, Present, job, entry
  <2> QED
    BY <2>2, <2>3 DEF Store!Saved
<1> QED
  BY <1>1, StoreInvariant, PTL

\* The ledger of a table.
RowIds(t) == {id \in 1..Len(t) : t[id] # None}
PrintsIn(t) == {t[id].print : id \in RowIds(t)}
OpenIn(t, p) == \E id \in RowIds(t) : t[id].print = p /\ t[id].result = None
ShownIn(t) == [p \in Prints |-> IF p \notin PrintsIn(t) THEN "absent" ELSE IF OpenIn(t, p) THEN "open" ELSE "ended"]
WatchedIn(t) == {t[id].print : id \in {i \in RowIds(t) : t[i].source = "live"}}
MarksIn(t) == {t[id].print : id \in {i \in RowIds(t) : t[i].mark}}

\* The ledger of the table now,
LEMMA ShownNow ==
  ASSUME Len(table) \in Nat, DOMAIN table = 1..Len(table)
  PROVE  /\ [p \in Prints |-> Store!Shape(Store!RowOf(p))] = ShownIn(table)
         /\ {table[id].print : id \in {i \in Store!Rows : table[i].source = "live"}} = WatchedIn(table)
         /\ {table[id].print : id \in {i \in Store!Rows : table[i].mark}} = MarksIn(table)
<1>1. Store!Rows = RowIds(table)
  BY DEF Store!Rows, RowIds
<1>2. ASSUME NEW p \in Prints
      PROVE  Store!Shape(Store!RowOf(p)) = IF p \notin PrintsIn(table) THEN "absent" ELSE IF OpenIn(table, p) THEN "open" ELSE "ended"
  <2> DEFINE its == {id \in RowIds(table) : table[id].print = p}
  <2>1. Store!RowOf(p) = its
    BY <1>1 DEF Store!RowOf
  <2>2. (its = {} <=> p \notin PrintsIn(table)) /\ (OpenIn(table, p) <=> \E id \in its : table[id].result = None)
    BY DEF PrintsIn, OpenIn
  <2> HIDE DEF its
  <2>3. CASE its = {}
    BY <2>1, <2>2, <2>3 DEF Store!Shape
  <2>4. CASE its # {} /\ \E id \in its : table[id].result = None
    BY <2>1, <2>2, <2>4 DEF Store!Shape
  <2>5. CASE its # {} /\ ~\E id \in its : table[id].result = None
    BY <2>1, <2>2, <2>5 DEF Store!Shape
  <2> QED
    BY <2>3, <2>4, <2>5
<1>3. [p \in Prints |-> Store!Shape(Store!RowOf(p))] = ShownIn(table)
  BY <1>2, Zenon DEF ShownIn
<1> QED
  BY <1>1, <1>3 DEF WatchedIn, MarksIn

\* and after a step.
LEMMA ShownThen ==
  ASSUME Len(table') \in Nat, DOMAIN table' = 1..Len(table')
  PROVE  /\ [p \in Prints |-> Store!Shape(Store!RowOf(p))]' = ShownIn(table')
         /\ {table[id].print : id \in {i \in Store!Rows : table[i].source = "live"}}' = WatchedIn(table')
         /\ {table[id].print : id \in {i \in Store!Rows : table[i].mark}}' = MarksIn(table')
<1>1. Store!Rows' = RowIds(table')
  BY DEF Store!Rows, RowIds
<1>2. ASSUME NEW p \in Prints
      PROVE  Store!Shape(Store!RowOf(p))' = IF p \notin PrintsIn(table') THEN "absent" ELSE IF OpenIn(table', p) THEN "open" ELSE "ended"
  <2> DEFINE its == {id \in RowIds(table') : table'[id].print = p}
  <2>1. Store!RowOf(p)' = its
    BY <1>1 DEF Store!RowOf
  <2>2. (its = {} <=> p \notin PrintsIn(table')) /\ (OpenIn(table', p) <=> \E id \in its : table'[id].result = None)
    BY DEF PrintsIn, OpenIn
  <2> HIDE DEF its
  <2>3. CASE its = {}
    BY <2>1, <2>2, <2>3 DEF Store!Shape
  <2>4. CASE its # {} /\ \E id \in its : table'[id].result = None
    BY <2>1, <2>2, <2>4 DEF Store!Shape
  <2>5. CASE its # {} /\ ~\E id \in its : table'[id].result = None
    BY <2>1, <2>2, <2>5 DEF Store!Shape
  <2> QED
    BY <2>3, <2>4, <2>5
<1>3. [p \in Prints |-> Store!Shape(Store!RowOf(p))]' = ShownIn(table')
  BY <1>2, Zenon DEF ShownIn
<1> QED
  BY <1>1, <1>3 DEF WatchedIn, MarksIn

\* What a ledger shows of a print.
LEMMA ShownOf ==
  ASSUME StoreConstants, NEW t, NEW limit, Recorded(t, limit)
  PROVE  /\ t \in Tables /\ Len(t) \in Nat /\ DOMAIN t = 1..Len(t) /\ PrintsIn(t) \subseteq Prints
         /\ \A id \in RowIds(t) : id \in 1..Len(t) /\ t[id] # None /\ t[id] \in Store!TableRows /\ t[id].print \in PrintsIn(t)
                                  /\ ShownIn(t)[t[id].print] = IF t[id].result = None THEN "open" ELSE "ended"
         /\ \A a, b \in RowIds(t) : t[a].print = t[b].print => a = b
         /\ \A p \in Prints : ShownIn(t)[p] = "absent" <=> p \notin PrintsIn(t)
         /\ \A p \in PrintsIn(t) : \E id \in RowIds(t) : t[id].print = p
         /\ ShownIn(t) \in Store!Ledger!Shapes /\ Store!Ledger!OnRecord(ShownIn(t)) = PrintsIn(t)
<1>1. t \in Tables /\ Len(t) \in Nat /\ DOMAIN t = 1..Len(t) /\ Single(t)
  BY DEF Recorded, Tables
<1>2. \A id \in RowIds(t) : id \in 1..Len(t) /\ t[id] # None /\ t[id] \in Store!TableRows
  BY <1>1 DEF RowIds, Tables
<1>3. \A a, b \in RowIds(t) : t[a].print = t[b].print => a = b
  BY DEF Recorded, RowIds
<1>4. \A id \in RowIds(t) : t[id].print \in PrintsIn(t) /\ t[id].print \in Prints
  BY <1>2 DEF PrintsIn, Store!TableRows
<1>5. \A p \in PrintsIn(t) : \E id \in RowIds(t) : t[id].print = p
  BY DEF PrintsIn
<1>6. PrintsIn(t) \subseteq Prints
  BY <1>4, <1>5
<1>7. \A p \in Prints : ShownIn(t)[p] = IF p \notin PrintsIn(t) THEN "absent" ELSE IF OpenIn(t, p) THEN "open" ELSE "ended"
  BY DEF ShownIn
<1>8. \A p \in Prints : ShownIn(t)[p] = "absent" <=> p \notin PrintsIn(t)
  BY <1>7
<1>9. \A id \in RowIds(t) : OpenIn(t, t[id].print) <=> t[id].result = None
  BY <1>3 DEF OpenIn
<1>10. \A id \in RowIds(t) : ShownIn(t)[t[id].print] = IF t[id].result = None THEN "open" ELSE "ended"
  BY <1>4, <1>7, <1>9
<1>11. ShownIn(t) \in [Prints -> {"absent", "open", "ended"}]
  BY DEF ShownIn
<1>12. ASSUME NEW p \in Prints, NEW q \in Prints, ShownIn(t)[p] = "open", ShownIn(t)[q] = "open" PROVE p = q
  <2>1. PICK a \in RowIds(t) : t[a].print = p /\ t[a].result = None
    BY <1>5, <1>7, <1>10, <1>12
  <2>2. PICK b \in RowIds(t) : t[b].print = q /\ t[b].result = None
    BY <1>5, <1>7, <1>10, <1>12
  <2>3. a = b
    BY <1>1, <1>2, <2>1, <2>2 DEF Single, Store!OpenIds
  <2> QED
    BY <2>1, <2>2, <2>3
<1>13. ShownIn(t) \in Store!Ledger!Shapes
  BY <1>11, <1>12 DEF Store!Ledger!Shapes
<1>14. Store!Ledger!OnRecord(ShownIn(t)) = PrintsIn(t)
  BY <1>6, <1>8 DEF Store!Ledger!OnRecord
<1> QED
  BY <1>1, <1>2, <1>3, <1>4, <1>5, <1>6, <1>8, <1>10, <1>13, <1>14

\* A write of the process brings prints on record, watched and without a mark.
LEMMA WriteShown ==
  ASSUME StoreConstants, NEW old, NEW new, NEW limit, NEW more, Recorded(old, limit), Recorded(new, more), Grown(old, new)
  PROVE  /\ PrintsIn(old) \subseteq PrintsIn(new) /\ MarksIn(new) = MarksIn(old)
         /\ \A p \in PrintsIn(new) \ PrintsIn(old), q \in PrintsIn(old) : q < p
         /\ WatchedIn(new) = WatchedIn(old) \cup (PrintsIn(new) \ PrintsIn(old))
<1>1. Len(old) \in Nat /\ Len(new) \in Nat /\ Len(new) >= Len(old)
  BY ShownOf DEF Grown
<1>2. \A id \in RowIds(old) : /\ id \in RowIds(new) /\ new[id].print = old[id].print /\ new[id].mark = old[id].mark
                              /\ new[id].source = old[id].source
  BY <1>1 DEF RowIds, Grown
<1>3. \A id \in RowIds(new) : id \in RowIds(old) \/ id \in (Len(old) + 1)..Len(new)
  BY <1>1 DEF RowIds, Grown
<1>4. \A id \in (Len(old) + 1)..Len(new) :
        /\ id \in RowIds(new) /\ id \notin RowIds(old) /\ new[id].source = "live" /\ new[id].mark = FALSE
        /\ \A k \in RowIds(old) : old[k].print < new[id].print
  BY <1>1 DEF RowIds, Grown
<1>5. \A a, b \in RowIds(new) : new[a].print = new[b].print => a = b
  BY ShownOf
<1>6. \A id \in RowIds(new) : new[id].print \in PrintsIn(old) <=> id \in RowIds(old)
  BY <1>2, <1>5 DEF PrintsIn
<1>7. PrintsIn(old) \subseteq PrintsIn(new)
  BY <1>2 DEF PrintsIn
<1>8. \A p \in PrintsIn(new) \ PrintsIn(old), q \in PrintsIn(old) : q < p
  <2>1. SUFFICES ASSUME NEW p \in PrintsIn(new) \ PrintsIn(old), NEW q \in PrintsIn(old) PROVE q < p
    OBVIOUS
  <2>2. PICK id \in RowIds(new) : new[id].print = p
    BY DEF PrintsIn
  <2>3. PICK k \in RowIds(old) : old[k].print = q
    BY DEF PrintsIn
  <2> QED
    BY <1>3, <1>4, <1>6, <2>2, <2>3
<1>9. ASSUME NEW p PROVE p \in WatchedIn(new) <=> p \in WatchedIn(old) \cup (PrintsIn(new) \ PrintsIn(old))
  <2>1. ASSUME p \in WatchedIn(new) PROVE p \in WatchedIn(old) \cup (PrintsIn(new) \ PrintsIn(old))
    <3>1. PICK id \in RowIds(new) : new[id].print = p /\ new[id].source = "live"
      BY <2>1 DEF WatchedIn
    <3>2. p \in PrintsIn(new)
      BY <3>1 DEF PrintsIn
    <3>3. id \in RowIds(old) => p \in WatchedIn(old)
      BY <1>2, <3>1 DEF WatchedIn
    <3> QED
      BY <1>6, <3>1, <3>2, <3>3
  <2>2. ASSUME p \in WatchedIn(old) PROVE p \in WatchedIn(new)
    <3>1. PICK id \in RowIds(old) : old[id].print = p /\ old[id].source = "live"
      BY <2>2 DEF WatchedIn
    <3> QED
      BY <1>2, <3>1 DEF WatchedIn
  <2>3. ASSUME p \in PrintsIn(new) \ PrintsIn(old) PROVE p \in WatchedIn(new)
    <3>1. PICK id \in RowIds(new) : new[id].print = p
      BY <2>3 DEF PrintsIn
    <3>2. new[id].source = "live"
      BY <1>3, <1>4, <1>6, <2>3, <3>1
    <3> QED
      BY <3>1, <3>2 DEF WatchedIn
  <2> QED
    BY <2>1, <2>2, <2>3
<1>10. ASSUME NEW p PROVE p \in MarksIn(new) <=> p \in MarksIn(old)
  <2>1. ASSUME p \in MarksIn(new) PROVE p \in MarksIn(old)
    <3>1. PICK id \in RowIds(new) : new[id].print = p /\ new[id].mark
      BY <2>1 DEF MarksIn
    <3>2. id \in RowIds(old)
      BY <1>3, <1>4, <3>1
    <3> QED
      BY <1>2, <3>1, <3>2 DEF MarksIn
  <2>2. ASSUME p \in MarksIn(old) PROVE p \in MarksIn(new)
    <3>1. PICK id \in RowIds(old) : old[id].print = p /\ old[id].mark
      BY <2>2 DEF MarksIn
    <3> QED
      BY <1>2, <3>1 DEF MarksIn
  <2> QED
    BY <2>1, <2>2
<1>11. WatchedIn(new) = WatchedIn(old) \cup (PrintsIn(new) \ PrintsIn(old)) /\ MarksIn(new) = MarksIn(old)
  BY <1>9, <1>10
<1> QED
  BY <1>7, <1>8, <1>11

\* set_verdict.
LEMMA MarkShown ==
  ASSUME StoreConstants, NEW old, NEW new, NEW limit, NEW id, Recorded(old, limit), MarkedOne(old, new, id)
  PROVE  /\ ShownIn(new) = ShownIn(old) /\ WatchedIn(new) = WatchedIn(old)
         /\ \E p \in Prints : /\ ShownIn(old)[p] = "ended"
                              /\ MarksIn(new) = MarksIn(old) \cup {p} \/ MarksIn(new) = MarksIn(old) \ {p}
<1>1. /\ RowIds(new) = RowIds(old) /\ id \in RowIds(old) /\ old[id].result # None
      /\ \A k \in RowIds(old) : /\ new[k].print = old[k].print /\ new[k].result = old[k].result /\ new[k].source = old[k].source
                                /\ k # id => new[k] = old[k]
  BY DEF MarkedOne, Remarked, Present, RowIds
<1>2. PrintsIn(new) = PrintsIn(old) /\ WatchedIn(new) = WatchedIn(old)
  BY <1>1 DEF PrintsIn, WatchedIn
<1>3. \A p : OpenIn(new, p) <=> OpenIn(old, p)
  BY <1>1 DEF OpenIn
<1>4. ShownIn(new) = ShownIn(old)
  BY <1>2, <1>3 DEF ShownIn
<1> DEFINE p == old[id].print
<1>5. p \in Prints /\ ShownIn(old)[p] = "ended" /\ \A a, b \in RowIds(old) : old[a].print = old[b].print => a = b
  BY <1>1, ShownOf
<1>6. CASE new[id].mark
  <2>1. MarksIn(new) = MarksIn(old) \cup {p}
    BY <1>1, <1>5, <1>6 DEF MarksIn
  <2> QED
    BY <1>2, <1>4, <1>5, <2>1
<1>7. CASE ~new[id].mark
  <2>1. MarksIn(new) = MarksIn(old) \ {p}
    BY <1>1, <1>5, <1>7 DEF MarksIn
  <2> QED
    BY <1>2, <1>4, <1>5, <2>1
<1> QED
  BY <1>6, <1>7

\* _write_backfill: what was watched and what runs stays, and the marks come back.
LEMMA RebuildShown ==
  ASSUME StoreConstants, Recorded(table, began), began \in 0..Cardinality(Prints), NEW found \in SUBSET (1..began), NEW since, NEW current,
         NEW new, Rebuilt(new, found, since, current)
  PROVE  /\ \A p \in Prints : (p \in WatchedIn(table) \/ ShownIn(table)[p] = "open") => ShownIn(new)[p] = ShownIn(table)[p]
         /\ MarksIn(new) = {p \in MarksIn(table) : p \in WatchedIn(table) \/ ShownIn(table)[p] = "open" \/ ShownIn(new)[p] = "ended"}
         /\ WatchedIn(new) = WatchedIn(table)
<1> DEFINE n == Len(table)
           gone == Replaced(since)
           more == Found(found, since, current)
<1>1. /\ \A id \in RowIds(table) : id \notin gone => id \in RowIds(new) /\ new[id] = table[id]
      /\ \A id \in RowIds(new) : (id \in RowIds(table) /\ id \notin gone /\ new[id] = table[id]) \/ \E p \in more : id = n + p
      /\ \A p \in more : n + p \in RowIds(new)
  <2>1. \A p \in more : new[n + p] # None
    BY DEF Rebuilt
  <2> HIDE DEF more, gone
  <2>2. /\ \A id \in 1..Len(new) : new[id] # None =>
              \/ id \in 1..Len(table) /\ id \notin gone /\ table[id] # None /\ new[id] = table[id]
                 /\ table[id].print \in Staying(since)
              \/ \E p \in more : id = Len(table) + p
        /\ \A id \in 1..Len(table) : table[id] # None /\ id \notin gone =>
              id \in 1..Len(new) /\ new[id] = table[id] /\ table[id].print \in Staying(since)
        /\ \A p \in more : p \in 1..began /\ Len(table) + p \in 1..Len(new) /\ p \notin Staying(since)
    BY RebuiltRows DEF more, gone
  <2> QED
    BY <2>1, <2>2 DEF RowIds
<1>2. \A p \in more :
        /\ new[n + p].print = p /\ new[n + p].source = "backfill"
        /\ new[n + p].result = (IF p = current THEN None ELSE "stopped")
        /\ new[n + p].mark = (p # current /\ MarkedBefore(since, p))
  BY DEF Rebuilt
<1>3. gone \subseteq RowIds(table) /\ \A id \in gone : table[id].source = "backfill" /\ table[id].result # None
  <2>1. Store!Rows = RowIds(table)
    BY ShownOf DEF Store!Rows, RowIds
  <2> QED
    BY <2>1 DEF Replaced
<1>4. \A p : MarkedBefore(since, p) <=> \E id \in gone : table[id].print = p /\ table[id].mark
  BY DEF MarkedBefore
<1> HIDE DEF gone, more
<1>5. Recorded(new, began)
  BY RebuiltRecorded
<1>6. /\ \A a, b \in RowIds(table) : table[a].print = table[b].print => a = b
      /\ \A a, b \in RowIds(new) : new[a].print = new[b].print => a = b
      /\ \A id \in RowIds(table) : /\ table[id].print \in PrintsIn(table)
                                   /\ ShownIn(table)[table[id].print] = IF table[id].result = None THEN "open" ELSE "ended"
      /\ \A id \in RowIds(new) : ShownIn(new)[new[id].print] = IF new[id].result = None THEN "open" ELSE "ended"
      /\ \A p \in PrintsIn(table) : \E id \in RowIds(table) : table[id].print = p
      /\ \A p \in Prints : ShownIn(table)[p] = "absent" <=> p \notin PrintsIn(table)
      /\ \A p \in Prints : ShownIn(new)[p] = "absent" <=> p \notin PrintsIn(new)
      /\ \A p \in PrintsIn(new) : \E id \in RowIds(new) : new[id].print = p
      /\ PrintsIn(table) \subseteq Prints
  BY <1>5, ShownOf
<1>7. ASSUME NEW id \in RowIds(table), id \notin gone
      PROVE  ShownIn(new)[table[id].print] = ShownIn(table)[table[id].print]
  BY <1>1, <1>6, <1>7
<1>8. \A p \in WatchedIn(table) : \E id \in RowIds(table) : id \notin gone /\ table[id].print = p /\ table[id].source = "live"
  BY <1>3 DEF WatchedIn
<1>9. ASSUME NEW p \in Prints, ShownIn(table)[p] = "open"
      PROVE  \E id \in RowIds(table) : id \notin gone /\ table[id].print = p /\ table[id].result = None
  <2>1. PICK id \in RowIds(table) : table[id].print = p
    BY <1>6, <1>9
  <2>2. table[id].result = None
    BY <1>6, <1>9, <2>1
  <2> QED
    BY <1>3, <2>1, <2>2
<1>10. \A p \in Prints : (p \in WatchedIn(table) \/ ShownIn(table)[p] = "open") => ShownIn(new)[p] = ShownIn(table)[p]
  BY <1>7, <1>8, <1>9
<1>11. WatchedIn(new) = WatchedIn(table)
  <2>1. ASSUME NEW p \in WatchedIn(table) PROVE p \in WatchedIn(new)
    BY <1>1, <1>8 DEF WatchedIn
  <2>2. ASSUME NEW p \in WatchedIn(new) PROVE p \in WatchedIn(table)
    <3>1. PICK id \in RowIds(new) : new[id].print = p /\ new[id].source = "live"
      BY DEF WatchedIn
    <3>2. id \in RowIds(table) /\ new[id] = table[id]
      BY <1>1, <1>2, <3>1
    <3> QED
      BY <3>1, <3>2 DEF WatchedIn
  <2> QED
    BY <2>1, <2>2
<1> DEFINE kept == {p \in MarksIn(table) : p \in WatchedIn(table) \/ ShownIn(table)[p] = "open" \/ ShownIn(new)[p] = "ended"}
<1>12. ASSUME NEW p \in MarksIn(new) PROVE p \in kept
  <2>1. PICK id \in RowIds(new) : new[id].print = p /\ new[id].mark
    BY DEF MarksIn
  <2>2. CASE id \in RowIds(table) /\ id \notin gone /\ new[id] = table[id]
    <3>1. p \in MarksIn(table)
      BY <2>1, <2>2 DEF MarksIn
    <3>2. ShownIn(table)[p] = "open" \/ ShownIn(table)[p] = "ended"
      BY <1>6, <2>1, <2>2
    <3>3. ShownIn(new)[p] = ShownIn(table)[p]
      BY <1>7, <2>1, <2>2
    <3> QED
      BY <3>1, <3>2, <3>3
  <2>3. CASE \E q \in more : id = n + q
    <3>1. PICK q \in more : id = n + q
      BY <2>3
    <3>2. q = p /\ p # current /\ MarkedBefore(since, p) /\ new[id].result = "stopped"
      BY <1>2, <2>1, <3>1
    <3>3. p \in MarksIn(table)
      BY <1>3, <1>4, <3>2 DEF MarksIn
    <3>4. ShownIn(new)[p] = "ended"
      <4>1. "stopped" # None
        BY DEF StoreConstants
      <4> QED
        BY <1>6, <2>1, <3>2, <4>1
    <3> QED
      BY <3>3, <3>4
  <2> QED
    BY <1>1, <2>2, <2>3
<1>13. ASSUME NEW p \in kept PROVE p \in MarksIn(new)
  <2>1. PICK id \in RowIds(table) : table[id].print = p /\ table[id].mark
    BY DEF MarksIn
  <2>2. CASE id \notin gone
    BY <1>1, <2>1, <2>2 DEF MarksIn
  <2>3. CASE id \in gone
    <3>1. ShownIn(new)[p] = "ended"
      BY <1>3, <1>6, <1>8, <1>9, <2>1, <2>3
    <3>2. p \in Prints
      BY <1>6, <2>1
    <3>3. PICK k \in RowIds(new) : new[k].print = p
      BY <1>6, <3>1, <3>2
    <3>4. new[k].result # None
      BY <1>6, <3>1, <3>3
    <3>5. ~(k \in RowIds(table) /\ k \notin gone /\ new[k] = table[k])
      BY <1>6, <2>1, <2>3, <3>3
    <3>6. PICK q \in more : k = n + q
      BY <1>1, <3>5
    <3>7. q = p /\ p # current
      BY <1>2, <3>3, <3>4, <3>6
    <3>8. new[k].mark
      <4>1. MarkedBefore(since, p)
        BY <1>4, <2>1, <2>3
      <4>2. new[n + q].mark = (q # current /\ MarkedBefore(since, q))
        BY <1>2, <3>6
      <4> QED
        BY <3>6, <3>7, <4>1, <4>2, Zenon
    <3> QED
      BY <3>3, <3>8 DEF MarksIn
  <2> QED
    BY <2>2, <2>3
<1>14. MarksIn(new) = kept
  BY <1>12, <1>13
<1> QED
  BY <1>10, <1>11, <1>14

\* Each step of the store is one of the ledger, or none.
LEMMA LedgerSteps ==
  ASSUME StoreConstants, StoreInv, [Store!Next]_Store!vars
  PROVE  [Store!Ledger!Next]_<<[p \in Prints |-> Store!Shape(Store!RowOf(p))],
            {table[id].print : id \in {i \in Store!Rows : table[i].source = "live"}},
            {table[id].print : id \in {i \in Store!Rows : table[i].mark}}, version>>
<1> DEFINE ledger == [p \in Prints |-> Store!Shape(Store!RowOf(p))]
           live == {table[id].print : id \in {i \in Store!Rows : table[i].source = "live"}}
           marked == {table[id].print : id \in {i \in Store!Rows : table[i].mark}}
<1>1. StoreInv' /\ Recorded(table, began) /\ Recorded(table', began') /\ began \in 0..Cardinality(Prints)
  <2>1. StoreInv'
    BY StoreStepKeeps, StoreStands
  <2> QED
    BY <2>1 DEF StoreInv, StorePhases
<1>2. ledger = ShownIn(table) /\ live = WatchedIn(table) /\ marked = MarksIn(table)
  <2>1. Len(table) \in Nat /\ DOMAIN table = 1..Len(table)
    BY <1>1, ShownOf
  <2> QED
    BY <2>1, ShownNow
<1>3. ledger' = ShownIn(table') /\ live' = WatchedIn(table') /\ marked' = MarksIn(table')
  <2> DEFINE t == table'
             limit == began'
  <2>1. Recorded(t, limit)
    BY <1>1
  <2> HIDE DEF t, limit
  <2>2. Len(t) \in Nat /\ DOMAIN t = 1..Len(t)
    BY <2>1, ShownOf
  <2>3. Len(table') \in Nat /\ DOMAIN table' = 1..Len(table')
    BY <2>2 DEF t
  <2> QED
    BY <2>3, ShownThen
<1>4. /\ ledger' \in Store!Ledger!Shapes /\ Store!Ledger!OnRecord(ledger') = PrintsIn(table')
      /\ ledger \in Store!Ledger!Shapes /\ Store!Ledger!OnRecord(ledger) = PrintsIn(table)
  <2> DEFINE t == table'
             limit == began'
  <2>1. Recorded(t, limit)
    BY <1>1
  <2> HIDE DEF t, limit
  <2>2. ShownIn(t) \in Store!Ledger!Shapes /\ Store!Ledger!OnRecord(ShownIn(t)) = PrintsIn(t)
    BY <2>1, ShownOf
  <2>3. ShownIn(table) \in Store!Ledger!Shapes /\ Store!Ledger!OnRecord(ShownIn(table)) = PrintsIn(table)
    BY <1>1, ShownOf
  <2> QED
    BY <1>2, <1>3, <2>2, <2>3 DEF t
<1>5. CASE StoreWrites
  <2>1. /\ PrintsIn(table) \subseteq PrintsIn(table') /\ MarksIn(table') = MarksIn(table)
        /\ \A p \in PrintsIn(table') \ PrintsIn(table), q \in PrintsIn(table) : q < p
        /\ WatchedIn(table') = WatchedIn(table) \cup (PrintsIn(table') \ PrintsIn(table))
    <3> DEFINE t == table'
               limit == began'
    <3>1. Recorded(t, limit) /\ Grown(table, t)
      BY <1>1, <1>5 DEF StoreWrites
    <3> HIDE DEF t, limit
    <3>2. /\ PrintsIn(table) \subseteq PrintsIn(t) /\ MarksIn(t) = MarksIn(table)
          /\ \A p \in PrintsIn(t) \ PrintsIn(table), q \in PrintsIn(table) : q < p
          /\ WatchedIn(t) = WatchedIn(table) \cup (PrintsIn(t) \ PrintsIn(table))
      BY <1>1, <3>1, WriteShown
    <3> QED
      BY <3>2 DEF t
  <2>2. version' = version
    BY <1>5 DEF StoreWrites
  <2> HIDE DEF ledger, live, marked
  <2>3. /\ ledger' \in Store!Ledger!Shapes
        /\ Store!Ledger!OnRecord(ledger) \subseteq Store!Ledger!OnRecord(ledger')
        /\ \A p \in Store!Ledger!OnRecord(ledger') \ Store!Ledger!OnRecord(ledger), q \in Store!Ledger!OnRecord(ledger) : q < p
        /\ live' = live \cup (Store!Ledger!OnRecord(ledger') \ Store!Ledger!OnRecord(ledger))
        /\ marked' = marked /\ version' = version
    BY <1>2, <1>3, <1>4, <2>1, <2>2
  <2>4. Store!Ledger!Write
    BY <2>3 DEF Store!Ledger!Write, ledger, live, marked
  <2> QED
    BY <2>4 DEF Store!Ledger!Next, ledger, live, marked
<1>6. CASE Store!SetVerdict
  <2>1. PICK id : MarkedOne(table, table', id) /\ version' = version
    BY <1>6, Marking
  <2>2. /\ ShownIn(table') = ShownIn(table) /\ WatchedIn(table') = WatchedIn(table)
        /\ \E p \in Prints : /\ ShownIn(table)[p] = "ended"
                             /\ MarksIn(table') = MarksIn(table) \cup {p} \/ MarksIn(table') = MarksIn(table) \ {p}
    <3> DEFINE t == table'
    <3>1. MarkedOne(table, t, id)
      BY <2>1
    <3> HIDE DEF t
    <3>2. /\ ShownIn(t) = ShownIn(table) /\ WatchedIn(t) = WatchedIn(table)
          /\ \E p \in Prints : /\ ShownIn(table)[p] = "ended"
                               /\ MarksIn(t) = MarksIn(table) \cup {p} \/ MarksIn(t) = MarksIn(table) \ {p}
      BY <1>1, <3>1, MarkShown
    <3> QED
      BY <3>2 DEF t
  <2> HIDE DEF ledger, live, marked
  <2>3. /\ \E p \in Prints : ledger[p] = "ended" /\ marked' \in {marked \cup {p}, marked \ {p}}
        /\ ledger' = ledger /\ live' = live /\ version' = version
    BY <1>2, <1>3, <2>1, <2>2
  <2>4. Store!Ledger!Mark
    BY <2>3 DEF Store!Ledger!Mark, ledger, live, marked
  <2> QED
    BY <2>4 DEF Store!Ledger!Next, ledger, live, marked
<1>7. CASE StoreRebuilds /\ ~version /\ version' = TRUE
  <2>0. PICK found \in SUBSET (1..began) : \E since, current : Rebuilt(table', found, since, current)
    BY <1>7 DEF StoreRebuilds
  <2>1. PICK since, current : Rebuilt(table', found, since, current)
    BY <2>0
  <2>2. /\ \A p \in Prints : (p \in WatchedIn(table) \/ ShownIn(table)[p] = "open") => ShownIn(table')[p] = ShownIn(table)[p]
        /\ MarksIn(table') = {p \in MarksIn(table) : p \in WatchedIn(table) \/ ShownIn(table)[p] = "open" \/ ShownIn(table')[p] = "ended"}
        /\ WatchedIn(table') = WatchedIn(table)
    <3> DEFINE t == table'
    <3>1. Rebuilt(t, found, since, current)
      BY <2>1
    <3> HIDE DEF t
    <3>2. /\ \A p \in Prints : (p \in WatchedIn(table) \/ ShownIn(table)[p] = "open") => ShownIn(t)[p] = ShownIn(table)[p]
          /\ MarksIn(t) = {p \in MarksIn(table) : p \in WatchedIn(table) \/ ShownIn(table)[p] = "open" \/ ShownIn(t)[p] = "ended"}
          /\ WatchedIn(t) = WatchedIn(table)
      BY <1>1, <3>1, RebuildShown
    <3> QED
      BY <3>2 DEF t
  <2> HIDE DEF ledger, live, marked
  <2>3. /\ ~version /\ version' = TRUE /\ ledger' \in Store!Ledger!Shapes
        /\ \A p \in Prints : (p \in live \/ ledger[p] = "open") => ledger'[p] = ledger[p]
        /\ marked' = {p \in marked : p \in live \/ ledger[p] = "open" \/ ledger'[p] = "ended"}
        /\ live' = live
    BY <1>2, <1>3, <1>4, <1>7, <2>2
  <2>4. Store!Ledger!Rebuild
    BY <2>3 DEF Store!Ledger!Rebuild, ledger, live, marked
  <2> QED
    BY <2>4 DEF Store!Ledger!Next, ledger, live, marked
<1>8. CASE Store!vars' = Store!vars
  <2>1. table' = table /\ version' = version
    BY <1>8, StoreStands
  <2> HIDE DEF ledger, live, marked
  <2>2. ledger' = ledger /\ live' = live /\ marked' = marked /\ version' = version
    BY <1>2, <1>3, <2>1
  <2> QED
    BY <2>2 DEF ledger, live, marked
<1>9. Store!Next \/ Store!vars' = Store!vars
  OBVIOUS
<1>10. Store!Next => StoreWrites \/ Store!SetVerdict \/ (StoreRebuilds /\ ~version /\ version' = TRUE)
  BY StoreStepKeeps
<1> QED
  BY <1>5, <1>6, <1>7, <1>8, <1>9, <1>10

\* job_journal.py implements the ledger its readers expect (JobLedger): each write brings prints on
\* record in their order and takes none away, one at most runs, a mark stays with its ended print, and
\* the replay, once, replaces ended prints that nobody watched.
THEOREM PrintsAreLedger == ASSUME StoreConstants PROVE Store!Spec => Store!LedgerKept
<1>1. Store!Init => Store!Ledger!Init
  <2> SUFFICES ASSUME Store!Init PROVE Store!Ledger!Init
    OBVIOUS
  <2>1. StoreInv
    BY StoreInitial
  <2>2. Recorded(table, began) /\ version \in BOOLEAN
    BY <2>1 DEF StoreInv, StorePhases
  <2>3. /\ [p \in Prints |-> Store!Shape(Store!RowOf(p))] = ShownIn(table)
        /\ {table[id].print : id \in {i \in Store!Rows : table[i].source = "live"}} = WatchedIn(table)
        /\ {table[id].print : id \in {i \in Store!Rows : table[i].mark}} = MarksIn(table)
    <3>1. Len(table) \in Nat /\ DOMAIN table = 1..Len(table)
      BY <2>2, ShownOf
    <3> QED
      BY <3>1, ShownNow
  <2>4. ShownIn(table) \in Store!Ledger!Shapes /\ Store!Ledger!OnRecord(ShownIn(table)) = PrintsIn(table)
    BY <2>2, ShownOf
  <2>5. WatchedIn(table) \subseteq PrintsIn(table) /\ MarksIn(table) \subseteq PrintsIn(table)
    BY DEF WatchedIn, MarksIn, PrintsIn
  <2> QED
    BY <2>2, <2>3, <2>4, <2>5 DEF Store!Ledger!Init
<1>2. StoreInv /\ [Store!Next]_Store!vars => [Store!Ledger!Next]_<<[p \in Prints |-> Store!Shape(Store!RowOf(p))],
            {table[id].print : id \in {i \in Store!Rows : table[i].source = "live"}},
            {table[id].print : id \in {i \in Store!Rows : table[i].mark}}, version>>
  BY LedgerSteps
<1> QED
  BY <1>1, <1>2, StoreInvariant, PTL DEF Store!Spec, Store!LedgerKept, Store!Ledger!Spec
=============================================================================

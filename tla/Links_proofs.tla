----------------------------- MODULE Links_proofs -----------------------------
(***************************************************************************)
(* Proofs about what holds a line to somebody: the automatic presses, a    *)
(* Bambu printer's link, a Klipper host's link and the Telegram bot, for   *)
(* every patience, backoff and limit that Links assumes.                   *)
(***************************************************************************)
EXTENDS Links, FiniteSetTheorems, SequenceTheorems, TLAPS

(***************************************************************************)
(* Part 1.  AutoIgnore.                                                    *)
(***************************************************************************)
Pauses == {"print", "listed", "other", "away"}
IgnoreTyped ==
  /\ passes \in Nat /\ pause \in Pauses
  /\ tries = None \/ tries \in [count : Nat \ {0}, last : Nat]
  /\ pressed \in Seq(Nat)

\* Before the newest k presses nothing was pressed for FORGET_S.
Newest(times, t, k) ==
  LET n == Len(times)
  IN /\ k <= n
     /\ IF k = 0 THEN n > 0 => t - times[n] >= ForgetAfter
        ELSE k < n => times[n - k + 1] - times[n - k] >= ForgetAfter

\* The presses of the tries that are remembered: a try whose press is due has none yet,
\* and one that ignore() refused has none at all.
Pressed == IF looked = "armed" THEN 0..(tries.count - 1) ELSE 0..tries.count

\* The tries that are remembered were counted no earlier than the newest press, and
\* before their first press nothing was pressed for FORGET_S; without any, nothing was
\* pressed for that long.  A press that is due is of a try of this pass, RETRY_S after
\* the newest press, and of a pass that did not see the maintenance mode.
Remembered ==
  LET n == Len(pressed)
  IN /\ tries = None => looked # "armed" /\ Newest(pressed, passes, 0)
     /\ tries # None =>
          /\ tries.last <= passes /\ tries.count <= Tries
          /\ n > 0 => pressed[n] <= tries.last
          /\ \E k \in Pressed : Newest(pressed, passes, k)
     /\ looked = "armed" =>
          /\ tries.last = passes /\ (working => midpass)
          /\ n > 0 => passes - pressed[n] >= Retry

\* The newest press comes RETRY_S after the one before, and of MAX_TRIES + 1 presses
\* two neighbours are FORGET_S apart.
Spaced(times, n) ==
  /\ n > 1 => times[n] - times[n - 1] >= Retry
  /\ n > Tries => \E i \in (n - Tries + 1)..n : times[i] - times[i - 1] >= ForgetAfter

-----------------------------------------------------------------------------
\* A later pass changes nothing of what is newest.
LEMMA NewestLater ==
  ASSUME IgnoreConstants, NEW times \in Seq(Nat), NEW t \in Nat, NEW k \in Nat, Newest(times, t, k)
  PROVE  Newest(times, t + 1, k)
<1>1. Len(times) \in Nat /\ (Len(times) > 0 => times[Len(times)] \in Nat)
  OBVIOUS
<1>2. ForgetAfter \in Nat
  BY DEF IgnoreConstants
<1> QED
  BY <1>1, <1>2 DEF Newest

\* A press is one more of the newest, a try apart from the one before.
LEMMA PressNewest ==
  ASSUME IgnoreConstants, NEW times \in Seq(Nat), NEW t \in Nat, NEW k \in Nat, Newest(times, t, k),
         k < Tries, Len(times) > 0 => t - times[Len(times)] >= Retry
  PROVE  Newest(Append(times, t), t, k + 1) /\ Spaced(Append(times, t), Len(times) + 1)
<1> DEFINE n == Len(times)
           more == Append(times, t)
<1>1. /\ n \in Nat /\ k <= n /\ Len(more) = n + 1 /\ more[n + 1] = t
      /\ \A i \in 1..n : more[i] = times[i] /\ times[i] \in Nat
      /\ Tries \in Nat
  BY DEF Newest, IgnoreConstants
<1>2. k < n => more[n - k + 1] - more[n - k] >= ForgetAfter
  <2>1. CASE k = 0
    <3>1. n > 0 => t - times[n] >= ForgetAfter /\ n \in 1..n /\ n - k + 1 = n + 1 /\ n - k = n
      BY <1>1, <2>1 DEF Newest
    <3> QED
      BY <1>1, <2>1, <3>1
  <2>2. CASE k # 0
    <3>1. k < n => times[n - k + 1] - times[n - k] >= ForgetAfter
      BY <2>2 DEF Newest
    <3>2. k < n => n - k + 1 \in 1..n /\ n - k \in 1..n
      <4> HIDE DEF n
      <4> QED
        BY <1>1, <2>2
    <3> QED
      BY <1>1, <3>1, <3>2
  <2> QED
    BY <2>1, <2>2
<1> HIDE DEF n, more
<1>3. Newest(more, t, k + 1)
  <2>1. (n + 1) - (k + 1) + 1 = n - k + 1 /\ (n + 1) - (k + 1) = n - k /\ (k + 1 < n + 1 <=> k < n)
        /\ k + 1 <= n + 1 /\ k + 1 # 0
    BY <1>1
  <2> QED
    BY <1>1, <1>2, <2>1 DEF Newest
<1>4. n + 1 > 1 => more[n + 1] - more[(n + 1) - 1] >= Retry
  <2>1. n + 1 > 1 => n > 0 /\ (n + 1) - 1 = n /\ n \in 1..n
    BY <1>1
  <2>2. n > 0 => t - times[n] >= Retry
    BY DEF n
  <2> QED
    BY <1>1, <2>1, <2>2
<1>5. ASSUME n + 1 > Tries
      PROVE  \E i \in ((n + 1) - Tries + 1)..(n + 1) : more[i] - more[i - 1] >= ForgetAfter
  <2>1. k < n /\ n - k + 1 \in ((n + 1) - Tries + 1)..(n + 1) /\ (n - k + 1) - 1 = n - k
    BY <1>1, <1>5
  <2>2. more[n - k + 1] - more[(n - k + 1) - 1] >= ForgetAfter
    BY <1>2, <2>1
  <2> QED
    BY <2>1, <2>2
<1>6. Spaced(more, n + 1)
  BY <1>4, <1>5 DEF Spaced
<1> QED
  BY <1>3, <1>6 DEF n, more

\* A pass begins: it may forget the tries.
LEMMA IgnorePassKeeps ==
  ASSUME IgnoreConstants, IgnoreTyped, Remembered, Ignore!Pass
  PROVE  IgnoreTyped' /\ Remembered' /\ pressed' = pressed
<1>1. /\ looked = None /\ passes' = passes + 1 /\ UNCHANGED <<pause, working, pressed>>
      /\ tries' \in {tries, None}
      /\ tries' # tries => tries # None /\ passes - tries.last >= ForgetAfter
  BY DEF Ignore!Pass, Ignore!Out, Ignore!Forgotten, Ignore!Now
<1>2. looked' \in {None, pause}
  BY <1>1 DEF Ignore!Pass, Ignore!Out
<1>3. looked' # "armed" /\ looked # "armed"
  BY <1>1, <1>2 DEF IgnoreConstants, IgnoreTyped, Pauses
<1>4. IgnoreTyped'
  BY <1>1 DEF IgnoreTyped
<1>5. passes \in Nat /\ pressed \in Seq(Nat)
  BY DEF IgnoreTyped
<1>6. CASE tries' # tries
  <2>1. tries \in [count : Nat \ {0}, last : Nat] /\ tries' = None
    BY <1>1, <1>6 DEF IgnoreTyped
  <2>2. Len(pressed) > 0 => pressed[Len(pressed)] <= tries.last /\ pressed[Len(pressed)] \in Nat
    BY <1>1, <1>5, <1>6 DEF Remembered
  <2>3. Newest(pressed, passes + 1, 0)
    BY <1>1, <1>5, <1>6, <2>1, <2>2 DEF Newest, IgnoreConstants
  <2> QED
    BY <1>1, <1>3, <1>4, <2>1, <2>3 DEF Remembered
<1>7. CASE tries' = tries /\ tries = None
  <2>1. Newest(pressed, passes, 0)
    BY <1>7 DEF Remembered
  <2>2. Newest(pressed, passes + 1, 0)
    BY <1>5, <2>1, NewestLater
  <2> QED
    BY <1>1, <1>3, <1>4, <1>7, <2>2 DEF Remembered
<1>8. CASE tries' = tries /\ tries # None
  <2>1. tries \in [count : Nat \ {0}, last : Nat] /\ tries.last \in Nat /\ tries.count \in Nat
    BY <1>8 DEF IgnoreTyped
  <2>2. PICK k \in 0..tries.count : Newest(pressed, passes, k)
    BY <1>3, <1>8 DEF Remembered, Pressed
  <2>3. Newest(pressed, passes + 1, k)
    BY <1>5, <2>1, <2>2, NewestLater
  <2>4. tries.last <= passes /\ tries.last <= passes' /\ tries.count <= Tries
        /\ (Len(pressed) > 0 => pressed[Len(pressed)] <= tries.last)
    BY <1>1, <1>5, <1>8, <2>1 DEF Remembered
  <2>5. k \in Pressed'
    BY <1>3, <1>8, <2>2 DEF Pressed
  <2> QED
    BY <1>1, <1>3, <1>4, <1>8, <2>3, <2>4, <2>5 DEF Remembered
<1> QED
  BY <1>1, <1>6, <1>7, <1>8

\* It judges what it read: the try is counted, or nothing is.
LEMMA IgnoreJudgeKeeps ==
  ASSUME IgnoreConstants, IgnoreTyped, Remembered, Ignore!Judge
  PROVE  IgnoreTyped' /\ Remembered' /\ pressed' = pressed
<1>1. looked # "armed" /\ UNCHANGED <<passes, pause, working, pressed, midpass>>
  BY DEF Ignore!Judge
<1>2. passes \in Nat /\ pressed \in Seq(Nat) /\ (Len(pressed) > 0 => pressed[Len(pressed)] \in Nat)
  BY DEF IgnoreTyped
<1>3. CASE Ignore!Held \/ Ignore!Skip
  <2>1. looked' = None /\ tries' = tries /\ looked' # "armed"
    BY <1>3 DEF Ignore!Held, Ignore!Skip, IgnoreConstants
  <2>2. Pressed' = Pressed
    BY <1>1, <2>1 DEF Pressed
  <2> QED
    BY <1>1, <2>1, <2>2 DEF IgnoreTyped, Remembered
<1>4. CASE ~working /\ Ignore!ShouldIgnore /\ Ignore!Arm
  <2>1. /\ looked' = "armed" /\ tries' = [count |-> Ignore!Count + 1, last |-> passes]
        /\ Ignore!Count < Tries /\ (Ignore!Count > 0 => passes - tries.last >= Retry) /\ ~working
    BY <1>4 DEF Ignore!Arm, Ignore!ShouldIgnore, Ignore!Now
  <2>2. Ignore!Count \in Nat /\ Retry \in Nat /\ Retry <= ForgetAfter /\ ForgetAfter \in Nat /\ Tries \in Nat
    BY DEF Ignore!Count, IgnoreTyped, IgnoreConstants
  <2>3. tries' \in [count : Nat \ {0}, last : Nat] /\ tries' # None
        /\ tries'.count = Ignore!Count + 1 /\ tries'.last = passes
    BY <1>2, <2>1, <2>2 DEF IgnoreConstants
  <2>4. /\ \E k \in 0..Ignore!Count : Newest(pressed, passes, k)
        /\ Len(pressed) > 0 => passes - pressed[Len(pressed)] >= Retry /\ pressed[Len(pressed)] <= passes
    <3>1. CASE tries = None
      <4>1. Ignore!Count = 0 /\ Newest(pressed, passes, 0)
        BY <3>1 DEF Ignore!Count, Remembered
      <4>2. Len(pressed) > 0 => passes - pressed[Len(pressed)] >= ForgetAfter
        BY <4>1 DEF Newest
      <4> QED
        BY <1>2, <2>2, <4>1, <4>2
    <3>2. CASE tries # None
      <4>1. Ignore!Count = tries.count /\ tries.count > 0 /\ tries.last \in Nat
        BY <3>2 DEF Ignore!Count, IgnoreTyped
      <4>2. \E k \in 0..tries.count : Newest(pressed, passes, k)
        BY <1>1, <3>2 DEF Remembered, Pressed
      <4>3. (Len(pressed) > 0 => pressed[Len(pressed)] <= tries.last) /\ tries.last <= passes
        BY <3>2 DEF Remembered
      <4> QED
        BY <1>2, <2>1, <2>2, <4>1, <4>2, <4>3
    <3> QED
      BY <3>1, <3>2
  <2>5. Pressed' = 0..Ignore!Count
    <3>1. tries'.count - 1 = Ignore!Count
      BY <2>2, <2>3
    <3> QED
      BY <2>1, <3>1 DEF Pressed
  <2>6. tries'.count <= Tries /\ passes <= passes
    BY <1>2, <2>1, <2>2, <2>3
  <2>7. IgnoreTyped'
    BY <1>1, <2>3 DEF IgnoreTyped
  <2> QED
    BY <1>1, <2>1, <2>3, <2>4, <2>5, <2>6, <2>7 DEF Remembered
<1>5. \/ Ignore!Held \/ Ignore!Skip
      \/ ~working /\ Ignore!ShouldIgnore /\ Ignore!Arm
  BY DEF Ignore!Judge
<1> QED
  BY <1>1, <1>3, <1>4, <1>5

\* The press.
LEMMA IgnorePressKeeps ==
  ASSUME IgnoreConstants, IgnoreTyped, Remembered, Ignore!Press
  PROVE  /\ IgnoreTyped' /\ Remembered'
         /\ pressed' # pressed =>
              pause = "listed" /\ (working => midpass) /\ Spaced(pressed', Len(pressed'))
<1>1. looked = "armed" /\ looked' = None /\ UNCHANGED <<passes, tries, working>> /\ looked' # "armed"
  BY DEF Ignore!Press, IgnoreConstants
<1>2. /\ tries \in [count : Nat \ {0}, last : Nat] /\ tries # None /\ tries.count \in Nat
      /\ passes \in Nat /\ pressed \in Seq(Nat) /\ Len(pressed) \in Nat /\ Tries \in Nat
  BY <1>1 DEF Remembered, IgnoreTyped, IgnoreConstants
<1>3. /\ tries.last = passes /\ (working => midpass) /\ tries.count <= Tries
      /\ Len(pressed) > 0 => passes - pressed[Len(pressed)] >= Retry /\ pressed[Len(pressed)] <= passes
  BY <1>1, <1>2 DEF Remembered
<1>4. PICK k \in 0..(tries.count - 1) : Newest(pressed, passes, k)
  BY <1>1, <1>2 DEF Remembered, Pressed
<1>5. k \in Nat /\ k < Tries /\ k + 1 \in 0..tries.count /\ k \in 0..tries.count
  BY <1>2, <1>3, <1>4
<1>6. Pressed' = 0..tries.count
  BY <1>1 DEF Pressed
<1>7. CASE pause = "listed"
  <2>1. pressed' = Append(pressed, passes) /\ pause' \in Pauses
    BY <1>7 DEF Ignore!Press, Ignore!Now, Pauses
  <2>2. Newest(pressed', passes, k + 1) /\ Spaced(pressed', Len(pressed) + 1)
    BY <1>2, <1>3, <1>4, <1>5, <2>1, PressNewest
  <2>3. Len(pressed') = Len(pressed) + 1 /\ pressed'[Len(pressed')] = passes /\ pressed' \in Seq(Nat)
    BY <1>2, <2>1
  <2>4. IgnoreTyped'
    BY <1>1, <2>1, <2>3 DEF IgnoreTyped
  <2>5. Remembered'
    <3>1. \E i \in Pressed' : Newest(pressed', passes, i)
      BY <1>5, <1>6, <2>2
    <3>2. passes <= passes
      BY <1>2
    <3> QED
      BY <1>1, <1>2, <1>3, <2>3, <3>1, <3>2 DEF Remembered
  <2> QED
    BY <1>3, <1>7, <2>2, <2>3, <2>4, <2>5
<1>8. CASE pause # "listed"
  <2>1. pressed' = pressed /\ pause' = pause
    BY <1>8 DEF Ignore!Press
  <2>2. IgnoreTyped'
    BY <1>1, <2>1 DEF IgnoreTyped
  <2>3. \E i \in Pressed' : Newest(pressed, passes, i)
    BY <1>4, <1>5, <1>6
  <2>4. passes <= passes
    BY <1>2
  <2> QED
    BY <1>1, <1>2, <1>3, <2>1, <2>2, <2>3, <2>4 DEF Remembered
<1> QED
  BY <1>7, <1>8

\* The store, the printer, the admin and the program move.
LEMMA IgnoreWorldKeeps ==
  ASSUME IgnoreConstants, IgnoreTyped, Remembered, Ignore!Store \/ Ignore!Move \/ UNCHANGED Ignore!vars
  PROVE  IgnoreTyped' /\ Remembered' /\ (pressed' = pressed \/ pressed' = <<>>)
<1>1. CASE UNCHANGED <<passes, looked, tries, working, pressed, midpass>> /\ pause' \in Pauses
  <2>1. Pressed' = Pressed
    BY <1>1 DEF Pressed
  <2> QED
    BY <1>1, <2>1 DEF IgnoreTyped, Remembered
<1>2. CASE UNCHANGED <<passes, pause, looked, tries, pressed>> /\ midpass' = (looked = "armed")
  <2>1. Pressed' = Pressed
    BY <1>2 DEF Pressed
  <2> QED
    BY <1>2, <2>1 DEF IgnoreTyped, Remembered
<1>3. CASE UNCHANGED <<passes, pause>> /\ tries' = None /\ pressed' = <<>> /\ looked' = None
  <2>1. Len(pressed') = 0 /\ pressed' \in Seq(Nat) /\ looked' # "armed"
    BY <1>3 DEF IgnoreConstants
  <2>2. Newest(pressed', passes', 0)
    BY <1>3, <2>1 DEF Newest
  <2> QED
    BY <1>3, <2>1, <2>2 DEF IgnoreTyped, Remembered
<1>4. \/ UNCHANGED <<passes, looked, tries, working, pressed, midpass>> /\ pause' \in Pauses
      \/ UNCHANGED <<passes, pause, looked, tries, pressed>> /\ midpass' = (looked = "armed")
      \/ UNCHANGED <<passes, pause>> /\ tries' = None /\ pressed' = <<>> /\ looked' = None
  <2>1. CASE Ignore!Store
    BY <2>1 DEF Ignore!Store, IgnoreTyped
  <2>2. CASE Ignore!Move
    BY <2>2, Zenon DEF Ignore!Move, IgnoreTyped, Pauses
  <2>3. CASE UNCHANGED Ignore!vars
    BY <2>3 DEF Ignore!vars, IgnoreTyped
  <2> QED
    BY <2>1, <2>2, <2>3
<1> QED
  BY <1>1, <1>2, <1>3, <1>4

LEMMA IgnoreStep ==
  ASSUME IgnoreConstants, IgnoreTyped, Remembered, [Ignore!Next]_(Ignore!vars)
  PROVE  /\ IgnoreTyped' /\ Remembered'
         /\ pressed' # pressed /\ pressed' # <<>> =>
              pause = "listed" /\ (working => midpass) /\ Spaced(pressed', Len(pressed'))
<1>1. CASE Ignore!Pass
  BY <1>1, IgnorePassKeeps
<1>2. CASE Ignore!Judge
  BY <1>2, IgnoreJudgeKeeps
<1>3. CASE Ignore!Press
  BY <1>3, IgnorePressKeeps
<1>4. CASE Ignore!Store \/ Ignore!Move \/ UNCHANGED Ignore!vars
  BY <1>4, IgnoreWorldKeeps
<1> QED
  BY <1>1, <1>2, <1>3, <1>4 DEF Ignore!Next

\* A pause that comes back at once is not waved through for ever: presses are RETRY_S
\* apart, MAX_TRIES of them are followed by FORGET_S without one, none is on another
\* code and none falls into a maintenance mode that was on when its pass read it.
THEOREM PressesAreSpaced == ASSUME IgnoreConstants PROVE Ignore!Spec => Ignore!NoStorm
<1>1. Ignore!Init => IgnoreTyped /\ Remembered
  BY DEF Ignore!Init, IgnoreTyped, Pauses, Remembered, Newest, IgnoreConstants
<1>2. IgnoreTyped /\ Remembered /\ [Ignore!Next]_(Ignore!vars) => IgnoreTyped' /\ Remembered'
  BY IgnoreStep
<1>3. IgnoreTyped /\ Remembered /\ [Ignore!Next]_(Ignore!vars) =>
        [pressed' # pressed /\ pressed' # <<>> =>
           /\ pause = "listed" /\ (working => midpass)
           /\ LET times == pressed'
                  n == Len(times)
              IN /\ n > 1 => times[n] - times[n - 1] >= Retry
                 /\ n > Tries => \E i \in (n - Tries + 1)..n : times[i] - times[i - 1] >= ForgetAfter]_(Ignore!vars)
  BY IgnoreStep DEF Spaced
<1> QED
  BY <1>1, <1>2, <1>3, PTL DEF Ignore!Spec, Ignore!NoStorm

\* The types of the automatic presses: a try that is remembered was counted, and is not
\* of the future.
THEOREM IgnoreTypeCorrect == ASSUME IgnoreConstants PROVE Ignore!Spec => []Ignore!TypeOK
<1> DEFINE Known == tries = None \/ tries \in [count : Nat \ {0}, last : Nat]
           Inv == Known /\ Ignore!TypeOK
<1>1. Ignore!Init => Inv
  BY DEF Ignore!Init, Ignore!TypeOK, IgnoreConstants
<1>2. Inv /\ [Ignore!Next]_(Ignore!vars) => Inv'
  <2> SUFFICES ASSUME Inv, [Ignore!Next]_(Ignore!vars) PROVE Inv'
    OBVIOUS
  <2>0. /\ passes \in 0..MaxPasses /\ moves \in 0..MaxMoves /\ skips \subseteq {"maintenance", "tries_used"}
        /\ tries # None => tries.count > 0 /\ tries.last <= passes
        /\ MaxPasses \in Nat /\ MaxMoves \in Nat /\ None \notin [count : Nat, last : Nat]
    BY DEF Ignore!TypeOK, IgnoreConstants
  <2>1. CASE Ignore!Pass
    <3>1. passes' = passes + 1 /\ passes' \in 0..MaxPasses /\ moves' = moves
      BY <2>0, <2>1 DEF Ignore!Pass
    <3>2. tries' \in {tries, None} /\ skips' \in {skips, {}}
      BY <2>1 DEF Ignore!Pass, Ignore!Out
    <3> QED
      BY <2>0, <3>1, <3>2 DEF Ignore!TypeOK
  <2>4. CASE Ignore!Judge
    <3>1. UNCHANGED <<passes, moves>>
      BY <2>4 DEF Ignore!Judge
    <3>2. \/ UNCHANGED tries /\ (Ignore!Held \/ Ignore!Skip)
          \/ Ignore!Arm
      BY <2>4, Zenon DEF Ignore!Judge, Ignore!Held, Ignore!Skip
    <3>3. tries' = tries \/ (tries' = [count |-> Ignore!Count + 1, last |-> passes] /\ Ignore!Count \in Nat)
      BY <2>0, <3>2 DEF Ignore!Arm, Ignore!Now, Ignore!Count
    <3>4. skips' \subseteq {"maintenance", "tries_used"}
      BY <2>0, <3>2 DEF Ignore!Arm, Ignore!Held, Ignore!Skip, Ignore!SkipReason
    <3>5. Known' /\ (tries' # None => tries'.count > 0 /\ tries'.last <= passes')
      BY <2>0, <3>1, <3>3
    <3> QED
      BY <3>1, <3>4, <3>5, <2>0 DEF Ignore!TypeOK
  <2>5. CASE Ignore!Press
    BY <2>0, <2>5 DEF Ignore!Press, Ignore!TypeOK
  <2>2. CASE Ignore!Store \/ UNCHANGED Ignore!vars
    BY <2>0, <2>2 DEF Ignore!Store, Ignore!vars, Ignore!TypeOK
  <2>3. CASE Ignore!Move
    <3>1. moves' \in 0..MaxMoves /\ passes' = passes
      BY <2>0, <2>3 DEF Ignore!Move
    <3>2. UNCHANGED <<tries, skips>> \/ (tries' = None /\ skips' = {})
      BY <2>3 DEF Ignore!Move
    <3> QED
      BY <2>0, <3>1, <3>2 DEF Ignore!TypeOK
  <2> QED
    BY <2>1, <2>2, <2>3, <2>4, <2>5 DEF Ignore!Next
<1>3. Inv => Ignore!TypeOK
  OBVIOUS
<1> QED
  BY <1>1, <1>2, <1>3, PTL DEF Ignore!Spec

(***************************************************************************)
(* Part 2.  PrinterLink.                                                   *)
(***************************************************************************)
\* Before its connection there is no thread; a bridge that connects has no listener, one
\* that has started has one unless the link is being closed, and without a bridge a
\* listener is missing only when it died or could not be made.
Bridged ==
  /\ ~connected => bridge = None /\ listener = None
  /\ bridge = "connecting" => listener # "alive"
  /\ bridge = "started" => listener = "alive" \/ closed
  /\ connected /\ bridge = None /\ listener = None => failed \/ closed
  /\ closed <=> closing # None
  /\ closing = "done" /\ listener = "alive" => bridge = "started"

\* The wait for a rebuild: what was waited and what is left of it fit REBUILD_BACKOFF.
Awaited ==
  /\ due = None => waited = 0
  /\ due # None => waited + due <= Backoff + 1

\* A streak is reported while it lasts, and counts every attempt without an answer.
Streak == (told <=> refused) /\ (refused => quiet = unanswered)

LinkInv == Link!TypeOK /\ stray = 0 /\ Bridged /\ Awaited /\ Streak

-----------------------------------------------------------------------------
\* The bridge and the listener: no step leaves two listeners, or none with nobody to
\* make one.
LEMMA LinkBridged ==
  ASSUME LinkConstants, LinkInv, [Link!Next]_(Link!vars)
  PROVE  stray' = 0 /\ Bridged'
<1>0. /\ stray = 0 /\ Bridged
      /\ None \notin {"clearing", "connecting", "started", "alive", "dead", "joining", "done"}
      /\ bridge \in {None, "clearing", "connecting", "started"}
      /\ listener \in {None, "alive", "dead"} /\ closing \in {None, "joining", "done"}
      /\ closed \in BOOLEAN /\ connected \in BOOLEAN /\ failed \in BOOLEAN
  BY DEF LinkInv, LinkConstants, Link!TypeOK
<1>1. CASE Link!Connect \/ Link!BridgeClears \/ Link!BridgeConnects
  BY <1>0, <1>1 DEF Link!Connect, Link!MayConnect, Link!BridgeClears, Link!BridgeConnects, Bridged
<1>2. CASE Link!BridgeFails \/ Link!BridgeEnds
  BY <1>0, <1>2 DEF Link!BridgeFails, Link!BridgeEnds, Link!LeavesNone, Link!Ended, Bridged
<1>3. CASE Link!FetchLive \/ Link!LogsIn \/ Link!LoginRefused \/ Link!AttemptFails \/ UNCHANGED Link!vars
  <2>1. UNCHANGED <<connected, closed, bridge, failed, listener, stray, closing>>
    BY <1>3 DEF Link!FetchLive, Link!LogsIn, Link!LoginRefused, Link!AttemptFails, Link!threads, Link!vars
  <2> QED
    BY <1>0, <2>1 DEF Bridged
<1>4. CASE Link!FetchDead
  BY <1>0, <1>4 DEF Link!FetchDead, Link!Dead, Bridged
<1>5. CASE Link!CloseBegins \/ Link!CloseEnds \/ Link!ListenerDies
  BY <1>0, <1>5 DEF Link!CloseBegins, Link!CloseEnds, Link!ListenerDies, Link!Ended, Bridged
<1> QED
  BY <1>1, <1>2, <1>3, <1>4, <1>5, Zenon DEF Link!Next

\* The wait for the rebuild.
LEMMA LinkAwaited ==
  ASSUME LinkConstants, LinkInv, [Link!Next]_(Link!vars)
  PROVE  /\ Awaited' /\ due' \in 0..Backoff \cup {None} /\ waited' \in 0..(Backoff + 1)
         /\ attempt' \in 0..(Backoff + 1)
<1>0. /\ due \in 0..Backoff \cup {None} /\ waited \in Nat /\ attempt \in 0..(Backoff + 1)
      /\ Backoff \in Nat /\ None \notin Nat
      /\ due = None => waited = 0
      /\ due # None => waited + due <= Backoff + 1
  BY DEF LinkInv, LinkConstants, Link!TypeOK, Awaited
<1>1. CASE Link!FetchLive
  BY <1>0, <1>1 DEF Link!FetchLive, Awaited
<1>2. CASE Link!FetchDead
  <2>1. \/ due = None /\ due' = Link!Delay /\ waited' = waited + 1 /\ attempt' = attempt
        \/ due # None /\ due > 0 /\ due' = due - 1 /\ waited' = waited + 1 /\ attempt' = attempt
        \/ due' = None /\ waited' = 0 /\ attempt' = IF attempt <= Backoff THEN attempt + 1 ELSE attempt
    BY <1>0, <1>2 DEF Link!FetchDead
  <2>2. Link!Delay \in 0..Backoff
    BY <1>0 DEF Link!Delay
  <2> QED
    BY <1>0, <2>1, <2>2 DEF Awaited
<1>3. UNCHANGED <<due, waited, attempt>> \/ Link!FetchLive \/ Link!FetchDead
  BY DEF Link!Next, Link!vars, Link!Connect, Link!BridgeClears, Link!BridgeConnects, Link!BridgeFails, Link!BridgeEnds,
         Link!CloseBegins, Link!CloseEnds, Link!LogsIn, Link!LoginRefused, Link!AttemptFails, Link!ListenerDies
<1>4. CASE UNCHANGED <<due, waited, attempt>>
  BY <1>0, <1>4 DEF Awaited
<1> QED
  BY <1>1, <1>2, <1>3, <1>4

\* The streak of refused logins.
LEMMA LinkStreak ==
  ASSUME LinkConstants, LinkInv, [Link!Next]_(Link!vars)
  PROVE  /\ Streak' /\ told' \in BOOLEAN /\ refused' \in BOOLEAN
         /\ quiet' \in 0..StreakEnd /\ unanswered' \in 0..StreakEnd /\ loginCap' \in {"lib", "outage", "refused"}
         /\ told /\ ~told' => quiet' = 0 \/ quiet' >= StreakEnd
<1>0. /\ told \in BOOLEAN /\ refused \in BOOLEAN /\ StreakEnd \in Nat
      /\ quiet \in 0..StreakEnd /\ unanswered \in 0..StreakEnd /\ loginCap \in {"lib", "outage", "refused"}
      /\ told <=> refused
      /\ refused => quiet = unanswered
  BY DEF LinkInv, LinkConstants, Link!TypeOK, Streak
<1>1. \/ UNCHANGED <<told, refused, quiet, unanswered, loginCap>>
      \/ Link!AttemptFails
      \/ ~told' /\ ~refused' /\ told' \in BOOLEAN /\ refused' \in BOOLEAN /\ quiet' = 0 /\ unanswered' = 0
         /\ loginCap' \in {"lib", "outage"}
      \/ told' = TRUE /\ refused' = TRUE /\ quiet' = 0 /\ unanswered' = 0 /\ loginCap' = "refused"
  BY DEF Link!Next, Link!vars, Link!Connect, Link!BridgeClears, Link!BridgeConnects, Link!BridgeFails, Link!BridgeEnds,
         Link!FetchLive, Link!FetchDead, Link!CloseBegins, Link!CloseEnds, Link!LogsIn, Link!LoginRefused,
         Link!ListenerDies, Link!login, Link!EndsStreak
<1>2. CASE Link!AttemptFails
  <2>1. CASE ~refused \/ unanswered + 1 >= StreakEnd
    <3>1. /\ refused' = FALSE /\ unanswered' = 0 /\ loginCap' = "outage" /\ told' = FALSE
          /\ quiet' = IF quiet < StreakEnd THEN quiet + 1 ELSE quiet
      BY <1>2, <2>1 DEF Link!AttemptFails, Link!StreakOver, Link!EndsStreak
    <3> QED
      <4>1. quiet' \in 0..StreakEnd /\ unanswered' \in 0..StreakEnd
        BY <1>0, <3>1
      <4>2. told => quiet' = 0 \/ quiet' >= StreakEnd
        BY <1>0, <2>1, <3>1
      <4> QED
        BY <3>1, <4>1, <4>2 DEF Streak
  <2>2. CASE ~(~refused \/ unanswered + 1 >= StreakEnd)
    <3>1. unanswered' = unanswered + 1 /\ quiet' = quiet + 1 /\ UNCHANGED <<refused, loginCap, told>>
      BY <1>2, <2>2 DEF Link!AttemptFails, Link!StreakOver
    <3> QED
      BY <1>0, <2>2, <3>1 DEF Streak
  <2> QED
    BY <2>1, <2>2
<1>3. CASE UNCHANGED <<told, refused, quiet, unanswered, loginCap>>
  BY <1>0, <1>3 DEF Streak
<1>4. CASE ~told' /\ ~refused' /\ told' \in BOOLEAN /\ refused' \in BOOLEAN /\ quiet' = 0 /\ unanswered' = 0
           /\ loginCap' \in {"lib", "outage"}
  BY <1>0, <1>4 DEF Streak
<1>5. CASE told' = TRUE /\ refused' = TRUE /\ quiet' = 0 /\ unanswered' = 0 /\ loginCap' = "refused"
  BY <1>0, <1>5 DEF Streak
<1> QED
  BY <1>1, <1>2, <1>3, <1>4, <1>5

\* What is left of the types.
LEMMA LinkTypes ==
  ASSUME LinkConstants, LinkInv, [Link!Next]_(Link!vars)
  PROVE  /\ connected' \in BOOLEAN /\ closed' \in BOOLEAN /\ failed' \in BOOLEAN /\ online' \in BOOLEAN
         /\ bridge' \in {None, "clearing", "connecting", "started"}
         /\ listener' \in {None, "alive", "dead"} /\ closing' \in {None, "joining", "done"}
<1>0. /\ connected \in BOOLEAN /\ closed \in BOOLEAN /\ failed \in BOOLEAN /\ online \in BOOLEAN
      /\ bridge \in {None, "clearing", "connecting", "started"}
      /\ listener \in {None, "alive", "dead"} /\ closing \in {None, "joining", "done"}
  BY DEF LinkInv, LinkConstants, Link!TypeOK
<1>1. CASE Link!Connect \/ Link!BridgeClears \/ Link!BridgeConnects
  BY <1>0, <1>1 DEF Link!Connect, Link!BridgeClears, Link!BridgeConnects
<1>2. CASE Link!BridgeFails \/ Link!BridgeEnds
  BY <1>0, <1>2 DEF Link!BridgeFails, Link!BridgeEnds, Link!Ended
<1>3. CASE Link!FetchLive \/ Link!FetchDead
  BY <1>0, <1>3 DEF Link!FetchLive, Link!FetchDead, Link!threads
<1>4. CASE Link!CloseBegins \/ Link!CloseEnds \/ Link!ListenerDies
  BY <1>0, <1>4 DEF Link!CloseBegins, Link!CloseEnds, Link!ListenerDies, Link!Ended
<1>5. CASE Link!LogsIn \/ Link!LoginRefused \/ Link!AttemptFails
  BY <1>0, <1>5 DEF Link!LogsIn, Link!LoginRefused, Link!AttemptFails, Link!threads
<1>6. CASE UNCHANGED Link!vars
  BY <1>0, <1>6 DEF Link!vars
<1> QED
  BY <1>1, <1>2, <1>3, <1>4, <1>5, <1>6, Zenon DEF Link!Next

LEMMA LinkEvents ==
  ASSUME LinkConstants, LinkInv, [Link!Next]_(Link!vars)
  PROVE  events' \in 0..MaxEvents
<1>1. events \in 0..MaxEvents /\ MaxEvents \in Nat
  BY DEF LinkInv, LinkConstants, Link!TypeOK
<1>2. UNCHANGED events \/ (events < MaxEvents /\ events' = events + 1)
  BY DEF Link!Next, Link!vars, Link!Connect, Link!BridgeClears, Link!BridgeConnects, Link!BridgeFails, Link!BridgeEnds,
         Link!FetchLive, Link!FetchDead, Link!CloseBegins, Link!CloseEnds, Link!LogsIn, Link!LoginRefused,
         Link!AttemptFails, Link!ListenerDies, Link!Happens
<1> QED
  BY <1>1, <1>2

LEMMA LinkInvariant == ASSUME LinkConstants PROVE Link!Spec => []LinkInv
<1>1. Link!Init => LinkInv
  <2> SUFFICES ASSUME Link!Init PROVE LinkInv
    OBVIOUS
  <2>1. Bridged /\ Streak /\ stray = 0
    BY DEF Link!Init, Bridged, Streak, LinkConstants
  <2>2. Awaited
    BY DEF Link!Init, Awaited, LinkConstants
  <2>3. /\ attempt \in 0..(Backoff + 1) /\ due \in 0..Backoff \cup {None} /\ waited \in 0..(Backoff + 2)
        /\ unanswered \in 0..StreakEnd /\ quiet \in 0..StreakEnd /\ events \in 0..MaxEvents /\ stray \in 0..2
    BY DEF Link!Init, LinkConstants
  <2>4. Link!TypeOK
    BY <2>3 DEF Link!Init, Link!TypeOK
  <2> QED
    BY <2>1, <2>2, <2>4 DEF LinkInv
<1>2. LinkInv /\ [Link!Next]_(Link!vars) => LinkInv'
  <2> SUFFICES ASSUME LinkInv, [Link!Next]_(Link!vars) PROVE LinkInv'
    OBVIOUS
  <2>1. stray' = 0 /\ Bridged'
    BY LinkBridged
  <2>2. /\ Awaited' /\ due' \in 0..Backoff \cup {None} /\ waited' \in 0..(Backoff + 1)
        /\ attempt' \in 0..(Backoff + 1)
    BY LinkAwaited
  <2>3. waited' \in 0..(Backoff + 2)
    BY <2>2 DEF LinkConstants
  <2>4. /\ Streak' /\ told' \in BOOLEAN /\ refused' \in BOOLEAN
        /\ quiet' \in 0..StreakEnd /\ unanswered' \in 0..StreakEnd /\ loginCap' \in {"lib", "outage", "refused"}
    BY LinkStreak
  <2>5. Link!TypeOK'
    BY <2>1, <2>2, <2>3, <2>4, LinkTypes, LinkEvents DEF Link!TypeOK
  <2> QED
    BY <2>1, <2>2, <2>4, <2>5 DEF LinkInv
<1> QED
  BY <1>1, <1>2, PTL DEF Link!Spec

\* The types of a printer's link: attempts, waits and refused logins stay within their
\* bounds.
THEOREM LinkTypeCorrect == ASSUME LinkConstants PROVE Link!Spec => []Link!TypeOK
<1>1. LinkInv => Link!TypeOK
  BY DEF LinkInv
<1> QED
  BY <1>1, LinkInvariant, PTL

\* No listener runs beside the client's own, and close() leaves none.
THEOREM ListenersAreOne == ASSUME LinkConstants PROVE Link!Spec => []Link!OneListener
<1>1. LinkInv => Link!OneListener
  BY DEF LinkInv, Bridged, Link!OneListener, LinkConstants
<1> QED
  BY <1>1, LinkInvariant, PTL

\* A link without a listener is on its way to a new one, within REBUILD_BACKOFF.
THEOREM LinksAreRebuilt == ASSUME LinkConstants PROVE Link!Spec => []Link!Rebuilt
<1>1. LinkInv => Link!Rebuilt
  <2> SUFFICES ASSUME LinkInv, connected, ~closed, bridge = None, listener # "alive"
               PROVE  Link!Dead /\ waited <= Backoff + 1
    BY DEF Link!Rebuilt
  <2>1. Link!Dead
    BY DEF LinkInv, Bridged, Link!Dead, Link!TypeOK, LinkConstants
  <2>2. waited <= Backoff + 1
    BY DEF LinkInv, Awaited, Link!TypeOK, LinkConstants
  <2> QED
    BY <2>1, <2>2
<1> QED
  BY <1>1, LinkInvariant, PTL

\* A streak of refused logins is reported once, until it is over.
THEOREM StreaksAreKept == ASSUME LinkConstants PROVE Link!Spec => Link!StreakKept
<1>1. LinkInv /\ [Link!Next]_(Link!vars) =>
        [told /\ ~told' => quiet' = 0 \/ quiet' >= StreakEnd]_(Link!vars)
  BY LinkStreak
<1> QED
  BY <1>1, LinkInvariant, PTL DEF Link!Spec, Link!StreakKept

(***************************************************************************)
(* Part 3.  KlipperHost.  What is on its way is described by the sets of   *)
(* messages that are in it, so that a handler is one step: a message is    *)
(* taken from the front, its answers are appended.                         *)
(***************************************************************************)
Msgs == [kind : {"status", "why", "objects"}, state : Host!States \cup {None}]
        \cup [kind : {"notice"}, state : {"ready", "shutdown", "gone"}]
        \cup [kind : {"info"}, state : Host!States]

\* The messages that make the client show k, and those that make it show another state.
Says(k) == {m \in Msgs : m.kind # "objects" /\ m.state = k /\ (m.kind = "why" => k # "ready")}
Denies(k) == {m \in Msgs : m.kind # "objects" /\ m.state \in Host!States \ {k} /\ (m.kind = "why" => m.state # "ready")}
Statuses == {m \in Msgs : m.kind = "status"}
Recent == {m \in Msgs : m.kind \in {"status", "notice", "info"}}
PinAnswers == {m \in Msgs : m.kind = "objects"}
PinsKnown == {m \in Msgs : m.kind = "objects" /\ m.state = "ready"}
Readies == {m \in Msgs : m.kind = "notice" /\ m.state = "ready"}

Has(w, S) == \E n \in DOMAIN w : w[n] \in S
\* One of S is on its way, and behind it none of T.
Ends(w, S, T) == \E n \in DOMAIN w : w[n] \in S /\ \A m \in DOMAIN w : m > n => w[m] \notin T

-----------------------------------------------------------------------------
LEMMA HasAppended ==
  ASSUME NEW w \in Seq(Msgs), NEW a \in Seq(Msgs), NEW S
  PROVE  Has(w \o a, S) <=> Has(w, S) \/ Has(a, S)
<1>1. /\ Len(w \o a) = Len(w) + Len(a) /\ Len(w) \in Nat /\ Len(a) \in Nat
      /\ DOMAIN w = 1..Len(w) /\ DOMAIN a = 1..Len(a) /\ DOMAIN (w \o a) = 1..(Len(w) + Len(a))
      /\ \A n \in 1..(Len(w) + Len(a)) : (w \o a)[n] = IF n <= Len(w) THEN w[n] ELSE a[n - Len(w)]
  OBVIOUS
<1>2. ASSUME Has(w \o a, S) PROVE Has(w, S) \/ Has(a, S)
  <2>1. PICK n \in 1..(Len(w) + Len(a)) : (w \o a)[n] \in S
    BY <1>1, <1>2 DEF Has
  <2>2. CASE n <= Len(w)
    BY <1>1, <2>1, <2>2 DEF Has
  <2>3. CASE n > Len(w)
    <3>1. n - Len(w) \in 1..Len(a)
      BY <1>1, <2>3
    <3> QED
      BY <1>1, <2>1, <2>3, <3>1 DEF Has
  <2> QED
    BY <1>1, <2>2, <2>3
<1>3. ASSUME Has(w, S) PROVE Has(w \o a, S)
  BY <1>1, <1>3 DEF Has
<1>4. ASSUME Has(a, S) PROVE Has(w \o a, S)
  <2>1. PICK n \in 1..Len(a) : a[n] \in S
    BY <1>1, <1>4 DEF Has
  <2>2. n + Len(w) \in 1..(Len(w) + Len(a)) /\ (n + Len(w)) - Len(w) = n /\ ~(n + Len(w) <= Len(w))
    BY <1>1
  <2> QED
    BY <1>1, <2>1, <2>2 DEF Has
<1> QED
  BY <1>2, <1>3, <1>4

LEMMA HasTaken ==
  ASSUME NEW w \in Seq(Msgs), w # <<>>, NEW S
  PROVE  Has(w, S) <=> Head(w) \in S \/ Has(Tail(w), S)
<1>1. /\ Len(w) \in Nat /\ Len(w) > 0 /\ DOMAIN w = 1..Len(w) /\ Head(w) = w[1]
      /\ DOMAIN Tail(w) = 1..(Len(w) - 1) /\ \A n \in 1..(Len(w) - 1) : Tail(w)[n] = w[n + 1]
  OBVIOUS
<1>2. ASSUME Has(w, S), Head(w) \notin S PROVE Has(Tail(w), S)
  <2>1. PICK n \in 1..Len(w) : w[n] \in S
    BY <1>1, <1>2 DEF Has
  <2>2. n # 1
    BY <1>1, <1>2, <2>1
  <2>3. n - 1 \in 1..(Len(w) - 1) /\ (n - 1) + 1 = n
    BY <1>1, <2>2
  <2> QED
    BY <1>1, <2>1, <2>3 DEF Has
<1>3. ASSUME Head(w) \in S PROVE Has(w, S)
  BY <1>1, <1>3 DEF Has
<1>4. ASSUME Has(Tail(w), S) PROVE Has(w, S)
  <2>1. PICK n \in 1..(Len(w) - 1) : Tail(w)[n] \in S
    BY <1>1, <1>4 DEF Has
  <2>2. n + 1 \in 1..Len(w)
    BY <1>1
  <2> QED
    BY <1>1, <2>1, <2>2 DEF Has
<1> QED
  BY <1>2, <1>3, <1>4

LEMMA EndsAppended ==
  ASSUME NEW w \in Seq(Msgs), NEW a \in Seq(Msgs), NEW S, NEW T
  PROVE  /\ Ends(w, S, T) /\ ~Has(a, T) => Ends(w \o a, S, T)
         /\ Ends(a, S, T) => Ends(w \o a, S, T)
<1>1. /\ Len(w) \in Nat /\ Len(a) \in Nat
      /\ DOMAIN w = 1..Len(w) /\ DOMAIN a = 1..Len(a) /\ DOMAIN (w \o a) = 1..(Len(w) + Len(a))
      /\ \A n \in 1..(Len(w) + Len(a)) : (w \o a)[n] = IF n <= Len(w) THEN w[n] ELSE a[n - Len(w)]
  OBVIOUS
<1>2. ASSUME Ends(w, S, T), ~Has(a, T) PROVE Ends(w \o a, S, T)
  <2>1. PICK n \in 1..Len(w) : w[n] \in S /\ \A m \in 1..Len(w) : m > n => w[m] \notin T
    BY <1>1, <1>2 DEF Ends
  <2>2. n \in 1..(Len(w) + Len(a)) /\ (w \o a)[n] \in S
    BY <1>1, <2>1
  <2>3. ASSUME NEW m \in 1..(Len(w) + Len(a)), m > n PROVE (w \o a)[m] \notin T
    <3>1. CASE m <= Len(w)
      BY <1>1, <2>1, <2>3, <3>1
    <3>2. CASE m > Len(w)
      <4>1. m - Len(w) \in 1..Len(a)
        BY <1>1, <3>2
      <4> QED
        BY <1>1, <1>2, <3>2, <4>1 DEF Has
    <3> QED
      BY <1>1, <3>1, <3>2
  <2> QED
    BY <1>1, <2>2, <2>3 DEF Ends
<1>3. ASSUME Ends(a, S, T) PROVE Ends(w \o a, S, T)
  <2>1. PICK n \in 1..Len(a) : a[n] \in S /\ \A m \in 1..Len(a) : m > n => a[m] \notin T
    BY <1>1, <1>3 DEF Ends
  <2>2. /\ n + Len(w) \in 1..(Len(w) + Len(a)) /\ (n + Len(w)) - Len(w) = n /\ ~(n + Len(w) <= Len(w))
    BY <1>1
  <2>3. (w \o a)[n + Len(w)] \in S
    BY <1>1, <2>1, <2>2
  <2>4. ASSUME NEW m \in 1..(Len(w) + Len(a)), m > n + Len(w) PROVE (w \o a)[m] \notin T
    <3>1. m - Len(w) \in 1..Len(a) /\ m - Len(w) > n /\ ~(m <= Len(w))
      BY <1>1, <2>4
    <3> QED
      BY <1>1, <2>1, <3>1
  <2> QED
    BY <1>1, <2>2, <2>3, <2>4 DEF Ends
<1> QED
  BY <1>2, <1>3

LEMMA EndsTaken ==
  ASSUME NEW w \in Seq(Msgs), w # <<>>, NEW S, NEW T, Ends(w, S, T)
  PROVE  Ends(Tail(w), S, T) \/ (Head(w) \in S /\ ~Has(Tail(w), T))
<1>1. /\ Len(w) \in Nat /\ Len(w) > 0 /\ DOMAIN w = 1..Len(w) /\ Head(w) = w[1]
      /\ DOMAIN Tail(w) = 1..(Len(w) - 1) /\ \A n \in 1..(Len(w) - 1) : Tail(w)[n] = w[n + 1]
  OBVIOUS
<1>2. PICK n \in 1..Len(w) : w[n] \in S /\ \A m \in 1..Len(w) : m > n => w[m] \notin T
  BY <1>1 DEF Ends
<1>3. CASE n = 1
  <2>1. ASSUME NEW m \in 1..(Len(w) - 1) PROVE Tail(w)[m] \notin T
    <3>1. m + 1 \in 1..Len(w) /\ m + 1 > n
      BY <1>1, <1>3
    <3> QED
      BY <1>1, <1>2, <3>1
  <2> QED
    BY <1>1, <1>2, <1>3, <2>1 DEF Has
<1>4. CASE n # 1
  <2>1. n - 1 \in 1..(Len(w) - 1) /\ (n - 1) + 1 = n
    BY <1>1, <1>4
  <2>2. ASSUME NEW m \in 1..(Len(w) - 1), m > n - 1 PROVE Tail(w)[m] \notin T
    <3>1. m + 1 \in 1..Len(w) /\ m + 1 > n
      BY <1>1, <2>2
    <3> QED
      BY <1>1, <1>2, <3>1
  <2> QED
    BY <1>1, <1>2, <2>1, <2>2 DEF Ends
<1> QED
  BY <1>3, <1>4

LEMMA EndsHas == ASSUME NEW w, NEW S, NEW T, Ends(w, S, T) PROVE Has(w, S)
BY DEF Ends, Has

-----------------------------------------------------------------------------
\* What answers hold: klippy's state or nothing of it, and no notice.
Answers(a) ==
  /\ a \in Seq(Msgs)
  /\ ~Has(a, Denies(klippy))
  /\ ~Has(a, Readies)
  /\ klippy = "ready" => ~Has(a, PinAnswers \ PinsKnown)

LEMMA OneAnswer ==
  ASSUME HostConstants, klippy \in Host!States, NEW request \in {"subscribe", "objects", "why", "info"}
  PROVE  /\ Answers(Host!Answer(request))
         /\ request = "subscribe" /\ klippy # "gone" =>
              Has(Host!Answer(request), Statuses) /\ Ends(Host!Answer(request), Says(klippy), Denies(klippy))
         /\ request = "subscribe" /\ klippy = "gone" => Host!Answer(request) = <<>>
         /\ request # "subscribe" => ~Has(Host!Answer(request), Statuses)
         /\ request = "info" =>
              Has(Host!Answer(request), Recent) /\ Ends(Host!Answer(request), Says(klippy), Denies(klippy))
         /\ request = "objects" => Has(Host!Answer(request), PinAnswers)
<1> DEFINE a == Host!Answer(request)
<1>0. None \notin Host!States
  BY DEF HostConstants
<1>1. CASE request = "subscribe"
  <2>1. CASE klippy = "gone"
    <3>1. a = <<>>
      BY <1>1, <2>1 DEF Host!Answer
    <3>2. /\ <<>> \in Seq(Msgs) /\ DOMAIN <<>> = {}
      OBVIOUS
    <3>3. Answers(a)
      BY <3>1, <3>2 DEF Answers, Has
    <3> QED
      BY <1>1, <2>1, <3>1, <3>3
  <2>2. CASE klippy # "gone"
    <3> DEFINE m == [kind |-> "status", state |-> klippy]
    <3>1. a = <<m>>
      BY <1>1, <2>2 DEF Host!Answer, Host!Message
    <3>2. m \in Msgs /\ m \in Statuses /\ m \in Says(klippy) /\ m \notin Denies(klippy) /\ m \notin Readies /\ m \notin PinAnswers
      BY DEF Msgs, Statuses, Says, Denies, Readies, PinAnswers
    <3>3. a \in Seq(Msgs) /\ DOMAIN a = {1} /\ a[1] = m
      BY <3>1, <3>2
    <3> HIDE DEF m, a
    <3>4. Has(a, Statuses) /\ Ends(a, Says(klippy), Denies(klippy)) /\ ~Has(a, Denies(klippy)) /\ ~Has(a, Readies) /\ ~Has(a, PinAnswers \ PinsKnown)
      BY <3>2, <3>3 DEF Has, Ends
    <3> QED
      BY <1>1, <2>2, <3>3, <3>4 DEF Answers, a
  <2> QED
    BY <2>1, <2>2
<1>2. CASE request = "objects"
  <2> DEFINE m == [kind |-> "objects", state |-> IF klippy = "ready" THEN "ready" ELSE None]
  <2>1. a = <<m>>
    BY <1>2 DEF Host!Answer, Host!Message
  <2>2. m \in Msgs /\ m \notin Statuses /\ m \notin Denies(klippy) /\ m \notin Readies /\ m \in PinAnswers
    BY DEF Msgs, Statuses, Denies, Readies, PinAnswers, Host!States
  <2>3. klippy = "ready" => m \in PinsKnown
    BY <2>2 DEF PinsKnown
  <2>4. a \in Seq(Msgs) /\ DOMAIN a = {1} /\ a[1] = m
    BY <2>1, <2>2
  <2> HIDE DEF m, a
  <2>5. /\ ~Has(a, Statuses) /\ ~Has(a, Denies(klippy)) /\ ~Has(a, Readies) /\ Has(a, PinAnswers)
        /\ klippy = "ready" => ~Has(a, PinAnswers \ PinsKnown)
    BY <2>2, <2>3, <2>4 DEF Has
  <2> QED
    BY <1>2, <2>4, <2>5 DEF Answers, a
<1>3. CASE request = "why"
  <2> DEFINE m == [kind |-> "why", state |-> IF klippy = "gone" THEN None ELSE klippy]
  <2>1. a = <<m>>
    BY <1>3 DEF Host!Answer, Host!Message
  <2>2. m \in Msgs /\ m \notin Statuses /\ m \notin Denies(klippy) /\ m \notin Readies /\ m \notin PinAnswers
    BY <1>0 DEF Msgs, Statuses, Denies, Readies, PinAnswers
  <2>3. a \in Seq(Msgs) /\ DOMAIN a = {1} /\ a[1] = m
    BY <2>1, <2>2
  <2> HIDE DEF m, a
  <2>4. ~Has(a, Statuses) /\ ~Has(a, Denies(klippy)) /\ ~Has(a, Readies) /\ ~Has(a, PinAnswers \ PinsKnown)
    BY <2>2, <2>3 DEF Has
  <2> QED
    BY <1>3, <2>3, <2>4 DEF Answers, a
<1>4. CASE request = "info"
  <2> DEFINE m == [kind |-> "info", state |-> klippy]
  <2>1. a = <<m>>
    BY <1>4 DEF Host!Answer, Host!Message
  <2>2. m \in Msgs /\ m \notin Statuses /\ m \in Recent /\ m \in Says(klippy) /\ m \notin Denies(klippy) /\ m \notin Readies /\ m \notin PinAnswers
    BY DEF Msgs, Statuses, Recent, Says, Denies, Readies, PinAnswers
  <2>3. a \in Seq(Msgs) /\ DOMAIN a = {1} /\ a[1] = m
    BY <2>1, <2>2
  <2> HIDE DEF m, a
  <2>4. /\ ~Has(a, Statuses) /\ ~Has(a, Denies(klippy)) /\ ~Has(a, Readies) /\ ~Has(a, PinAnswers \ PinsKnown)
        /\ Has(a, Recent) /\ Ends(a, Says(klippy), Denies(klippy))
    BY <2>2, <2>3 DEF Has, Ends
  <2> QED
    BY <1>4, <2>3, <2>4 DEF Answers, a
<1> QED
  BY <1>1, <1>2, <1>3, <1>4

LEMMA TwoAnswers ==
  ASSUME NEW a, NEW b, Answers(a), Answers(b)
  PROVE  Answers(a \o b)
<1>1. a \o b \in Seq(Msgs) /\ a \in Seq(Msgs) /\ b \in Seq(Msgs)
  BY DEF Answers
<1> QED
  BY <1>1, HasAppended DEF Answers

\* What a handler's requests bring: answers behind what is on its way.  Klippy's state is
\* said by an answer that refreshes, and a subscription's answer is a status.
Requests == {<<>>, <<"info">>, <<"why">>, <<"subscribe">>, <<"objects">>, <<"subscribe", "objects">>}
Brings(before, a) ==
  /\ Answers(a) /\ wire' = before \o a
  /\ subscribed' \in BOOLEAN /\ (klippy # "gone" /\ subscribed => subscribed')
  /\ unsaid' \in (IF socket = "opening" THEN {0, None} ELSE {unsaid, None})
  /\ unsaid' # None => ~Has(a, Statuses)
  /\ unsaid' = None /\ (unsaid # None \/ socket = "opening") => Has(a, Recent) /\ Ends(a, Says(klippy), Denies(klippy))

LEMMA RequestForms ==
  ASSUME NEW requests \in Requests
  PROVE  /\ requests \in {<<"subscribe">>, <<"subscribe", "objects">>} <=> Len(requests) > 0 /\ requests[1] = "subscribe"
         /\ requests = <<"info">> <=> Len(requests) > 0 /\ requests[1] = "info"
         /\ requests = <<"objects">> <=> Len(requests) > 0 /\ requests[1] = "objects"
         /\ requests = <<"why">> <=> Len(requests) > 0 /\ requests[1] = "why"
         /\ requests = <<"subscribe", "objects">> <=> Len(requests) > 1
         /\ requests = <<"subscribe", "objects">> => requests[2] = "objects"
         /\ requests = <<>> <=> ~(Len(requests) > 0)
         /\ Len(requests) > 0 => requests[1] \in {"subscribe", "objects", "why", "info"}
<1>1. /\ Len(<<>>) = 0 /\ Len(<<"info">>) = 1 /\ Len(<<"why">>) = 1 /\ Len(<<"subscribe">>) = 1
      /\ Len(<<"objects">>) = 1 /\ Len(<<"subscribe", "objects">>) = 2
  OBVIOUS
<1>2. /\ <<"info">>[1] = "info" /\ <<"why">>[1] = "why" /\ <<"subscribe">>[1] = "subscribe" /\ <<"objects">>[1] = "objects"
      /\ <<"subscribe", "objects">>[1] = "subscribe" /\ <<"subscribe", "objects">>[2] = "objects"
  OBVIOUS
<1> DEFINE F(r) ==
         /\ r \in {<<"subscribe">>, <<"subscribe", "objects">>} <=> Len(r) > 0 /\ r[1] = "subscribe"
         /\ r = <<"info">> <=> Len(r) > 0 /\ r[1] = "info"
         /\ r = <<"objects">> <=> Len(r) > 0 /\ r[1] = "objects"
         /\ r = <<"why">> <=> Len(r) > 0 /\ r[1] = "why"
         /\ r = <<"subscribe", "objects">> <=> Len(r) > 1
         /\ r = <<"subscribe", "objects">> => r[2] = "objects"
         /\ r = <<>> <=> ~(Len(r) > 0)
         /\ Len(r) > 0 => r[1] \in {"subscribe", "objects", "why", "info"}
<1>3. F(<<>>) /\ F(<<"info">>)
  BY <1>1, <1>2
<1>4. F(<<"why">>) /\ F(<<"subscribe">>)
  BY <1>1, <1>2
<1>5. F(<<"objects">>) /\ F(<<"subscribe", "objects">>)
  BY <1>1, <1>2
<1> HIDE DEF F
<1>6. F(requests)
  BY <1>3, <1>4, <1>5, Zenon DEF Requests
<1> QED
  BY <1>6 DEF F

LEMMA SendsAnswers ==
  ASSUME HostConstants, klippy \in Host!States, subscribed \in BOOLEAN, socket \in {"open", "opening"},
         NEW before \in Seq(Msgs), NEW requests \in Requests, Host!Sends(before, requests)
  PROVE  \E a \in Seq(Msgs) :
           /\ Brings(before, a)
           /\ requests \in {<<"subscribe">>, <<"subscribe", "objects">>} /\ klippy # "gone" =>
                subscribed' = TRUE /\ unsaid' = None /\ Has(a, Statuses)
           /\ requests \in {<<"objects">>, <<"subscribe", "objects">>} => Has(a, PinAnswers)
           /\ requests = <<"info">> => unsaid' = None /\ Has(a, Recent)
<1> DEFINE first == IF Len(requests) > 0 THEN Host!Answer(requests[1]) ELSE <<>>
           second == IF Len(requests) > 1 THEN Host!Answer(requests[2]) ELSE <<>>
           a == first \o second
<1>1. Answers(<<>>) /\ ~Has(<<>>, Statuses)
  BY DEF Answers, Has
<1>2. /\ requests = <<>> => first = <<>>
      /\ requests # <<>> => first = Host!Answer(requests[1]) /\ requests[1] \in {"subscribe", "objects", "why", "info"}
      /\ requests # <<"subscribe", "objects">> => second = <<>>
      /\ requests = <<"subscribe", "objects">> => second = Host!Answer("objects")
      /\ requests \in {<<"subscribe">>, <<"subscribe", "objects">>} => first = Host!Answer("subscribe")
      /\ requests = <<"objects">> => first = Host!Answer("objects")
      /\ requests = <<"why">> => first = Host!Answer("why")
      /\ requests = <<"info">> => first = Host!Answer("info")
  BY RequestForms
<1>3. Answers(first) /\ Answers(second)
  BY <1>1, <1>2, OneAnswer
<1>4. first \in Seq(Msgs) /\ second \in Seq(Msgs) /\ a \in Seq(Msgs) /\ Answers(a)
  BY <1>3, TwoAnswers DEF Answers
<1>5. wire' = before \o a
  <2>1. wire' = (before \o first) \o second
    BY DEF Host!Sends, Host!Reached
  <2> HIDE DEF first, second
  <2>2. (before \o first) \o second = before \o (first \o second)
    BY <1>4, ConcatAssociative
  <2> QED
    BY <2>1, <2>2
<1>6. Host!Asks(requests, "subscribe") <=> requests \in {<<"subscribe">>, <<"subscribe", "objects">>}
  BY RequestForms DEF Host!Asks, Host!Reached
<1>7. Host!Asks(requests, "info") <=> requests = <<"info">>
  BY RequestForms DEF Host!Asks, Host!Reached
<1>8. /\ subscribed' = IF requests \in {<<"subscribe">>, <<"subscribe", "objects">>} THEN klippy # "gone" ELSE subscribed
      /\ unsaid' = IF requests = <<"info">> \/ (requests \in {<<"subscribe">>, <<"subscribe", "objects">>} /\ klippy # "gone")
                   THEN None ELSE IF socket = "opening" THEN 0 ELSE unsaid
  BY <1>6, <1>7 DEF Host!Sends, Host!Subscribed
<1>9. /\ \A S : Has(a, S) <=> Has(first, S) \/ Has(second, S)
      /\ \A S, T : Ends(first, S, T) /\ ~Has(second, T) => Ends(a, S, T)
  BY <1>4, HasAppended, EndsAppended
<1>10. /\ ~Has(second, Denies(klippy)) /\ ~Has(second, Statuses)
       /\ requests = <<"subscribe", "objects">> => Has(second, PinAnswers)
  BY <1>1, <1>2, <1>3, OneAnswer DEF Answers
<1>11. /\ requests = <<"objects">> => Has(first, PinAnswers)
       /\ requests = <<"info">> => Has(first, Recent) /\ Ends(first, Says(klippy), Denies(klippy))
       /\ requests \in {<<"subscribe">>, <<"subscribe", "objects">>} /\ klippy # "gone" =>
            Has(first, Statuses) /\ Ends(first, Says(klippy), Denies(klippy))
       /\ ~(requests \in {<<"subscribe">>, <<"subscribe", "objects">>} /\ klippy # "gone") => ~Has(first, Statuses)
  <2>1. requests \in {<<"subscribe">>, <<"subscribe", "objects">>} => first = Host!Answer("subscribe")
    BY <1>2
  <2>2. requests \notin {<<"subscribe">>, <<"subscribe", "objects">>} =>
          requests = <<>> \/ requests = <<"objects">> \/ requests = <<"why">> \/ requests = <<"info">>
    BY DEF Requests
  <2>3. Has(Host!Answer("objects"), PinAnswers) /\ ~Has(Host!Answer("objects"), Statuses) /\ ~Has(Host!Answer("why"), Statuses)
    BY OneAnswer
  <2>4. /\ Has(Host!Answer("info"), Recent) /\ Ends(Host!Answer("info"), Says(klippy), Denies(klippy))
        /\ ~Has(Host!Answer("info"), Statuses)
    BY OneAnswer
  <2>5. /\ klippy # "gone" => Has(Host!Answer("subscribe"), Statuses) /\ Ends(Host!Answer("subscribe"), Says(klippy), Denies(klippy))
        /\ klippy = "gone" => Host!Answer("subscribe") = <<>>
    BY OneAnswer
  <2> HIDE DEF first
  <2> QED
    BY <1>1, <1>2, <2>1, <2>2, <2>3, <2>4, <2>5
<1>12. \A b : Has(b, Statuses) => Has(b, Recent)
  BY DEF Has, Statuses, Recent
<1> HIDE DEF a, first, second
<1>13. requests = <<"info">> => requests \notin {<<"subscribe">>, <<"subscribe", "objects">>}
  OBVIOUS
<1>14. Brings(before, a)
  <2>1. unsaid' \in (IF socket = "opening" THEN {0, None} ELSE {unsaid, None})
    BY <1>8
  <2>2. unsaid' # None => ~Has(a, Statuses)
    BY <1>8, <1>9, <1>10, <1>11
  <2>3. None # 0
    BY DEF HostConstants
  <2>4. unsaid' = None /\ (unsaid # None \/ socket = "opening") =>
          requests = <<"info">> \/ (requests \in {<<"subscribe">>, <<"subscribe", "objects">>} /\ klippy # "gone")
    BY <1>8, <2>3
  <2>5. unsaid' = None /\ (unsaid # None \/ socket = "opening") => Has(a, Recent) /\ Ends(a, Says(klippy), Denies(klippy))
    BY <1>9, <1>10, <1>11, <1>12, <2>4
  <2>6. subscribed' \in BOOLEAN /\ (klippy # "gone" /\ subscribed => subscribed')
    BY <1>8
  <2> QED
    BY <1>4, <1>5, <2>1, <2>2, <2>5, <2>6 DEF Brings
<1>15. requests \in {<<"subscribe">>, <<"subscribe", "objects">>} /\ klippy # "gone" =>
         subscribed' = TRUE /\ unsaid' = None /\ Has(a, Statuses)
  BY <1>8, <1>9, <1>11
<1>16. requests \in {<<"objects">>, <<"subscribe", "objects">>} => Has(a, PinAnswers)
  BY <1>9, <1>10, <1>11
<1>17. requests = <<"info">> => unsaid' = None /\ Has(a, Recent)
  BY <1>8, <1>9, <1>11
<1> QED
  BY <1>4, <1>14, <1>15, <1>16, <1>17

-----------------------------------------------------------------------------
\* A connection that is being opened has said nothing yet.
Opened ==
  /\ socket = "opening" => wire = <<>> /\ ~linked
  /\ linked => socket \in {"open", "hung"}

\* Klippy's state is what the last message on its way will have the client show, or is
\* shown.
Spoken ==
  socket = "open" /\ unsaid = None =>
    Ends(wire, Says(klippy), Denies(klippy)) \/ (hostShown = klippy /\ ~Has(wire, Denies(klippy)))

\* A state nobody told of is never ready, and no status hides from the watchdog for how
\* long it has lasted.
Untold ==
  socket = "open" /\ unsaid # None =>
    /\ klippy # "ready" /\ unsaid <= heardAt /\ (unsaid > 0 => ~Has(wire, Statuses))
    /\ linked /\ watched => unsaid <= Check

\* The answer to a lookup is on its way; a ready klippy pushes its status, and its pin is
\* known, or an answer or a notice on its way will see to it.
Looked == socket = "open" /\ looking => Has(wire, PinAnswers)
Served ==
  socket = "open" /\ klippy = "ready" =>
    /\ Has(wire, Readies) \/ subscribed
    /\ Has(wire, Readies) \/ Has(wire, Statuses) \/ heardAt = 0
    /\ pin \/ Has(wire, PinsKnown) \/ Ends(wire, Readies, PinAnswers \ PinsKnown)

\* The host was heard of since the last check but one, or is about to be.
Heard ==
  socket = "open" /\ linked /\ unsaid = None =>
    \/ Has(wire, Recent)
    \/ watched /\ (heardAt <= Check \/ answeredAt = 0)
    \/ ~watched /\ (heardAt <= Check + 1 \/ answeredAt <= 1)

HostInv ==
  /\ Host!TypeOK /\ wire \in Seq(Msgs)
  /\ Opened /\ Spoken /\ Untold /\ Looked /\ Served /\ Heard

\* The types, one by one.
LEMMA HostTypes ==
  ASSUME HostConstants, HostInv
  PROVE  /\ klippy \in Host!States /\ hostShown \in Host!States \cup {None} /\ webhook \in Host!States \cup {None}
         /\ subscribed \in BOOLEAN /\ linked \in BOOLEAN /\ looking \in BOOLEAN /\ pin \in BOOLEAN /\ watched \in BOOLEAN
         /\ socket \in {None, "opening", "open", "hung"} /\ wire \in Seq(Msgs)
         /\ heardAt \in 0..(Stale + 1) /\ answeredAt \in 0..(Stale + 1) /\ unsaid \in 0..(Stale + 1) \cup {None}
         /\ klippyTurns \in 0..MaxKlippy /\ losses \in 0..MaxLosses
BY DEF HostInv, Host!TypeOK, Host!Never

LEMMA MessagesTyped ==
  ASSUME NEW w \in Seq(Msgs)
  PROVE  \A n \in DOMAIN w :
           /\ w[n].kind \in {"status", "notice", "info", "why", "objects"}
           /\ w[n].state \in Host!States \cup {None}
<1>1. \A n \in DOMAIN w : w[n] \in Msgs
  OBVIOUS
<1> QED
  BY <1>1 DEF Msgs, Host!States

-----------------------------------------------------------------------------
\* A message that is taken: what every handler makes of it, whichever it is.
Taken(m, a) ==
  /\ socket = "open" /\ wire # <<>> /\ m = Head(wire) /\ a \in Seq(Msgs) /\ Brings(Tail(wire), a)
  /\ UNCHANGED <<socket, linked, watched, klippy, klippyTurns, losses>>
  /\ hostShown' \in Host!States \cup {None} /\ webhook' \in Host!States \cup {None} /\ looking' \in BOOLEAN /\ pin' \in BOOLEAN
  /\ m \in Says(klippy) => hostShown' = klippy
  /\ m \notin Says(klippy) \cup Denies(klippy) => hostShown' = hostShown
  /\ heardAt' = IF m \in Statuses THEN 0 ELSE heardAt
  /\ answeredAt' \in {answeredAt, 0}
  /\ m \in Recent => heardAt' = 0 \/ answeredAt' = 0
  /\ pin \/ m \in PinsKnown => pin'
  /\ looking' => Has(a, PinAnswers) \/ (looking /\ m \notin PinAnswers)
  /\ m \in Readies /\ klippy = "ready" =>
       /\ subscribed' = TRUE /\ Has(a, Statuses)
       /\ looking \/ Has(a, PinAnswers)

LEMMA TakesAMessage ==
  ASSUME HostConstants, HostInv, NEW kind, Host!Takes(kind)
  PROVE  /\ socket = "open" /\ wire # <<>> /\ Head(wire).kind = kind
         /\ Head(wire) \in Msgs /\ Tail(wire) \in Seq(Msgs)
         /\ Host!Said = Head(wire).state
         /\ UNCHANGED <<socket, linked, watched, klippy, klippyTurns, losses>>
<1>1. wire \in Seq(Msgs)
  BY HostTypes
<1> QED
  BY <1>1 DEF Host!Takes, Host!moonraker, Host!Said

\* Requests without a lookup.
LEMMA TakeSends ==
  ASSUME HostConstants, HostInv, socket = "open", Tail(wire) \in Seq(Msgs),
         NEW requests \in Requests, Host!Sends(Tail(wire), requests)
  PROVE  \E a \in Seq(Msgs) :
           /\ Brings(Tail(wire), a)
           /\ requests \in {<<"subscribe">>, <<"subscribe", "objects">>} /\ klippy # "gone" =>
                subscribed' = TRUE /\ Has(a, Statuses)
           /\ requests \in {<<"objects">>, <<"subscribe", "objects">>} => Has(a, PinAnswers)
BY HostTypes, SendsAnswers

LEMMA LooksUp ==
  ASSUME HostConstants, HostInv, socket = "open", Tail(wire) \in Seq(Msgs),
         NEW needed \in BOOLEAN, NEW requests \in {<<>>, <<"subscribe">>}, Host!Lookup(needed, requests)
  PROVE  /\ looking' \in BOOLEAN
         /\ \E a \in Seq(Msgs) :
              /\ Brings(Tail(wire), a)
              /\ looking' => Has(a, PinAnswers) \/ looking
              /\ needed => looking \/ Has(a, PinAnswers)
              /\ requests = <<"subscribe">> /\ klippy # "gone" => subscribed' = TRUE /\ Has(a, Statuses)
<1> DEFINE r == IF needed /\ ~looking THEN Append(requests, "objects") ELSE requests
<1>1. looking \in BOOLEAN /\ looking' = (looking \/ needed) /\ Host!Sends(Tail(wire), r)
  BY HostTypes DEF Host!Lookup
<1>2. /\ Append(<<>>, "objects") = <<"objects">>
      /\ Append(<<"subscribe">>, "objects") = <<"subscribe", "objects">>
      /\ <<>> # <<"subscribe">>
  <2>1. Append(<<>>, "objects") = <<"objects">>
    OBVIOUS
  <2>2. Append(<<"subscribe">>, "objects") = <<"subscribe", "objects">>
    <3> DEFINE s == <<"subscribe">>
               t == Append(s, "objects")
               u == <<"subscribe", "objects">>
    <3>1. s \in Seq({"subscribe", "objects"}) /\ Len(s) = 1 /\ s[1] = "subscribe"
      OBVIOUS
    <3>2. t \in Seq({"subscribe", "objects"}) /\ Len(t) = 2 /\ t[1] = "subscribe" /\ t[2] = "objects"
      <4> HIDE DEF s
      <4>1. "objects" \in {"subscribe", "objects"}
        OBVIOUS
      <4>2. /\ Append(s, "objects") \in Seq({"subscribe", "objects"}) /\ Len(Append(s, "objects")) = Len(s) + 1
            /\ \A i \in 1..Len(s) : Append(s, "objects")[i] = s[i]
            /\ Append(s, "objects")[Len(s) + 1] = "objects"
        BY <3>1, <4>1, AppendProperties, ZenonT(40)
      <4> QED
        BY <3>1, <4>2
    <3>3. u \in Seq({"subscribe", "objects"}) /\ Len(u) = 2 /\ u[1] = "subscribe" /\ u[2] = "objects"
      OBVIOUS
    <3> HIDE DEF t, u
    <3>4. \A i \in 1..2 : t[i] = u[i]
      BY <3>2, <3>3
    <3>5. t = u
      BY <3>2, <3>3, <3>4, SeqEqual
    <3> QED
      BY <3>5 DEF t, u
  <2>3. Len(<<>>) = 0 /\ Len(<<"subscribe">>) = 1
    OBVIOUS
  <2> QED
    BY <2>1, <2>2, <2>3
<1>3. /\ r \in Requests
      /\ needed /\ ~looking => r \in {<<"objects">>, <<"subscribe", "objects">>}
      /\ requests = <<"subscribe">> => r \in {<<"subscribe">>, <<"subscribe", "objects">>}
  BY <1>2 DEF Requests
<1> HIDE DEF r
<1>4. PICK a \in Seq(Msgs) :
        /\ Brings(Tail(wire), a)
        /\ r \in {<<"subscribe">>, <<"subscribe", "objects">>} /\ klippy # "gone" => subscribed' = TRUE /\ Has(a, Statuses)
        /\ r \in {<<"objects">>, <<"subscribe", "objects">>} => Has(a, PinAnswers)
  BY <1>1, <1>3, TakeSends
<1> QED
  BY <1>1, <1>3, <1>4

\* A message by its kind.
LEMMA MessageKinds ==
  ASSUME HostConstants, NEW m \in Msgs
  PROVE  /\ m \in Statuses <=> m.kind = "status"
         /\ m \in PinAnswers <=> m.kind = "objects"
         /\ m \in Recent <=> m.kind \in {"status", "notice", "info"}
         /\ m \in PinsKnown <=> m.kind = "objects" /\ m.state = "ready"
         /\ m \in Readies <=> m.kind = "notice" /\ m.state = "ready"
         /\ m.kind \in {"notice", "info"} => m.state \in Host!States
         /\ m.kind = "notice" => m.state \in {"ready", "shutdown", "gone"}
         /\ m.state \in Host!States \cup {None}
         /\ m.state = None \/ m.kind = "objects" => m \notin Says(klippy) \/ klippy \notin Host!States
         /\ klippy \in Host!States /\ (m \in Says(klippy) \/ m \in Denies(klippy)) <=>
              klippy \in Host!States /\ m.kind # "objects" /\ m.state # None /\ (m.kind = "why" => m.state # "ready")
         /\ m \in Says(klippy) => m.state = klippy
<1>1. /\ m.kind \in {"status", "notice", "info", "why", "objects"} /\ m.state \in Host!States \cup {None}
      /\ m.kind \in {"notice", "info"} => m.state \in Host!States
      /\ m.kind = "notice" => m.state \in {"ready", "shutdown", "gone"}
  BY DEF Msgs, Host!States
<1>2. None \notin Host!States
  BY DEF HostConstants
<1> QED
  BY <1>1, <1>2 DEF Statuses, PinAnswers, Recent, PinsKnown, Readies, Says, Denies

LEMMA StatusTaken ==
  ASSUME HostConstants, HostInv, Host!Status
  PROVE  \E a \in Seq(Msgs) : Taken(Head(wire), a)
<1> DEFINE m == Head(wire)
<1>1. /\ socket = "open" /\ wire # <<>> /\ m.kind = "status" /\ m \in Msgs /\ Tail(wire) \in Seq(Msgs) /\ Host!Said = m.state
      /\ UNCHANGED <<socket, linked, watched, klippy, klippyTurns, losses>>
  BY TakesAMessage DEF Host!Status
<1>2. /\ heardAt' = 0 /\ answeredAt' = answeredAt /\ pin' = pin
      /\ webhook' = IF m.state = None THEN webhook ELSE m.state
      /\ hostShown' = IF m.state = None THEN hostShown ELSE m.state
      /\ Host!Lookup(m.state = "ready" /\ webhook # "ready", <<>>)
  BY <1>1 DEF Host!Status
<1>3. PICK a \in Seq(Msgs) : Brings(Tail(wire), a) /\ (looking' => Has(a, PinAnswers) \/ looking)
  BY <1>1, <1>2, LooksUp
<1>4. looking' \in BOOLEAN
  BY <1>1, <1>2, LooksUp
<1>5. klippy \in Host!States /\ hostShown \in Host!States \cup {None} /\ webhook \in Host!States \cup {None} /\ pin \in BOOLEAN
  BY HostTypes
<1>6. /\ m \in Statuses /\ m \notin PinAnswers /\ m \notin PinsKnown /\ m \notin Readies /\ m.state \in Host!States \cup {None}
      /\ m \in Says(klippy) => m.state = klippy
      /\ m \notin Says(klippy) \cup Denies(klippy) => m.state = None
  BY <1>1, <1>5, MessageKinds
<1>7. None \notin Host!States
  BY DEF HostConstants
<1> HIDE DEF m
<1>8. Taken(m, a)
  BY <1>1, <1>2, <1>3, <1>4, <1>5, <1>6, <1>7 DEF Taken, m
<1> QED
  BY <1>8 DEF m

LEMMA NoticeTaken ==
  ASSUME HostConstants, HostInv, Host!Notice
  PROVE  \E a \in Seq(Msgs) : Taken(Head(wire), a)
<1> DEFINE m == Head(wire)
<1>1. /\ socket = "open" /\ wire # <<>> /\ m.kind = "notice" /\ m \in Msgs /\ Tail(wire) \in Seq(Msgs) /\ Host!Said = m.state
      /\ UNCHANGED <<socket, linked, watched, klippy, klippyTurns, losses>>
  BY TakesAMessage DEF Host!Notice
<1>2. m.state \in {"ready", "shutdown", "gone"}
  BY <1>1, MessageKinds
<1>3. /\ heardAt' = heardAt /\ answeredAt' = 0 /\ pin' = pin /\ webhook' = webhook /\ hostShown' = m.state
      /\ m.state = "ready" => Host!Lookup(TRUE, <<"subscribe">>)
      /\ m.state # "ready" => looking' = looking /\ (Host!Sends(Tail(wire), <<"why">>) \/ Host!Sends(Tail(wire), <<>>))
  BY <1>1, <1>2 DEF Host!Notice, Host!SetHost
<1>4. /\ klippy \in Host!States /\ hostShown \in Host!States \cup {None} /\ webhook \in Host!States \cup {None}
      /\ pin \in BOOLEAN /\ looking \in BOOLEAN /\ None \notin Host!States
  BY HostTypes DEF HostConstants
<1>5. /\ m \notin Statuses /\ m \notin PinAnswers /\ m \notin PinsKnown /\ m.state \in Host!States
      /\ m \in Readies <=> m.state = "ready"
      /\ m \in Says(klippy) => m.state = klippy
      /\ m \in Says(klippy) \cup Denies(klippy)
  BY <1>1, <1>2, <1>4, MessageKinds DEF Host!States
<1>6. CASE m.state = "ready"
  <2>1. looking' \in BOOLEAN
    BY <1>1, <1>3, <1>6, LooksUp
  <2>2. PICK a \in Seq(Msgs) :
          /\ Brings(Tail(wire), a) /\ (looking' => Has(a, PinAnswers) \/ looking)
          /\ looking \/ Has(a, PinAnswers)
          /\ klippy # "gone" => subscribed' = TRUE /\ Has(a, Statuses)
    BY <1>1, <1>3, <1>6, LooksUp
  <2> HIDE DEF m
  <2>3. Taken(m, a)
    BY <1>1, <1>3, <1>4, <1>5, <1>6, <2>1, <2>2 DEF Taken, m
  <2> QED
    BY <2>3 DEF m
<1>7. CASE m.state # "ready"
  <2>1. <<"why">> \in Requests /\ <<>> \in Requests
    BY DEF Requests
  <2>2. PICK a \in Seq(Msgs) : Brings(Tail(wire), a)
    BY <1>1, <1>3, <1>7, <2>1, TakeSends
  <2> HIDE DEF m
  <2>3. Taken(m, a)
    BY <1>1, <1>3, <1>4, <1>5, <1>7, <2>2 DEF Taken, m
  <2> QED
    BY <2>3 DEF m
<1> QED
  BY <1>6, <1>7

LEMMA InfoTaken ==
  ASSUME HostConstants, HostInv, Host!Info
  PROVE  \E a \in Seq(Msgs) : Taken(Head(wire), a)
<1> DEFINE m == Head(wire)
<1>1. /\ socket = "open" /\ wire # <<>> /\ m.kind = "info" /\ m \in Msgs /\ Tail(wire) \in Seq(Msgs) /\ Host!Said = m.state
      /\ UNCHANGED <<socket, linked, watched, klippy, klippyTurns, losses>>
  BY TakesAMessage DEF Host!Info
<1>2. /\ heardAt' = heardAt /\ answeredAt' = 0 /\ pin' = pin /\ webhook' = webhook /\ hostShown' = m.state
      /\ \/ Host!Lookup(TRUE, <<"subscribe">>)
         \/ looking' = looking /\ (Host!Sends(Tail(wire), <<"why">>) \/ Host!Sends(Tail(wire), <<>>))
  BY <1>1 DEF Host!Info, Host!SetHost
<1>4. /\ klippy \in Host!States /\ hostShown \in Host!States \cup {None} /\ webhook \in Host!States \cup {None}
      /\ pin \in BOOLEAN /\ looking \in BOOLEAN /\ None \notin Host!States
  BY HostTypes DEF HostConstants
<1>5. /\ m \notin Statuses /\ m \notin PinAnswers /\ m \notin PinsKnown /\ m.state \in Host!States /\ m \notin Readies
      /\ m \in Says(klippy) => m.state = klippy
      /\ m \in Says(klippy) \cup Denies(klippy)
  BY <1>1, <1>4, MessageKinds
<1>6. /\ looking' \in BOOLEAN
      /\ \E a \in Seq(Msgs) : Brings(Tail(wire), a) /\ (looking' => Has(a, PinAnswers) \/ looking)
  <2>1. CASE Host!Lookup(TRUE, <<"subscribe">>)
    BY <1>1, <2>1, LooksUp
  <2>2. CASE looking' = looking /\ (Host!Sends(Tail(wire), <<"why">>) \/ Host!Sends(Tail(wire), <<>>))
    <3>1. <<"why">> \in Requests /\ <<>> \in Requests
      BY DEF Requests
    <3>2. PICK a \in Seq(Msgs) : Brings(Tail(wire), a)
      BY <1>1, <2>2, <3>1, TakeSends
    <3> QED
      BY <1>4, <2>2, <3>2
  <2> QED
    BY <1>2, <2>1, <2>2
<1>7. PICK a \in Seq(Msgs) : Brings(Tail(wire), a) /\ (looking' => Has(a, PinAnswers) \/ looking)
  BY <1>6
<1> HIDE DEF m
<1>8. Taken(m, a)
  BY <1>1, <1>2, <1>4, <1>5, <1>6, <1>7 DEF Taken, m
<1> QED
  BY <1>8 DEF m

LEMMA WhyTaken ==
  ASSUME HostConstants, HostInv, Host!Why
  PROVE  \E a \in Seq(Msgs) : Taken(Head(wire), a)
<1> DEFINE m == Head(wire)
<1>1. /\ socket = "open" /\ wire # <<>> /\ m.kind = "why" /\ m \in Msgs /\ Tail(wire) \in Seq(Msgs) /\ Host!Said = m.state
      /\ UNCHANGED <<socket, linked, watched, klippy, klippyTurns, losses>>
  BY TakesAMessage DEF Host!Why
<1>2. /\ heardAt' = heardAt /\ pin' = pin /\ webhook' = webhook /\ looking' = looking
      /\ Host!Sends(Tail(wire), <<>>)
      /\ answeredAt' \in {answeredAt, 0}
      /\ hostShown' = IF m.state \notin {None, "ready"} THEN m.state ELSE hostShown
  BY <1>1 DEF Host!Why, Host!SetHost, Host!TellsState
<1>4. /\ klippy \in Host!States /\ hostShown \in Host!States \cup {None} /\ webhook \in Host!States \cup {None}
      /\ pin \in BOOLEAN /\ looking \in BOOLEAN /\ None \notin Host!States
  BY HostTypes DEF HostConstants
<1>5. /\ m \notin Statuses /\ m \notin PinAnswers /\ m \notin PinsKnown /\ m \notin Readies /\ m \notin Recent
      /\ m.state \in Host!States \cup {None}
      /\ m \in Says(klippy) => m.state = klippy /\ m.state \notin {None, "ready"}
      /\ m \notin Says(klippy) \cup Denies(klippy) => m.state \in {None, "ready"}
  BY <1>1, <1>4, MessageKinds
<1>6. <<>> \in Requests
  BY DEF Requests
<1>7. PICK a \in Seq(Msgs) : Brings(Tail(wire), a)
  BY <1>1, <1>2, <1>6, TakeSends
<1> HIDE DEF m
<1>8. Taken(m, a)
  BY <1>1, <1>2, <1>4, <1>5, <1>7 DEF Taken, m
<1> QED
  BY <1>8 DEF m

LEMMA ObjectsTaken ==
  ASSUME HostConstants, HostInv, Host!Objects
  PROVE  \E a \in Seq(Msgs) : Taken(Head(wire), a)
<1> DEFINE m == Head(wire)
<1>1. /\ socket = "open" /\ wire # <<>> /\ m.kind = "objects" /\ m \in Msgs /\ Tail(wire) \in Seq(Msgs) /\ Host!Said = m.state
      /\ UNCHANGED <<socket, linked, watched, klippy, klippyTurns, losses>>
  BY TakesAMessage DEF Host!Objects
<1>2. /\ heardAt' = heardAt /\ answeredAt' = answeredAt /\ webhook' = webhook /\ hostShown' = hostShown /\ looking' = FALSE
      /\ pin' = (pin \/ m.state = "ready")
      /\ Host!Sends(Tail(wire), <<"subscribe">>) \/ Host!Sends(Tail(wire), <<>>)
  BY <1>1 DEF Host!Objects
<1>4. /\ klippy \in Host!States /\ hostShown \in Host!States \cup {None} /\ webhook \in Host!States \cup {None}
      /\ pin \in BOOLEAN /\ looking \in BOOLEAN /\ None \notin Host!States
  BY HostTypes DEF HostConstants
<1>5. /\ m \notin Statuses /\ (m \in PinsKnown => m.state = "ready") /\ m \notin Readies /\ m \notin Recent
      /\ m \notin Says(klippy)
  BY <1>1, <1>4, MessageKinds
<1>6. <<>> \in Requests /\ <<"subscribe">> \in Requests
  BY DEF Requests
<1>7. PICK a \in Seq(Msgs) : Brings(Tail(wire), a)
  BY <1>1, <1>2, <1>6, TakeSends
<1> HIDE DEF m
<1>8. Taken(m, a)
  BY <1>1, <1>2, <1>4, <1>5, <1>7 DEF Taken, m
<1> QED
  BY <1>8 DEF m

\* No handler loses what klippy's state will be hostShown by, nor what a ready klippy needs.
LEMMA TakenKeeps ==
  ASSUME HostConstants, HostInv, NEW m, NEW a \in Seq(Msgs), Taken(m, a)
  PROVE  HostInv'
<1> DEFINE rest == Tail(wire)
<1>0. /\ klippy \in Host!States /\ subscribed \in BOOLEAN /\ linked \in BOOLEAN /\ looking \in BOOLEAN
      /\ pin \in BOOLEAN /\ watched \in BOOLEAN /\ wire \in Seq(Msgs)
      /\ heardAt \in 0..(Stale + 1) /\ answeredAt \in 0..(Stale + 1) /\ unsaid \in 0..(Stale + 1) \cup {None}
      /\ klippyTurns \in 0..MaxKlippy /\ losses \in 0..MaxLosses
      /\ Check \in Nat /\ Stale \in Nat /\ None \notin Nat
  BY HostTypes DEF HostConstants
<1>1. /\ socket = "open" /\ wire # <<>> /\ m = Head(wire)
      /\ UNCHANGED <<socket, linked, watched, klippy, klippyTurns, losses>>
      /\ hostShown' \in Host!States \cup {None} /\ webhook' \in Host!States \cup {None} /\ looking' \in BOOLEAN /\ pin' \in BOOLEAN
  BY DEF Taken
<1>2. /\ Answers(a) /\ wire' = rest \o a
      /\ subscribed' \in BOOLEAN /\ (klippy # "gone" /\ subscribed => subscribed')
      /\ unsaid' \in {unsaid, None}
      /\ unsaid' # None => ~Has(a, Statuses)
      /\ unsaid' = None /\ unsaid # None => Has(a, Recent) /\ Ends(a, Says(klippy), Denies(klippy))
  BY <1>1 DEF Taken, Brings
<1>3. rest \in Seq(Msgs) /\ wire' \in Seq(Msgs)
  BY <1>0, <1>1, <1>2
<1> HIDE DEF rest
<1>4. /\ \A S : Has(wire', S) <=> Has(rest, S) \/ Has(a, S)
      /\ \A S, T : Ends(rest, S, T) /\ ~Has(a, T) => Ends(wire', S, T)
      /\ \A S, T : Ends(a, S, T) => Ends(wire', S, T)
  BY <1>2, <1>3, HasAppended, EndsAppended
<1>5. /\ \A S : Has(wire, S) <=> m \in S \/ Has(rest, S)
      /\ \A S, T : Ends(wire, S, T) => Ends(rest, S, T) \/ (m \in S /\ ~Has(rest, T))
  BY <1>0, <1>1, HasTaken, EndsTaken DEF rest
<1>6. ~Has(a, Denies(klippy)) /\ ~Has(a, Readies) /\ (klippy = "ready" => ~Has(a, PinAnswers \ PinsKnown))
  BY <1>2 DEF Answers
<1>7. Opened'
  BY <1>1 DEF HostInv, Opened
<1>8. Spoken'
  <2> SUFFICES ASSUME unsaid' = None
               PROVE  Ends(wire', Says(klippy), Denies(klippy)) \/ (hostShown' = klippy /\ ~Has(wire', Denies(klippy)))
    BY <1>1 DEF Spoken
  <2>1. CASE unsaid # None
    BY <1>2, <1>4, <2>1
  <2>2. CASE unsaid = None
    <3>1. Ends(wire, Says(klippy), Denies(klippy)) \/ (hostShown = klippy /\ ~Has(wire, Denies(klippy)))
      BY <1>1, <2>2 DEF HostInv, Spoken
    <3>2. m \in Says(klippy) => hostShown' = klippy
      BY DEF Taken
    <3>3. m \notin Says(klippy) \cup Denies(klippy) => hostShown' = hostShown
      BY DEF Taken
    <3>4. CASE Ends(wire, Says(klippy), Denies(klippy))
      <4>1. Ends(rest, Says(klippy), Denies(klippy)) \/ (m \in Says(klippy) /\ ~Has(rest, Denies(klippy)))
        BY <1>5, <3>4
      <4> QED
        BY <1>4, <1>6, <3>2, <4>1
    <3>5. CASE hostShown = klippy /\ ~Has(wire, Denies(klippy))
      <4>1. m \notin Denies(klippy) /\ ~Has(rest, Denies(klippy))
        BY <1>5, <3>5
      <4>2. hostShown' = klippy
        BY <3>2, <3>3, <3>5, <4>1
      <4> QED
        BY <1>4, <1>6, <4>1, <4>2
    <3> QED
      BY <3>1, <3>4, <3>5
  <2> QED
    BY <2>1, <2>2
<1>9. Untold'
  <2> SUFFICES ASSUME unsaid' # None
               PROVE  /\ klippy # "ready" /\ unsaid' <= heardAt' /\ (unsaid' > 0 => ~Has(wire', Statuses))
                      /\ linked /\ watched => unsaid' <= Check
    BY <1>1 DEF Untold
  <2>1. /\ unsaid' = unsaid /\ unsaid # None /\ ~Has(a, Statuses)
    BY <1>2
  <2>2. /\ klippy # "ready" /\ unsaid <= heardAt /\ (unsaid > 0 => ~Has(wire, Statuses))
        /\ linked /\ watched => unsaid <= Check
    BY <1>1, <2>1 DEF HostInv, Untold
  <2>3. heardAt' = IF m \in Statuses THEN 0 ELSE heardAt
    BY DEF Taken
  <2>4. unsaid \in 0..(Stale + 1)
    BY <1>0, <2>1
  <2>5. unsaid > 0 => m \notin Statuses /\ ~Has(rest, Statuses)
    BY <1>5, <2>2
  <2>6. unsaid <= heardAt'
    BY <1>0, <2>2, <2>3, <2>4, <2>5
  <2> QED
    BY <1>4, <2>1, <2>2, <2>5, <2>6
<1>10. Looked'
  <2> SUFFICES ASSUME looking' PROVE Has(wire', PinAnswers)
    BY <1>1 DEF Looked
  <2>1. Has(a, PinAnswers) \/ (looking /\ m \notin PinAnswers)
    BY DEF Taken
  <2>2. looking => Has(wire, PinAnswers)
    BY <1>1 DEF HostInv, Looked
  <2> QED
    BY <1>4, <1>5, <2>1, <2>2
<1>11. Served'
  <2> SUFFICES ASSUME klippy = "ready"
               PROVE  /\ Has(wire', Readies) \/ subscribed'
                      /\ Has(wire', Readies) \/ Has(wire', Statuses) \/ heardAt' = 0
                      /\ pin' \/ Has(wire', PinsKnown) \/ Ends(wire', Readies, PinAnswers \ PinsKnown)
    BY <1>1 DEF Served
  <2>1. /\ Has(wire, Readies) \/ subscribed
        /\ Has(wire, Readies) \/ Has(wire, Statuses) \/ heardAt = 0
        /\ pin \/ Has(wire, PinsKnown) \/ Ends(wire, Readies, PinAnswers \ PinsKnown)
    BY <1>1 DEF HostInv, Served
  <2>2. m \in Readies => subscribed' = TRUE /\ Has(a, Statuses) /\ (looking \/ Has(a, PinAnswers))
    BY DEF Taken
  <2>3. heardAt' = IF m \in Statuses THEN 0 ELSE heardAt
    BY DEF Taken
  <2>4. klippy # "gone"
    OBVIOUS
  <2>5. Has(wire', Readies) \/ subscribed'
    BY <1>2, <1>4, <1>5, <2>1, <2>2, <2>4
  <2>6. Has(wire', Readies) \/ Has(wire', Statuses) \/ heardAt' = 0
    BY <1>4, <1>5, <2>1, <2>2, <2>3
  <2>7. CASE pin \/ m \in PinsKnown
    <3>1. pin'
      BY <2>7 DEF Taken
    <3> QED
      BY <2>5, <2>6, <3>1
  <2>8. CASE Has(rest, PinsKnown)
    BY <1>4, <2>5, <2>6, <2>8
  <2>9. CASE Ends(rest, Readies, PinAnswers \ PinsKnown)
    BY <1>4, <1>6, <2>5, <2>6, <2>9
  <2>10. CASE m \in Readies /\ ~Has(rest, PinAnswers \ PinsKnown)
    <3>1. m \notin PinAnswers
      BY <2>10 DEF Readies, PinAnswers
    <3>2. looking => Has(wire, PinAnswers)
      BY <1>1 DEF HostInv, Looked
    <3>3. Has(wire', PinAnswers)
      BY <1>4, <1>5, <2>2, <2>10, <3>1, <3>2
    <3>4. ~Has(wire', PinAnswers \ PinsKnown)
      BY <1>4, <1>6, <2>10
    <3>5. Has(wire', PinsKnown)
      BY <3>3, <3>4 DEF Has
    <3> QED
      BY <2>5, <2>6, <3>5
  <2>11. pin \/ m \in PinsKnown \/ Has(rest, PinsKnown) \/ Ends(rest, Readies, PinAnswers \ PinsKnown)
         \/ (m \in Readies /\ ~Has(rest, PinAnswers \ PinsKnown))
    BY <1>5, <2>1
  <2> QED
    BY <2>7, <2>8, <2>9, <2>10, <2>11
<1>12. Heard'
  <2> SUFFICES ASSUME linked, unsaid' = None
               PROVE  \/ Has(wire', Recent)
                      \/ watched /\ (heardAt' <= Check \/ answeredAt' = 0)
                      \/ ~watched /\ (heardAt' <= Check + 1 \/ answeredAt' <= 1)
    BY <1>1 DEF Heard
  <2>1. CASE unsaid # None
    BY <1>2, <1>4, <2>1
  <2>2. CASE m \in Recent
    <3>1. heardAt' = 0 \/ answeredAt' = 0
      BY <2>2 DEF Taken
    <3>2. CASE heardAt' = 0
      BY <1>0, <3>2
    <3>3. CASE answeredAt' = 0
      BY <1>0, <3>3
    <3> QED
      BY <3>1, <3>2, <3>3
  <2>3. CASE unsaid = None /\ m \notin Recent
    <3>1. \/ Has(wire, Recent)
          \/ watched /\ (heardAt <= Check \/ answeredAt = 0)
          \/ ~watched /\ (heardAt <= Check + 1 \/ answeredAt <= 1)
      BY <1>1, <2>3 DEF HostInv, Heard
    <3>2. m \notin Statuses
      BY <2>3 DEF Recent, Statuses
    <3>3. heardAt' = heardAt /\ answeredAt' \in {answeredAt, 0}
      BY <3>2 DEF Taken
    <3>4. Has(wire, Recent) => Has(wire', Recent)
      BY <1>4, <1>5, <2>3
    <3>5. CASE Has(wire, Recent)
      BY <3>4, <3>5
    <3>6. CASE ~Has(wire, Recent)
      BY <1>0, <3>1, <3>3, <3>6
    <3> QED
      BY <3>5, <3>6
  <2> QED
    BY <2>1, <2>2, <2>3
<1>13. Host!TypeOK'
  <2>1. heardAt' \in 0..(Stale + 1) /\ answeredAt' \in 0..(Stale + 1)
    <3>1. heardAt' \in {0, heardAt} /\ answeredAt' \in {0, answeredAt}
      BY DEF Taken
    <3> QED
      BY <1>0, <3>1
  <2>2. unsaid' \in 0..(Stale + 1) \cup {None}
    BY <1>0, <1>2
  <2>3. socket' \in {None, "opening", "open", "hung"}
    BY <1>1
  <2>4. /\ klippy' \in Host!States /\ subscribed' \in BOOLEAN /\ linked' \in BOOLEAN /\ watched' \in BOOLEAN
        /\ klippyTurns' \in 0..MaxKlippy /\ losses' \in 0..MaxLosses
    BY <1>0, <1>1, <1>2
  <2>5. \A n \in DOMAIN wire' :
          /\ wire'[n].kind \in {"status", "notice", "info", "why", "objects"}
          /\ wire'[n].state \in Host!States \cup {None}
    BY <1>3, MessagesTyped
  <2> QED
    BY <1>1, <2>1, <2>2, <2>3, <2>4, <2>5 DEF Host!TypeOK, Host!Never
<1> QED
  BY <1>3, <1>7, <1>8, <1>9, <1>10, <1>11, <1>12, <1>13 DEF HostInv

LEMMA ConnectKeeps ==
  ASSUME HostConstants, HostInv, Host!Connect \/ Host!OnClose \/ Host!Hangs \/ Host!FetchStale
  PROVE  HostInv'
<1>0. /\ klippy \in Host!States /\ hostShown \in Host!States \cup {None} /\ webhook \in Host!States \cup {None}
      /\ subscribed \in BOOLEAN /\ linked \in BOOLEAN /\ looking \in BOOLEAN /\ pin \in BOOLEAN /\ watched \in BOOLEAN
      /\ socket \in {None, "opening", "open", "hung"} /\ wire \in Seq(Msgs)
      /\ heardAt \in 0..(Stale + 1) /\ answeredAt \in 0..(Stale + 1) /\ unsaid \in 0..(Stale + 1) \cup {None}
      /\ klippyTurns \in 0..MaxKlippy /\ losses \in 0..MaxLosses
      /\ MaxLosses \in Nat /\ None \notin {"opening", "open", "hung"}
  BY HostTypes DEF HostConstants
<1>1. /\ UNCHANGED <<klippy, klippyTurns, hostShown, webhook, heardAt, answeredAt, looking, pin, watched, unsaid>>
      /\ wire' \in {wire, <<>>} /\ subscribed' \in BOOLEAN /\ losses' \in 0..MaxLosses
      /\ linked' \in BOOLEAN /\ (linked' => linked)
      /\ \/ socket' = socket /\ wire' = wire /\ subscribed' = subscribed
         \/ socket' = "opening" /\ wire' = <<>> /\ ~linked'
         \/ socket' = None /\ ~linked'
         \/ socket' = "hung" /\ socket = "open"
  <2>1. CASE Host!Connect
    BY <1>0, <2>1 DEF Host!Connect, Host!moonraker
  <2>2. CASE Host!OnClose
    <3>1. losses' \in 0..MaxLosses
      BY <1>0, <2>2 DEF Host!OnClose
    <3> QED
      BY <1>0, <2>2, <3>1 DEF Host!OnClose
  <2>3. CASE Host!Hangs
    <3>1. losses' \in 0..MaxLosses
      BY <1>0, <2>3 DEF Host!Hangs
    <3> QED
      BY <1>0, <2>3, <3>1 DEF Host!Hangs
  <2>4. CASE Host!FetchStale
    BY <1>0, <2>4 DEF Host!FetchStale
  <2> QED
    BY <2>1, <2>2, <2>3, <2>4
<1>2. wire' \in Seq(Msgs)
  <2>1. <<>> \in Seq(Msgs)
    OBVIOUS
  <2> QED
    BY <1>0, <1>1, <2>1
<1>3. Host!TypeOK'
  <2>1. socket' \in {None, "opening", "open", "hung"}
    BY <1>0, <1>1
  <2> QED
    BY <1>0, <1>1, <1>2, <2>1, MessagesTyped DEF Host!TypeOK, Host!Never
<1>4. Opened'
  BY <1>0, <1>1 DEF HostInv, Opened
<1>5. socket' = "open" => socket = "open" /\ wire' = wire /\ subscribed' = subscribed
  BY <1>0, <1>1
<1>6. Spoken'
  BY <1>1, <1>5 DEF HostInv, Spoken
<1>7. Untold'
  BY <1>1, <1>5 DEF HostInv, Untold
<1>8. Looked'
  BY <1>1, <1>5 DEF HostInv, Looked
<1>9. Served'
  BY <1>1, <1>5 DEF HostInv, Served
<1>10. Heard'
  BY <1>1, <1>5 DEF HostInv, Heard
<1> QED
  BY <1>2, <1>3, <1>4, <1>6, <1>7, <1>8, <1>9, <1>10 DEF HostInv

LEMMA OnOpenKeeps == ASSUME HostConstants, HostInv, Host!OnOpen PROVE HostInv'
<1>0. /\ klippy \in Host!States /\ hostShown \in Host!States \cup {None} /\ webhook \in Host!States \cup {None}
      /\ subscribed \in BOOLEAN /\ pin \in BOOLEAN /\ watched \in BOOLEAN
      /\ heardAt \in 0..(Stale + 1) /\ answeredAt \in 0..(Stale + 1)
      /\ klippyTurns \in 0..MaxKlippy /\ losses \in 0..MaxLosses
      /\ Check \in Nat /\ Stale \in Nat /\ None \notin Nat
  BY HostTypes DEF HostConstants
<1>1. /\ socket = "opening" /\ socket' = "open" /\ linked' = TRUE /\ looking' = TRUE
      /\ Host!Sends(wire, <<"subscribe", "objects">>)
      /\ UNCHANGED <<klippy, klippyTurns, losses, hostShown, webhook, heardAt, answeredAt, pin, watched>>
  BY DEF Host!OnOpen, Host!moonraker
<1>2. wire = <<>>
  BY <1>1 DEF HostInv, Opened
<1>3. <<"subscribe", "objects">> \in Requests /\ <<>> \in Seq(Msgs)
  BY DEF Requests
<1>4. PICK a \in Seq(Msgs) :
        /\ Brings(<<>>, a)
        /\ klippy # "gone" => subscribed' = TRUE /\ unsaid' = None /\ Has(a, Statuses)
        /\ Has(a, PinAnswers)
  BY <1>0, <1>1, <1>2, <1>3, SendsAnswers
<1>5. /\ Answers(a) /\ wire' = a /\ subscribed' \in BOOLEAN
      /\ unsaid' \in {0, None} /\ (unsaid' # None => klippy = "gone")
      /\ unsaid' = None => Has(a, Recent) /\ Ends(a, Says(klippy), Denies(klippy))
  BY <1>1, <1>4 DEF Brings
<1>6. wire' \in Seq(Msgs)
  BY <1>5
<1>7. Host!TypeOK'
  <2>1. unsaid' \in 0..(Stale + 1) \cup {None}
    BY <1>0, <1>5
  <2> QED
    BY <1>0, <1>1, <1>5, <1>6, <2>1, MessagesTyped DEF Host!TypeOK, Host!Never
<1>8. Opened' /\ Spoken' /\ Looked' /\ Heard'
  BY <1>1, <1>4, <1>5 DEF Opened, Spoken, Looked, Heard
<1>9. Untold'
  <2>1. unsaid' # None => unsaid' = 0 /\ klippy = "gone"
    BY <1>5
  <2> QED
    BY <1>0, <1>1, <2>1 DEF Untold
<1>10. Served'
  <2> SUFFICES ASSUME klippy = "ready" PROVE subscribed' /\ Has(wire', Statuses) /\ Has(wire', PinsKnown)
    BY <1>1 DEF Served
  <2>1. ~Has(a, PinAnswers \ PinsKnown)
    BY <1>5 DEF Answers
  <2>2. Has(a, PinsKnown)
    BY <1>4, <2>1 DEF Has
  <2> QED
    BY <1>4, <1>5, <2>2
<1> QED
  BY <1>6, <1>7, <1>8, <1>9, <1>10 DEF HostInv

LEMMA WatchKeeps == ASSUME HostConstants, HostInv, Host!Watch PROVE HostInv'
<1>0. /\ klippy \in Host!States /\ hostShown \in Host!States \cup {None} /\ webhook \in Host!States \cup {None}
      /\ subscribed \in BOOLEAN /\ linked \in BOOLEAN /\ looking \in BOOLEAN /\ pin \in BOOLEAN
      /\ socket \in {None, "opening", "open", "hung"} /\ wire \in Seq(Msgs)
      /\ heardAt \in 0..(Stale + 1) /\ answeredAt \in 0..(Stale + 1) /\ unsaid \in 0..(Stale + 1) \cup {None}
      /\ klippyTurns \in 0..MaxKlippy /\ losses \in 0..MaxLosses
      /\ Check \in Nat /\ Stale \in Nat /\ None \notin Nat /\ None \notin {"opening", "open", "hung"}
  BY HostTypes DEF HostConstants
<1>1. /\ watched' = TRUE
      /\ UNCHANGED <<klippy, klippyTurns, losses, socket, linked, hostShown, webhook, heardAt, answeredAt, looking, pin>>
      /\ IF linked /\ heardAt > Check THEN Host!Sends(wire, <<"info">>) ELSE UNCHANGED <<wire, subscribed, unsaid>>
  BY DEF Host!Watch, Host!moonraker
<1>2. socket = "opening" => wire = <<>> /\ ~linked
  BY DEF HostInv, Opened
<1>3. CASE linked /\ heardAt > Check /\ socket = "open"
  <2>1. <<"info">> \in Requests
    BY DEF Requests
  <2>2. PICK a \in Seq(Msgs) : Brings(wire, a) /\ unsaid' = None /\ Has(a, Recent)
    <3>1. Host!Sends(wire, <<"info">>)
      BY <1>1, <1>3
    <3> QED
      BY <1>0, <1>3, <2>1, <3>1, SendsAnswers
  <2>3. /\ Answers(a) /\ wire' = wire \o a
        /\ subscribed' \in BOOLEAN /\ (klippy # "gone" /\ subscribed => subscribed')
        /\ unsaid # None => Ends(a, Says(klippy), Denies(klippy))
    BY <2>2 DEF Brings
  <2>4. wire' \in Seq(Msgs)
    BY <1>0, <2>3
  <2>5. /\ \A S : Has(wire', S) <=> Has(wire, S) \/ Has(a, S)
        /\ \A S, T : Ends(wire, S, T) /\ ~Has(a, T) => Ends(wire', S, T)
        /\ \A S, T : Ends(a, S, T) => Ends(wire', S, T)
    BY <1>0, <2>3, HasAppended, EndsAppended
  <2>6. ~Has(a, Denies(klippy)) /\ ~Has(a, Readies) /\ (klippy = "ready" => ~Has(a, PinAnswers \ PinsKnown))
    BY <2>3 DEF Answers
  <2>7. Opened' /\ Untold' /\ Heard' /\ Looked'
    <3>1. looking => Has(wire, PinAnswers)
      BY <1>3 DEF HostInv, Looked
    <3> QED
      BY <1>1, <1>3, <2>2, <2>5, <3>1 DEF Opened, Untold, Heard, Looked
  <2>8. Spoken'
    <3>1. unsaid = None => Ends(wire, Says(klippy), Denies(klippy)) \/ (hostShown = klippy /\ ~Has(wire, Denies(klippy)))
      BY <1>3 DEF HostInv, Spoken
    <3> QED
      BY <1>1, <2>3, <2>5, <2>6, <3>1 DEF Spoken
  <2>9. Served'
    <3> SUFFICES ASSUME klippy = "ready"
                 PROVE  /\ Has(wire', Readies) \/ subscribed'
                        /\ Has(wire', Readies) \/ Has(wire', Statuses) \/ heardAt = 0
                        /\ pin \/ Has(wire', PinsKnown) \/ Ends(wire', Readies, PinAnswers \ PinsKnown)
      BY <1>1 DEF Served
    <3>1. /\ Has(wire, Readies) \/ subscribed
          /\ Has(wire, Readies) \/ Has(wire, Statuses) \/ heardAt = 0
          /\ pin \/ Has(wire, PinsKnown) \/ Ends(wire, Readies, PinAnswers \ PinsKnown)
      BY <1>3 DEF HostInv, Served
    <3>2. klippy # "gone"
      OBVIOUS
    <3> QED
      BY <2>3, <2>5, <2>6, <3>1, <3>2
  <2>10. Host!TypeOK'
    BY <1>0, <1>1, <2>2, <2>3, <2>4, MessagesTyped DEF Host!TypeOK, Host!Never
  <2> QED
    BY <2>4, <2>7, <2>8, <2>9, <2>10 DEF HostInv
<1>4. CASE ~(linked /\ heardAt > Check) \/ socket # "open"
  <2>1. \/ UNCHANGED <<wire, subscribed, unsaid>> /\ ~(linked /\ heardAt > Check)
        \/ wire' = wire /\ socket = "hung" /\ subscribed' \in BOOLEAN /\ unsaid' \in {unsaid, None}
    <3>1. CASE ~(linked /\ heardAt > Check)
      BY <1>1, <3>1
    <3>2. CASE linked /\ heardAt > Check
      <4>1. socket = "hung" /\ Host!Sends(wire, <<"info">>)
        BY <1>1, <1>4, <3>2 DEF HostInv, Opened
      <4> QED
        BY <1>0, <4>1 DEF Host!Sends, Host!Reached, Host!Subscribed, Host!Asks
    <3> QED
      BY <3>1, <3>2
  <2>2. wire' = wire /\ wire' \in Seq(Msgs)
    BY <1>0, <2>1
  <2>3. Opened'
    BY <1>1, <2>1 DEF HostInv, Opened
  <2>4. socket = "open" => UNCHANGED <<wire, subscribed, unsaid>> /\ ~(linked /\ heardAt > Check)
    BY <2>1
  <2>5. Spoken'
    BY <1>1, <2>4 DEF HostInv, Spoken
  <2>6. Looked' /\ Served'
    BY <1>1, <2>4 DEF HostInv, Looked, Served
  <2>7. Untold'
    <3> SUFFICES ASSUME socket = "open", unsaid # None
                 PROVE  /\ klippy # "ready" /\ unsaid <= heardAt /\ (unsaid > 0 => ~Has(wire, Statuses))
                        /\ linked => unsaid <= Check
      BY <1>1, <2>4 DEF Untold
    <3>1. klippy # "ready" /\ unsaid <= heardAt /\ (unsaid > 0 => ~Has(wire, Statuses)) /\ unsaid \in 0..(Stale + 1)
      BY <1>0 DEF HostInv, Untold
    <3>2. ~(linked /\ heardAt > Check)
      BY <2>4
    <3> QED
      BY <1>0, <3>1, <3>2
  <2>8. Heard'
    <3>1. socket = "open" /\ linked => heardAt <= Check
      BY <1>0, <2>4
    <3> QED
      BY <1>1, <2>4, <3>1 DEF Heard
  <2>9. Host!TypeOK'
    <3>1. subscribed' \in BOOLEAN /\ unsaid' \in 0..(Stale + 1) \cup {None}
      BY <1>0, <2>1
    <3> QED
      BY <1>0, <1>1, <2>2, <3>1, MessagesTyped DEF Host!TypeOK, Host!Never
  <2> QED
    BY <2>2, <2>3, <2>5, <2>6, <2>7, <2>8, <2>9 DEF HostInv
<1> QED
  BY <1>3, <1>4

LEMMA OneMessage ==
  ASSUME NEW m \in Msgs
  PROVE  /\ <<m>> \in Seq(Msgs)
         /\ \A S : Has(<<m>>, S) <=> m \in S
         /\ \A S, T : m \in S => Ends(<<m>>, S, T)
<1>1. <<m>> \in Seq(Msgs) /\ DOMAIN <<m>> = {1} /\ <<m>>[1] = m
  OBVIOUS
<1> QED
  BY <1>1 DEF Has, Ends

LEMMA TurnKeeps == ASSUME HostConstants, HostInv, NEW s \in Host!States, Host!Turn(s) PROVE HostInv'
<1>0. /\ klippy \in Host!States /\ hostShown \in Host!States \cup {None} /\ webhook \in Host!States \cup {None}
      /\ subscribed \in BOOLEAN /\ linked \in BOOLEAN /\ looking \in BOOLEAN /\ pin \in BOOLEAN /\ watched \in BOOLEAN
      /\ socket \in {None, "opening", "open", "hung"} /\ wire \in Seq(Msgs)
      /\ heardAt \in 0..(Stale + 1) /\ answeredAt \in 0..(Stale + 1)
      /\ klippyTurns \in 0..MaxKlippy /\ losses \in 0..MaxLosses
      /\ Check \in Nat /\ Stale \in Nat /\ MaxKlippy \in Nat /\ None \notin Nat /\ None \notin Host!States
  BY HostTypes DEF HostConstants
<1>1. /\ klippy' = s /\ subscribed' = (subscribed /\ s # "gone")
      /\ UNCHANGED <<losses, socket, linked, hostShown, webhook, heardAt, answeredAt, looking, pin, watched>>
      /\ IF socket = "open" /\ s \in {"ready", "shutdown", "gone"}
         THEN wire' = Append(wire, Host!Message("notice", s)) /\ unsaid' = None
         ELSE wire' = wire /\ unsaid' = 0
  BY DEF Host!Turn
<1>2. klippyTurns' \in 0..MaxKlippy
  BY <1>0 DEF Host!Turn
<1>3. CASE socket = "open" /\ s \in {"ready", "shutdown", "gone"}
  <2> DEFINE m == [kind |-> "notice", state |-> s]
             a == <<m>>
  <2>1. m \in Msgs /\ m \in Says(s) /\ m \in Recent /\ (s = "ready" => m \in Readies)
    BY <1>3 DEF Msgs, Says, Recent, Readies
  <2>2. wire' = wire \o a /\ unsaid' = None
    BY <1>0, <1>1, <1>3, <2>1, AppendIsConcat DEF Host!Message
  <2> HIDE DEF m
  <2>3. a \in Seq(Msgs) /\ Has(a, Recent) /\ Ends(a, Says(s), Denies(s)) /\ (s = "ready" => Ends(a, Readies, PinAnswers \ PinsKnown))
    BY <2>1, OneMessage
  <2> HIDE DEF a
  <2>4. wire' \in Seq(Msgs)
    BY <1>0, <2>2, <2>3
  <2>5. /\ \A S : Has(wire', S) <=> Has(wire, S) \/ Has(a, S)
        /\ \A S, T : Ends(a, S, T) => Ends(wire', S, T)
    BY <1>0, <2>2, <2>3, HasAppended, EndsAppended
  <2>6. Opened' /\ Spoken' /\ Untold' /\ Heard'
    BY <1>1, <1>3, <2>2, <2>3, <2>5 DEF Opened, Spoken, Untold, Heard, HostInv
  <2>7. Looked'
    BY <1>1, <1>3, <2>5 DEF Looked, HostInv
  <2>8. Served'
    <3>1. s = "ready" => Ends(wire', Readies, PinAnswers \ PinsKnown) /\ Has(wire', Readies)
      BY <2>3, <2>5, EndsHas
    <3> QED
      BY <1>1, <3>1 DEF Served
  <2>9. Host!TypeOK'
    BY <1>0, <1>1, <1>2, <2>2, <2>4, MessagesTyped DEF Host!TypeOK, Host!Never
  <2> QED
    BY <2>4, <2>6, <2>7, <2>8, <2>9 DEF HostInv
<1>4. CASE ~(socket = "open" /\ s \in {"ready", "shutdown", "gone"})
  <2>1. wire' = wire /\ unsaid' = 0 /\ unsaid' # None
    BY <1>0, <1>1, <1>4
  <2>2. Opened' /\ Looked'
    BY <1>1, <2>1 DEF Opened, Looked, HostInv
  <2>3. Spoken' /\ Heard'
    BY <2>1 DEF Spoken, Heard
  <2>4. Untold'
    BY <1>0, <1>1, <1>4, <2>1 DEF Untold
  <2>5. Served'
    BY <1>1, <1>4 DEF Served
  <2>6. Host!TypeOK'
    <3>1. wire' \in Seq(Msgs) /\ unsaid' \in 0..(Stale + 1) \cup {None}
      BY <1>0, <2>1
    <3> QED
      BY <1>0, <1>1, <1>2, <3>1, MessagesTyped DEF Host!TypeOK, Host!Never
  <2> QED
    BY <1>0, <2>1, <2>2, <2>3, <2>4, <2>5, <2>6 DEF HostInv
<1> QED
  BY <1>3, <1>4

LEMMA TickKeeps == ASSUME HostConstants, HostInv, Host!Tick PROVE HostInv'
<1>0. /\ klippy \in Host!States /\ hostShown \in Host!States \cup {None} /\ webhook \in Host!States \cup {None}
      /\ subscribed \in BOOLEAN /\ linked \in BOOLEAN /\ looking \in BOOLEAN /\ pin \in BOOLEAN
      /\ socket \in {None, "opening", "open", "hung"} /\ wire \in Seq(Msgs)
      /\ heardAt \in 0..(Stale + 1) /\ answeredAt \in 0..(Stale + 1) /\ unsaid \in 0..(Stale + 1) \cup {None}
      /\ klippyTurns \in 0..MaxKlippy /\ losses \in 0..MaxLosses
      /\ Check \in Nat /\ Stale \in Nat /\ None \notin Nat /\ None \notin Host!States
  BY HostTypes DEF HostConstants
<1>1. /\ watched = TRUE /\ watched' = FALSE /\ (socket = "open" => wire = <<>>)
      /\ wire' = IF socket = "open" /\ subscribed /\ klippy = "ready" THEN <<Host!Message("status", None)>> ELSE wire
      /\ heardAt' = Host!Older(heardAt) /\ answeredAt' = Host!Older(answeredAt)
      /\ unsaid' = IF unsaid = None THEN None ELSE Host!Older(unsaid)
      /\ UNCHANGED <<klippy, klippyTurns, losses, subscribed, socket, linked, hostShown, webhook, looking, pin>>
  <2>1. watched \in BOOLEAN
    BY HostTypes
  <2> QED
    BY <2>1 DEF Host!Tick, Host!moonraker
<1>2. \A n \in 0..(Stale + 1) : Host!Older(n) \in 0..(Stale + 1) /\ Host!Older(n) <= n + 1
  BY <1>0 DEF Host!Older, Host!Never
<1>3. \A n, k \in 0..(Stale + 1) : n <= k => Host!Older(n) <= Host!Older(k)
  BY <1>0 DEF Host!Older, Host!Never
<1>4. /\ heardAt' \in 0..(Stale + 1) /\ answeredAt' \in 0..(Stale + 1)
      /\ heardAt' <= heardAt + 1 /\ answeredAt' <= answeredAt + 1
      /\ unsaid' = None <=> unsaid = None
      /\ unsaid # None => unsaid' \in 0..(Stale + 1)
      /\ unsaid # None /\ unsaid <= heardAt => unsaid' <= heardAt'
  <2>1. /\ heardAt' \in 0..(Stale + 1) /\ heardAt' <= heardAt + 1
        /\ answeredAt' \in 0..(Stale + 1) /\ answeredAt' <= answeredAt + 1
    BY <1>0, <1>1, <1>2
  <2>2. CASE unsaid = None
    BY <1>1, <2>1, <2>2
  <2>3. CASE unsaid # None
    <3>1. unsaid \in 0..(Stale + 1) /\ unsaid' = Host!Older(unsaid)
      BY <1>0, <1>1, <2>3
    <3>2. unsaid' \in 0..(Stale + 1)
      BY <1>2, <3>1
    <3>3. unsaid' # None
      BY <1>0, <3>2
    <3>4. unsaid <= heardAt => unsaid' <= heardAt'
      BY <1>0, <1>1, <1>3, <3>1
    <3> QED
      BY <2>1, <2>3, <3>2, <3>3, <3>4
  <2> QED
    BY <2>2, <2>3
<1> DEFINE m == [kind |-> "status", state |-> None]
<1>5. m \in Msgs /\ m \in Statuses /\ m \in Recent /\ m \notin Denies(klippy) /\ m \notin Readies /\ m \notin PinAnswers
  BY <1>0 DEF Msgs, Statuses, Recent, Denies, Readies, PinAnswers
<1>6. wire' = IF socket = "open" /\ subscribed /\ klippy = "ready" THEN <<m>> ELSE wire
  BY <1>1 DEF Host!Message
<1> HIDE DEF m
<1>7. <<m>> \in Seq(Msgs) /\ Has(<<m>>, Statuses) /\ Has(<<m>>, Recent) /\ ~Has(<<m>>, Denies(klippy))
  BY <1>5, OneMessage
<1>8. \A S, T : ~Has(<<>>, S) /\ ~Ends(<<>>, S, T)
  BY DEF Has, Ends
<1>9. wire' \in Seq(Msgs)
  BY <1>0, <1>6, <1>7
<1>10. Opened'
  BY <1>1, <1>6 DEF Opened, HostInv
<1>11. Spoken'
  <2> SUFFICES ASSUME socket = "open", unsaid = None PROVE hostShown = klippy /\ ~Has(wire', Denies(klippy))
    BY <1>1, <1>4 DEF Spoken
  <2>1. Ends(wire, Says(klippy), Denies(klippy)) \/ (hostShown = klippy /\ ~Has(wire, Denies(klippy)))
    BY DEF HostInv, Spoken
  <2> QED
    BY <1>1, <1>6, <1>7, <1>8, <2>1
<1>12. Untold'
  <2> SUFFICES ASSUME socket = "open", unsaid # None
               PROVE  klippy # "ready" /\ unsaid' <= heardAt' /\ ~Has(wire', Statuses)
    BY <1>1, <1>4 DEF Untold
  <2>1. klippy # "ready" /\ unsaid <= heardAt
    BY DEF HostInv, Untold
  <2>2. wire' = <<>>
    BY <1>1, <1>6, <2>1
  <2> QED
    BY <1>4, <1>8, <2>1, <2>2
<1>13. Looked'
  BY <1>1, <1>8 DEF Looked, HostInv
<1>14. Served'
  <2> SUFFICES ASSUME socket = "open", klippy = "ready" PROVE subscribed /\ Has(wire', Statuses) /\ pin
    BY <1>1 DEF Served
  <2>1. /\ Has(wire, Readies) \/ subscribed
        /\ pin \/ Has(wire, PinsKnown) \/ Ends(wire, Readies, PinAnswers \ PinsKnown)
    BY DEF HostInv, Served
  <2>2. subscribed /\ pin
    BY <1>1, <1>8, <2>1
  <2> QED
    BY <1>6, <1>7, <2>2
<1>15. Heard'
  <2> SUFFICES ASSUME socket = "open", linked, unsaid = None
               PROVE  heardAt' <= Check + 1 \/ answeredAt' <= 1
    BY <1>1, <1>4 DEF Heard
  <2>1. heardAt <= Check \/ answeredAt = 0
    BY <1>1, <1>8 DEF HostInv, Heard
  <2> QED
    BY <1>0, <1>4, <2>1
<1>16. Host!TypeOK'
  BY <1>0, <1>1, <1>4, <1>9, MessagesTyped DEF Host!TypeOK, Host!Never
<1> QED
  BY <1>9, <1>10, <1>11, <1>12, <1>13, <1>14, <1>15, <1>16 DEF HostInv

LEMMA HostStep == ASSUME HostConstants, HostInv, [Host!Next]_(Host!vars) PROVE HostInv'
<1>1. CASE Host!Status \/ Host!Notice \/ Host!Info \/ Host!Why \/ Host!Objects
  <2>1. PICK a \in Seq(Msgs) : Taken(Head(wire), a)
    BY <1>1, StatusTaken, NoticeTaken, InfoTaken, WhyTaken, ObjectsTaken
  <2> QED
    BY <2>1, TakenKeeps
<1>2. CASE UNCHANGED Host!vars
  <2>1. UNCHANGED <<klippy, subscribed, socket, wire, linked, hostShown, webhook, heardAt, answeredAt, looking,
                    pin, watched, unsaid, klippyTurns, losses>>
    BY <1>2 DEF Host!vars
  <2>2. Host!TypeOK' /\ wire' \in Seq(Msgs) /\ Opened' /\ Spoken'
    BY <2>1 DEF HostInv, Host!TypeOK, Opened, Spoken
  <2>3. Untold' /\ Looked' /\ Served' /\ Heard'
    BY <2>1 DEF HostInv, Untold, Looked, Served, Heard
  <2> QED
    BY <2>2, <2>3 DEF HostInv
<1> QED
  BY <1>1, <1>2, ConnectKeeps, OnOpenKeeps, WatchKeeps, TurnKeeps, TickKeeps, Zenon DEF Host!Next

LEMMA HostInvariant == ASSUME HostConstants PROVE Host!Spec => []HostInv
<1>1. Host!Init => HostInv
  <2> SUFFICES ASSUME Host!Init PROVE HostInv
    OBVIOUS
  <2>1. /\ socket = None /\ wire = <<>> /\ linked = FALSE /\ heardAt = Stale + 1 /\ answeredAt = Stale + 1 /\ unsaid = None
        /\ klippyTurns = 0 /\ losses = 0 /\ looking = FALSE /\ watched = FALSE /\ pin = FALSE /\ subscribed = FALSE
        /\ hostShown = None /\ webhook = None /\ klippy \in {"startup", "gone"}
    BY DEF Host!Init, Host!Never
  <2>2. Check \in Nat /\ Stale \in Nat /\ MaxKlippy \in Nat /\ MaxLosses \in Nat /\ None # "open" /\ None # "opening"
    BY DEF HostConstants
  <2>3. wire \in Seq(Msgs) /\ heardAt \in 0..(Stale + 1) /\ klippyTurns \in 0..MaxKlippy /\ losses \in 0..MaxLosses
    BY <2>1, <2>2
  <2>4. Host!TypeOK
    BY <2>1, <2>3, MessagesTyped DEF Host!TypeOK, Host!Never, Host!States
  <2> QED
    BY <2>1, <2>2, <2>3, <2>4 DEF HostInv, Opened, Spoken, Untold, Looked, Served, Heard
<1>2. HostInv /\ [Host!Next]_(Host!vars) => HostInv'
  BY HostStep
<1> QED
  BY <1>1, <1>2, PTL DEF Host!Spec

\* The types of a host's connection and of every message on its way.
THEOREM HostTypeCorrect == ASSUME HostConstants PROVE Host!Spec => []Host!TypeOK
<1>1. HostInv => Host!TypeOK
  BY DEF HostInv
<1> QED
  BY <1>1, HostInvariant, PTL

\* On a calm connection klippy's state is shown, and one nobody told of is known after
\* the watchdog's next two checks.
THEOREM HostsAreTold == ASSUME HostConstants PROVE Host!Spec => []Host!HostTold
<1>1. HostInv => Host!HostTold
  <2> SUFFICES ASSUME HostInv, Host!Calm
               PROVE  /\ unsaid = None => hostShown = klippy
                      /\ watched /\ unsaid # None => unsaid <= Check + 1
    BY DEF Host!HostTold
  <2>1. socket = "open" /\ linked /\ wire = <<>>
    BY DEF Host!Calm
  <2>2. \A S, T : ~Ends(<<>>, S, T)
    BY DEF Ends
  <2>3. unsaid = None => hostShown = klippy
    BY <2>1, <2>2 DEF HostInv, Spoken
  <2>4. watched /\ unsaid # None => unsaid <= Check /\ unsaid \in Nat /\ Check \in Nat
    BY <2>1, HostTypes DEF HostInv, Untold, HostConstants
  <2> QED
    BY <2>3, <2>4
<1> QED
  BY <1>1, HostInvariant, PTL

\* A ready klippy's status flows, and its light pin is known.
THEOREM ReadyIsServed == ASSUME HostConstants PROVE Host!Spec => []Host!ReadyServed
<1>1. HostInv => Host!ReadyServed
  <2>1. \A S, T : ~Ends(<<>>, S, T) /\ ~Has(<<>>, S)
    BY DEF Ends, Has
  <2> QED
    BY <2>1 DEF HostInv, Served, Host!ReadyServed, Host!Calm
<1> QED
  BY <1>1, HostInvariant, PTL

\* A connection that lives is not given up as stale.
THEOREM LivesAreKept == ASSUME HostConstants PROVE Host!Spec => Host!LiveKept
<1>1. HostInv /\ [Host!Next]_(Host!vars) =>
        [linked /\ ~linked' /\ socket' = "open" => wire # <<>> \/ unsaid # None]_(Host!vars)
  <2> SUFFICES ASSUME HostInv, [Host!Next]_(Host!vars), linked, ~linked', socket' = "open", wire = <<>>, unsaid = None
               PROVE  FALSE
    OBVIOUS
  <2>0. /\ Check \in Nat /\ Stale \in Nat /\ Check < Stale /\ None \notin Host!States /\ klippy \in Host!States
        /\ heardAt \in 0..(Stale + 1) /\ answeredAt \in 0..(Stale + 1) /\ None # "open"
    BY HostTypes DEF HostConstants
  <2>1. Host!FetchStale
    <3>1. Host!Next
      BY DEF Host!vars
    <3>2. \A s : ~Host!Turn(s)
      BY DEF Host!Turn
    <3>3. \A kind : ~Host!Takes(kind)
      BY DEF Host!Takes
    <3> QED
      BY <2>0, <3>1, <3>2, <3>3 DEF Host!Next, Host!Connect, Host!OnOpen, Host!OnClose, Host!Hangs, Host!Status, Host!Notice,
         Host!Info, Host!Why, Host!Objects, Host!Watch, Host!Tick
  <2>2. socket = "open" /\ heardAt > Stale /\ ~(answeredAt <= Stale /\ hostShown \notin {None, "ready"})
    BY <2>1 DEF Host!FetchStale, Host!GivesUp, Host!HostDown
  <2>3. \A S, T : ~Ends(<<>>, S, T) /\ ~Has(<<>>, S)
    BY DEF Ends, Has
  <2>4. hostShown = klippy
    BY <2>2, <2>3 DEF HostInv, Spoken
  <2>5. klippy = "ready" => heardAt = 0
    BY <2>2, <2>3 DEF HostInv, Served
  <2>6. klippy # "ready"
    BY <2>0, <2>2, <2>5
  <2>7. answeredAt > Stale
    BY <2>0, <2>2, <2>4, <2>6
  <2>8. heardAt <= Check + 1 \/ answeredAt <= 1
    <3>1. \/ watched /\ (heardAt <= Check \/ answeredAt = 0)
          \/ ~watched /\ (heardAt <= Check + 1 \/ answeredAt <= 1)
      BY <2>2, <2>3 DEF HostInv, Heard
    <3> QED
      BY <2>0, <3>1
  <2> QED
    BY <2>0, <2>2, <2>7, <2>8
<1> QED
  BY <1>1, HostInvariant, PTL DEF Host!Spec, Host!LiveKept

(***************************************************************************)
(* Part 4.  TelegramBot.                                                   *)
(***************************************************************************)
Works == [at : {"joining", "stopped", "enabled"}, old : 0..MaxBots, first : BOOLEAN]

\* What a restart still owes: of a saved token, the restart that will read it is not over.
Owing == "bot" \in applying \/ queued > 0

\* The settings: every waiting restart stands for a save.
SavesTyped ==
  /\ token \in Tokens \cup {None} /\ list \in SUBSET Proxies
  /\ applying \in SUBSET {"bot", "proxies"}
  /\ saves \in 0..MaxSaves /\ queued \in Nat
  /\ queued + (IF "bot" \in applying THEN 1 ELSE 0) <= saves

\* The proxies: unless a check has crossed a change, its list is the list.
ProxiesTyped ==
  /\ checked \in SUBSET Proxies /\ best \in Proxies \cup {None} /\ check \in (SUBSET Proxies) \cup {None}
  /\ crossed \in BOOLEAN
  /\ ~crossed => best \in checked \cup {None} /\ (check # None => check = checked)

\* The bots are numbered, the one that reports is one of them, and so is the old one of
\* a restart that waits for it.
BotsTyped ==
  /\ \E k \in 0..MaxBots : DOMAIN bots = 1..k
  /\ \A i \in DOMAIN bots : bots[i] \in Bot!Bot
  /\ reporter \in DOMAIN bots \cup {None}
  /\ work = None \/ work \in Works
  /\ starting \in BOOLEAN /\ restarting \in BOOLEAN /\ overrun \in BOOLEAN
  /\ work # None /\ work.at = "joining" => work.old \in DOMAIN bots

\* Without an overrun the one bot that lives reports, or is the one a restart waits for.
OneLives ==
  ~overrun =>
    \A i \in DOMAIN bots : bots[i].alive =>
      \/ work = None /\ i = reporter
      \/ work # None /\ work.at = "joining" /\ i = work.old

\* With nothing owed the bot has the saved token, and a restart that found the bot
\* enabled still does.
Trails ==
  Owing \/ /\ reporter # None => token # None /\ bots[reporter].token = token
           /\ work # None /\ work.at = "enabled" => token # None

BotInv == SavesTyped /\ ProxiesTyped /\ BotsTyped /\ OneLives /\ Trails

-----------------------------------------------------------------------------
\* The steps that leave the bots alone.
LEMMA BotsAlone ==
  ASSUME BotInv, UNCHANGED <<bots, reporter, work, starting, overrun>>, restarting' \in BOOLEAN
  PROVE  BotsTyped' /\ OneLives'
<1>1. BotsTyped'
  BY DEF BotInv, BotsTyped
<1>2. OneLives'
  BY DEF BotInv, OneLives
<1> QED
  BY <1>1, <1>2

\* The steps that leave the settings alone.
LEMMA SettingsAlone ==
  ASSUME BotInv, UNCHANGED <<token, list, applying, saves, queued>>
  PROVE  SavesTyped' /\ (Owing' <=> Owing)
BY DEF BotInv, SavesTyped, Owing

LEMMA ProxiesAlone ==
  ASSUME BotInv, UNCHANGED <<checked, best, check, crossed>>
  PROVE  ProxiesTyped'
BY DEF BotInv, ProxiesTyped

LEMMA SaveKeeps ==
  ASSUME BotConstants, BotInv,
         NEW t \in Tokens \cup {None}, NEW l \in SUBSET Proxies, Bot!SaveToken(t) \/ Bot!SaveList(l)
  PROVE  BotInv'
<1>0. /\ token \in Tokens \cup {None} /\ list \in SUBSET Proxies /\ applying \in SUBSET {"bot", "proxies"}
      /\ saves \in 0..MaxSaves /\ queued \in Nat /\ queued + (IF "bot" \in applying THEN 1 ELSE 0) <= saves
      /\ MaxSaves \in Nat /\ restarting \in BOOLEAN
  BY DEF BotInv, SavesTyped, BotsTyped, BotConstants
<1>1. /\ saves < MaxSaves /\ saves' = saves + 1
      /\ UNCHANGED <<bots, overrun, queued, starting, work, restarting, reporter, checked, best, check, crossed>>
      /\ \/ token' = t /\ list' = list /\ applying' = applying \cup {"bot"}
         \/ token' = token /\ list' = l /\ applying' = applying \cup {"proxies"}
  BY DEF Bot!SaveToken, Bot!SaveList, Bot!Save, Bot!manager, Bot!proxies
<1>2. saves' \in 0..MaxSaves /\ queued + 1 <= saves' /\ queued <= saves'
  BY <1>0, <1>1
<1>3. SavesTyped'
  <2>1. applying' \in SUBSET {"bot", "proxies"} /\ token' \in Tokens \cup {None} /\ list' \in SUBSET Proxies
    BY <1>0, <1>1
  <2>2. ("bot" \in applying' => "bot" \in applying \/ TRUE)
    OBVIOUS
  <2>3. queued' + (IF "bot" \in applying' THEN 1 ELSE 0) <= saves'
    BY <1>0, <1>1, <1>2
  <2> QED
    BY <1>0, <1>1, <1>2, <2>1, <2>3 DEF SavesTyped
<1>4. Trails'
  <2>1. CASE token' = t /\ applying' = applying \cup {"bot"}
    BY <2>1 DEF Trails, Owing
  <2>2. CASE token' = token /\ applying' = applying \cup {"proxies"}
    <3>1. Owing => Owing'
      BY <1>1, <2>2 DEF Owing
    <3> QED
      BY <1>1, <2>2, <3>1 DEF BotInv, Trails
  <2> QED
    BY <1>1, <2>1, <2>2
<1> QED
  BY <1>0, <1>1, <1>3, <1>4, BotsAlone, ProxiesAlone DEF BotInv

LEMMA ApplyBotKeeps == ASSUME BotConstants, BotInv, Bot!ApplyBot PROVE BotInv'
<1>0. /\ token \in Tokens \cup {None} /\ list \in SUBSET Proxies /\ applying \in SUBSET {"bot", "proxies"}
      /\ saves \in 0..MaxSaves /\ queued \in Nat /\ queued + (IF "bot" \in applying THEN 1 ELSE 0) <= saves
  BY DEF BotInv, SavesTyped
<1>1. /\ "bot" \in applying /\ applying' = applying \ {"bot"} /\ queued' = queued + 1 /\ restarting' = TRUE
      /\ UNCHANGED <<token, list, saves, starting, work, reporter, bots, overrun, checked, best, check, crossed>>
  BY DEF Bot!ApplyBot, Bot!Waiting, Bot!proxies
<1>2. SavesTyped'
  BY <1>0, <1>1 DEF SavesTyped
<1>3. Trails'
  <2>1. queued' > 0
    BY <1>0, <1>1
  <2> QED
    BY <2>1 DEF Trails, Owing
<1> QED
  BY <1>1, <1>2, <1>3, BotsAlone, ProxiesAlone DEF BotInv

LEMMA ApplyProxiesKeeps == ASSUME BotConstants, BotInv, Bot!ApplyProxies PROVE BotInv'
<1>1. /\ applying' = applying \ {"proxies"} /\ checked' = list /\ best' = IF best \in list THEN best ELSE None
      /\ crossed' = (crossed \/ check # None)
      /\ UNCHANGED <<token, list, saves, check, bots, overrun, queued, starting, work, restarting, reporter>>
  BY DEF Bot!ApplyProxies, Bot!Kept, Bot!manager
<1>2. "bot" \in applying' <=> "bot" \in applying
  BY <1>1
<1>3. SavesTyped'
  BY <1>1, <1>2 DEF BotInv, SavesTyped
<1>4. Trails'
  <2>1. Owing' <=> Owing
    BY <1>1, <1>2 DEF Owing
  <2> QED
    BY <1>1, <2>1 DEF BotInv, Trails
<1>5. ProxiesTyped'
  <2>1. /\ list \in SUBSET Proxies /\ best \in Proxies \cup {None} /\ check \in (SUBSET Proxies) \cup {None}
        /\ crossed \in BOOLEAN
    BY DEF BotInv, SavesTyped, ProxiesTyped
  <2>2. checked' \in SUBSET Proxies /\ best' \in checked' \cup {None} /\ best' \in Proxies \cup {None}
    BY <1>1, <2>1
  <2>3. crossed' \in BOOLEAN /\ (~crossed' => check = None)
    BY <1>1, <2>1
  <2> QED
    BY <1>1, <2>1, <2>2, <2>3 DEF ProxiesTyped
<1>6. restarting' \in BOOLEAN
  BY <1>1 DEF BotInv, BotsTyped
<1> QED
  BY <1>1, <1>3, <1>4, <1>5, <1>6, BotsAlone DEF BotInv

LEMMA CheckKeeps ==
  ASSUME BotConstants, BotInv, NEW p \in Proxies \cup {None}, Bot!CheckBegins \/ Bot!CheckEnds(p)
  PROVE  BotInv'
<1>1. /\ UNCHANGED <<checked, crossed, bots, overrun, token, list, applying, saves, queued, starting, work, restarting, reporter>>
      /\ \/ check = None /\ check' = checked /\ best' = best
         \/ check # None /\ p \in check \cup {None} /\ best' = (IF p = None THEN best ELSE p) /\ check' = None
  BY DEF Bot!CheckBegins, Bot!CheckEnds, Bot!settings, Bot!manager
<1>2. ProxiesTyped'
  <2>1. /\ checked \in SUBSET Proxies /\ best \in Proxies \cup {None} /\ check \in (SUBSET Proxies) \cup {None}
        /\ crossed \in BOOLEAN
        /\ ~crossed => best \in checked \cup {None} /\ (check # None => check = checked)
    BY DEF BotInv, ProxiesTyped
  <2>2. best' \in Proxies \cup {None} /\ check' \in (SUBSET Proxies) \cup {None} /\ crossed' = crossed /\ checked' = checked
    BY <1>1, <2>1
  <2>3. ~crossed => best' \in checked \cup {None} /\ (check' # None => check' = checked)
    BY <1>1, <2>1
  <2> QED
    BY <2>1, <2>2, <2>3 DEF ProxiesTyped
<1>3. restarting' \in BOOLEAN
  BY <1>1 DEF BotInv, BotsTyped
<1>4. SavesTyped' /\ (Owing' <=> Owing)
  BY <1>1, SettingsAlone
<1>5. Trails'
  BY <1>1, <1>4 DEF BotInv, Trails
<1> QED
  BY <1>1, <1>2, <1>3, <1>4, <1>5, BotsAlone DEF BotInv

LEMMA FewerWait ==
  ASSUME NEW a \in Int, NEW b \in Int, NEW c \in Int, NEW e \in Int, a <= b, b + e <= c
  PROVE  a + e <= c
OBVIOUS

LEMMA LockKeeps == ASSUME BotConstants, BotInv, NEW first \in BOOLEAN, Bot!Lock(first) PROVE BotInv'
<1> DEFINE stops(i) == i = reporter /\ ~first
           stopped(i) == [bots[i] EXCEPT !.stop = TRUE]
<1>0. /\ \A i \in DOMAIN bots : bots[i] \in Bot!Bot
      /\ reporter \in DOMAIN bots \cup {None} /\ starting \in BOOLEAN /\ restarting \in BOOLEAN /\ overrun \in BOOLEAN
      /\ None \notin Nat /\ MaxBots \in Nat /\ MaxSaves \in Nat /\ None \notin Works
      /\ queued \in Nat
  BY DEF BotInv, BotsTyped, SavesTyped, BotConstants, Works
<1>1. /\ work = None
      /\ work' = [at |-> IF reporter = None \/ first THEN "stopped" ELSE "joining",
                  old |-> IF reporter = None \/ first THEN 0 ELSE reporter, first |-> first]
      /\ starting' = (starting /\ ~first)
      /\ reporter' = IF first THEN reporter ELSE None
      /\ bots' = [i \in DOMAIN bots |-> IF stops(i) THEN stopped(i) ELSE bots[i]]
      /\ overrun' = (overrun \/ (first /\ reporter # None))
      /\ UNCHANGED <<restarting, token, list, applying, saves, checked, best, check, crossed>>
      /\ IF first THEN queued' = queued ELSE queued > 0 /\ queued' = queued - 1
  BY DEF Bot!Lock, Bot!settings, Bot!proxies
<1>2. PICK k \in 0..MaxBots : DOMAIN bots = 1..k
  BY DEF BotInv, BotsTyped
<1>3. \A i \in DOMAIN bots : /\ stopped(i) \in Bot!Bot /\ stopped(i).alive = bots[i].alive
                             /\ stopped(i).token = bots[i].token
  <2> SUFFICES ASSUME NEW i \in DOMAIN bots
               PROVE  stopped(i) \in Bot!Bot /\ stopped(i).alive = bots[i].alive /\ stopped(i).token = bots[i].token
    OBVIOUS
  <2>1. bots[i] \in Bot!Bot
    BY <1>0
  <2> QED
    BY <2>1 DEF Bot!Bot
<1> HIDE DEF stopped
<1>4. /\ DOMAIN bots' = DOMAIN bots
      /\ \A i \in DOMAIN bots : bots'[i] \in Bot!Bot /\ bots'[i].alive = bots[i].alive /\ bots'[i].token = bots[i].token
  BY <1>0, <1>1, <1>3
<1>5. /\ work' \in Works /\ work' # None
      /\ work'.at = "joining" => reporter # None /\ ~first /\ work'.old = reporter
      /\ work'.at # "enabled"
      /\ reporter = None \/ first => work'.at = "stopped"
      /\ reporter # None /\ ~first => work'.at = "joining"
  <2>1. reporter # None => reporter \in 0..MaxBots
    BY <1>0, <1>2
  <2>2. work' \in Works
    BY <1>0, <1>1, <2>1 DEF Works
  <2> QED
    BY <1>0, <1>1, <2>2
<1>6. BotsTyped'
  <2>1. reporter' \in DOMAIN bots' \cup {None}
    BY <1>0, <1>1, <1>4
  <2>2. \E j \in 0..MaxBots : DOMAIN bots' = 1..j
    BY <1>2, <1>4
  <2>3. starting' \in BOOLEAN /\ restarting' \in BOOLEAN /\ overrun' \in BOOLEAN
    BY <1>0, <1>1
  <2>4. work'.at = "joining" => work'.old \in DOMAIN bots'
    BY <1>0, <1>4, <1>5
  <2> QED
    BY <1>4, <1>5, <2>1, <2>2, <2>3, <2>4 DEF BotsTyped
<1>7. OneLives'
  <2> SUFFICES ASSUME ~overrun', NEW i \in DOMAIN bots', bots'[i].alive
               PROVE  work'.at = "joining" /\ i = work'.old
    BY <1>5 DEF OneLives
  <2>1. ~overrun /\ (first => reporter = None) /\ i \in DOMAIN bots /\ bots[i].alive
    BY <1>0, <1>1, <1>4
  <2>2. i = reporter
    BY <1>1, <2>1 DEF BotInv, OneLives
  <2>3. reporter # None
    BY <1>0, <1>2, <2>1, <2>2
  <2> QED
    BY <1>5, <2>1, <2>2, <2>3
<1>8. SavesTyped'
  <2>1. queued' \in Nat /\ queued' <= queued
    BY <1>0, <1>1
  <2>2. /\ token \in Tokens \cup {None} /\ list \in SUBSET Proxies /\ applying \in SUBSET {"bot", "proxies"}
        /\ saves \in 0..MaxSaves /\ queued + (IF "bot" \in applying THEN 1 ELSE 0) <= saves
    BY DEF BotInv, SavesTyped
  <2>3. queued' + (IF "bot" \in applying THEN 1 ELSE 0) <= saves
    <3>0. saves \in Int /\ queued \in Int /\ queued' \in Int /\ queued' <= queued /\ 0 \in Int /\ 1 \in Int
      BY <1>0, <2>1, <2>2
    <3>1. CASE "bot" \in applying
      <4>1. queued + 1 <= saves
        BY <2>2, <3>1
      <4>2. queued' + 1 <= saves
        BY <3>0, <4>1, FewerWait, Zenon
      <4> QED
        BY <3>1, <4>2
    <3>2. CASE "bot" \notin applying
      <4>1. queued + 0 <= saves
        BY <2>2, <3>2
      <4>2. queued' + 0 <= saves
        BY <3>0, <4>1, FewerWait, Zenon
      <4> QED
        BY <3>2, <4>2
    <3> QED
      BY <3>1, <3>2
  <2> QED
    BY <1>1, <2>1, <2>2, <2>3 DEF SavesTyped
<1>9. Trails'
  <2>1. CASE first
    <3>1. Owing' <=> Owing
      BY <1>1, <2>1 DEF Owing
    <3>2. reporter' = reporter
      BY <1>1, <2>1
    <3> QED
      BY <1>0, <1>1, <1>4, <1>5, <3>1, <3>2 DEF BotInv, Trails
  <2>2. CASE ~first
    BY <1>1, <1>5, <2>2 DEF Trails
  <2> QED
    BY <2>1, <2>2
<1> QED
  BY <1>1, <1>6, <1>7, <1>8, <1>9, ProxiesAlone DEF BotInv

LEMMA JoinKeeps == ASSUME BotConstants, BotInv, Bot!Join \/ Bot!ReadEnabled PROVE BotInv'
<1>0. /\ starting \in BOOLEAN /\ restarting \in BOOLEAN /\ overrun \in BOOLEAN /\ None \notin Works
      /\ \A i \in DOMAIN bots : bots[i] \in Bot!Bot
  BY DEF BotInv, BotsTyped, BotConstants, Works
<1>1. work # None /\ work \in Works
  BY DEF Bot!Join, Bot!ReadEnabled, BotInv, BotsTyped
<1>2. /\ UNCHANGED <<queued, starting, reporter, bots, token, list, applying, saves, checked, best, check, crossed>>
      /\ \/ /\ work.at = "joining" /\ work' = [work EXCEPT !.at = "stopped"]
            /\ overrun' = (overrun \/ bots[work.old].alive) /\ restarting' = restarting
         \/ /\ work.at = "stopped" /\ overrun' = overrun
            /\ \/ work' = None /\ restarting' = (restarting /\ work.first)
               \/ token # None /\ work' = [work EXCEPT !.at = "enabled"] /\ restarting' = restarting
  BY DEF Bot!Join, Bot!ReadEnabled, Bot!Free, Bot!settings, Bot!proxies
<1>3. work.first \in BOOLEAN
  BY <1>1 DEF Works
<1>4. /\ work' = None \/ (work' \in Works /\ work' # None /\ work'.at \in {"stopped", "enabled"})
      /\ work' # None /\ work'.at = "enabled" => token # None
  BY <1>0, <1>1, <1>2 DEF Works
<1>5. restarting' \in BOOLEAN
  BY <1>0, <1>2, <1>3
<1>6. work.at = "joining" => work.old \in DOMAIN bots /\ bots[work.old].alive \in BOOLEAN
  BY <1>0, <1>1 DEF BotInv, BotsTyped, Bot!Bot
<1>7. overrun' \in BOOLEAN
  BY <1>0, <1>2, <1>6
<1>8. BotsTyped'
  BY <1>2, <1>4, <1>5, <1>7 DEF BotInv, BotsTyped
<1>9. OneLives'
  <2> SUFFICES ASSUME ~overrun', NEW i \in DOMAIN bots, bots[i].alive PROVE FALSE
    BY <1>2 DEF OneLives
  <2>1. ~overrun
    BY <1>0, <1>2, <1>6
  <2>2. work.at = "joining" /\ i = work.old
    BY <1>1, <2>1 DEF BotInv, OneLives
  <2> QED
    BY <1>2, <2>2
<1>10. SavesTyped' /\ (Owing' <=> Owing)
  BY <1>2, SettingsAlone
<1>11. Trails'
  BY <1>2, <1>4, <1>10 DEF BotInv, Trails
<1> QED
  BY <1>2, <1>8, <1>9, <1>10, <1>11, ProxiesAlone DEF BotInv

LEMMA BotCounts == \A S : Bot!Cardinality(S) = Cardinality(S)
BY DEF Bot!Cardinality, Cardinality

LEMMA MakeKeeps == ASSUME BotConstants, BotInv, NEW ok \in BOOLEAN, Bot!Make(ok) PROVE BotInv'
<1>0. /\ starting \in BOOLEAN /\ restarting \in BOOLEAN /\ overrun \in BOOLEAN
      /\ \A i \in DOMAIN bots : bots[i] \in Bot!Bot
      /\ token \in Tokens \cup {None} /\ best \in Proxies \cup {None} /\ reporter \in DOMAIN bots \cup {None}
      /\ MaxBots \in Nat /\ None \notin Nat
      /\ work = None \/ work \in Works
  BY DEF BotInv, BotsTyped, SavesTyped, ProxiesTyped, BotConstants
<1>1. PICK k \in 0..MaxBots : DOMAIN bots = 1..k
  BY DEF BotInv, BotsTyped
<1>2. Cardinality(DOMAIN bots) = k
  <2>1. k \in Nat /\ 0 \in Int /\ 1 \in Int /\ k \in Int
    OBVIOUS
  <2>2. Cardinality(1..k) = IF 1 > k THEN 0 ELSE k - 1 + 1
    BY <2>1, FS_Interval
  <2> QED
    BY <1>1, <2>1, <2>2
<1> DEFINE new == k + 1
           made == [token |-> token, stop |-> FALSE, alive |-> TRUE, chat |-> FALSE, via |-> best]
<1>3. /\ work # None /\ work.at = "enabled" /\ k < MaxBots
      /\ work' = None /\ restarting' = (restarting /\ work.first)
      /\ bots' = IF ok THEN [i \in DOMAIN bots \cup {new} |-> IF i = new THEN made ELSE bots[i]] ELSE bots
      /\ reporter' = IF ok THEN new ELSE None
      /\ UNCHANGED <<queued, starting, overrun, token, list, applying, saves, checked, best, check, crossed>>
  BY <1>2, BotCounts DEF Bot!Make, Bot!Free, Bot!settings, Bot!proxies
<1>4. made \in Bot!Bot /\ made.token = token /\ made.alive = TRUE
  BY <1>0 DEF Bot!Bot
<1> HIDE DEF made
<1>5. new \in 1..MaxBots /\ new \notin DOMAIN bots /\ DOMAIN bots \cup {new} = 1..new /\ new # None
  BY <1>0, <1>1, <1>3
<1> HIDE DEF new
<1>6. restarting' \in BOOLEAN
  <2>1. work.first \in BOOLEAN
    BY <1>0, <1>3 DEF Works
  <2> QED
    BY <1>0, <1>3, <2>1
<1>7. CASE ok
  <2>1. /\ DOMAIN bots' = DOMAIN bots \cup {new} /\ bots'[new] = made
        /\ \A i \in DOMAIN bots : bots'[i] = bots[i]
    BY <1>3, <1>5, <1>7
  <2>2. BotsTyped'
    <3>1. \E j \in 0..MaxBots : DOMAIN bots' = 1..j
      BY <1>0, <1>5, <2>1
    <3>2. \A i \in DOMAIN bots' : bots'[i] \in Bot!Bot
      BY <1>0, <1>4, <2>1
    <3>3. reporter' \in DOMAIN bots' \cup {None}
      BY <1>3, <1>7, <2>1
    <3> QED
      BY <1>0, <1>3, <1>6, <3>1, <3>2, <3>3 DEF BotsTyped
  <2>3. OneLives'
    <3> SUFFICES ASSUME ~overrun, NEW i \in DOMAIN bots', bots'[i].alive PROVE i = reporter'
      BY <1>3 DEF OneLives
    <3>1. \A j \in DOMAIN bots : ~bots[j].alive
      BY <1>3 DEF BotInv, OneLives
    <3> QED
      BY <1>3, <1>7, <2>1, <3>1
  <2>4. SavesTyped' /\ (Owing' <=> Owing)
    BY <1>3, SettingsAlone
  <2>5. Trails'
    <3>1. ~Owing => token # None
      BY <1>3 DEF BotInv, Trails
    <3>2. reporter' = new /\ bots'[new].token = token
      BY <1>3, <1>4, <1>7, <2>1
    <3> QED
      BY <1>3, <2>4, <3>1, <3>2 DEF Trails
  <2> QED
    BY <1>3, <2>2, <2>3, <2>4, <2>5, ProxiesAlone DEF BotInv
<1>8. CASE ~ok
  <2>1. bots' = bots /\ reporter' = None
    BY <1>3, <1>8
  <2>2. BotsTyped'
    BY <1>0, <1>3, <1>6, <2>1 DEF BotInv, BotsTyped
  <2>3. OneLives'
    BY <1>3, <2>1 DEF BotInv, OneLives
  <2>4. SavesTyped' /\ Trails'
    BY <1>3, <2>1, SettingsAlone DEF Trails
  <2> QED
    BY <1>3, <2>2, <2>3, <2>4, ProxiesAlone DEF BotInv
<1> QED
  BY <1>7, <1>8

LEMMA PollKeeps ==
  ASSUME BotConstants, BotInv, NEW i \in DOMAIN bots, NEW bound \in BOOLEAN, Bot!Poll(i, bound) \/ Bot!Exit(i)
  PROVE  BotInv'
<1>0. /\ \A j \in DOMAIN bots : bots[j] \in Bot!Bot
      /\ best \in Proxies \cup {None} /\ reporter \in DOMAIN bots \cup {None}
  BY DEF BotInv, BotsTyped, ProxiesTyped
<1>1. UNCHANGED <<overrun, token, list, applying, saves, queued, starting, work, restarting, reporter, checked, best, check, crossed>>
  BY DEF Bot!Poll, Bot!Exit, Bot!settings, Bot!manager, Bot!proxies
<1>2. \E b \in Bot!Bot : /\ bots' = [bots EXCEPT ![i] = b]
                         /\ b.token = bots[i].token /\ (b.alive => bots[i].alive)
  <2>0. bots[i] \in Bot!Bot
    BY <1>0
  <2>1. CASE Bot!Exit(i)
    <3> DEFINE b == [bots[i] EXCEPT !.alive = FALSE]
    <3>1. bots' = [bots EXCEPT ![i] = b]
      BY <2>1 DEF Bot!Exit
    <3>2. b \in Bot!Bot /\ b.token = bots[i].token /\ b.alive = FALSE
      BY <2>0 DEF Bot!Bot
    <3> QED
      BY <3>1, <3>2
  <2>2. CASE Bot!Poll(i, bound)
    <3> DEFINE b1 == [bots[i] EXCEPT !.via = IF best = None THEN @ ELSE best]
               f1 == [bots EXCEPT ![i] = b1]
               b2 == [b1 EXCEPT !.chat = @ \/ bound]
    <3>1. bots' = [f1 EXCEPT ![i].chat = @ \/ bound]
      BY <2>2 DEF Bot!Poll
    <3>2. b1 \in Bot!Bot /\ b1.token = bots[i].token /\ b1.alive = bots[i].alive
      BY <1>0, <2>0 DEF Bot!Bot
    <3>3. f1[i] = b1 /\ DOMAIN f1 = DOMAIN bots /\ \A j \in DOMAIN bots \ {i} : f1[j] = bots[j]
      OBVIOUS
    <3> HIDE DEF b1
    <3>4. b2 \in Bot!Bot /\ b2.token = b1.token /\ b2.alive = b1.alive
      BY <3>2 DEF Bot!Bot
    <3>5. bots' = [f1 EXCEPT ![i] = b2]
      BY <3>1, <3>3
    <3> HIDE DEF b2
    <3>6. [f1 EXCEPT ![i] = b2] = [bots EXCEPT ![i] = b2]
      OBVIOUS
    <3> QED
      BY <3>2, <3>4, <3>5, <3>6
  <2> QED
    BY <2>1, <2>2
<1>3. PICK b \in Bot!Bot : bots' = [bots EXCEPT ![i] = b] /\ b.token = bots[i].token /\ (b.alive => bots[i].alive)
  BY <1>2
<1>4. /\ DOMAIN bots' = DOMAIN bots
      /\ \A j \in DOMAIN bots : /\ bots'[j] \in Bot!Bot /\ bots'[j].token = bots[j].token
                                /\ bots'[j].alive => bots[j].alive
  BY <1>0, <1>3
<1>5. BotsTyped'
  BY <1>1, <1>4 DEF BotInv, BotsTyped
<1>6. OneLives'
  BY <1>1, <1>4 DEF BotInv, OneLives
<1>7. SavesTyped' /\ (Owing' <=> Owing)
  BY <1>1, SettingsAlone
<1>8. Trails'
  BY <1>0, <1>1, <1>4, <1>7 DEF BotInv, Trails
<1> QED
  BY <1>1, <1>5, <1>6, <1>7, <1>8, ProxiesAlone DEF BotInv

LEMMA BotInvariant == ASSUME BotConstants PROVE Bot!Spec => []BotInv
<1>1. Bot!Init => BotInv
  <2> SUFFICES ASSUME Bot!Init PROVE BotInv
    OBVIOUS
  <2>1. /\ token \in Tokens \cup {None} /\ list = Proxies /\ applying = {} /\ queued = 0 /\ starting = TRUE /\ work = None
        /\ restarting = FALSE /\ reporter = None /\ bots = [i \in {} |-> None] /\ checked = list /\ best = None /\ check = None
        /\ saves = 0 /\ overrun = FALSE /\ crossed = FALSE
    BY DEF Bot!Init
  <2>2. DOMAIN bots = {} /\ 1..0 = {} /\ 0 \in 0..MaxBots /\ 0 \in 0..MaxSaves
    BY <2>1 DEF BotConstants
  <2>3. SavesTyped /\ ProxiesTyped
    <3>1. saves \in 0..MaxSaves /\ queued \in Nat /\ queued + (IF "bot" \in applying THEN 1 ELSE 0) <= saves
      BY <2>1, <2>2
    <3>2. SavesTyped
      BY <2>1, <3>1 DEF SavesTyped
    <3>3. checked \in SUBSET Proxies /\ best \in checked \cup {None}
      BY <2>1
    <3> QED
      BY <2>1, <3>2, <3>3 DEF ProxiesTyped
  <2>4. BotsTyped
    BY <2>1, <2>2 DEF BotsTyped
  <2> QED
    BY <2>1, <2>2, <2>3, <2>4 DEF BotInv, OneLives, Trails
<1>2. BotInv /\ [Bot!Next]_(Bot!vars) => BotInv'
  <2> SUFFICES ASSUME BotInv, [Bot!Next]_(Bot!vars) PROVE BotInv'
    OBVIOUS
  <2>1. CASE UNCHANGED Bot!vars
    <3>1. UNCHANGED <<token, list, applying, saves, queued, starting, work, restarting, reporter, bots, checked, best,
                      check, crossed, overrun>>
      BY <2>1 DEF Bot!vars
    <3>2. restarting' \in BOOLEAN
      BY <3>1 DEF BotInv, BotsTyped
    <3>3. SavesTyped' /\ (Owing' <=> Owing)
      BY <3>1, SettingsAlone
    <3>4. Trails'
      BY <3>1, <3>3 DEF BotInv, Trails
    <3> QED
      BY <3>1, <3>2, <3>3, <3>4, BotsAlone, ProxiesAlone DEF BotInv
  <2>2. {} \in SUBSET Proxies /\ None \in Tokens \cup {None} /\ None \in Proxies \cup {None} /\ TRUE \in BOOLEAN
    OBVIOUS
  <2> QED
    BY <2>1, <2>2, SaveKeeps, ApplyBotKeeps, ApplyProxiesKeeps, CheckKeeps, LockKeeps, JoinKeeps, MakeKeeps, PollKeeps, Zenon
       DEF Bot!Next
<1> QED
  BY <1>1, <1>2, PTL DEF Bot!Spec

\* The types of the manager and its bots: no more restarts wait than settings were saved.
THEOREM BotTypeCorrect == ASSUME BotConstants PROVE Bot!Spec => []Bot!TypeOK
<1>1. BotInv => Bot!TypeOK
  <2> SUFFICES ASSUME BotInv PROVE Bot!TypeOK
    OBVIOUS
  <2>1. queued \in 0..MaxSaves /\ token \in Tokens \cup {None} /\ list \in SUBSET Proxies
        /\ applying \in SUBSET {"bot", "proxies"} /\ saves \in 0..MaxSaves
    BY DEF BotInv, SavesTyped, BotConstants
  <2>2. PICK k \in 0..MaxBots : DOMAIN bots = 1..k
    BY DEF BotInv, BotsTyped
  <2>3. DOMAIN bots \in SUBSET (1..MaxBots)
    BY <2>2 DEF BotConstants
  <2> QED
    BY <2>1, <2>3 DEF BotInv, BotsTyped, ProxiesTyped, Works, Bot!TypeOK
<1> QED
  BY <1>1, BotInvariant, PTL

\* Of several saves the last decides the bot's token.
THEOREM BotsFollow == ASSUME BotConstants PROVE Bot!Spec => []Bot!BotFollows
<1>1. BotInv => Bot!BotFollows
  <2>1. BotInv /\ applying = {} /\ queued = 0 => ~Owing
    BY DEF Owing
  <2> QED
    BY <2>1 DEF BotInv, Trails, Bot!BotFollows
<1> QED
  BY <1>1, BotInvariant, PTL

\* Two bots never ask at once, but after an overrun.
THEOREM BotsAreOne == ASSUME BotConstants PROVE Bot!Spec => []Bot!OneBot
<1>1. BotInv => Bot!OneBot
  <2> SUFFICES ASSUME BotInv, ~overrun
               PROVE  Cardinality({i \in DOMAIN bots : Bot!Polling(i)}) <= 1
    BY BotCounts DEF Bot!OneBot
  <2> DEFINE A == {i \in DOMAIN bots : Bot!Polling(i)}
  <2>1. \A i, j \in A : i = j
    BY DEF BotInv, OneLives, Bot!Polling
  <2>2. CASE A = {}
    BY <2>2, FS_EmptySet
  <2>3. CASE A # {}
    <3>1. PICK x \in A : TRUE
      BY <2>3
    <3>2. A = {x}
      BY <2>1, <3>1
    <3> HIDE DEF A
    <3>3. Cardinality({x}) = 1
      BY FS_Singleton
    <3>4. Cardinality(A) = 1
      BY <3>2, <3>3
    <3> QED
      BY <3>4 DEF A
  <2> QED
    BY <2>2, <2>3
<1> QED
  BY <1>1, BotInvariant, PTL

\* The bot's proxy is one of the list, unless a check has crossed a change.
THEOREM ProxiesAreListed == ASSUME BotConstants PROVE Bot!Spec => []Bot!BestListed
<1>1. BotInv => Bot!BestListed
  BY DEF BotInv, ProxiesTyped, Bot!BestListed
<1> QED
  BY <1>1, BotInvariant, PTL
=============================================================================

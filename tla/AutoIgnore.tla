------------------------------ MODULE AutoIgnore ------------------------------
(* auto_ignore.py: the thread that presses «Ignore and resume» on pauses with a *)
(* listed code.  One Bambu printer and one job id, as network prints report 0;  *)
(* time is counted in passes of the thread (CHECK_S).                           *)
EXTENDS Integers, SequencesExt

CONSTANTS
  None,
  Tries,     \* MAX_TRIES
  Retry,     \* RETRY_S
  Forget,    \* FORGET_S
  MaxPasses, \* bound: passes
  MaxMoves   \* bound: changes of the pause that are not a press

VARIABLES
  passes,
  pause,    \* what the printer does: "print", "listed", "other" (a pause on another code), "away"
  stored,   \* its last status in the store, which lags behind
  looked,   \* of the pass under way: the live context it read, then "armed", or None
  tries,    \* _tries of the printer, job and code: [count, last], or None
  skips,    \* the reasons in _skips
  working,  \* it is in maintenance mode
  pressed,  \* when it was pressed (since the start)
  midpass,  \* ghost: the mode was switched after the pass had read it
  moves

vars == <<passes, pause, stored, looked, tries, skips, working, pressed, midpass, moves>>

Now == passes
Count == IF tries = None THEN 0 ELSE tries.count

\* should_ignore and skip_reason, of the live context the pass read.
ShouldIgnore_Fault == looked = "listed" /\ (Count > 0 => Now - tries.last >= Retry)
ShouldIgnore ==
  /\ looked = "listed"
  /\ Count < Tries /\ (Count > 0 => Now - tries.last >= Retry)
SkipReason == IF looked = "listed" /\ Count >= Tries THEN {"tries_used"} ELSE {}

\* forget: at a status out of the pause.
Forgotten == tries # None /\ Now - tries.last >= Forget
Out ==
  /\ tries' = IF Forgotten THEN None ELSE tries
  /\ skips' = IF tries' = None THEN {} ELSE skips
  /\ looked' = None

\* check_once of this printer begins: the stored status, then the live context.
Pass ==
  /\ looked = None
  /\ passes < MaxPasses /\ passes' = passes + 1
  /\ CASE stored = "print" -> Out
       [] stored = "paused" -> looked' = pause /\ UNCHANGED <<tries, skips>>
       [] OTHER -> UNCHANGED <<looked, tries, skips>>
  /\ midpass' = FALSE
  /\ UNCHANGED <<pause, stored, working, pressed, moves>>

\* It reads the maintenance mode, in which a listed pause is only noted.  Else the
\* context decides, and the try is counted before the press.
Held ==
  /\ skips' = IF looked = "listed" THEN skips \cup {"maintenance"} ELSE skips
  /\ looked' = None /\ UNCHANGED tries
Arm ==
  /\ tries' = [count |-> Count + 1, last |-> Now]
  /\ skips' = skips \ {"maintenance"}
  /\ looked' = "armed"
Skip ==
  /\ skips' = (skips \ {"maintenance"}) \cup SkipReason
  /\ looked' = None /\ UNCHANGED tries
Judge ==
  /\ looked \notin {None, "armed"}
  /\ \/ working /\ Held
     \/ ~working /\ ShouldIgnore /\ Arm
     \/ ~working /\ ~ShouldIgnore /\ Skip
  /\ UNCHANGED <<passes, pause, stored, working, pressed, midpass, moves>>

\* ignore() looks at the pause and its code again, not at the maintenance mode; the
\* printer may resume, pause again at once, or not have heard it.
Press ==
  /\ looked = "armed" /\ looked' = None
  /\ IF pause = "listed"
       THEN pressed' = Append(pressed, Now) /\ pause' \in {"print", "listed"}
       ELSE UNCHANGED <<pressed, pause>>
  /\ UNCHANGED <<passes, stored, tries, skips, working, midpass, moves>>

\* The store learns what the printer does; the printer, the owner, the admin and
\* the program do something else.
Store ==
  /\ stored' = CASE pause = "print" -> "print" [] pause = "away" -> "away" [] OTHER -> "paused"
  /\ stored' # stored
  /\ UNCHANGED <<passes, pause, looked, tries, skips, working, pressed, midpass, moves>>
Move ==
  /\ moves < MaxMoves /\ moves' = moves + 1
  /\ \/ /\ pause' \in {"print", "listed", "other", "away"} \ {pause}
        /\ UNCHANGED <<looked, tries, skips, working, pressed, midpass>>
     \/ /\ working' = ~working
        /\ midpass' = (looked = "armed")
        /\ UNCHANGED <<pause, looked, tries, skips, pressed>>
     \/ /\ tries' = None /\ skips' = {} /\ pressed' = <<>> /\ looked' = None
        /\ midpass' = FALSE
        /\ UNCHANGED <<pause, working>>
  /\ UNCHANGED <<passes, stored>>

Init ==
  /\ passes = 0 /\ pause = "print" /\ stored = "print" /\ looked = None
  /\ tries = None /\ skips = {}
  /\ working = FALSE /\ pressed = <<>> /\ midpass = FALSE /\ moves = 0
Next == Pass \/ Judge \/ Press \/ Store \/ Move
Spec == Init /\ [][Next]_vars

TypeOK ==
  /\ passes \in 0..MaxPasses /\ moves \in 0..MaxMoves /\ skips \subseteq {"maintenance", "tries_used"}
  /\ tries # None => tries.count > 0 /\ tries.last <= passes

-----------------------------------------------------------------------------
\* A pause that comes back at once is not waved through for ever: presses are
\* RETRY_S apart, MAX_TRIES of them are followed by FORGET_S without one and none is
\* on another code (auto_ignore.py 35-44, 120-161).  None falls into a maintenance
\* mode that was on when its pass read it; the press does not look at it again.
NoStorm ==
  [][pressed' # pressed /\ pressed' # <<>> =>
       /\ pause = "listed" /\ (working => midpass)
       /\ LET at == pressed'
              n == Len(at)
          IN /\ n > 1 => at[n] - at[n - 1] >= Retry
             /\ n > Tries => \E i \in (n - Tries + 1)..n : at[i] - at[i - 1] >= Forget]_vars
=============================================================================

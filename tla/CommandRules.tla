----------------------------- MODULE CommandRules -----------------------------
(* printer_commands.py: which commands a printer is sent and what they hold.   *)
(* A request is decided in one step from what the printer reports; the frames  *)
(* that go out are a set of <<what, value>>.  A printer is a record            *)
(*   kind, online, live     registry, stored status, fresh telemetry           *)
(*   print, lamp            its verdict and its lamp: "yes", "no" or None      *)
(*   d                      Creality, Klipper: the report of StatusRules       *)
(*   fans, hot              Creality: the fans and the ceiling it reports      *)
(*   gcode, changing, inflight, h2, job, pe    Bambu                           *)
(* A command's parameters are a record of numbers and None.                    *)
EXTENDS StatusRules

CONSTANTS
  Printers, Parameters,   \* the printers and parameters tried, see the MC module
  Levels, Lamps, Sends    \* the print errors, lamp replies and socket sends tried

VARIABLE asked            \* the request decided last

PrintControl == {"pause", "resume", "stop"}
Lights == {"light_on", "light_off"}
SetActions == {"speed", "fans", "preheat", "cooldown"}
ActionCap == [a \in PrintControl \cup Lights \cup SetActions \cup {"chamber", "eject"} |->
                IF a \in Lights THEN "light"
                ELSE IF a \in {"speed", "fans", "preheat", "chamber"} THEN "tune" ELSE a]
Actions == DOMAIN ActionCap
CapKeys == {"light", "pause", "resume", "stop", "cooldown", "eject", "tune"}

Supported(kind) ==
  CASE kind = "bambu" -> Actions
    [] kind = "creality" -> PrintControl \cup Lights \cup SetActions
    [] kind = "klipper" -> PrintControl \cup Lights
    [] OTHER -> {}

\* caps_for: what a printer can do at all, whatever it does now.
Caps(p) ==
  [c \in CapKeys |->
     CASE p.kind = "bambu" -> IF c = "light" THEN "yes" ELSE p.print
       [] p.kind = "creality" -> IF c = "light" THEN p.lamp ELSE IF c = "eject" THEN "no" ELSE "yes"
       [] p.kind = "klipper" /\ c \in PrintControl -> IF p.online THEN CtlReady(p.d) ELSE None
       [] p.kind = "klipper" /\ c = "light" ->
            IF ~p.online \/ CtlReady(p.d) = None THEN None
            ELSE IF CtlReady(p.d) = "yes" THEN p.lamp ELSE "no"
       [] OTHER -> "no"]

\* _cap_refusal: the stored capabilities forbid it; a Bambu settles it by its reply.
CapRefuses(p, action) ==
  p.kind # "bambu" /\ Caps(p)[ActionCap[action]] = "no"

-----------------------------------------------------------------------------
\* state_refusal, on the normalized state; raw gcode_state decides for a Bambu.
StateAllows(action, state) ==
  CASE action = "pause" -> state = "printing"
    [] action = "resume" -> state = "paused"
    [] action \in {"stop", "speed"} -> state \in {"printing", "paused"}
    [] action = "cooldown" -> state \notin {"printing", "unknown", "offline"}
    [] action = "eject" -> state \notin {"printing", "paused", "unknown", "offline"}
    [] OTHER -> TRUE
AtRest == {"IDLE", "FINISH", "FAILED"}
GcodeAllows(action, gcode) == gcode \in AtRest \cup (IF action = "cooldown" THEN {"PAUSE"} ELSE {})

State(p) == IF p.kind = "bambu" THEN BambuState(p.gcode, p.pe, FALSE, FALSE) ELSE WsState(p.d)

\* A pause that is the normalizer's reading of a materialStatus nobody documented.
Guessed(d) == WsState(d) = "paused" /\ MapState(d.state) # "paused" /\ d.material # 1

\* _state_check.
LiveAllows(p, action) ==
  IF p.kind = "creality" /\ action \in SetActions
  THEN /\ p.live
       /\ action \in {"cooldown", "speed"} => StateAllows(action, State(p))
       /\ ~(action = "cooldown" /\ Guessed(p.d))
  ELSE CASE action \in {"cooldown", "eject"} ->
         p.live /\ ~p.changing /\ ~p.inflight /\ GcodeAllows(action, p.gcode)
    [] action \in PrintControl /\ p.live ->
         ~(p.kind = "bambu" /\ action = "resume" /\ p.job = "laser") /\ StateAllows(action, State(p))
    [] OTHER -> TRUE

-----------------------------------------------------------------------------
\* build_fans: per cent to the 0-255 of M106, halves to the even neighbour.
Duty(pct) == LET q == (pct * 255) \div 100
                 r == (pct * 255) % 100
             IN IF r > 50 \/ (r = 50 /\ q % 2 = 1) THEN q + 1 ELSE q

Within(v, high) == v = None \/ v \in 0..high
Given(pairs) == {f \in pairs : f[2] # None}

\* creality_temp_limits: the model's ceiling, or a lower one it reports.
NozzleMax(p) == IF p.kind = "bambu" THEN 300
                ELSE IF p.hot # None /\ p.hot \in 1..299 THEN p.hot ELSE 300
BedMax(p) == IF p.kind = "bambu" THEN 120 ELSE 100

Fans == {"part", "aux", "case"}
FanFrames(par) == {<<f, IF par[f] = None THEN None ELSE Duty(par[f])>> : f \in Fans}

Control(action) == {<<action, None>>}
Speed(level) == IF level \in 1..4 THEN {<<"speed", level>>} ELSE {}
Drive(p, par) ==
  IF \A f \in Fans : Within(par[f], 100) /\ (par[f] # None /\ p.kind = "creality" => f \in p.fans)
  THEN Given(FanFrames(par)) ELSE {}
Preheat(p, par) ==
  IF Within(par.nozzle, NozzleMax(p)) /\ Within(par.bed, BedMax(p))
  THEN Given({<<"nozzle", par.nozzle>>, <<"bed", par.bed>>}) ELSE {}
Chamber(temp) == IF temp # None /\ Within(temp, 65) THEN {<<"chamber", temp>>} ELSE {}
Cooldown(p) ==
  {<<"nozzle", 0>>, <<"bed", 0>>}
    \cup (IF p.kind = "bambu" THEN {<<f, 0>> : f \in Fans} ELSE {})
    \cup (IF p.kind = "bambu" /\ p.h2 THEN {<<"chamber", 0>>} ELSE {})
Eject == {<<"down", 30>>}

\* _build_payload and _build_creality: a parameter error is the empty set.
Frames(p, action, par) ==
  CASE action \in PrintControl \cup Lights -> Control(action)
    [] action = "speed" -> Speed(par.level)
    [] action = "fans" -> Drive(p, par)
    [] action = "preheat" -> Preheat(p, par)
    [] action = "chamber" -> Chamber(par.chamber)
    [] action = "cooldown" -> Cooldown(p)
    [] action = "eject" -> Eject

\* A heater set to 0 is that heater's cooldown: the same state rules.
CheckedAs_Fault(action, par) == action
CheckedAs(action, par) ==
  IF action = "preheat" /\ 0 \in {par.nozzle, par.bed} THEN "cooldown" ELSE action

\* send up to the channel: the frames it puts out, none when it refuses.
Send(p, action, par) ==
  IF \/ action \notin Supported(p.kind)
     \/ action = "chamber" /\ ~p.h2
     \/ CapRefuses(p, action)
     \/ ~LiveAllows(p, CheckedAs(action, par))
  THEN {} ELSE Frames(p, action, par)

-----------------------------------------------------------------------------
\* print_error_check and ignore_print_error: «Ignore» of error err, which the
\* caller may have seen a while ago.
PeRefusal(p, err) ==
  IF p.pe # err THEN "pe"
  ELSE IF p.gcode # "PAUSE" THEN "pause"
  ELSE IF p.job = "laser" THEN "job_attr"
  ELSE IF p.job = None THEN "job_id" ELSE None
IgnoreFrames(p, err) == IF p.live /\ PeRefusal(p, err) = None THEN {<<"ignore", err>>} ELSE {}

\* _outcome.
Status(success, replied) ==
  IF ~success THEN "rejected" ELSE IF replied THEN "confirmed" ELSE "sent"

\* _send_bambu_light: lamp 2 first, lamp 1 is the verdict; the modes written into
\* the lib.  r.one is lamp 1's status, r.two lamp 2's reply, r.out its publish.
Lit(second, r) ==
  IF r.one # "confirmed" THEN {}
  ELSE {1} \cup (IF second /\ r.out /\ r.two = "ok" THEN {2} ELSE {})
LightNote(second, r) ==
  second /\ r.one # "rejected" /\ (~r.out \/ (r.one = "confirmed" /\ r.two # "ok"))

\* A command w on a WebSocket: whether it is up, the pin of Klipper's lamp is
\* known, the printer's answer (a Creality gives none), how many frames the command
\* has, and the one whose send fails.  _send_klipper: _rpc and run_action;
\* _send_creality: send_command.
Arrived(w) ==
  IF ~w.up \/ (w.kind = "klipper" /\ w.lamp # None /\ ~w.pin) THEN 0
  ELSE IF w.fails = None THEN w.frames ELSE w.fails - 1
KlipperSent(w) ==
  Status(Arrived(w) = w.frames /\ w.reply # "error", Arrived(w) = w.frames /\ w.reply # None)
CrealitySent(w) == Status(Arrived(w) > 0, FALSE)
SocketStatus(w) == IF w.kind = "klipper" THEN KlipperSent(w) ELSE CrealitySent(w)
\* run_action: the lamp is shown switched before the pin's own push.
ShownLamp(w) == IF w.kind = "klipper" /\ KlipperSent(w) = "confirmed" THEN w.lamp ELSE None

-----------------------------------------------------------------------------
Init == asked = None

AskCommand ==
  /\ asked = None
  /\ \E p \in Printers, action \in Actions : \E par \in Parameters[action] :
       asked' = [what |-> "send", p |-> p, action |-> action, par |-> par]
AskIgnore ==
  /\ asked = None
  /\ \E p \in {q \in Printers : q.kind = "bambu"}, err \in Levels :
       asked' = [what |-> "ignore", p |-> p, err |-> err]
AskLight ==
  /\ asked = None
  /\ \E r \in Lamps, second \in BOOLEAN : asked' = [what |-> "light", r |-> r, second |-> second]
AskSocket == asked = None /\ \E w \in Sends : asked' = [what |-> "socket", w |-> w]

Next == AskCommand \/ AskIgnore \/ AskLight \/ AskSocket
Spec == Init /\ [][Next]_asked

\* What must not be disturbed: a job that may run, by what the firmware says and
\* not by what the dashboard made of it.
MayPrint(p) ==
  IF p.kind = "bambu" THEN p.gcode \notin AtRest \cup {"PAUSE"} \/ p.changing
  ELSE /\ MapState(p.d.state) = "printing" \/ (MapState(p.d.state) \in {"idle", "unknown"} /\ Working(p.d))
       /\ ~LooksFinished(p.d) /\ p.d.material # 1
Cools(frames) == <<"nozzle", 0>> \in frames \/ <<"bed", 0>> \in frames

\* What a request may not do, whatever the printer reports and answers.
Harmless(request) ==
  CASE request.what = "send" ->
         LET p == request.p
             frames == Send(p, request.action, request.par)
         IN /\ Cools(frames) => ~MayPrint(p)
            /\ <<"down", 30>> \in frames => p.gcode \in AtRest /\ ~p.changing /\ ~p.inflight
            /\ \A f \in frames :
                 /\ f[1] = "nozzle" => f[2] \in 0..NozzleMax(p)
                 /\ f[1] \in Fans => f[2] \in 0..255 /\ (p.kind = "creality" => f[1] \in p.fans)
    [] request.what = "ignore" ->
         \A f \in IgnoreFrames(request.p, request.err) :
           State(request.p) = "paused" /\ request.p.pe = f[2] /\ request.p.job \notin {"laser", None}
    [] request.what = "light" ->
         LET r == request.r IN
         /\ 1 \in Lit(request.second, r) => Status(r.one # "rejected", r.one = "confirmed") = "confirmed"
         /\ request.second /\ r.one = "confirmed" /\ ~LightNote(request.second, r)
              => Lit(request.second, r) = {1, 2}
    [] request.what = "socket" ->
         LET w == request.w  told == SocketStatus(w) IN
         /\ told = "rejected" => Arrived(w) = 0 \/ (w.kind = "klipper" /\ w.reply = "error")
         /\ told # "rejected" => Arrived(w) > 0
         /\ told = "confirmed" \/ ShownLamp(w) # None => w.kind = "klipper" /\ w.reply = "ok"

\* No request makes the service cool a job that may run, move the bed beside a job,
\* a pause or a filament change, exceed the printer's own ceiling, drive a fan it
\* does not have (the firmware would turn another one), wave an error through that
\* is not the one the printer stands on, or take a lamp for switched without its
\* own reply while it tells the user that both are.  What is told as rejected
\* without a word of the printer has not reached it in part, what is told as sent
\* has, and a confirmation is the printer's.
HarmlessSend == asked # None => Harmless(asked)
=============================================================================

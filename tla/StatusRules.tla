----------------------------- MODULE StatusRules -----------------------------
(* normalizer.py, bambu_extras.py: what the dashboard makes of a printer's own  *)
(* report.  Pure functions; a report is a record, None stands for a value the   *)
(* printer does not send.  Texts, temperatures and fan speeds are left out.     *)
EXTENDS Integers, Sequences, FiniteSets, SequencesExt

CONSTANT None

-----------------------------------------------------------------------------
\* map_state: the firmwares' words for a state, one per meaning.
MapState(word) ==
  CASE word \in {"printing", "RUNNING", "PREPARE", "SLICING"} -> "printing"
    [] word \in {"paused", "PAUSE"} -> "paused"
    [] word \in {"complete", "FINISH"} -> "finished"
    [] word \in {"idle", "standby", "IDLE"} -> "idle"
    [] word \in {"error", "FAILED"} -> "error"
    [] word = "cancelled" -> "cancelled"
    [] OTHER -> "unknown"

-----------------------------------------------------------------------------
\* Creality and Klipper.  A report d is a record: kind, state, progress, eta,
\* layer, layers, material, err (Creality) and host (Klipper), None where unknown.
LooksFinished(d) ==
  LET complete == d.progress # None /\ d.progress >= 100
      layers == d.layer # None /\ d.layers \notin {None, 0} /\ d.layer >= d.layers
  IN (complete \/ (layers /\ d.progress = None)) /\ (d.eta = None \/ d.eta <= 0)

\* A job that runs although the firmware calls the printer idle.
Working(d) ==
  \/ d.progress # None /\ 0 < d.progress /\ d.progress < 100
  \/ d.eta # None /\ d.eta > 0
  \/ d.layer # None /\ d.layer > 0 /\ (d.layers \in {None, 0} \/ d.layer < d.layers)

Finished(d, state) ==
  IF LooksFinished(d) /\ state \in {"printing", "idle", "unknown", "paused"} THEN "finished" ELSE state
Promoted(d, state) ==
  IF state \in {"idle", "unknown"} /\ ~LooksFinished(d) /\ Working(d) THEN "printing" ELSE state
RanOut(d, state) ==
  IF d.kind = "creality" /\ d.material \notin {None, 0} /\ state \in {"printing", "paused"}
  THEN "paused" ELSE state

\* build_klipper and build_creality: the levels of what the printer reports.
KlipperDown == {"shutdown", "error", "disconnected"}
Notices(d, state) ==
  CASE d.kind = "klipper" ->
         (IF d.host \in KlipperDown THEN {"fatal"} ELSE IF d.host = "startup" THEN {"info"} ELSE {})
           \cup (IF d.state = "error" /\ d.host \notin KlipperDown THEN {"fatal"} ELSE {})
    [] OTHER ->
         IF d.err \in {None, 0} THEN {}
         ELSE {CASE state = "printing" -> "serious" [] state = "paused" -> "pause" [] OTHER -> "fatal"}

\* normalize_ws_dict: the state shown.
WsJob(d) == RanOut(d, Promoted(d, Finished(d, MapState(d.state))))
WsState(d) ==
  LET job == WsJob(d)
  IN IF d.kind = "klipper"
     THEN IF d.host \in KlipperDown THEN "error" ELSE IF d.host = "startup" THEN "unknown" ELSE job
     ELSE IF Notices(d, job) # {} /\ job \in {"idle", "unknown", "finished", "cancelled"}
     THEN "error" ELSE job

\* ctl_ready and light_ctl of a Klipper: three-valued.
CtlReady(d) == IF d.host = None THEN None ELSE IF d.host = "ready" THEN "yes" ELSE "no"

-----------------------------------------------------------------------------
\* Bambu.  print_error is None (or 0), "cancel", "status" (a code below 0x4000) or the
\* level of a real error.
PeLevels == {"fatal", "pause", "common"}
RealError(pe) == pe \in PeLevels

\* _bambu_cancelled: FAILED after a cancel; a real error wins over the latch.
Cancelled(gcode, pe, latched, flagged) ==
  /\ gcode = "FAILED"
  /\ \/ pe = "cancel"
     \/ ~RealError(pe) /\ (latched \/ (pe = None /\ flagged))

BambuState(gcode, pe, latched, flagged) ==
  LET state == IF Cancelled(gcode, pe, latched, flagged) THEN "cancelled" ELSE MapState(gcode)
  IN IF state = "unknown" THEN "idle" ELSE state

-----------------------------------------------------------------------------
\* AMS.  The lib's unit is [index, trays], a tray [marker, colour, type]; the
\* telemetry's active unit and tray are numbers or None.
External == 254
NoTray == 255

\* _build_ams: a slot is empty by its marker, or without colour and material.
SlotEmpty(tray) == tray.marker \/ (~tray.colour /\ ~tray.type)
UnitsShown(units) == {i \in DOMAIN units : units[i].trays # <<>>}

\* The number of slots before the unit at position i.
Base(units, i) == Cardinality(UNION {{j} \X DOMAIN units[j].trays : j \in 1..(i - 1)})

\* _tray_now, in the units shown.
TrayNow(units, unit, tray) ==
  IF unit = None \/ tray = None THEN None
  ELSE IF unit = 255 THEN IF tray \in {3, 255} THEN NoTray ELSE External
  ELSE IF unit = 254 THEN External
  ELSE LET at == {i \in DOMAIN units : units[i].index = unit /\ tray \in 0..(Len(units[i].trays) - 1)}
       IN IF at = {} THEN None ELSE Base(units, CHOOSE i \in at : TRUE) + tray

\* change_busy, filament_change, filament_loaded, dual_nozzle: the newer firmwares
\* report each extruder [busy, loaded, star, count], the older ones ams_status'
\* main and sub state and tray_tar.
NewProtocol(r) == r.extruder # None
ChangeBusy(r) == IF NewProtocol(r) THEN r.extruder.busy ELSE r.main = 1
LegacyTarget(tar) ==
  CASE tar = None -> [action |-> None, ams |-> None, slot |-> None]
    [] tar = 255 -> [action |-> "unload", ams |-> None, slot |-> None]
    [] tar = 254 -> [action |-> "load", ams |-> 255, slot |-> 0]
    [] tar \in 128..135 -> [action |-> "load", ams |-> tar, slot |-> 0]
    [] tar \in 0..127 -> [action |-> "load", ams |-> tar \div 4, slot |-> tar % 4]
    [] OTHER -> [action |-> None, ams |-> None, slot |-> None]
StarTarget(star) ==
  IF star = None THEN [action |-> None, ams |-> None, slot |-> None]
  ELSE IF star.slot = 255 THEN [action |-> "unload", ams |-> star.ams, slot |-> None]
  ELSE [action |-> "load", ams |-> star.ams, slot |-> star.slot]
ColdPull == 7
FilamentChange(r) ==
  IF ~ChangeBusy(r) \/ r.main = ColdPull THEN None
  ELSE IF NewProtocol(r) THEN StarTarget(r.extruder.star) ELSE LegacyTarget(r.tar)
FilamentLoaded(r, tray) ==
  IF NewProtocol(r) THEN r.extruder.loaded
  ELSE IF tray = None THEN None ELSE IF tray = NoTray THEN "no" ELSE "yes"
DualNozzle(r) == NewProtocol(r) /\ r.extruder.count > 1
=============================================================================

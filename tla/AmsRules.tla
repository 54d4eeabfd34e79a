------------------------------- MODULE AmsRules -------------------------------
(* printer_commands.py and ams_drying.py: what the service may ask of an AMS   *)
(* from one look at the printer.  A view is a record of what the library and   *)
(* the raw report hold:                                                        *)
(*   units   sequence of [index, trays, model, status, codes, left], a tray    *)
(*           being [marker, colour, type, temp, material]                      *)
(*   unit, tray     the lib's active unit and tray, None when unknown          *)
(*   r              the report of StatusRules: extruder, main, tar             *)
(*   gcode, fw, remote, spool, top                                             *)
(* Temperatures are degrees; the spool's profile range is its middle.          *)
EXTENDS StatusRules

CONSTANTS Views, Indices, Slots, Temps, Hours   \* what is tried, see the MC module

VARIABLE wanted           \* the request decided last

AtRest == {"IDLE", "FINISH", "FAILED"}
DefaultTemp == 220
Clamp(temp, top) == IF temp < 170 THEN 170 ELSE IF temp > top THEN top ELSE temp

\* _locate: the position and slot of a cumulative tray number, or {}.
Locate(units, tray) ==
  {<<i, tray - Base(units, i)>> :
     i \in {j \in DOMAIN units : tray - Base(units, j) \in 0..(Len(units[j].trays) - 1)}}

Now(v) == TrayNow(v.units, v.unit, v.tray)
Loaded(v) == FilamentLoaded(v.r, Now(v))
Slot(v, at) == v.units[at[1]].trays[at[2] + 1]
SlotTemp(slot) == IF SlotEmpty(slot) \/ slot.temp = None THEN DefaultTemp ELSE slot.temp
SpoolTemp(v) == IF v.spool = None THEN DefaultTemp ELSE v.spool
UnitsAt(v, index) == {i \in UnitsShown(v.units) : v.units[i].index = index}

\* build_ams_load: slot_id for new firmware, target for the older one.
Target(index, slot) ==
  LET tray == IF index < 16 THEN index * 4 + slot ELSE 0 IN IF tray = 0 THEN index ELSE tray
Change(index, slot, target, curr, tar, top) ==
  [index |-> index, slot |-> slot, target |-> target, curr |-> Clamp(curr, top), tar |-> Clamp(tar, top)]

\* _plan_load of slot `slot` of unit `index`; None when it is refused.
PlanLoad(v, index, slot) ==
  LET at == UnitsAt(v, index)
      unit == CHOOSE i \in at : TRUE
      target == v.units[unit].trays[slot + 1]
      from == Locate(v.units, Now(v))
      curr == IF Loaded(v) = "no" THEN SlotTemp(target)
              ELSE IF Now(v) = NoTray THEN DefaultTemp
              ELSE IF Now(v) = External THEN SpoolTemp(v)
              ELSE IF Now(v) # None /\ \E l \in from : ~SlotEmpty(Slot(v, l))
              THEN SlotTemp(Slot(v, CHOOSE l \in from : TRUE))
              ELSE SlotTemp(target)
  IN IF \/ at = {}
        \/ slot \notin 0..(Len(v.units[unit].trays) - 1)
        \/ SlotEmpty(target)
        \/ Now(v) = Base(v.units, unit) + slot /\ Loaded(v) = "yes"
     THEN None ELSE Change(index, slot, Target(index, slot), curr, SlotTemp(target), v.top)

\* _plan_unload: back into its slot, or to the external spool, which the P2S feeds
\* from while it keeps a stale AMS index.
PlanUnload(v) ==
  LET at == Locate(v.units, Now(v))
      where == CHOOSE l \in at : TRUE
      out == Change(255, 255, 255, SpoolTemp(v), SpoolTemp(v), v.top)
      t == SlotTemp(Slot(v, where))
  IN IF Loaded(v) # "yes" \/ Now(v) \in {None, NoTray} THEN None
     ELSE IF Now(v) = External THEN out
     ELSE IF at = {} THEN None
     ELSE IF SlotEmpty(Slot(v, where)) THEN out
     ELSE Change(v.units[where[1]].index, 255, 255, t, t, v.top)

\* _plan_filament_change up to the plan: anything but a printer at rest is refused.
SwapAllowed(v) ==
  /\ ~DualNozzle(v.r) /\ v.fw = "yes"
  /\ v.gcode \in AtRest
  /\ FilamentChange(v.r) = None /\ ~ChangeBusy(v.r)
  /\ v.r.main \in {None, 0, 3}
Load(v, index, slot) == IF SwapAllowed(v) THEN PlanLoad(v, index, slot) ELSE None
Unload(v) == IF SwapAllowed(v) THEN PlanUnload(v) ELSE None

-----------------------------------------------------------------------------
\* MATERIALS: temperatures of the AMS 2 Pro and the AMS HT at rest and while the
\* unit feeds a print, where the filament distorts and where it softens.
Material ==
  [PLA  |-> [idle |-> <<45, 45>>, print |-> <<45, 45>>, hdt |-> 45, soft |-> 50],
   PETG |-> [idle |-> <<65, 65>>, print |-> <<55, 55>>, hdt |-> 75, soft |-> 60],
   ABS  |-> [idle |-> <<65, 80>>, print |-> <<65, 75>>, hdt |-> 90, soft |-> 80],
   ASA  |-> [idle |-> <<65, 80>>, print |-> <<65, 80>>, hdt |-> 100, soft |-> 85],
   PA   |-> [idle |-> <<65, 85>>, print |-> <<65, 85>>, hdt |-> 165, soft |-> 150],
   PC   |-> [idle |-> <<65, 80>>, print |-> <<65, 80>>, hdt |-> 105, soft |-> 90],
   TPU  |-> [idle |-> <<65, 75>>, print |-> <<45, 45>>, hdt |-> 45, soft |-> 50],
   PVA  |-> [idle |-> <<65, 85>>, print |-> <<65, 70>>, hdt |-> 75, soft |-> 75],
   PPS  |-> [idle |-> <<65, 85>>, print |-> <<65, 85>>, hdt |-> 165, soft |-> 150]]

TempMin == 45
TypeMax == <<65, 85>>
Low(a, b) == IF a < b THEN a ELSE b

\* material_of: a spool of unknown material counts as the most sensitive one.
MaterialOf(tray) == IF tray.material = None THEN "PLA" ELSE tray.material

\* _cap: what a loaded spool tolerates.
CapOf(m, kind, feeding) ==
  IF feeding THEN Low(Material[m].print[kind], Low(Material[m].soft, Material[m].hdt)) ELSE Material[m].hdt

\* _unit_type: 1 is the AMS 2 Pro, 2 the AMS HT; 0, an older AMS, cannot dry.
UnitType(u) ==
  IF u.model = None THEN IF u.index >= 128 THEN 2 ELSE None
  ELSE IF u.model = 0 THEN None ELSE u.model

\* _policy: the highest temperature for what is loaded.
Occupied(u) == {MaterialOf(u.trays[i]) : i \in {j \in DOMAIN u.trays : ~SlotEmpty(u.trays[j])}}
MaxTemp(u, kind, feeding) ==
  LET caps == {CapOf(m, kind, feeding) : m \in Occupied(u)} \cup {TypeMax[kind]}
      lowest == CHOOSE c \in caps : \A d \in caps : c <= d
  IN IF lowest < TempMin THEN TempMin ELSE lowest

\* build_dry_info: status and blockers only of a printer that accepts remote drying.
DryActive(v, u) ==
  IF v.remote = "yes" /\ u.status # None
  THEN u.status \in {"checking", "drying", "error", "overheat"} ELSE u.left > 0
Blocked(v, u) == v.remote = "yes" /\ u.codes \ {6} # {}
Feeding(v, u) == BambuState(v.gcode, None, FALSE, FALSE) \in {"printing", "paused"} /\ v.unit = u.index

\* _plan_drying: the start that is sent, or None; a stop needs only a unit that dries.
StartDrying(v, index, temp, hours) ==
  LET at == UnitsAt(v, index)
      u == v.units[CHOOSE i \in at : TRUE]
      kind == UnitType(u)
  IN IF \/ at = {}
        \/ kind = None
        \/ v.remote # "yes"
        \/ DryActive(v, u)
        \/ u.status = "stopping"
        \/ Blocked(v, u)
        \/ temp \notin TempMin..MaxTemp(u, kind, Feeding(v, u))
        \/ hours \notin 1..24
     THEN None ELSE [index |-> index, temp |-> temp, hours |-> hours]
StopDrying(v, index) == \E i \in UnitsAt(v, index) : UnitType(v.units[i]) # None

-----------------------------------------------------------------------------
Init == wanted = None

AskSwap == wanted = None /\ \E v \in Views, index \in Indices, slot \in Slots :
             wanted' = [what |-> "swap", v |-> v, index |-> index, slot |-> slot]
AskDry == wanted = None /\ \E v \in Views, index \in Indices, temp \in Temps, hours \in Hours :
            wanted' = [what |-> "dry", v |-> v, index |-> index, temp |-> temp, hours |-> hours]

Next == AskSwap \/ AskDry
Spec == Init /\ [][Next]_wanted

Sane(c, top) == c = None \/ (c.curr \in 170..top /\ c.tar \in 170..top)

\* A load that is sent names exactly one slot of the printer, for the firmware that
\* reads ams_id / slot_id and for the one that reads target, and that slot holds a
\* spool; an unload into a unit names the unit whose slot the printer feeds from.
SwapSound(v, index, slot) ==
  LET load == Load(v, index, slot)
      unload == Unload(v)
  IN /\ Sane(load, v.top) /\ Sane(unload, v.top)
     /\ load # None =>
          \A i \in DOMAIN v.units : \A s \in 0..(Len(v.units[i].trays) - 1) :
            Target(v.units[i].index, s) = load.target
              => v.units[i].index = index /\ s = slot /\ ~SlotEmpty(v.units[i].trays[s + 1])
     /\ unload # None /\ unload.index # 255 => unload.index = v.unit

\* A drying that is started heats no loaded spool to where it distorts, nor one of a
\* unit that feeds a print to where it softens, and never beside a drying or a
\* reason of the printer's not to.
DrySound(v, index, temp, hours) ==
  StartDrying(v, index, temp, hours) # None =>
    \E i \in DOMAIN v.units :
      LET u == v.units[i] IN
      /\ u.index = index /\ u.codes \subseteq {6}
      /\ u.status \notin {"drying", "checking", "stopping", "error", "overheat"}
      /\ \A t \in DOMAIN u.trays : ~SlotEmpty(u.trays[t]) =>
           LET m == IF u.trays[t].material = None THEN "PLA" ELSE u.trays[t].material IN
           /\ temp <= Material[m].hdt
           /\ v.gcode \in {"RUNNING", "PAUSE"} /\ v.unit = index => temp <= Material[m].soft
      /\ StopDrying(v, index)

AmsSound ==
  wanted # None =>
    IF wanted.what = "swap" THEN SwapSound(wanted.v, wanted.index, wanted.slot)
    ELSE DrySound(wanted.v, wanted.index, wanted.temp, wanted.hours)
=============================================================================

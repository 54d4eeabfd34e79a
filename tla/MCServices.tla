----------------------------- MODULE MCServices -----------------------------
(* Services on small instances of its parts.                                   *)
EXTENDS Services, TLC

-----------------------------------------------------------------------------
\* CommandRules: the printers, in the states the three kinds of them report, and
\* the parameters at and past their limits.
BambuPrinters ==
  {[kind |-> "bambu", online |-> TRUE, live |-> l, print |-> v, lamp |-> "yes", gcode |-> g, changing |-> c,
    inflight |-> i, h2 |-> h, job |-> j, pe |-> e] :
     l \in BOOLEAN, v \in {"yes", None}, g \in {"IDLE", "RUNNING", "PAUSE", "unknown"}, c \in BOOLEAN, i \in BOOLEAN,
     h \in BOOLEAN, j \in {"plain", "laser", None}, e \in {None, "pause"}}
Progresses == {<<0, None, 0, 10>>, <<50, 60, 5, 10>>, <<100, 0, 10, 10>>, <<100, None, 5, 10>>, <<None, None, 10, 10>>, <<None, None, None, None>>}
Data(kind, s, m, material, err, host) ==
  [kind |-> kind, state |-> s, progress |-> m[1], eta |-> m[2], layer |-> m[3], layers |-> m[4],
   material |-> material, err |-> err, host |-> host]
CrealityPrinters ==
  {[kind |-> "creality", online |-> TRUE, live |-> x[1], lamp |-> "yes", fans |-> x[2], hot |-> x[3], h2 |-> FALSE,
    d |-> Data("creality", s, m, material, err, None)] :
     x \in {<<TRUE, {"part"}, None>>, <<TRUE, {"part", "case"}, 260>>, <<FALSE, {"part"}, None>>},
     s \in {"printing", "paused", "idle", "error", "unknown"}, m \in Progresses,
     material \in {None, 0, 1, 2}, err \in {None, 7}}
KlipperPrinters ==
  {[kind |-> "klipper", online |-> o, live |-> l, lamp |-> v, h2 |-> FALSE, d |-> Data("klipper", s, m, None, None, x)] :
     o \in BOOLEAN, l \in BOOLEAN, v \in {"yes", "no", None},
     s \in {"printing", "cancelled"}, m \in Progresses, x \in {None, "ready", "shutdown", "startup"}}
ModelPrinters == BambuPrinters \cup CrealityPrinters \cup KlipperPrinters
Par == [level |-> None, part |-> None, aux |-> None, case |-> None, nozzle |-> None, bed |-> None, chamber |-> None]
ModelParameters == [a \in {"pause", "resume", "stop", "light_on", "light_off", "speed", "fans", "preheat", "cooldown",
                           "chamber", "eject"} |->
  CASE a = "speed" -> {[Par EXCEPT !.level = n] : n \in {None, 0, 4, 5}}
    [] a = "fans" -> {[Par EXCEPT !.part = n, !.aux = k] : n \in {None, 50}, k \in {None, 100, 101}}
    [] a = "preheat" -> {[Par EXCEPT !.nozzle = n, !.bed = k] : n \in {None, 0, 301}, k \in {None, 0, 100}}
    [] a = "chamber" -> {[Par EXCEPT !.chamber = n] : n \in {None, 65, 66}}
    [] OTHER -> {Par}]
ModelLamps == [one : {"confirmed", "sent", "rejected"}, two : {"ok", "refused", None}, out : BOOLEAN]
ModelSends ==
  [kind : {"klipper"}, up : BOOLEAN, pin : BOOLEAN, lamp : {None, "on", "off"}, frames : {1}, fails : {None, 1},
   reply : {"ok", "error", None}]
  \cup {w \in [kind : {"creality"}, up : BOOLEAN, pin : {FALSE}, lamp : {None}, frames : 1..3, fails : {None} \cup 1..3,
                reply : {None}] : w.fails = None \/ w.fails <= w.frames}

\* AmsRules: AMS units with trays that are full, marked but unread, coloured or
\* bare, what feeds, and both protocols' reports of a change.
Tray(k, material, t) ==
  [marker |-> k = "marked", colour |-> k # "bare", type |-> k = "full", temp |-> t, material |-> material]
Full == Tray("full", "PETG", 240)
Trays == {<<Full, Full, Tray("bare", None, None), Tray("full", material, None)>> : material \in {"PLA", None}} \cup
         {<<Tray("marked", "ABS", 160), Full, Tray("coloured", None, None), Full>>}
AmsUnit(i, ts, model, s, c) == [index |-> i, trays |-> ts, model |-> model, status |-> s, codes |-> c, left |-> 0]
HighTemp == AmsUnit(128, <<Tray("full", "TPU", 230)>>, None, "cooling", {})
AmsSets == {<<AmsUnit(0, ts, 1, s, c)>> : ts \in Trays, s \in {None, "off", "drying"}, c \in {{}, {0, 6}}}
           \cup {<<AmsUnit(0, ts, 0, None, {}), AmsUnit(1, ts, 1, "off", {}), HighTemp>> : ts \in Trays}
           \cup {<<AmsUnit(0, <<>>, 1, None, {}), AmsUnit(1, ts, 1, "off", {}), HighTemp>> : ts \in Trays}
OldReport(main) == [extruder |-> None, main |-> main, tar |-> None]
NewReport(b, l) == [extruder |-> [busy |-> b, loaded |-> l, star |-> [ams |-> 0, slot |-> 1], count |-> 1], main |-> 3, tar |-> None]
ModelViews ==
  {[units |-> u, unit |-> x[1], tray |-> x[2], r |-> r, gcode |-> g, fw |-> "yes", remote |-> y, spool |-> None, top |-> 300] :
     u \in AmsSets, x \in {<<0, 1>>, <<1, 3>>, <<128, 0>>, <<255, 255>>, <<255, 0>>, <<None, None>>},
     r \in {OldReport(0), OldReport(1), NewReport(FALSE, "yes"), NewReport(TRUE, "yes")}, g \in {"IDLE", "RUNNING"},
     y \in {"yes", None}}

\* FleetBulk: a printer that takes the command, one that cannot, one in the
\* maintenance mode and one out of reach.
ModelConditions ==
  {[known |-> TRUE, maintenance |-> x[1], online |-> x[2], grace |-> FALSE, cap |-> x[3], fits |-> TRUE] :
     x \in {<<FALSE, TRUE, "yes">>, <<FALSE, TRUE, "unknown">>, <<TRUE, TRUE, "yes">>}}

\* NoticeActions: a paused print whose job is a print or a laser's, dialogs that ask
\* for a choice, a code without the model's table, an HMS code and Klipper's own.
Report(src, ids, code, paused, laser, job, host) ==
  [src |-> src, ids |-> ids, code |-> code, paused |-> paused, laser |-> laser, job |-> job, host |-> host]
ModelReports ==
  {Report("print_error", <<27, 5>>, "plain", x[1], x[2], x[3], None) :
     x \in {<<TRUE, TRUE, TRUE>>, <<TRUE, FALSE, TRUE>>, <<FALSE, FALSE, FALSE>>}} \cup
  {Report("print_error", <<5, 11, 39>>, "plain", FALSE, FALSE, FALSE, None),
   Report("print_error", <<13, 8, 51, 10004>>, "plain", FALSE, TRUE, TRUE, None),
   Report("print_error", None, "auto", FALSE, FALSE, TRUE, None),
   Report("hms", <<35, 5>>, "plain", FALSE, FALSE, TRUE, None),
   Report("klipper", None, None, FALSE, FALSE, TRUE, "error")}

Alike == Permutations(Senders)
=============================================================================

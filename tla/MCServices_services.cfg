SPECIFICATION Spec
CONSTANTS
  None = None
  Senders = {a, b}
  MaxCommands = 3
  MaxMixed = 2
  MaxDone = 1
  Window = 2
  Wait = 1
  QuietTime = 2
  MaxSwitches = 2
  Loops = {l1, l2}
  Least = 2
  Most = 4
  AmsUnits = {1, 2}
  Notifications <- ModelReports
  Guard = 2
  MaxPresses = 3
  Machines <- ModelPrinters
  Parameters <- ModelParameters
  Levels = {"pause", "fatal"}
  Lamps <- ModelLamps
  SocketSends <- ModelSends
  Views <- ModelViews
  Indices = {0, 1, 128}
  Slots = {0, 1, 4}
  Temps = {45, 65, 80}
  Hours = {0, 12}
  Registered = {"p"}
  Readers = {"t", "u"}
  Ttl = 1
  MaxCalls = 3
  MaxTicks = 1
  Writers = {"v", "w"}
  MuteKeys = {"k1", "k2", "k3"}
  MaxPerPrinter = 2
  MaxWrites = 4
  Callers = {"c", "d"}
  Fleet = {"p", "q"}
  Conditions <- ModelConditions
  Workers = 1
  MaxBulks = 2
  People = {"u", "w"}
  Sources = {"s"}
  Limit = 1
  MaxTokens = 3
  MaxLogins = 2
  MaxChanges = 3
  StreakEnd = 3
  Backoff = 2
  MaxEvents = 6
  Check = 1
  Stale = 2
  MaxKlippy = 3
  MaxLosses = 1
  Tries = 2
  Retry = 2
  ForgetAfter = 4
  MaxPasses = 11
  MaxMoves = 4
  Tokens = {"x"}
  Proxies = {"proxy"}
  MaxSaves = 2
  MaxBots = 3
  Lost = 2
  MaxGap = 4
  Soon = 1
  Length = 4
  MaxPrints = 2
  MaxPolls = 6
  MaxTrouble = 2
  Past = {1}
  Prints = {1, 2}
  MaxAt = 1
  MaxSlips = 2
  Grace = 2
  MaxHour = 4
  MaxEpisodes = 4
  MaxFaults = 2
INVARIANTS
  TypeOK ToldTruth VerdictKept CommandsSound RowsSound
  FreshReads PendingTold SettingsKept BotFollows BulkSound LinkSound AccountsKept
PROPERTIES NoDoubleSend ProbeSpares RefreshFollows LedgerKept NoticesKept NoStorm
SYMMETRY Alike
CHECK_DEADLOCK FALSE

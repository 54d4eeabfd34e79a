SPECIFICATION FairSpec
CONSTANTS
  None = None
  Plan = 3
  MaxRuns = 2
  Holds = TRUE
  MaxEvents = 2
INVARIANTS
  TypeOK
PROPERTIES
  SeriesStaysOver
  LimitKept
  EndsJudged
  Settles
  RunsEnd
  Dries

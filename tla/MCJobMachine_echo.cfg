SPECIFICATION UncountedSpec
CONSTANTS
  None = None
  Lost = 2
  MaxGap = 4
  Soon = 1
  Length = 4
  MaxPrints = 2
  MaxTime = 9
  MaxTrouble = 3
INVARIANTS
  EchoesJudged
\* The samples end at MaxTime.
CHECK_DEADLOCK FALSE

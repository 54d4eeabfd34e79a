SPECIFICATION Spec
CONSTANTS
  None = None
  Plan = 1
  MaxRuns = 2
  Holds = TRUE
  MaxEvents = 3
INVARIANTS
  NoRowForgotten

SPECIFICATION Spec
CONSTANTS
  None = None
  Grace = 2
  RowEvery = 2
  RepeatEvery = 2
  LiveRefresh = FALSE
  Settings <- MCSettings
  Admins = {a1}
  MaxRestarts = 0
INVARIANTS
  TypeOK
PROPERTIES
  TransitionHeard
  RowFollows
  RepeatsSpaced

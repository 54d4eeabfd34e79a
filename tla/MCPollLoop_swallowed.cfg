SPECIFICATION Spec
CONSTANTS
  None = None
  Grace = 2
  RowEvery = 2
  RepeatEvery = 2
  LiveRefresh = TRUE
  Settings <- MCFinishOnly
  Admins = {a1}
  MaxRestarts = 0
PROPERTIES
  TransitionHeard

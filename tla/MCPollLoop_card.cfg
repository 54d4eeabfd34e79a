SPECIFICATION FairCardSpec
CONSTANTS
  None = None
  Grace = 2
  RowEvery = 0
  RepeatEvery = 0
  LiveRefresh = TRUE
  Settings <- MCNone
  Admins = {a1}
  MaxRestarts = 1
INVARIANTS
  OfflineEarned
PROPERTIES
  NoFlap
  PowerOffShown
  CardConverges

SPECIFICATION FairSpec
CONSTANTS
  u1 = u1
  p1 = p1
  Units = {u1}
  Printers = {p1}
  PrinterOf <- OneUnit
  Clients = {c1}
  Tick = tick
  None = None
  LiveStore = FALSE
  MaxRequests = 2
  MaxRestarts = 1
INVARIANTS
  TypeOK
  ClaimExclusive
  StopPersists
PROPERTIES
  StopRespected
  NotMisjudged
  ClaimsReturn
  Served

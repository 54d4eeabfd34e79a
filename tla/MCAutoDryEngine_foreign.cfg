SPECIFICATION Spec
CONSTANTS
  u1 = u1
  p1 = p1
  Units = {u1}
  Printers = {p1}
  PrinterOf <- OneUnit
  Clients = {c1}
  Tick = tick
  None = None
  LiveStore = FALSE
  MaxRequests = 1
  MaxRestarts = 0
INVARIANTS
  OurStartNotForeign

\* Two operators run the CLI at the same time.
SPECIFICATION Spec
CONSTANTS
  r1 = r1
  r2 = r2
  r3 = r3
  x1 = x1
  x2 = x2
  NoStock = NoStock
  NoSale = "none"
  InvalidUserId = "invalid"
  User <- MCUser
  RawUserId <- MCRawUserId
  NormalizeUserId <- MCNormalizeUserId
  Sale = {"d1"}
  InitialStock <- MCInitialStock
  StartTime <- MCStartTime
  EndTime <- MCEndTime
  Request = {r1}
  ExternalRecord <- MCExternalRecord
  FaultPoints = {}
  MaxFaults = 1
  Instant = {3}
  InitProc = {"i1"}
  StockArgument = {}
  AllowBareReset = FALSE
  MaxResets = 1
  Worker = {"w1", "w2"}
  Limit = {2}
SYMMETRY Requests
PROPERTIES
  RemovedIsArchived

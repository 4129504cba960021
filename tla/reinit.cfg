\* The sale is initialised again while it runs.
SPECIFICATION Spec
CONSTANTS
  r1 = r1
  r2 = r2
  r3 = r3
  x1 = x1
  x2 = x2
  NoStock = NoStock
  NoSale = "none"
  InvalidUserId = "invalid"
  User <- MCUser
  RawUserId <- MCRawUserId
  NormalizeUserId <- MCNormalizeUserId
  Sale = {"d1"}
  InitialStock <- MCInitialStock
  StartTime <- MCStartTime
  EndTime <- MCEndTime
  Request = {r1, r2}
  ExternalRecord = {}
  FaultPoints = {}
  MaxFaults = 1
  Instant = {3}
  InitProc = {"i1"}
  StockArgument = {}
  AllowBareReset = FALSE
  MaxResets = 2
  Worker = {}
  Limit = {2}
SYMMETRY Requests
INVARIANTS
  NeverMorePurchasesThanStock

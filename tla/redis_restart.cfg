\* Redis restarts from an older snapshot: three purchases whose inserts may fail, and
\* one CLI at work.
SPECIFICATION RestartSpec
CONSTANTS
  r1 = r1
  r2 = r2
  r3 = r3
  x1 = x1
  x2 = x2
  NoStock = NoStock
  NoSale = "none"
  InvalidUserId = "invalid"
  User <- MCUser
  RawUserId <- MCRawUserId
  NormalizeUserId <- MCNormalizeUserId
  InitialStock <- MCInitialStock
  StartTime <- MCStartTime
  EndTime <- MCEndTime
  Sale = {"d1"}
  Request = {r1, r2, r3}
  ExternalRecord = {}
  FaultPoints = {"insert"}
  MaxFaults = 2
  Instant = {3}
  InitProc = {"i1"}
  StockArgument = {2}
  AllowBareReset = FALSE
  MaxResets = 1
  Worker = {"w1"}
  Limit = {2}
  MaxRestarts = 2
SYMMETRY Requests
INVARIANTS
  RestartKeepsSaved
  SuccessSurvives

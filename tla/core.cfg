\* The gate and the booking: three requests, two sales, two resets of any kind, one failure.
SPECIFICATION Spec
CONSTANTS
  r1 = r1
  r2 = r2
  r3 = r3
  x1 = x1
  x2 = x2
  NoStock = NoStock
  NoSale = "none"
  InvalidUserId = "invalid"
  User <- MCUser
  RawUserId <- MCRawUserId
  NormalizeUserId <- MCNormalizeUserId
  Sale = {"d1", "d2"}
  InitialStock <- MCInitialStock
  StartTime <- MCStartTime
  EndTime <- MCEndTime
  Request = {r1, r2, r3}
  ExternalRecord = {}
  FaultPoints = {"script_reply", "resolve", "insert", "crash", "init"}
  MaxFaults = 1
  Instant = {3, 4}
  InitProc = {"i1"}
  StockArgument = {}
  AllowBareReset = TRUE
  MaxResets = 2
  Worker = {}
  Limit = {2}
SYMMETRY Requests
INVARIANTS
  TypeOK
  GateConservation
  OneGrantPerUserPerReset
  RejectionsJustified
  OneSuccessPerSaleUser
  BookedSaleOrOvertaken
  QueuedIsRepairable

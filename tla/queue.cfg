\* The failure list and one reconciliation run at a time: two requests, two records
\* pushed by hand, two failures.
SPECIFICATION Spec
CONSTANTS
  r1 = r1
  r2 = r2
  r3 = r3
  x1 = x1
  x2 = x2
  NoStock = NoStock
  NoSale = "none"
  InvalidUserId = "invalid"
  User <- MCUser
  RawUserId <- MCRawUserId
  NormalizeUserId <- MCNormalizeUserId
  Sale = {"d1", "d2"}
  InitialStock <- MCInitialStock
  StartTime <- MCStartTime
  EndTime <- MCEndTime
  Request = {r1, r2}
  ExternalRecord <- MCExternalRecord
  FaultPoints = {"insert", "push", "cli"}
  MaxFaults = 2
  Instant = {3}
  InitProc = {"i1"}
  StockArgument = {}
  AllowBareReset = FALSE
  MaxResets = 2
  Worker = {"w1"}
  Limit = {2}
SYMMETRY Requests
INVARIANTS
  PurchasesBacked
  PersistedWithinStock
  AcceptedAccountedFor
  RecordedOnce
PROPERTIES
  ImplementsLedger
  RemovedIsArchived

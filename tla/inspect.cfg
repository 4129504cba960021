\* The inspect mode beside the API and one CLI in apply mode: a purchase whose insert
\* may fail, and two records pushed by hand.
SPECIFICATION InspectSpec
CONSTANTS
  r1 = r1
  r2 = r2
  r3 = r3
  x1 = x1
  x2 = x2
  NoStock = NoStock
  NoSale = "none"
  InvalidUserId = "invalid"
  User <- MCUser
  RawUserId <- MCRawUserId
  NormalizeUserId <- MCNormalizeUserId
  InitialStock <- MCInitialStock
  StartTime <- MCStartTime
  EndTime <- MCEndTime
  Sale = {"d1", "d2"}
  Request = {r1}
  ExternalRecord <- MCExternalRecord
  FaultPoints = {"insert", "push", "cli", "inspect"}
  MaxFaults = 2
  Instant = {3}
  InitProc = {"i1"}
  StockArgument = {}
  AllowBareReset = FALSE
  MaxResets = 1
  Worker = {"w1"}
  Limit = {1}
INVARIANTS
  ReportMissesNothing
  ReportIsSafeToUse
  ArchivedIsPersisted

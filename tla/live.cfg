\* Liveness: every failure once, the CLI run again and again.
SPECIFICATION LiveSpec
CONSTANTS
  r1 = r1
  r2 = r2
  r3 = r3
  x1 = x1
  x2 = x2
  NoStock = NoStock
  NoSale = "none"
  InvalidUserId = "invalid"
  User <- MCUser
  RawUserId <- MCRawUserId
  NormalizeUserId <- MCNormalizeUserId
  Sale = {"d1"}
  InitialStock <- MCInitialStock
  StartTime <- MCStartTime
  EndTime <- MCEndTime
  Request = {r1, r2}
  ExternalRecord <- MCMalformedRecord
  FaultPoints = {"script", "script_reply", "resolve", "insert", "push", "crash", "cli"}
  MaxFaults = 2
  Instant = {1, 3}
  InitProc = {"i1"}
  StockArgument = {}
  AllowBareReset = TRUE
  MaxResets = 1
  Worker = {"w1"}
  Limit = {1}
PROPERTIES
  EveryRequestAnswered
  GrantedEventuallySettled

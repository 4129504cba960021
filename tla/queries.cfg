\* Two status queries with a running clock and a lookup, beside a purchase, two sales
\* one after the other, and one crash or failed query.
SPECIFICATION QuerySpec
CONSTANTS
  r1 = r1
  r2 = r2
  r3 = r3
  x1 = x1
  x2 = x2
  q1 = q1
  q2 = q2
  l1 = l1
  l2 = l2
  NoStock = NoStock
  NoSale = "none"
  InvalidUserId = "invalid"
  User <- MCUser
  RawUserId <- MCRawUserId
  NormalizeUserId <- MCNormalizeUserId
  InitialStock <- MCInitialStock
  StartTime <- MCStartTime
  EndTime <- MCEndTime
  Sale = {"d1", "d2"}
  Request = {r1}
  ExternalRecord = {}
  FaultPoints = {"query", "crash"}
  MaxFaults = 1
  Instant = {1, 2, 3, 4}
  InitProc = {"i1"}
  StockArgument = {}
  AllowBareReset = FALSE
  MaxResets = 2
  Worker = {}
  Limit = {2}
  StatusQuery = {q1, q2}
  Lookup = {l1}
  LastInstant = 4
SYMMETRY QuerySymmetry
INVARIANTS
  QueryTypeOK
  StatusNeverGoesBack
  SoldOutIsFinal
  ToldStaysTrue

\* Every kind of text for the stock and the argument, every window of four instants, and
\* numbers on both sides of zero and of the two integer widths.
SPECIFICATION ConfigurationSpec
CONSTANTS
  NoStock = NoStock
  Invalid = Invalid
  MaxPgInteger = 2
  MaxRedisInteger = 4
  Number <- MCNumber
  Time = {0, 1, 2, 3}
INVARIANTS
  ReadersAgree
  InitialisedSaleCanSell
  StatusAgreesWithGate
CHECK_DEADLOCK FALSE

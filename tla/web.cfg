\* The page: one user, two kinds of load and a purchase, two changes of the sale,
\* the purchase included, bodies cut short at any time.
SPECIFICATION WebLiveSpec

CONSTANTS
  User = {"u1"}
  MaxVersion = 2

INVARIANTS
  BusyMeansPending
  PurchaseIsReflected
  ConfirmedIsFound

PROPERTIES
  ShownNeverGoesBack
  SubmissionEnds
  PageKeepsUpdating

\* A page whose rendering has thrown is empty and does nothing more.
CHECK_DEADLOCK FALSE

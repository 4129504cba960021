\* The API container, with services that come and go, two connections, two signals.
SPECIFICATION ContainerLiveSpec

CONSTANTS
  Connection = {"c1", "c2"}
  Signal = {"SIGINT", "SIGTERM"}
  MaxAttempts = 3

INVARIANTS
  ContainerTypeOK
  RequestsHaveStores
  PoolEndedOnce
  ReleasesAwaited
  StartsWhenReady

PROPERTIES
  StopEnds
  StartDecides

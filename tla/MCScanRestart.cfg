SPECIFICATION FairSpec
CONSTANTS
  app = app
  lib = lib
  Roots <- OneRoot
  NoRoot = NoRoot
  Large <- OneRoot
  WithSourcePaths <- OneRoot
  MaxRequests = 2
  MaxCrashes = 1
  MayPanic = TRUE
  MayFail = TRUE
INVARIANTS
  ReadyIndexIsRoot
  CompleteCacheHoldsRoot
PROPERTIES
  EveryRequestSettles
  EventuallyReady
CHECK_DEADLOCK FALSE

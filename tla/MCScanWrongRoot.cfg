SPECIFICATION FairSpec
CONSTANTS
  app = app
  lib = lib
  Roots <- BothRoots
  NoRoot = NoRoot
  Large <- NoRoots
  WithSourcePaths <- BothRoots
  MaxRequests = 2
  MaxCrashes = 0
  MayPanic = FALSE
  MayFail = FALSE
INVARIANT ReadyIndexIsRoot
CHECK_DEADLOCK FALSE

SPECIFICATION Spec
CONSTANTS
  app = app
  lib = lib
  Roots <- BothRoots
  NoRoot = NoRoot
  Large <- NoRoots
  WithSourcePaths <- BothRoots
  MaxRequests = 3
  MaxCrashes = 1
  MayPanic = FALSE
  MayFail = FALSE
SYMMETRY RootSymmetry
INVARIANTS
  OneScanAtATime
  GuardIsFree
  PendingIsNewest
  CompletionMeansApplied
  ReadyServesLatest
PROPERTY
  ImplementsLatestRequestWins
CHECK_DEADLOCK FALSE

SPECIFICATION FairSpec
CONSTANTS
  app = app
  notes = notes
  stdlib = stdlib
  local = local
  Roots <- BothRoots
  NoRoot = NoRoot
  NoJar = NoJar
  JvmRoots <- JustApp
  GradleJars <- Gradle
  OwnJars <- OwnNone
  EventKinds <- AnyEvent
  MaySidecarDie = TRUE
  MaxEvents = 2
  MaxRequests = 2
INVARIANTS
  OneCrawlAtATime
  NeverStuckLoading
  NegativeVerdictIsRight
  MaterializedHasData
PROPERTIES
  CrawlsEnd
  DiagnosticsCatchUp
CHECK_DEADLOCK FALSE

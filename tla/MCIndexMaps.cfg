SPECIFICATION IndexSpec
CONSTANTS
  app = app
  lib = lib
  t1 = t1
  t2 = t2
  x = x
  y = y
  jar = jar
  known = known
  unknown = unknown
  c1 = c1
  c2 = c2
  Files <- TwoFiles
  External <- JustLib
  Texts <- TwoTexts
  Names <- TwoNames
  Declares <- XAlways
  SourceText <- LibIsT2
  Hidden <- JustY
  JarNames <- OneJar
  None = None
  Permits = 2
  Operations <- All
  MaxOperations = 3
  Symbols <- TwoSymbols
  Declared <- JustKnown
  Callers <- TwoCallers
  Nobody = Nobody
  MaxSubmits = 3
  MaxResets = 2
INVARIANTS
  IndexIsExact
  HashAnswersForData
  NothingIsLost
  BareNamesAreComplete
  PendingIsUnderway
PROPERTIES
  StoresSeeJars
  FoundIsShown
CHECK_DEADLOCK FALSE

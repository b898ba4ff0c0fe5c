SPECIFICATION CachesSpec
CONSTANTS
  a = a
  b = b
  c = c
  top = top
  deep = deep
  other = other
  v1 = v1
  v2 = v2
  p1 = p1
  p2 = p2
  j1 = j1
  j2 = j2
  j3 = j3
  Paths <- TwoPaths
  Texts <- ThreeTexts
  OldText <- Old
  Changing <- DeepOne
  Unreliable <- DeepOne
  Caps <- OneOrAll
  None = None
  SavesWhileApplying = FALSE
  MaxClock = 0
  MaxChanges = 0
  MaxScans = 0
  Absent = Absent
  Library <- ThreeFiles
  Nested <- DeepOnes
  Versions <- TwoVersions
  ChunkSize = 1
  SampleLimit = 1
  MaxSessions = 0
  MaxLibraryChanges = 0
  Process <- TwoProcesses
  Jars <- ThreeJars
  Unloaded = Unloaded
  NoJar = NoJar
  SavePendingLimit = 2
  SavesMayFail = FALSE
  MaxStarts = 2
PROPERTY EntriesSurviveASave
CHECK_DEADLOCK FALSE

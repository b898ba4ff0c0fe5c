------------------------------- MODULE MCCaches -------------------------------
(* Instances of the three caches for TLC.  They share no state: a          *)
(* behaviour is one of one of them.                                        *)
EXTENDS WorkspaceCache, LibraryCache, JarSymbolCache

CONSTANTS a, b, c,               \* what a text says besides its size
          top, deep, other,      \* library files, the last two in subdirectories
          v1, v2,                \* versions of them
          p1, p2,                \* processes
          j1, j2, j3             \* JARs

VARIABLE tier

TwoPaths == {1, 2}
DeepOne == {2}
Text(size, body) == [size |-> size, body |-> body]
Old == Text(1, a)
SameSize == {Text(1, a), Text(1, b)}
ThreeTexts == SameSize \cup {Text(2, c)}
OneOrAll == {1, 2}

ThreeFiles == {top, deep, other}
DeepOnes == {deep, other}
TwoVersions == {v1, v2}

TwoProcesses == {p1, p2}
ThreeJars == {j1, j2, j3}

CachesInit ==
  /\ Init /\ LibraryInit /\ JarCacheInit
  /\ tier \in {"workspace", "library", "symbols"}
  /\ tier # "workspace" => disk = [p \in Paths |-> None]
  /\ tier # "library" => sources = [p \in Library |-> Absent]

CachesNext ==
  \/ tier = "workspace" /\ Next /\ UNCHANGED <<libraryVars, jarCacheVars, tier>>
  \/ tier = "library" /\ LibraryNext /\ UNCHANGED <<vars, jarCacheVars, tier>>
  \/ tier = "symbols" /\ JarCacheNext /\ UNCHANGED <<vars, libraryVars, tier>>

CachesSpec == CachesInit /\ [][CachesNext]_<<vars, libraryVars, jarCacheVars, tier>>
===============================================================================

---------------------------- MODULE MCIndexMaps ----------------------------
(* Instances of IndexMaps and Enrichment for TLC.  They share no state: a  *)
(* behaviour is one of the one or of the other.                            *)
EXTENDS IndexMaps, Enrichment

CONSTANTS app, lib,     \* a file of the workspace, one of the library
          t1, t2,       \* two texts
          x, y,         \* a name of both texts, one only t2 declares
          jar,          \* a name from a JAR
          known, unknown,   \* symbols: one declared in the workspace, one not
          c1, c2        \* callers of submit

VARIABLE part

TwoFiles == {app, lib}
JustLib == {lib}
TwoTexts == {t1, t2}
TwoNames == {x, y}
XAlways == [t \in TwoTexts |-> IF t = t1 THEN {x} ELSE {x, y}]
JustY == {y}
LibIsT2 == [f \in JustLib |-> t2]
OneJar == {jar}
All == {"Index", "Ensure", "Delete", "Scan", "Populate", "Complete"}

TwoSymbols == {known, unknown}
JustKnown == {known}
TwoCallers == {c1, c2}

IndexInit == Init /\ EnrichmentInit /\ part \in {"maps", "enrichment"}

IndexNext ==
  \/ part = "maps" /\ Next /\ UNCHANGED <<enrichVars, part>>
  \/ part = "enrichment" /\ EnrichmentNext /\ UNCHANGED <<vars, part>>

IndexSpec ==
  IndexInit /\ [][IndexNext]_<<vars, enrichVars, part>> /\ EnrichmentFairness
=============================================================================

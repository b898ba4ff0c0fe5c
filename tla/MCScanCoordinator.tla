------------------------- MODULE MCScanCoordinator -------------------------
(* Instances of ScanCoordinator for TLC.                                   *)
EXTENDS ScanCoordinator, TLC

CONSTANTS app, lib   \* two workspace roots

BothRoots == {app, lib}
OneRoot   == {app}
NoRoots   == {}

RootSymmetry == Permutations(BothRoots)
=============================================================================

---------------------------- MODULE MCReferences ----------------------------
(* An instance of References for TLC: every request in a world of three    *)
(* classes, the walks and a first candidate in a world of four.            *)
EXTENDS References

CONSTANTS w1, w2, l1, l2,     \* classes of the workspace and of JARs
          a, b, c             \* their names: w2 and l2 share one

FourTypes == {w1, w2, l1, l2}
JustJars == {l1, l2}
ThreeNames == {a, b, c}
TwoShareAName ==
  [t \in FourTypes |-> CASE t = w1 -> a [] t = l1 -> c [] OTHER -> b]
AllRequests == {"references", "rename", "extension"}
Renames == {"rename"}

FourthIsApart == supers[l2] = {} /\ l2 \notin cold /\ \A t \in Types : l2 \notin supers[t]
\* only a rename asks for the cursor's role
SmallEnough ==
  /\ query.request # "rename" => query.role = "Reference"
  /\ \/ FourthIsApart
     \/ query.request # "rename" /\ candidate.at = "none" /\ kept = {}
     \/ candidate.at # "none" /\ candidate.site.kind = "call" /\ kept \cup rejected = {}
=============================================================================

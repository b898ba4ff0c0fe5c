--------------------------- MODULE MCDocumentSync ---------------------------
(* An instance of DocumentSync for TLC: a document somebody types in, and  *)
(* one beside a workspace scan.                                            *)
EXTENDS DocumentSync, TLC

CONSTANTS a, b     \* two versions of the text

TwoTexts == {a, b}
AnyText == {a, b, NoText}

Typing == [operations |-> {"Save", "Watch"}, permits |-> 1, events |-> 4]
Scanning ==
  [operations |-> {"Request", "Republish", "Delete", "Scan"}, permits |-> 2, events |-> 2]
Both == {Typing, Scanning}

TextSymmetry == Permutations(TwoTexts)
=============================================================================

SPECIFICATION ReferencesSpec
CONSTANTS
  w1 = w1
  w2 = w2
  l1 = l1
  l2 = l2
  a = a
  b = b
  c = c
  Types <- FourTypes
  Library <- JustJars
  Names <- ThreeNames
  NameOf <- TwoShareAName
  MaxDepth = 3
  PromotionBudget = 1
  IoBudget = 3
  MaxCandidates = 2
  Requests <- Renames
INVARIANT ProvenOthersAreNotRenamed
CONSTRAINT SmallEnough
CHECK_DEADLOCK FALSE

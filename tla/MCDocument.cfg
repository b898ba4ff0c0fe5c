SPECIFICATION Spec
CONSTANTS
  a = a
  b = b
  Texts <- TwoTexts
  NoText = NoText
  OnDisk <- AnyText
  Scenarios <- Both
SYMMETRY TextSymmetry
INVARIANTS
  TextSettles
  LastEditIsDiagnosed
  SemanticsFilledIn

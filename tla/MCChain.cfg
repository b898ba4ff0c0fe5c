SPECIFICATION ChainSpec
CONSTANTS
  p1 = p1
  p2 = p2
  b1 = b1
  b2 = b2
  c1 = c1
  s1 = s1
  P = P
  B = B
  C = C
  S = S
  E = E
  K = K
  script = script
  Declared <- SixClasses
  NameIn <- NameOfClass
  TypeParam <- ParamOfClass
  CallerFile = script
  NoName = NoName
  Star = Star
  Scopes <- SixScopes
  Roots <- RootTypes
  MemberTypes <- MembersOf
  SuperTypes <- SupersOf
  MaxMembers = 2
  MaxWalkDepth = 2
  MaxHops = 3
INVARIANT
  InheritedFieldIsAnchored
CHECK_DEADLOCK FALSE

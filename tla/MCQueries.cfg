SPECIFICATION QueriesSpec
CONSTANTS
  w1 = w1
  w2 = w2
  l1 = l1
  l2 = l2
  a = a
  b = b
  c = c
  Types <- FourTypes
  Library <- JustJars
  Names <- ThreeNames
  NameOf <- TwoShareAName
  MaxDepth = 3
  PromotionBudget = 1
  IoBudget = 3
  MaxCandidates = 2
  Requests <- AllRequests
  own = own
  other = other
  far = far
  tests = tests
  jar = jar
  ownTop = ownTop
  ownMember = ownMember
  otherTop = otherTop
  otherExtension = otherExtension
  farExtension = farExtension
  testTop = testTop
  jarCall = jarCall
  T = T
  x = x
  None = None
  Declarations <- EachPlace
  File <- FileOfEach
  Container <- JustOwnMember
  Receiver <- Extensions
  Nested <- NoneNested
  Caller = own
  ImportedFiles <- AllButFar
  TestFiles <- JustTests
  JarFiles <- JustJar
  Qualifiers <- JustX
  TypeOf <- TypeOfX
  MaxArity = 1
  MaxPresent = 3
  MaxDefinitions = 2
  MaxCalls = 2
  here = here
  peer = peer
  sub = sub
  jarTop = jarTop
  jarPlain = jarPlain
  jarDefault = jarDefault
  jarHidden = jarHidden
  home = home
  top = top
  below = below
  plain = plain
  kotlin = kotlin
  hidden = hidden
  NoPackage = NoPackage
  NoData = NoData
  Sources <- InWorkspace
  JarDeclarations <- InJars
  PackageOf <- PackageOfEach
  Here = here
  NamedAfter <- JustSub
  CallerPackage = home
  Packages <- AllPackages
  Beneath <- BelowTop
  Denylisted <- JustHidden
  DefaultImports <- JustKotlin
  Stdlib <- JustKotlin
  Headers <- FiveHeaders
  MaxDeclared = 3
  p1 = p1
  p2 = p2
  b1 = b1
  b2 = b2
  c1 = c1
  s1 = s1
  P = P
  B = B
  C = C
  S = S
  E = E
  K = K
  script = script
  Declared <- SixClasses
  NameIn <- NameOfClass
  TypeParam <- ParamOfClass
  CallerFile = script
  NoName = NoName
  Star = Star
  Scopes <- SixScopes
  Roots <- RootTypes
  MemberTypes <- MembersOf
  SuperTypes <- SupersOf
  MaxMembers = 2
  MaxWalkDepth = 2
  MaxHops = 3
INVARIANTS
  NextReadIsRight
  WalkIsExact
  VerdictsAreRight
  OverridesStopARename
  FlaggedCallFitsNothing
  TypoIsFlagged
  TailPicksTheBest
  FixLeadsHome
  FlaggedIsUnreachable
CONSTRAINT SmallEnoughToo
CHECK_DEADLOCK FALSE

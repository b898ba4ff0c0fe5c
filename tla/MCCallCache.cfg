SPECIFICATION ArgSpec
CONSTANTS
  own = own
  other = other
  far = far
  tests = tests
  jar = jar
  ownTop = ownTop
  ownMember = ownMember
  otherTop = otherTop
  otherExtension = otherExtension
  farExtension = farExtension
  testTop = testTop
  jarCall = jarCall
  T = T
  x = x
  None = None
  Declarations <- EachPlace
  File <- FileOfEach
  Container <- JustOwnMember
  Receiver <- Extensions
  Nested <- NoneNested
  Caller = own
  ImportedFiles <- AllButFar
  TestFiles <- JustTests
  JarFiles <- JustJar
  Qualifiers <- JustX
  TypeOf <- TypeOfX
  MaxArity = 1
  MaxPresent = 3
  MaxDefinitions = 2
  MaxCalls = 2
INVARIANT CacheIsTransparent
CHECK_DEADLOCK FALSE

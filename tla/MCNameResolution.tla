--------------------------- MODULE MCNameResolution ---------------------------
(* An instance of NameResolution for TLC: candidates that each tie-break   *)
(* tells apart, in headers that each step of the chain tells apart.        *)
EXTENDS NameResolution

CONSTANTS
  here, peer, sub,                                  \* in the workspace
  jarTop, jarPlain, jarDefault, jarHidden,          \* in JARs
  home, top, below, plain, kotlin, hidden           \* packages

InWorkspace == {here, peer, sub}
InJars == {jarTop, jarPlain, jarDefault, jarHidden}
PackageOfEach ==
  [d \in InWorkspace \cup InJars |-> CASE d \in {here, peer} -> home
                                       [] d = sub -> below
                                       [] d = jarTop -> top
                                       [] d = jarPlain -> plain
                                       [] d = jarDefault -> kotlin
                                       [] d = jarHidden -> hidden]
BelowTop == {<<below, top>>}
AllPackages == {home, top, below, plain, kotlin, hidden}
JustHidden == {hidden}
JustKotlin == {kotlin}
JustSub == {sub}

Header(named, stars, others) == [named |-> named, stars |-> stars, others |-> others]
FiveHeaders ==
  {Header(NoPackage, {}, {}), Header(NoPackage, {}, {plain}),
   Header(NoPackage, {top}, {}), Header(NoPackage, {kotlin}, {plain}),
   Header(top, {}, {})}
===============================================================================

---------------------------- MODULE MCCallArguments ----------------------------
(* An instance of CallArguments for TLC: a declaration in each place one   *)
(* can be seen from, and one receiver.                                     *)
EXTENDS CallArguments

CONSTANTS
  own, other, far, tests, jar,            \* files
  ownTop, ownMember, otherTop, otherExtension, farExtension, testTop, jarCall,
  T, x                                    \* a type and a variable of it

EachPlace ==
  {ownTop, ownMember, otherTop, otherExtension, farExtension, testTop, jarCall}
FileOfEach ==
  [d \in EachPlace |-> CASE d \in {ownTop, ownMember} -> own
                         [] d \in {otherTop, otherExtension} -> other
                         [] d = farExtension -> far
                         [] d = testTop -> tests
                         [] d = jarCall -> jar]
JustOwnMember == [d \in EachPlace |-> IF d = ownMember THEN T ELSE None]
Extensions ==
  [d \in EachPlace |-> IF d \in {otherExtension, farExtension} THEN T ELSE None]
NoneNested == {}
AllButFar == {other, tests}
JustTests == {tests}
JustJar == {jar}
JustX == {x}
TypeOfX == [v \in JustX |-> T]
===============================================================================

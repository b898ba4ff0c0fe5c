--------------------------- MODULE MCMemberChains ---------------------------
(* An instance of MemberChains for TLC: two plain classes named P, two     *)
(* generic ones named B, of which one may extend C, which may extend S.    *)
EXTENDS MemberChains

CONSTANTS p1, p2, b1, b2, c1, s1, P, B, C, S, E, K, script

SixClasses == <<b1, b2, c1, p1, p2, s1>>
PlainClasses == {p1, p2}
NameOfClass ==
  [c \in Range(SixClasses) |->
     CASE c \in {b1, b2} -> B [] c = c1 -> C [] c = s1 -> S [] OTHER -> P]
ParamOfClass ==
  [c \in Range(SixClasses) |->
     CASE c \in PlainClasses -> NoName [] c = c1 -> K [] OTHER -> E]

(* A file that declares a name means its own class by it.                  *)
ScopeWith(pInB, pInS) ==
  [f \in Range(SixClasses) \cup {script} |->
     [n \in {P, B, C, S, Star} |->
        CASE n = C -> c1 [] n = S -> s1 [] n = Star -> NoName
          [] n = P -> CASE f = b1 -> pInB [] f = s1 -> pInS
                        [] f \in {p2, c1} -> p2 [] OTHER -> p1
          [] n = B -> IF f \in {b2, c1} THEN b2 ELSE b1]]
SixScopes ==
  {ScopeWith(pInB, pInS) :
     pInB \in PlainClasses, pInS \in PlainClasses \cup {NoName}}

RootTypes == {<<P>>, <<B, P>>, <<C, P>>, <<B, Star>>}
MembersOf ==
  [c \in Range(SixClasses) |->
     {<<P>>, <<B, P>>} \cup IF c \in PlainClasses THEN {}
                            ELSE {<<ParamOfClass[c]>>, <<B, ParamOfClass[c]>>}]
SupersOf ==
  [c \in Range(SixClasses) |->
     CASE c = b1 -> {<<C, E>>, <<C, P>>, <<C, S, E>>} [] c = c1 -> {<<S, K>>, <<S, P>>}
       [] OTHER -> {}]
=============================================================================

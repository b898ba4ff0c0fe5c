---------------------------- MODULE MemberChains ----------------------------
(* What type a chain of member reads a.m.m has: the walk keeps the text of *)
(* the type and the file whose imports say what its name means, while      *)
(* classes of one name are declared in several files.  One member name, a  *)
(* property's or a function's throughout; no extension of it.  A file      *)
(* declares one class, a class has at most one type parameter and one      *)
(* supertype, and what a file spells its imports resolve.  A type is the   *)
(* sequence of its names from the head to the innermost argument.          *)
EXTENDS Naturals, FiniteSets, Sequences, SequencesExt

CONSTANTS
  Declared,         \* classes, in the order of their files' paths
  NameIn,           \* the simple name of each
  TypeParam,        \* its type parameter, or NoName
  CallerFile,
  NoName,
  Star,
  Scopes,           \* what the names mean in each file, a class or NoName
  Roots,            \* types the chain may start with
  MemberTypes,      \* of each class, what its member may be declared as
  SuperTypes,       \* of each class, what it may extend
  MaxMembers,       \* bound on classes that declare the member
  MaxWalkDepth,     \* the depth limit of the hierarchy walk
  MaxHops           \* bound on the reads of the chain

VARIABLES
  means,            \* of each file and name, the class
  member_type,      \* of each class, as declared, or Untyped
  super_type,       \* of each class, as declared, or Untyped
  kind,             \* "field" or "method"
  walker,           \* which walk is made
  current_type,     \* the text the walk holds, or Untyped
  current_uri,      \* the file that anchors the next lookup
  meant,            \* the classes Kotlin's typing gives, head first
  doubts,           \* known gaps the walk has met
  hops              \* reads made

chainVars == <<means, member_type, super_type, kind, walker, current_type,
               current_uri, meant, doubts, hops>>
program == <<means, member_type, super_type, kind, walker>>

Untyped == <<>>
Classes == Range(Declared)
ClassNames == {NameIn[c] : c \in Classes}
ParamNames == {TypeParam[c] : c \in Classes} \ {NoName}
Walkers == {"expression", "receiver", "names"}

(* The file of a class is named by the class.                              *)
Mentions(type, c) ==
  TypeParam[c] # NoName /\ type # Untyped /\ Last(type) = TypeParam[c]
Spells(c, name) == name \in Range(member_type[c]) \cup Range(super_type[c])

(* A type that class c may spell: class names, the innermost argument a    *)
(* star or its parameter.                                                  *)
Files == Classes \cup {CallerFile}
TypeNames == ClassNames \cup {Star}
Params(c) == {TypeParam[c]} \ {NoName}
IsType(type, own) ==
  /\ type \in Seq(TypeNames \cup own) \ {<<>>} /\ Head(type) # Star
  /\ \A i \in 1..(Len(type) - 1) : type[i] \in TypeNames

ASSUME ChainAssumption ==
  /\ Declared \in Seq(Classes) /\ NoName \notin Classes \cup TypeNames
  /\ Star \notin ClassNames /\ TypeNames \cap ParamNames = {}
  /\ \A m \in Scopes :
       /\ m \in [Files -> [TypeNames -> Classes \cup {NoName}]]
       /\ \A f \in Files, n \in TypeNames : m[f][n] # NoName => NameIn[m[f][n]] = n
  /\ \A t \in Roots : IsType(t, {})
  /\ \A c \in Classes : \A t \in MemberTypes[c] : IsType(t, Params(c))
  /\ \A c \in Classes : \A t \in SuperTypes[c] : IsType(t, Params(c)) /\ Head(t) \in ClassNames
  /\ MaxWalkDepth \in Nat

----------------------------------------------------------------------------
(* Looking a member up.                                                    *)

(* reachable_workspace_class_candidates: what the file's scope names, else *)
(* every class of the name, as the index-only tail refuses to guess.       *)
Candidates(name, uri) ==
  IF means[uri][name] # NoName THEN <<means[uri][name]>>
  ELSE SelectSeq(Declared, LAMBDA c : NameIn[c] = name)

FirstOf(candidates, Test(_)) ==
  LET i == SelectInSeq(candidates, Test)
  IN  IF i = 0 THEN NoName ELSE candidates[i]

HasMember(c) == member_type[c] # Untyped

Parent(c) ==
  IF super_type[c] = Untyped THEN NoName ELSE means[c][Head(super_type[c])]

(* walk_hierarchy, with one supertype for a class: its ancestors in order. *)
Ancestor(c) ==
  LET up[n \in 0..MaxWalkDepth] ==
        IF n = 0 THEN c
        ELSE IF up[n - 1] = NoName THEN NoName
        ELSE Parent(up[n - 1])
  IN  up
LevelsAbove(c) ==
  {n \in 1..MaxWalkDepth : Ancestor(c)[n] # NoName /\ HasMember(Ancestor(c)[n])}
Inherits(c) == LevelsAbove(c) # {}

(* substitute_direct_supertype_args: only those of the direct supertype.   *)
WithSuperArgs(type, c, level) ==
  LET generic == FirstOf(Candidates(Head(super_type[c]), c),
                         LAMBDA s : TypeParam[s] # NoName)
  IN  IF /\ level = 1 /\ Len(super_type[c]) > 1
         /\ generic # NoName /\ Mentions(type, generic)
      THEN Front(type) \o Tail(super_type[c])
      ELSE type

(* find_field_type_via_class_hierarchy answers with the ancestor's file,   *)
(* its twin for methods with the class's own when it has substituted.      *)
Inherited(c) ==
  LET level == Min(LevelsAbove(c))
      owner == Ancestor(c)[level]
      type == WithSuperArgs(member_type[owner], c, level)
  IN  [type |-> type,
       uri |-> IF kind = "method" /\ type # member_type[owner] THEN c
               ELSE owner]

(* Resolver::field_type, method_return_type_declared: the class's own, else *)
(* an inherited one.                                                       *)
FoundMember(name, uri) ==
  LET candidates == Candidates(name, uri)
      declarer == FirstOf(candidates, HasMember)
      heir == FirstOf(candidates, Inherits)
  IN  IF declarer # NoName
      THEN {[type |-> member_type[declarer], uri |-> declarer]}
      ELSE IF heir # NoName THEN {Inherited(heir)}
      ELSE {}

----------------------------------------------------------------------------
(* The walks.                                                              *)

Arguments(type) == Tail(type)
Unreadable(arguments) == arguments \in {Untyped, <<Star>>}

(* find_class_type_params_declared_in: of the class of this name in the    *)
(* file, else of any class of the name that has one.                       *)
ParamFor(name, uri) ==
  IF uri \in Classes /\ NameIn[uri] = name THEN {TypeParam[uri]}
  ELSE LET generic ==
             {c \in Classes : NameIn[c] = name /\ TypeParam[c] # NoName}
       IN  IF generic = {} THEN {NoName} ELSE {TypeParam[c] : c \in generic}

(* Mutant: what replaces a parameter is taken for a name of the file that  *)
(* declares the member.                                                    *)
AnchorAtDeclaration(found, param, receiver, uri) == found.uri
(* SpelledIn: the file whose names the head of the answer is one of.       *)
AnchorOf(found, param, receiver, uri) ==
  IF Head(found.type) = param /\ ~Unreadable(Arguments(receiver)) THEN uri
  ELSE found.uri

(* substitute_receiver_type_arguments, star_unbound_type_arguments: an     *)
(* argument that nothing binds becomes a star, a head that nothing binds   *)
(* the first argument of the receiver.                                     *)
Substituted(found, param, receiver, uri) ==
  LET bound == ~Unreadable(Arguments(receiver))
      type == IF param = NoName \/ Last(found.type) # param THEN found.type
              ELSE IF bound THEN Front(found.type) \o Arguments(receiver)
              ELSE IF Len(found.type) > 1 THEN Append(Front(found.type), Star)
              ELSE found.type
  IN  IF Len(type) = 1 /\ Head(type) \in ParamNames
      THEN [type |-> IF bound /\ Head(Arguments(receiver)) \notin ParamNames
                     THEN Arguments(receiver) ELSE Untyped,
            uri |-> uri]
      ELSE [type |-> type, uri |-> AnchorOf(found, param, receiver, uri)]

(* resolve_member_type_on, resolve_field_type_on; infer_field_chain_type   *)
(* walks the bare names and substitutes nothing.                           *)
MemberTypeOn(type, uri) ==
  IF walker = "names" THEN FoundMember(Head(type), uri)
  ELSE {r \in UNION {{Substituted(found, param, type, uri) :
                        param \in ParamFor(Head(type), found.uri)} :
                     found \in FoundMember(Head(type), uri)} :
          r.type # Untyped}

(* Kotlin's typing: classes for names, the receiver's arguments for the    *)
(* parameter.                                                              *)
Meaning(type, c, arguments) ==
  LET proper == IF Mentions(type, c) THEN Front(type) ELSE type
  IN  [i \in DOMAIN proper |-> means[c][proper[i]]]
        \o IF Mentions(type, c) THEN arguments ELSE <<>>
Seen(types) ==
  LET as[n \in 0..MaxWalkDepth] ==
        IF n = 0 THEN types
        ELSE IF as[n - 1] = <<>> \/ Head(as[n - 1]) \notin Classes THEN <<>>
        ELSE Meaning(super_type[Head(as[n - 1])], Head(as[n - 1]),
                     Tail(as[n - 1]))
  IN  as
Levels(types) ==
  {n \in 0..MaxWalkDepth : /\ Seen(types)[n] # <<>>
                           /\ Head(Seen(types)[n]) \in Classes
                           /\ HasMember(Head(Seen(types)[n]))}

(* Those of the classes are given one of their types, the others none.     *)
Typed(those, types) ==
  {[c \in Classes |-> IF c \in those THEN given[c] ELSE Untyped] :
     given \in {g \in [those -> UNION {types[c] : c \in those}] :
                 \A c \in those : g[c] \in types[c]}}

(* The chain's first read is one that compiles.                            *)
ChainInit ==
  /\ \E declaring \in SUBSET Classes :
       /\ Cardinality(declaring) <= MaxMembers
       /\ member_type \in Typed(declaring, MemberTypes)
  /\ \E extending \in SUBSET {c \in Classes : SuperTypes[c] # {}} :
       super_type \in Typed(extending, SuperTypes)
  /\ means \in Scopes
  /\ \A c \in Classes, n \in ClassNames : Spells(c, n) => means[c][n] # NoName
  /\ \A c \in Classes :
       super_type[c] # Untyped /\ TypeParam[Parent(c)] # NoName => Len(super_type[c]) > 1
  /\ kind \in {"field", "method"}
  /\ walker \in IF kind = "field" THEN Walkers ELSE {"receiver"}
  /\ current_type \in Roots /\ current_uri = CallerFile
  /\ \A n \in Range(current_type) \cap ClassNames : means[CallerFile][n] # NoName
  /\ meant = [i \in DOMAIN current_type |-> means[CallerFile][current_type[i]]]
  /\ doubts = {} /\ hops = 0
  /\ Levels(meant) # {}

(* The gaps a read may meet: the parameter of an inherited member, and an  *)
(* argument spelled elsewhere than the head it is written under.           *)
Doubts(level, owner, c) ==
  LET generic == Mentions(member_type[owner], owner)
      nested == generic /\ Len(member_type[owner]) > 1
      handed_on == generic /\ level = 1 /\ Mentions(super_type[c], c) /\ Len(super_type[c]) > 2
      is(reason, holds) == IF holds THEN {reason} ELSE {}
  IN  is("inherited field", level = 1 /\ generic /\ kind = "field")
        \cup is("deep", level > 1 /\ generic)
        \cup is("nested", nested /\ level > 0 /\ kind = "method")
        \cup is("exposed", generic /\ "apart" \in doubts)
        \cup is("apart", nested \/ handed_on)

NamesAClass == current_type # Untyped /\ Head(current_type) \in ClassNames

(* One read.  The receiver walk keeps the receiver's type when it finds no *)
(* member, the other two answer nothing.                                   *)
ReadMember ==
  /\ hops < MaxHops /\ NamesAClass
  /\ meant # <<>> /\ Levels(meant) # {}
  /\ LET level == Min(Levels(meant))
         seen == Seen(meant)[level]
     IN  /\ meant' = Meaning(member_type[Head(seen)], Head(seen), Tail(seen))
         /\ doubts' = doubts \cup Doubts(level, Head(seen), Head(meant))
               \cup IF MemberTypeOn(current_type, current_uri) = {}
                    THEN {"leaked"} ELSE {}
  /\ \/ \E r \in MemberTypeOn(current_type, current_uri) :
          current_type' = r.type /\ current_uri' = r.uri
     \/ /\ MemberTypeOn(current_type, current_uri) = {}
        /\ current_type' = IF walker = "receiver" THEN current_type ELSE Untyped
        /\ UNCHANGED current_uri
  /\ hops' = hops + 1
  /\ UNCHANGED program

ChainNext == ReadMember
ChainSpec == ChainInit /\ [][ChainNext]_chainVars

----------------------------------------------------------------------------
(* Properties.                                                             *)

(* The class the next lookup reads members of.                             *)
Reads == FirstOf(Candidates(Head(current_type), current_uri), LAMBDA c : TRUE)

(* "only the leaf's own declaring file's imports/package can disambiguate": *)
(* however many reads and files a chain has gone through, the class its    *)
(* type is looked up as is the one Kotlin means, unless a gap the resolver *)
(* documents was met on the way.                                           *)
NextReadIsRight ==
  doubts \subseteq {"apart"} /\ NamesAClass => Reads = Head(meant)

(* resolve_field_type_on: "The returned Url is the file that spelled the   *)
(* answer's head", which for the parameter of an inherited field is the    *)
(* file of the class that binds it.                                        *)
InheritedFieldIsAnchored ==
  doubts = {"inherited field"} /\ hops = 1 /\ walker = "expression" /\ NamesAClass
    => Reads = Head(meant)

============================================================================

----------------------------- MODULE References -----------------------------
(* Find-references and rename of a member: the candidates rg found by name *)
(* are verified one by one (features/references_verify.rs), most of them   *)
(* by a supertype walk, and what is kept is listed or edited               *)
(* (features/references.rs, features/rename.rs).                           *)
EXTENDS TypeHierarchy

CONSTANTS
  Library,             \* the types of JARs; the others are workspace classes
  IoBudget,            \* MAX_VERIFICATION_IO_OPERATIONS
  MaxCandidates,       \* bound on the candidates of one search
  Requests             \* the kinds of request of an instance

ASSUME ReferencesAssumption ==
  /\ Library \subseteq Types /\ {IoBudget, MaxCandidates} \subseteq Nat
  /\ Requests \subseteq {"references", "rename", "extension"}

VARIABLES
  query,               \* the request, the class declaring the member, the cursor's role
  io_budget,
  candidate,           \* the candidate under verification, and how far it is
  forward,             \* what the walk from the candidate's class said
  kept, rejected,
  proven_overrides,
  outcome

verifyVars == <<query, io_budget, candidate, forward, kept, rejected, proven_overrides, outcome>>
referencesVars == <<hierarchyVars, verifyVars>>

\* a name match: a call on a receiver, a declaration in a class.  Any other
\* stays a name match, as these do when they cannot be verified.
Sites == [kind : {"call", "declaration"}, type : Types]
Agreements == {"Exact", "Inherited", "Unrelated", "Unresolvable"}

NoCandidate ==
  [at |-> "none", site |-> CHOOSE s \in Sites : TRUE]

NotAsked == [agreement |-> "Unresolvable", blind |-> FALSE]

\* a verified candidate, and for the properties: whether a walk it depended
\* on was cut short or misled, or not made at all
Verdicts == [site : Sites, blind : BOOLEAN]

ReferencesTypeOK ==
  /\ HierarchyTypeOK
  /\ query \in [request : Requests, class : Types, role : {"Declaration", "Reference"}]
  /\ io_budget \in 0..IoBudget
  /\ candidate \in [at : {"none", "forward", "reverse"}, site : Sites]
  /\ forward \in [agreement : Agreements, blind : BOOLEAN]
  /\ kept \subseteq [site : Sites, blind : BOOLEAN, source : {"CstResolved", "NameScan"}]
  /\ rejected \subseteq [site : Sites, blind : BOOLEAN, shape : BOOLEAN]
  /\ proven_overrides \subseteq Verdicts
  /\ outcome \in {"none", "listed", "edited", "refused"}
  \* every candidate that was looked at is in one list and in one only
  /\ \A v \in kept, w \in rejected : v.site = w.site => w.shape
  /\ \A o \in proven_overrides : \E v \in kept : v.site = o.site

QueryName == NameOf[query.class]

\* rename goes on only from an identity that is one definition in the
\* workspace (rename_impl's refusals)
ReferencesInit ==
  /\ HierarchyInit
  /\ cold \subseteq Library
  /\ \A t \in Library : supers[t] \subseteq Library
  /\ query \in [request : Requests, class : Types, role : {"Declaration", "Reference"}]
  /\ query.request = "rename" \/ query.role = "Declaration" => query.class \notin Library
  /\ query.class \notin cold
  /\ io_budget = IoBudget
  /\ candidate = NoCandidate
  /\ forward = NotAsked
  /\ kept = {} /\ rejected = {} /\ proven_overrides = {}
  /\ outcome = "none"

----------------------------------------------------------------------------
(* verify_candidates, one candidate at a time.                             *)

Undecided(s) ==
  /\ query.request # "extension" /\ outcome = "none" /\ candidate.at = "none"
  /\ Cardinality({v.site : v \in kept \cup rejected}) < MaxCandidates
  /\ s \notin {v.site : v \in kept \cup rejected}
  \* the library's own files are no candidates
  /\ s.kind = "declaration" => s.type \notin Library

Kept(s, source, blind) == kept' = kept \cup {[site |-> s, source |-> source, blind |-> blind]}
Rejected(s, blind, shape) ==
  rejected' = rejected \cup {[site |-> s, blind |-> blind, shape |-> shape]}

IoLeft(reads) == IF reads THEN io_budget - 1 ELSE io_budget

\* the budget is spent, or the candidate cannot be classified, or its class
\* has no declaration to start from, a walk already paid for
KeepUnverified(s) ==
  /\ Undecided(s)
  /\ Kept(s, "NameScan", TRUE)
  /\ \E spent \in IF s.kind = "call" THEN 0..2 ELSE 0..1 :
       spent <= io_budget /\ io_budget' = io_budget - spent
  /\ UNCHANGED <<hierarchyVars, query, candidate, forward, rejected, proven_overrides, outcome>>

\* a call whose arguments the declaration cannot take
RejectByShape(s) ==
  /\ Undecided(s) /\ io_budget > 0 /\ s.kind = "call"
  /\ Rejected(s, FALSE, TRUE)
  /\ UNCHANGED <<hierarchyVars, query, io_budget, candidate, forward, kept,
                 proven_overrides, outcome>>

\* receiver_type_agreement without a walk: the same simple name, whoever's
KeepExact(s) ==
  /\ Undecided(s) /\ io_budget > 0
  /\ NameOf[s.type] = QueryName
  /\ Kept(s, "CstResolved", FALSE)
  /\ UNCHANGED <<hierarchyVars, query, io_budget, candidate, forward, rejected,
                 proven_overrides, outcome>>

\* receiver_type_declaration_uri: the first of the declarations to which the
\* receiver's name leads where it was written, which may be a namesake's; the
\* class of a declaration is the one that encloses it
DeclarationsOf(s) ==
  IF s.kind = "call" THEN {t \in Types \ cold : NameOf[t] = NameOf[s.type]} ELSE {s.type}

WalkBudget == IF query.request = "rename" THEN Cardinality(Types) ELSE PromotionBudget

\* (a mutant: from the class of the query to the candidate's)
BeginForwardSwapped(s, reads) ==
  /\ Undecided(s) /\ ~Walking
  /\ NameOf[s.type] # QueryName
  /\ io_budget > 0 /\ IoLeft(reads) > 0
  /\ io_budget' = IoLeft(reads) - 1
  /\ candidate' = [at |-> "forward", site |-> s]
  /\ walk' = WalkFrom("dfs", query.class, NameOf[s.type], WalkBudget)
  /\ UNCHANGED <<supers, cold, query, forward, kept, rejected, proven_overrides, outcome>>

\* reads: the candidate's file was not in the index
BeginForward(s, reads) ==
  /\ Undecided(s) /\ ~Walking
  /\ NameOf[s.type] # QueryName
  /\ io_budget > 0 /\ IoLeft(reads) > 0
  /\ io_budget' = IoLeft(reads) - 1
  /\ candidate' = [at |-> "forward", site |-> s]
  /\ \E t \in DeclarationsOf(s) :
       walk' = [WalkFrom("dfs", t, QueryName, WalkBudget) EXCEPT !.guessed = (t # s.type)]
  /\ UNCHANGED <<supers, cold, query, forward, kept, rejected, proven_overrides, outcome>>

Agreement == IF walk.found # {} THEN "Inherited" ELSE "Unrelated"
Blind == walk.missed \/ walk.guessed

DecideCall ==
  /\ candidate.at = "forward" /\ Finished /\ candidate.site.kind = "call"
  /\ \/ Agreement = "Inherited" /\ Kept(candidate.site, "CstResolved", Blind)
        /\ UNCHANGED rejected
     \/ Agreement = "Unrelated" /\ Rejected(candidate.site, Blind, FALSE) /\ UNCHANGED kept
  /\ candidate' = NoCandidate /\ walk' = NoWalk
  /\ UNCHANGED <<supers, cold, query, io_budget, forward, proven_overrides, outcome>>

\* the walk the other way round, from the class of the query: only a rename
\* asks for it, and only with the cursor on the declaration
LooksBackNever == FALSE   \* (a mutant)
LooksBack == query.request = "rename" /\ query.role = "Declaration"

BeginReverse ==
  /\ candidate.at = "forward" /\ Finished /\ candidate.site.kind = "declaration"
  /\ LooksBack /\ io_budget > 0
  /\ io_budget' = io_budget - 1
  /\ forward' = [agreement |-> Agreement, blind |-> Blind]
  /\ candidate' = [candidate EXCEPT !.at = "reverse"]
  /\ walk' = WalkFrom("dfs", query.class, NameOf[candidate.site.type], WalkBudget)
  /\ UNCHANGED <<supers, cold, query, kept, rejected, proven_overrides, outcome>>

\* an unrelated declaration is kept as a name match, "a weaker signal"
Decide(agreement, reverse, blind) ==
  /\ Kept(candidate.site, IF agreement = "Inherited" THEN "CstResolved" ELSE "NameScan", blind)
  /\ proven_overrides' = proven_overrides \cup
       (IF "Inherited" \in {agreement, reverse}
        THEN {[site |-> candidate.site, blind |-> blind]} ELSE {})
  /\ candidate' = NoCandidate /\ walk' = NoWalk /\ forward' = NotAsked
  /\ UNCHANGED <<supers, cold, query, io_budget, rejected, outcome>>

DecideDeclaration ==
  /\ Finished /\ candidate.site.kind = "declaration"
  /\ \/ candidate.at = "reverse" /\ Decide(forward.agreement, Agreement, forward.blind \/ Blind)
     \/ candidate.at = "forward" /\ LooksBack /\ io_budget = 0
        /\ Decide(Agreement, "Unresolvable", TRUE)
     \/ candidate.at = "forward" /\ ~LooksBack /\ Decide(Agreement, "Unresolvable", Blind)

\* find_references_with_qualifier lists what was kept; rename_impl refuses
\* when an override is proven and edits what was kept otherwise
Answer ==
  /\ query.request # "extension" /\ outcome = "none" /\ candidate.at = "none"
  /\ outcome' = IF query.request = "references" THEN "listed"
                ELSE IF proven_overrides # {} THEN "refused" ELSE "edited"
  /\ UNCHANGED <<hierarchyVars, query, io_budget, candidate, forward, kept, rejected,
                 proven_overrides>>

\* resolve_extension_via_supertype_hierarchy: the extensions of the nearest
\* supertypes that have one, here those of a name
LookUpExtension(n) ==
  /\ query.request = "extension" /\ walk.kind = "none"
  /\ walk' = WalkFrom("bfs", query.class, n, PromotionBudget)
  /\ UNCHANGED <<supers, cold, verifyVars>>

Verify ==
  \/ \E s \in Sites : \/ KeepUnverified(s) \/ RejectByShape(s) \/ KeepExact(s)
                      \/ \E reads \in BOOLEAN : BeginForward(s, reads)
  \/ DecideCall \/ BeginReverse \/ DecideDeclaration \/ Answer
  \/ \E n \in Names : LookUpExtension(n)

ReferencesNext ==
  \/ Verify
  \/ WalkStep /\ UNCHANGED verifyVars

ReferencesSpec == ReferencesInit /\ [][ReferencesNext]_referencesVars

----------------------------------------------------------------------------

UsesTheMember(t) == t = query.class \/ query.class \in Ancestors(t)
NameIsItsOwn == \A t \in Types : NameOf[t] = QueryName => t = query.class

\* What find-references ranks first and rename edits as verified is a use of
\* the member: its class is the query's or descends from it, provided that no
\* other class has the simple name of the query's, by which they are compared.
\* What is dropped for its receiver has a class that is not the query's and
\* does not descend from it, whatever classes share names.  Left out are walks
\* that started from or passed through another class of the right name or
\* missed a supertype (references_verify.rs:9-12, 99-131 and 233-250,
\* hierarchy.rs:329-395).
VerdictsAreRight ==
  /\ \A v \in kept :
       v.source = "CstResolved" /\ ~v.blind /\ NameIsItsOwn => UsesTheMember(v.site.type)
  /\ \A v \in rejected : ~v.shape /\ ~v.blind => ~UsesTheMember(v.site.type)

\* A rename asked for on a declaration goes through only if no candidate
\* declares the member in a superclass or a subclass, in whichever direction:
\* it never changes one side of an override (rename.rs:144-149,
\* references_verify.rs:158-198).
OverridesStopARename ==
  outcome = "edited" /\ query.role = "Declaration" =>
    \A v \in kept : v.site.kind = "declaration" /\ ~v.blind
                      /\ NameOf[v.site.type] # QueryName =>
      /\ ~Descends(v.site.type, QueryName)
      /\ ~Descends(query.class, NameOf[v.site.type])

\* A rename edits no declaration whose own calls it leaves alone: a class
\* proved to be another one is not touched.
ProvenOthersAreNotRenamed ==
  outcome = "edited" =>
    \A v \in kept, w \in rejected :
      /\ v.site.kind = "declaration" /\ ~v.blind
      /\ w.site.kind = "call" /\ ~w.shape /\ ~w.blind
      => v.site.type # w.site.type
=============================================================================

--------------------------- MODULE NameResolution ---------------------------
(* One name, unqualified, in one Kotlin file: what resolve_chain answers   *)
(* under each IO policy, whether the missing-import diagnostic flags the   *)
(* name, and what its quick fix does, while files are indexed and JARs are *)
(* listed and materialized.  Every source file stands in the directory of  *)
(* its package; the name is no platform type of Kotlin's, and the file has *)
(* no supertypes.                                                          *)
EXTENDS Naturals, FiniteSets

CONSTANTS
  Sources,          \* declarations of the name in workspace files
  JarDeclarations,             \* those in compiled JARs, a JAR each
  PackageOf,        \* the package of each
  Here,             \* the one in the caller's own file
  NamedAfter,       \* those of Sources whose file bears the name
  CallerPackage,
  Packages,
  Beneath,          \* pairs of a package and one it lies beneath
  Denylisted,       \* packages under com.android.internal
  DefaultImports,   \* packages Kotlin imports by default
  Stdlib,           \* packages whose star imports are not searched
  NoPackage,
  NoData,
  Headers,          \* the imports the caller's file may start with
  MaxDeclared        \* bound on declarations that exist at once

ASSUME ResolutionAssumption ==
  /\ IsFiniteSet(Sources) /\ IsFiniteSet(JarDeclarations)
  /\ \A d \in Sources \cup JarDeclarations : PackageOf[d] # NoPackage
  /\ \A S \in SUBSET JarDeclarations : S # NoData
  /\ Headers \subseteq [named : Packages \cup {NoPackage},
                        stars : SUBSET Packages, others : SUBSET Packages]

VARIABLES
  disk,             \* declarations of Sources that exist
  indexed,          \* those in the index
  caller_indexed,   \* the caller's file data is in the index
  jars,             \* "absent", "unlisted", "cold", "cached" or "materialized"
  jar_phase_loading,
  imports,          \* of the caller's file: of the name, stars, of other names
  importable_fqns,  \* packages the name can be imported from, when last rebuilt
  dependencies,     \* the JARs the caller's module depends on, or NoData
  fixed             \* the import is the quick fix's

resVars == <<disk, indexed, caller_indexed, jars, jar_phase_loading, imports,
             importable_fqns, dependencies, fixed>>
world == <<disk, dependencies>>

Policies == {"Full", "NoRg", "IndexOnly", "ScopedOnly", "HierarchyAmbiguitySafe"}

ResInit ==
  /\ disk \in SUBSET Sources
  /\ indexed = {} /\ caller_indexed = FALSE
  /\ \E present \in SUBSET JarDeclarations :
       /\ Cardinality(disk) + Cardinality(present) <= MaxDeclared
       /\ jars = [j \in JarDeclarations |-> IF j \in present THEN "unlisted" ELSE "absent"]
       /\ dependencies \in (SUBSET present) \cup {NoData}
  /\ jar_phase_loading = TRUE
  /\ imports \in Headers
  /\ importable_fqns = {}
  /\ fixed = FALSE

----------------------------------------------------------------------------
(* Reading the index.                                                      *)

InPackage(candidates, p) == {d \in candidates : PackageOf[d] = p}
InOrBeneath(candidates, p) ==
  {d \in candidates : PackageOf[d] = p \/ <<PackageOf[d], p>> \in Beneath}
OneOf(candidates) == {{d} : d \in candidates}

Materialized == {j \in JarDeclarations : jars[j] = "materialized"}

(* ensure_jar_definitions_for with no budget: what the JAR cache holds is  *)
(* promoted before the read, what needs the sidecar is not.                *)
JarDefinitions == {j \in JarDeclarations : jars[j] \in {"cached", "materialized"}}

LookupDefinitions == indexed \cup JarDefinitions

(* find_symbol_in_package: a source before a JAR.                          *)
FindInPackage(sources, p) ==
  IF InPackage(sources, p) # {} THEN InPackage(sources, p)
  ELSE InPackage(JarDefinitions, p)

----------------------------------------------------------------------------
(* The steps of the chain.  Each is the set of answers it may give, an     *)
(* answer being a set of declarations: none where the step goes on.        *)

Local == indexed \cap {Here}

(* resolve_via_imports: the exact name, the short name in the package of   *)
(* the import or beneath it, and fd: first the file of that package, then  *)
(* any file of the name.                                                   *)
Exactly(p) == OneOf(InPackage(indexed \cup Materialized, p))
(* Mutant: the JARs are asked only where the sources have none.            *)
ByShortNameSourcesFirst(p) ==
  IF InOrBeneath(indexed, p) # {} THEN {InOrBeneath(indexed, p)}
  ELSE {InOrBeneath(JarDefinitions, p)} \ {{}}
ByShortName(p) == {InOrBeneath(LookupDefinitions, p)} \ {{}}
PackageDirExists(p) == p = CallerPackage \/ InOrBeneath(disk, p) # {}
FdFinds(p) ==
  IF ~PackageDirExists(p) THEN {}
  ELSE IF InPackage(disk \cap NamedAfter, p) # {} THEN OneOf(InPackage(disk \cap NamedAfter, p))
  ELSE OneOf(disk \cap NamedAfter)

ViaImports(known, fd) ==
  LET p == imports.named IN
  IF ~known \/ p = NoPackage THEN {}
  ELSE IF Exactly(p) # {} THEN Exactly(p)
  ELSE IF ByShortName(p) # {} THEN ByShortName(p)
  ELSE IF fd THEN FdFinds(p) ELSE {}

SamePackage(known) ==
  IF known THEN OneOf(FindInPackage(indexed \ {Here}, CallerPackage)) ELSE {}

StarPackages(known) == IF known THEN imports.stars \ Stdlib ELSE {}
StarImports(known, rg) ==
  UNION {IF FindInPackage(indexed, p) # {} THEN OneOf(FindInPackage(indexed, p))
         ELSE IF rg THEN {InPackage(disk, p)} \ {{}}
         ELSE {} : p \in StarPackages(known)}

(* Mutant: a later tie-break sees candidates an earlier one has left out.  *)
PreferFromAll(narrowed, candidates, all) == IF narrowed # {} THEN narrowed ELSE all
(* What a tie-break leaves; one with nothing to say leaves what it was     *)
(* given.                                                                  *)
Prefer(narrowed, candidates, all) == IF narrowed # {} THEN narrowed ELSE candidates

(* ambiguity_safe_tail_with_denylist: one candidate wins, else those not   *)
(* denylisted, of the module's dependencies, in a default import and in an *)
(* imported package, and nothing unless one is left.                       *)
ImportedPackages(known) ==
  IF known THEN imports.stars \cup imports.others \cup ({imports.named} \ {NoPackage}) ELSE {}
OnlyOne(candidates) == IF Cardinality(candidates) = 1 THEN {candidates} ELSE {}
TailOf(candidates, known) ==
  LET allowed == {d \in candidates : PackageOf[d] \notin Denylisted}
      scoped == Prefer(IF dependencies = NoData THEN {} ELSE allowed \cap dependencies,
                       allowed, allowed)
      default == Prefer({d \in scoped : PackageOf[d] \in DefaultImports}, scoped, allowed)
      imported == {d \in default : PackageOf[d] \in ImportedPackages(known)}
  IN IF Cardinality(candidates) = 1 THEN {candidates}
     ELSE IF Cardinality(default) = 1 THEN {default}
     ELSE OnlyOne(imported)
DefinitionsTail(known) == TailOf(LookupDefinitions, known)

(* Full: rg over the workspace unless the import names a package that is   *)
(* not in it, and the tail behind rg.  rg and fd find nothing where their  *)
(* slots are taken.                                                        *)
ProjectWide(slots) ==
  IF imports.named # NoPackage /\ ~PackageDirExists(imports.named) THEN {}
  ELSE IF slots /\ disk # {} THEN {disk}
  ELSE DefinitionsTail(TRUE)

(* NoRg: the first of the definitions, or of the JARs'.                    *)
FirstDefinition == OneOf(IF indexed # {} THEN indexed ELSE JarDefinitions)

LastResort(policy, known, slots) ==
  CASE policy = "Full" -> ProjectWide(slots)
    [] policy = "NoRg" -> FirstDefinition
    [] policy = "ScopedOnly" -> {}
    [] OTHER -> DefinitionsTail(known)

(* resolve_chain.  Full indexes the caller's file first.                   *)
ResolveChain(policy, slots) ==
  LET known == caller_indexed \/ policy = "Full"
      local == IF policy = "Full" THEN disk \cap {Here} ELSE Local
      imported == ViaImports(known, slots /\ policy # "IndexOnly")
      star == StarImports(known, slots /\ policy = "Full")
  IN IF local # {} THEN {local}
     ELSE IF imported # {} THEN imported
     ELSE IF SamePackage(known) # {} THEN SamePackage(known)
     ELSE IF star # {} THEN star
     ELSE LastResort(policy, known, slots)

(* Mutant: a package of JARs is taken for one that is not there.           *)
InScopeOfSources ==
  \/ Local # {}
  \/ /\ caller_indexed
     /\ imports.named # NoPackage \/ imports.stars \cap Stdlib # {}
  \/ \E p \in {CallerPackage} \cup imports.stars : InPackage(indexed, p) # {}
  \/ \E d \in LookupDefinitions : PackageOf[d] \in DefaultImports
(* resolve_in_scope_strict, under which no global fallback answers.        *)
InScope ==
  \/ Local # {}
  \/ /\ caller_indexed
     /\ imports.named # NoPackage \/ imports.stars \cap Stdlib # {}
  \/ \E d \in LookupDefinitions : PackageOf[d] \in DefaultImports
  \/ ViaImports(caller_indexed, FALSE) # {}
  \/ SamePackage(caller_indexed) # {}
  \/ StarImports(caller_indexed, FALSE) # {}

(* collect_missing_import_flags, for a name no receiver provides, in a file*)
(* just indexed.                                                           *)
Flagged == caller_indexed /\ ~jar_phase_loading /\ importable_fqns # {} /\ ~InScope

----------------------------------------------------------------------------
(* Steps.                                                                  *)

(* A request that goes past the local step and the exact import promotes.  *)
StopsEarly(policy) ==
  LET known == caller_indexed \/ policy = "Full" IN
  \/ (IF policy = "Full" THEN disk \cap {Here} ELSE Local) # {}
  \/ known /\ imports.named # NoPackage /\ Exactly(imports.named) # {}
  \/ ~known /\ policy = "ScopedOnly"
ResolveName(policy) ==
  /\ IF policy = "Full"
     THEN caller_indexed' = TRUE /\ indexed' = indexed \cup (disk \cap {Here})
     ELSE UNCHANGED <<caller_indexed, indexed>>
  /\ jars' = IF StopsEarly(policy) THEN jars
             ELSE [j \in JarDeclarations |-> IF jars[j] = "cached" THEN "materialized" ELSE jars[j]]
  /\ UNCHANGED <<world, jar_phase_loading, imports, importable_fqns, fixed>>

(* A file of the scan, or one that is opened.                              *)
IndexFile(d) ==
  /\ d \in disk \ (indexed \cup {Here})
  /\ indexed' = indexed \cup {d}
  /\ UNCHANGED <<world, caller_indexed, jars, jar_phase_loading, imports, importable_fqns, fixed>>

IndexCaller ==
  /\ ~caller_indexed
  /\ caller_indexed' = TRUE
  /\ indexed' = indexed \cup (disk \cap {Here})
  /\ UNCHANGED <<world, jars, jar_phase_loading, imports, importable_fqns, fixed>>

ListJar(j) ==
  /\ jar_phase_loading /\ jars[j] = "unlisted"
  /\ \E state \in {"cold", "cached"} : jars' = [jars EXCEPT ![j] = state]
  /\ UNCHANGED <<world, indexed, caller_indexed, jar_phase_loading, imports,
                 importable_fqns, fixed>>

JarPhaseEnds ==
  /\ jar_phase_loading
  /\ jar_phase_loading' = FALSE
  /\ UNCHANGED <<world, indexed, caller_indexed, jars, imports, importable_fqns, fixed>>

(* By a request with a budget for the sidecar, as at the opening of a file *)
(* that imports the name.                                                  *)
PromoteJar(j) ==
  /\ jars[j] = "cold"
  /\ jars' = [jars EXCEPT ![j] = "materialized"]
  /\ UNCHANGED <<world, indexed, caller_indexed, jar_phase_loading, imports,
                 importable_fqns, fixed>>

(* rebuild_importable_fqns: indexed files and the JARs' manifests.         *)
Listed == {j \in JarDeclarations : jars[j] \in {"cold", "cached", "materialized"}}
RebuildImportableFqns ==
  /\ importable_fqns' = {PackageOf[d] : d \in indexed \cup Listed}
  /\ UNCHANGED <<world, indexed, caller_indexed, jars, jar_phase_loading, imports, fixed>>

(* The quick fix of the diagnostic, and the parse of the edited file.      *)
ImportFix(p) ==
  /\ Flagged /\ p \in importable_fqns
  /\ imports' = [imports EXCEPT !.named = p]
  /\ fixed' = TRUE
  /\ UNCHANGED <<world, indexed, caller_indexed, jars, jar_phase_loading, importable_fqns>>

ResNext ==
  \/ \E policy \in Policies : ResolveName(policy)
  \/ \E d \in Sources : IndexFile(d)
  \/ IndexCaller \/ JarPhaseEnds \/ RebuildImportableFqns
  \/ \E j \in JarDeclarations : ListJar(j) \/ PromoteJar(j)
  \/ \E p \in Packages : ImportFix(p)

ResSpec == ResInit /\ [][ResNext]_resVars

----------------------------------------------------------------------------
(* Properties.                                                             *)

(* The evidence for a candidate, the strongest first.                      *)
Evidence(d) ==
  (IF dependencies # NoData /\ d \in dependencies THEN 4 ELSE 0)
  + (IF PackageOf[d] \in DefaultImports THEN 2 ELSE 0)
  + (IF PackageOf[d] \in ImportedPackages(TRUE) THEN 1 ELSE 0)

(* The tail guesses nothing it cannot justify: of several candidates it    *)
(* answers the one with strictly more evidence than every other that is    *)
(* not denylisted, and nothing where there is no such one; a candidate     *)
(* that stronger evidence has ruled out does not come back by weaker.      *)
TailPicksTheBest ==
  \A candidates \in SUBSET LookupDefinitions :
    LET allowed == {d \in candidates : PackageOf[d] \notin Denylisted} IN
    Cardinality(candidates) > 1 =>
      TailOf(candidates, TRUE)
        = {{d} : d \in {e \in allowed : \A f \in allowed \ {e} : Evidence(f) < Evidence(e)}}

(* The quick fix leads where it says: the name is flagged no more, and     *)
(* from then on every policy answers with the declaration that was         *)
(* imported as soon as the index or the JAR cache has it, whatever else is *)
(* indexed or materialized.                                                *)
FixLeadsHome ==
  fixed =>
    /\ ~Flagged
    /\ InPackage(LookupDefinitions, imports.named) # {} =>
         \A policy \in Policies, slots \in BOOLEAN :
           \A answer \in ResolveChain(policy, slots) :
             answer \cap InPackage(LookupDefinitions, imports.named) # {}

(* What is flagged is out of scope for navigation as well: no import,      *)
(* package or star import that navigation can answer from memory covers a  *)
(* flagged name.                                                           *)
FlaggedIsUnreachable ==
  Flagged => ResolveChain("ScopedOnly", FALSE) = {}
=============================================================================

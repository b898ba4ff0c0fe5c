------------------------------- MODULE MCQueries -------------------------------
(* The four components that only read the index, for one TLC run.  They   *)
(* share no state: a behaviour is one of one of them.                      *)
EXTENDS MCReferences, MCCallArguments, MCNameResolution,
  MCMemberChains

VARIABLE part

ReferencesIdle ==
  /\ supers = [t \in Types |-> {}] /\ cold = {} /\ walk = NoWalk
  /\ query = [request |-> "references", class |-> w1, role |-> "Reference"]
  /\ io_budget = 0 /\ candidate = NoCandidate /\ forward = NotAsked
  /\ kept = {} /\ rejected = {} /\ proven_overrides = {} /\ outcome = "none"

ArgumentsIdle ==
  /\ arity = [d \in Declarations |-> None] /\ materialized_jars = {}
  /\ sig_cache = <<>> /\ judging = Nothing /\ verdict = Nothing /\ calls = 0

ResolutionIdle ==
  /\ disk = {} /\ indexed = {} /\ caller_indexed = FALSE
  /\ jars = [j \in JarDeclarations |-> "absent"] /\ jar_phase_loading = FALSE
  /\ imports = Header(NoPackage, {}, {}) /\ importable_fqns = {}
  /\ dependencies = NoData /\ fixed = FALSE

ChainIdle ==
  /\ means = ScopeWith(p1, p1) /\ kind = "field" /\ walker = "names"
  /\ member_type = [k \in Classes |-> Untyped] /\ super_type = member_type
  /\ current_type = Untyped /\ current_uri = CallerFile
  /\ meant = <<>> /\ doubts = {} /\ hops = 0

QueriesInit ==
  \/ part = "references" /\ ReferencesInit /\ ArgumentsIdle /\ ResolutionIdle /\ ChainIdle
  \/ part = "arguments" /\ ArgInit /\ ReferencesIdle /\ ResolutionIdle /\ ChainIdle
  \/ part = "resolution" /\ ResInit /\ ReferencesIdle /\ ArgumentsIdle /\ ChainIdle
  \/ part = "chains" /\ ChainInit /\ ReferencesIdle /\ ArgumentsIdle /\ ResolutionIdle

QueriesNext ==
  \/ part = "references" /\ ReferencesNext /\ UNCHANGED <<argVars, resVars, chainVars, part>>
  \/ part = "arguments" /\ ArgNext /\ UNCHANGED <<referencesVars, resVars, chainVars, part>>
  \/ part = "resolution" /\ ResNext /\ UNCHANGED <<referencesVars, argVars, chainVars, part>>
  \/ part = "chains" /\ ChainNext /\ UNCHANGED <<referencesVars, argVars, resVars, part>>

QueriesSpec ==
  QueriesInit /\ [][QueriesNext]_<<referencesVars, argVars, resVars, chainVars, part>>

SmallEnoughToo == part = "references" => SmallEnough
===============================================================================

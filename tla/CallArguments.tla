---------------------------- MODULE CallArguments ----------------------------
(* The argument-count diagnostic: one run over the calls of one name in a  *)
(* file, in the order of the syntax tree, while request threads materialize*)
(* JARs beside it.  For each call the run resolves a signature, remembers  *)
(* it, and flags a count the signature does not take.                      *)
EXTENDS Naturals, FiniteSets

CONSTANTS
  Declarations,     \* the declarations of the name
  File,             \* the file of each
  Container,        \* the type it is a member of, or None
  Receiver,         \* the type it extends, or None
  Nested,           \* those that are nested classes not imported by name
  Caller,           \* the file the run is about
  ImportedFiles,         \* files whose package its imports, or its own package, cover
  TestFiles,        \* files of a test source set; the caller is not one
  JarFiles,             \* files that stand for a compiled JAR
  Qualifiers,       \* receiver variables of the calls
  TypeOf,           \* the inferred type of each, or None
  None,
  MaxArity,         \* bound on parameters; a call has at most one argument more
  MaxPresent,       \* bound on declarations that exist at once
  MaxDefinitions,   \* MAX_BY_NAME_DEFS
  MaxCalls          \* bound on the calls of the run

ASSUME ArgumentsAssumption ==
  /\ IsFiniteSet(Declarations)
  /\ Caller \notin TestFiles
  /\ {MaxArity, MaxPresent, MaxDefinitions, MaxCalls} \subseteq Nat

VARIABLES
  arity,            \* the parameters of each declaration, or None
  materialized_jars,     \* JARs whose declarations are in the index
  sig_cache,        \* the run's cache: what each qualifier was answered
  judging,          \* the call in hand with its answer, or Nothing
  verdict,          \* the last call judged
  calls             \* calls resolved so far

argVars == <<arity, materialized_jars, sig_cache, judging, verdict, calls>>

Arities ==
  {a \in [required : 0..MaxArity, total : 0..MaxArity, vararg : BOOLEAN] :
     a.required <= a.total /\ (a.vararg => a.required > 0)}
Calls ==
  [qualifier : Qualifiers, args : 0..(MaxArity + 1), within : {"plain"}]
  \cup [qualifier : {None}, args : 0..(MaxArity + 1),
        within : {"plain", "same_named", "implicit_receiver"}]

UnresolvedCall == [is |-> "Unresolved"]
AmbiguousCall  == [is |-> "Ambiguous"]
ResolvedCall(counts, vararg) ==
  [is |-> "Resolved", counts |-> counts, vararg |-> vararg]
Nothing == [at |-> "nothing"]

ArgInit ==
  /\ arity \in [Declarations -> Arities \cup {None}]
  /\ Cardinality({d \in Declarations : arity[d] # None}) <= MaxPresent
  /\ materialized_jars = {}
  /\ sig_cache = <<>>
  /\ judging = Nothing
  /\ verdict = Nothing
  /\ calls = 0

----------------------------------------------------------------------------
(* Collecting candidates.                                                  *)

Indexed ==
  {d \in Declarations :
     arity[d] # None /\ (File[d] \in JarFiles => File[d] \in materialized_jars)}

(* is_import_reachable: a JAR has no file data, and the check fails open.  *)
Reachable(file) == file \in {Caller} \cup JarFiles \cup ImportedFiles

(* trusted_param_counts: a compiled symbol has no default markers.         *)
Counts(d) ==
  <<IF File[d] \in JarFiles THEN 0 ELSE arity[d].required, arity[d].total>>

(* CallShape::accepts: a vararg is counted as one parameter.               *)
Accepts(counts, args) == counts[1] <= args /\ args <= counts[2]

(* collect_params_from_file without and with a receiver type: members need *)
(* no import, extensions do.                                               *)
Unqualified(file) ==
  {d \in Indexed : File[d] = file /\ Reachable(file) /\ (file # Caller => d \notin Nested)}
OnReceiver(type) ==
  {d \in Indexed :
     /\ d \notin Nested
     /\ \/ Container[d] = type
        \/ Container[d] = None /\ Receiver[d] = type /\ Reachable(File[d])}

(* One envelope or none; the text that is kept is that of whichever of its *)
(* declarations was indexed first.                                         *)
BuildResult(found) ==
  IF found = {} THEN {UnresolvedCall}
  ELSE IF Cardinality({Counts(d) : d \in found}) > 1 THEN {AmbiguousCall}
  ELSE {ResolvedCall(Counts(d), arity[d].vararg) : d \in found}

IsUbiquitous == Cardinality(Indexed) > MaxDefinitions

ResolveCrossFile ==
  IF IsUbiquitous THEN {AmbiguousCall}
  ELSE BuildResult(UNION {Unqualified(file) :
                            file \in {File[d] : d \in Declarations} \ ({Caller} \cup TestFiles)})

(* classify_same_file and resolve_unqualified: a member of the file decides*)
(* for every shape, another declaration of the file when the shape fits it;*)
(* one the shape rules out is the last resort.                             *)
Own == Unqualified(Caller)
HasOwnMember == \E d \in Own : Container[d] # None
OwnDecides(args) == HasOwnMember \/ \E d \in Own : Accepts(Counts(d), args)

(* Mutant: a declaration of the file that the shape rules out is dropped.  *)
ResolveUnqualifiedElsewhere(args) ==
  IF OwnDecides(args) THEN BuildResult(Own) ELSE ResolveCrossFile
ResolveUnqualified(args) ==
  IF OwnDecides(args) THEN BuildResult(Own)
  ELSE IF ResolveCrossFile = {UnresolvedCall} THEN BuildResult(Own)
  ELSE ResolveCrossFile

ResolveQualified(qualifier) ==
  IF TypeOf[qualifier] = None THEN {UnresolvedCall}
  ELSE IF IsUbiquitous THEN {AmbiguousCall}
  ELSE BuildResult(OnReceiver(TypeOf[qualifier]))

ResolveCallSignature(call) ==
  IF call.qualifier = None THEN ResolveUnqualified(call.args)
  ELSE ResolveQualified(call.qualifier)

----------------------------------------------------------------------------
(* The run.                                                                *)

(* Inside a scope function's lambda the receiver is implicit.              *)
Skipped(call) == call.within = "implicit_receiver" /\ call.qualifier = None

(* Resolve, or take the answer an earlier call of the same qualifier got;  *)
(* args and seen, the circumstances of that answer, are for the properties.*)
CheckCall(call) ==
  /\ judging = Nothing
  /\ calls < MaxCalls
  /\ ~Skipped(call)
  /\ calls' = calls + 1
  /\ IF call.qualifier \in DOMAIN sig_cache
       THEN UNCHANGED sig_cache
       ELSE \E result \in ResolveCallSignature(call) :
              sig_cache' = [q \in DOMAIN sig_cache \cup {call.qualifier} |->
                              IF q = call.qualifier
                                THEN [result |-> result, args |-> call.args,
                                      seen |-> materialized_jars]
                                ELSE sig_cache[q]]
  /\ judging' = [at |-> "judging", call |-> call, entry |-> sig_cache'[call.qualifier]]
  /\ verdict' = Nothing
  /\ UNCHANGED <<arity, materialized_jars>>

(* A JAR that declares the name and is not materialized.                   *)
HasUnmaterializedCandidate ==
  \E d \in Declarations :
    arity[d] # None /\ File[d] \in JarFiles \ materialized_jars

(* Mutant: candidates of JARs that are not materialized are forgotten.     *)
FlagWithoutSuppression(call, result) ==
  IF result.is # "Resolved" \/ result.vararg THEN "none"
  ELSE IF call.args < result.counts[1] THEN "too few"
  ELSE IF call.args > result.counts[2] /\ (call.qualifier # None \/ call.within # "same_named")
    THEN "too many"
  ELSE "none"
(* A call of the enclosing function's own name that has too many arguments *)
(* delegates to an overload of the parent.                                 *)
Flag(call, result) ==
  IF result.is # "Resolved" \/ HasUnmaterializedCandidate \/ result.vararg THEN "none"
  ELSE IF call.args < result.counts[1] THEN "too few"
  ELSE IF call.args > result.counts[2] /\ (call.qualifier # None \/ call.within # "same_named")
    THEN "too many"
  ELSE "none"

JudgeCall ==
  /\ judging # Nothing
  /\ verdict' = [at |-> "judged", call |-> judging.call, entry |-> judging.entry,
                 with |-> materialized_jars, flag |-> Flag(judging.call, judging.entry.result)]
  /\ judging' = Nothing
  /\ UNCHANGED <<arity, materialized_jars, sig_cache, calls>>

(* A hover or a completion on another thread promotes a JAR.               *)
MaterializeJar(jar) ==
  /\ jar \notin materialized_jars
  /\ materialized_jars' = materialized_jars \cup {jar}
  /\ verdict' = Nothing
  /\ UNCHANGED <<arity, sig_cache, judging, calls>>

ArgNext ==
  \/ \E call \in Calls : CheckCall(call)
  \/ JudgeCall
  \/ \E jar \in JarFiles : MaterializeJar(jar)

ArgSpec == ArgInit /\ [][ArgNext]_argVars

----------------------------------------------------------------------------
(* Properties.                                                             *)

(* The declarations a call can see, in the index or not yet, and whether   *)
(* one of them takes it.  What the receiver's type is has to be known, and *)
(* an instance reaches no nested class.                                    *)
Visible(call) ==
  {d \in Declarations :
     /\ arity[d] # None
     /\ IF call.qualifier = None
        THEN /\ File[d] # Caller => d \notin Nested
             /\ File[d] \notin TestFiles /\ Reachable(File[d])
        ELSE /\ TypeOf[call.qualifier] # None /\ d \notin Nested
             /\ \/ Container[d] = TypeOf[call.qualifier]
                \/ /\ Container[d] = None /\ Receiver[d] = TypeOf[call.qualifier]
                   /\ Reachable(File[d])}
FitsOne(call) == \E d \in Visible(call) : Accepts(Counts(d), call.args)

Judged == verdict # Nothing
Steady == verdict.entry.seen = verdict.with
OwnAnswer == verdict.entry.args = verdict.call.args
NoVararg == \A d \in Visible(verdict.call) : ~arity[d].vararg
MembersAside == verdict.call.qualifier = None => ~HasOwnMember

(* A call that is flagged fits no declaration it can see: a declaration of *)
(* the file that cannot take it is not mistaken for its target, nor is one *)
(* overload for another, nor a workspace function for one of a JAR that is *)
(* yet to be materialized.                                                 *)
FlaggedCallFitsNothing ==
  Judged /\ Steady /\ OwnAnswer /\ NoVararg /\ MembersAside /\ verdict.flag # "none"
    => ~FitsOne(verdict.call)

(* A typo is reported: where every declaration the call sees takes the same*)
(* counts, all JARs are in and the count is wrong, the call is flagged,    *)
(* whichever call of the name the run met first.                           *)
TypoIsFlagged ==
  (/\ Judged /\ Steady /\ NoVararg /\ MembersAside
   /\ ~HasUnmaterializedCandidate /\ ~IsUbiquitous
   /\ verdict.call.within = "plain"
   /\ Cardinality({Counts(d) : d \in Visible(verdict.call)}) = 1
   /\ ~FitsOne(verdict.call))
    => verdict.flag # "none"

(* "Cache resolve_call_signature results within one diagnostic run" is to  *)
(* avoid scans: a call answered from the cache is judged as it would be    *)
(* had it been the first of its name.                                      *)
CacheIsTransparent ==
  Judged /\ Steady /\ NoVararg /\ MembersAside /\ verdict.flag # "none"
    => ~FitsOne(verdict.call)
=============================================================================

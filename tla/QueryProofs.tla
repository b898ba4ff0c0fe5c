------------------------------ MODULE QueryProofs ------------------------------
(***************************************************************************)
(* What the components that only read the index promise, for every set of  *)
(* declarations: the argument counts that are flagged are wrong and the    *)
(* wrong ones are flagged; an ambiguous name is answered by the one        *)
(* candidate with the best evidence, and the quick fix of a missing import *)
(* leads to what it imports; a chain of member reads is looked up as the   *)
(* class Kotlin means.                                                     *)
(*                                                                         *)
(* For the counts the invariant dates every answer by the JARs that were   *)
(* in when it was given: an answer as old as the index is one the resolver *)
(* would still give, because JARs only come in.  For the chains it says    *)
(* what the names of the type that is held stand for in the file that      *)
(* anchors them: all of them, but where an argument was spelled elsewhere  *)
(* only the head.                                                          *)
(***************************************************************************)
EXTENDS CallArguments, NameResolution, MemberChains, TLAPS, FiniteSetTheorems,
        NaturalsInduction, WellFoundedInduction

(* The answer of an entry is one the resolver gives while no more JARs are *)
(* in than those it has seen.                                              *)
AnswerIsRight(qualifier, entry) ==
  /\ entry.seen \subseteq materialized_jars
  /\ entry.seen = materialized_jars =>
       entry.result \in IF qualifier = None THEN ResolveUnqualified(entry.args)
                        ELSE ResolveQualified(qualifier)

ArgumentsInv ==
  /\ arity \in [Declarations -> Arities \cup {None}]
  /\ \A q \in DOMAIN sig_cache : AnswerIsRight(q, sig_cache[q])
  /\ judging # Nothing =>
       /\ judging.call \in Calls
       /\ AnswerIsRight(judging.call.qualifier, judging.entry)
  /\ verdict # Nothing =>
       /\ verdict.call \in Calls
       /\ AnswerIsRight(verdict.call.qualifier, verdict.entry)
       /\ verdict.with = materialized_jars
       /\ verdict.flag = Flag(verdict.call, verdict.entry.result)

-----------------------------------------------------------------------------
(* Answers.                                                                *)

(* Declarations of more than one count are ambiguous.                      *)
LEMMA OneCount ==
  ASSUME NEW found \in SUBSET Declarations, found # {}
  PROVE  Cardinality({Counts(d) : d \in found}) > 1
           <=> \E d \in found, e \in found : Counts(d) # Counts(e)
<1> DEFINE counts == {Counts(d) : d \in found}
           f == [d \in found |-> Counts(d)]
<1>1. IsFiniteSet(counts)
  <2>1. IsFiniteSet(found)
    BY ArgumentsAssumption, FS_Subset
  <2>2. f \in Surjection(found, counts)
    BY DEF Surjection
  <2> HIDE DEF f
  <2>3. QED
    BY <2>1, <2>2, FS_Surjection
<1>2. Cardinality(counts) \in Nat /\ counts # {}
  BY <1>1, FS_CardinalityType
<1> HIDE DEF counts
<1>3. Cardinality(counts) # 0
  BY <1>1, <1>2, FS_EmptySet
<1>4. Cardinality(counts) = 1 <=> \E n : counts = {n}
  BY <1>1, FS_Singleton
<1>5. (\E n : counts = {n}) <=> \A d \in found, e \in found : Counts(d) = Counts(e)
  BY <1>2 DEF counts
<1>6. Cardinality(counts) > 1 <=> ~ \A d \in found, e \in found : Counts(d) = Counts(e)
  BY <1>2, <1>3, <1>4, <1>5
<1>7. QED
  BY <1>6 DEF counts

(* An answer that is resolved is that of declarations that agree.          *)
LEMMA ResolvedAgrees ==
  ASSUME NEW found \in SUBSET Declarations,
         NEW result \in BuildResult(found), result.is = "Resolved"
  PROVE  /\ found # {}
         /\ \A d \in found : Counts(d) = result.counts
         /\ \E d \in found : result.vararg = arity[d].vararg
<1>1. found # {}
  BY DEF BuildResult, UnresolvedCall
<1>2. \A d \in found, e \in found : Counts(d) = Counts(e)
  BY <1>1, OneCount DEF BuildResult, AmbiguousCall
<1>3. BuildResult(found) = {ResolvedCall(Counts(d), arity[d].vararg) : d \in found}
  BY <1>1, <1>2, OneCount DEF BuildResult
<1>4. PICK e \in found : result = ResolvedCall(Counts(e), arity[e].vararg)
  BY <1>3
<1>5. result.counts = Counts(e) /\ result.vararg = arity[e].vararg
  BY <1>4 DEF ResolvedCall
<1>6. QED
  BY <1>1, <1>2, <1>5

(* Declarations that agree are resolved.                                   *)
LEMMA AgreeingResolve ==
  ASSUME NEW found \in SUBSET Declarations, found # {},
         \A d \in found, e \in found : Counts(d) = Counts(e),
         NEW result \in BuildResult(found)
  PROVE  /\ result.is = "Resolved"
         /\ \A d \in found : Counts(d) = result.counts
         /\ \E d \in found : result.vararg = arity[d].vararg
<1>1. BuildResult(found) = {ResolvedCall(Counts(d), arity[d].vararg) : d \in found}
  BY OneCount DEF BuildResult
<1>2. result.is = "Resolved"
  BY <1>1 DEF ResolvedCall
<1>3. QED
  BY <1>2, ResolvedAgrees

(* Without a declaration that is found there is no answer.                 *)
LEMMA UnresolvedIsEmpty ==
  ASSUME NEW found \in SUBSET Declarations
  PROVE  BuildResult(found) = {UnresolvedCall} <=> found = {}
<1>1. CASE found = {}
  BY <1>1 DEF BuildResult
<1>2. CASE found # {}
  <2>1. UnresolvedCall \notin BuildResult(found)
    BY <1>2 DEF BuildResult, UnresolvedCall, AmbiguousCall, ResolvedCall
  <2>2. QED
    BY <1>2, <2>1
<1>3. QED
  BY <1>1, <1>2

(* The declarations outside the caller's file and the tests.               *)
Elsewhere ==
  UNION {Unqualified(file) :
           file \in {File[d] : d \in Declarations} \ ({Caller} \cup TestFiles)}

LEMMA ElsewhereIs ==
  Elsewhere = {d \in Indexed : /\ File[d] \notin {Caller} \cup TestFiles
                               /\ Reachable(File[d]) /\ d \notin Nested}
BY DEF Elsewhere, Unqualified, Indexed

LEMMA OwnIs == Own = {d \in Indexed : File[d] = Caller}
BY DEF Own, Unqualified, Reachable

(* What an unqualified call sees is in its file or elsewhere.              *)
LEMMA UnqualifiedSees ==
  ASSUME NEW call, call.qualifier = None, ~HasUnmaterializedCandidate
  PROVE  Visible(call) = Own \cup Elsewhere
<1>1. Visible(call) \subseteq Indexed
  BY DEF Visible, Indexed, HasUnmaterializedCandidate
<1>2. QED
  BY <1>1, ElsewhereIs, OwnIs, ArgumentsAssumption DEF Visible, Reachable,
     Indexed

(* What a qualified call sees are the members and extensions of its type.  *)
LEMMA QualifiedSees ==
  ASSUME NEW call, call.qualifier # None, ~HasUnmaterializedCandidate
  PROVE  Visible(call) = IF TypeOf[call.qualifier] = None THEN {}
                         ELSE OnReceiver(TypeOf[call.qualifier])
<1>1. Visible(call) \subseteq Indexed
  BY DEF Visible, Indexed, HasUnmaterializedCandidate
<1>2. QED
  BY <1>1 DEF Visible, OnReceiver, Indexed

(* The counts of a declaration are numbers.                                *)
LEMMA CountsAreNumbers ==
  ASSUME ArgumentsInv, NEW d \in Indexed
  PROVE  /\ d \in Declarations /\ arity[d] \in Arities
         /\ Counts(d)[1] \in Nat /\ Counts(d)[2] \in Nat
<1>1. d \in Declarations /\ arity[d] \in Arities
  BY DEF ArgumentsInv, Indexed
<1>2. arity[d].required \in Nat /\ arity[d].total \in Nat
  BY <1>1, ArgumentsAssumption DEF Arities
<1>3. QED
  BY <1>1, <1>2 DEF Counts

-----------------------------------------------------------------------------
(* Flags.                                                                  *)

(* A flag is raised over a resolved answer whose counts the call misses.   *)
LEMMA FlagMeans ==
  ASSUME NEW call, NEW result, Flag(call, result) # "none"
  PROVE  /\ result.is = "Resolved" /\ ~HasUnmaterializedCandidate
         /\ call.args < result.counts[1] \/ call.args > result.counts[2]
BY DEF Flag

(* A flagged call fits nothing that it sees.                               *)
LEMMA FlaggedIsRight ==
  ASSUME ArgumentsInv
  PROVE  FlaggedCallFitsNothing
<1> SUFFICES ASSUME Judged, Steady, OwnAnswer, NoVararg, MembersAside,
                    verdict.flag # "none",
                    NEW d \in Visible(verdict.call),
                    Accepts(Counts(d), verdict.call.args)
             PROVE  FALSE
  BY DEF FlaggedCallFitsNothing, FitsOne
<1> DEFINE call == verdict.call
           result == verdict.entry.result
<1>1. /\ call \in Calls /\ verdict.flag = Flag(call, result)
      /\ result \in IF call.qualifier = None THEN ResolveUnqualified(call.args)
                    ELSE ResolveQualified(call.qualifier)
  BY DEF ArgumentsInv, AnswerIsRight, Judged, Steady, OwnAnswer
<1>2. /\ result.is = "Resolved" /\ ~HasUnmaterializedCandidate
      /\ call.args < result.counts[1] \/ call.args > result.counts[2]
  BY <1>1, FlagMeans
<1>3. d \in Indexed
  BY <1>2 DEF Visible, Indexed, HasUnmaterializedCandidate
<1>4. Counts(d)[1] \in Nat /\ Counts(d)[2] \in Nat /\ call.args \in Nat
  BY <1>1, <1>3, CountsAreNumbers, ArgumentsAssumption DEF Calls
<1>5. Counts(d) # result.counts
  BY <1>2, <1>4 DEF Accepts
<1> HIDE DEF call, result
<1>6. CASE call.qualifier # None
  <2>1. d \in OnReceiver(TypeOf[call.qualifier]) /\ TypeOf[call.qualifier] # None
    BY <1>2, <1>6, QualifiedSees DEF call
  <2>2. result \in BuildResult(OnReceiver(TypeOf[call.qualifier]))
    BY <1>1, <1>2, <1>6, <2>1 DEF ResolveQualified, AmbiguousCall
  <2>3. OnReceiver(TypeOf[call.qualifier]) \in SUBSET Declarations
    BY DEF OnReceiver, Indexed
  <2>4. QED
    BY <1>2, <1>5, <2>1, <2>2, <2>3, ResolvedAgrees
<1>7. CASE call.qualifier = None
  <2>1. d \in Own \cup Elsewhere
    BY <1>2, <1>7, UnqualifiedSees DEF call
  <2>2. Own \in SUBSET Declarations /\ Elsewhere \in SUBSET Declarations
    BY OwnIs, ElsewhereIs DEF Indexed
  <2>3. result \in ResolveUnqualified(call.args)
    BY <1>1, <1>7
  <2>4. ~HasOwnMember
    BY <1>7 DEF MembersAside, call
  <2>5. CASE OwnDecides(call.args)
    <3>1. PICK e \in Own : Accepts(Counts(e), call.args)
      BY <2>4, <2>5 DEF OwnDecides
    <3>2. Counts(e) = result.counts
      BY <1>2, <2>2, <2>3, <2>5, ResolvedAgrees DEF ResolveUnqualified
    <3>3. Counts(e)[1] \in Nat /\ Counts(e)[2] \in Nat
      BY OwnIs, CountsAreNumbers
    <3>4. QED
      BY <1>2, <1>4, <3>1, <3>2, <3>3 DEF Accepts
  <2>6. CASE ~OwnDecides(call.args)
    <3>1. d \notin Own
      BY <2>6 DEF OwnDecides, call
    <3>2. ResolveCrossFile # {UnresolvedCall}
      <4>1. BuildResult(Elsewhere) # {UnresolvedCall}
        BY <2>1, <2>2, <3>1, UnresolvedIsEmpty
      <4>2. AmbiguousCall # UnresolvedCall
        BY DEF AmbiguousCall, UnresolvedCall
      <4>3. ResolveCrossFile = IF IsUbiquitous THEN {AmbiguousCall}
                               ELSE BuildResult(Elsewhere)
        BY DEF ResolveCrossFile, Elsewhere
      <4>4. QED
        BY <4>1, <4>2, <4>3
    <3>3. result \in BuildResult(Elsewhere)
      BY <1>2, <2>3, <2>6, <3>2
         DEF ResolveUnqualified, ResolveCrossFile, Elsewhere, AmbiguousCall
    <3>4. QED
      BY <1>2, <1>5, <2>1, <2>2, <3>1, <3>3, ResolvedAgrees
  <2>7. QED
    BY <2>5, <2>6
<1>8. QED
  BY <1>6, <1>7

(* Where all that a call sees agrees, a wrong count is flagged.            *)
LEMMA TypoIsCaught ==
  ASSUME ArgumentsInv
  PROVE  TypoIsFlagged
<1> SUFFICES ASSUME Judged, Steady, NoVararg, MembersAside,
                    ~HasUnmaterializedCandidate, ~IsUbiquitous,
                    verdict.call.within = "plain",
                    Cardinality({Counts(d) : d \in Visible(verdict.call)}) = 1,
                    ~FitsOne(verdict.call)
             PROVE  verdict.flag # "none"
  BY DEF TypoIsFlagged
<1> DEFINE call == verdict.call
           entry == verdict.entry
           seen == Visible(call)
<1>1. /\ call \in Calls /\ verdict.flag = Flag(call, entry.result)
      /\ entry.result \in IF call.qualifier = None THEN ResolveUnqualified(entry.args)
                          ELSE ResolveQualified(call.qualifier)
  BY DEF ArgumentsInv, AnswerIsRight, Judged, Steady
<1>2. /\ seen \in SUBSET Declarations /\ seen # {}
      /\ \A d \in seen, e \in seen : Counts(d) = Counts(e)
  <2>1. seen \in SUBSET Declarations
    BY DEF Visible
  <2>2. seen # {}
    <3>1. SUFFICES ASSUME seen = {} PROVE FALSE
      OBVIOUS
    <3>2. {Counts(d) : d \in seen} = {}
      BY <3>1
    <3>3. QED
      BY <3>2, FS_EmptySet
  <2>3. QED
    BY <2>1, <2>2, OneCount
<1>3. seen \subseteq Indexed /\ \A d \in seen : ~arity[d].vararg
  BY DEF Visible, Indexed, HasUnmaterializedCandidate, NoVararg
<1>4. \A d \in seen : ~Accepts(Counts(d), call.args)
  BY DEF FitsOne
<1>5. PICK found \in SUBSET seen : found # {} /\ entry.result \in BuildResult(found)
  <2>1. CASE call.qualifier # None
    <3>1. /\ TypeOf[call.qualifier] # None
          /\ seen = OnReceiver(TypeOf[call.qualifier])
      BY <1>2, <2>1, QualifiedSees
    <3>2. QED
      BY <1>1, <1>2, <2>1, <3>1 DEF ResolveQualified
  <2>2. CASE call.qualifier = None
    <3>1. seen = Own \cup Elsewhere
      BY <2>2, UnqualifiedSees
    <3>2. ~HasOwnMember /\ entry.result \in ResolveUnqualified(entry.args)
      BY <1>1, <2>2 DEF MembersAside
    <3>3. ResolveCrossFile = BuildResult(Elsewhere)
      BY DEF ResolveCrossFile, Elsewhere
    <3>4. Elsewhere = {} <=> ResolveCrossFile = {UnresolvedCall}
      BY <1>2, <3>1, <3>3, UnresolvedIsEmpty
    <3>5. OwnDecides(entry.args) => Own # {}
      BY <3>2 DEF OwnDecides
    <3>6. QED
      BY <1>2, <3>1, <3>2, <3>3, <3>4, <3>5 DEF ResolveUnqualified
  <2>3. QED
    BY <2>1, <2>2
<1>6. /\ entry.result.is = "Resolved"
      /\ \A d \in found : Counts(d) = entry.result.counts
      /\ \E d \in found : entry.result.vararg = arity[d].vararg
  <2>1. found \in SUBSET Declarations
    BY <1>2, <1>5
  <2>2. \A d \in found, e \in found : Counts(d) = Counts(e)
    BY <1>2, <1>5
  <2>3. QED
    BY <1>5, <2>1, <2>2, AgreeingResolve
<1>7. PICK d \in found : /\ d \in seen /\ Counts(d) = entry.result.counts
                        /\ ~entry.result.vararg
  BY <1>3, <1>5, <1>6
<1>8. Counts(d)[1] \in Nat /\ Counts(d)[2] \in Nat /\ call.args \in Nat
  BY <1>1, <1>3, <1>7, CountsAreNumbers, ArgumentsAssumption DEF Calls
<1>9. call.args < entry.result.counts[1] \/ call.args > entry.result.counts[2]
  BY <1>4, <1>7, <1>8 DEF Accepts
<1>10. QED
  BY <1>1, <1>6, <1>7, <1>9 DEF Flag

-----------------------------------------------------------------------------
(* The run.                                                                *)

LEMMA ArgumentsStart ==
  ASSUME ArgInit
  PROVE  ArgumentsInv
<1>1. DOMAIN sig_cache = {}
  BY DEF ArgInit
<1>2. QED
  BY <1>1 DEF ArgInit, ArgumentsInv

(* An answer stands while the declarations and the JARs do.                *)
LEMMA AnswersStand ==
  ASSUME UNCHANGED <<arity, materialized_jars>>
  PROVE  /\ \A q, entry : AnswerIsRight(q, entry)' <=> AnswerIsRight(q, entry)
         /\ \A call, result : Flag(call, result)' = Flag(call, result)
BY DEF AnswerIsRight, ResolveUnqualified, ResolveQualified, ResolveCrossFile,
       OwnDecides, HasOwnMember, Own, Unqualified, OnReceiver, IsUbiquitous, Indexed,
       BuildResult, Counts, Flag, HasUnmaterializedCandidate

(* Each step of the run keeps the invariant.                               *)
LEMMA ArgumentsKept ==
  ASSUME ArgumentsInv, [ArgNext]_argVars
  PROVE  ArgumentsInv'
<1>1. ASSUME NEW call \in Calls, CheckCall(call)
      PROVE  ArgumentsInv'
  <2>1. /\ UNCHANGED <<arity, materialized_jars>>
        /\ verdict' = Nothing
        /\ judging' = [at |-> "judging", call |-> call,
                       entry |-> sig_cache'[call.qualifier]]
    BY <1>1 DEF CheckCall
  <2>2. \A q \in DOMAIN sig_cache : AnswerIsRight(q, sig_cache[q])
    BY DEF ArgumentsInv
  <2>3. /\ call.qualifier \in DOMAIN sig_cache'
        /\ \A q \in DOMAIN sig_cache' : AnswerIsRight(q, sig_cache'[q])
    <3>1. CASE call.qualifier \in DOMAIN sig_cache
      BY <1>1, <2>2, <3>1 DEF CheckCall
    <3>2. CASE call.qualifier \notin DOMAIN sig_cache
      <4> DEFINE Entry(result) ==
                   [result |-> result, args |-> call.args, seen |-> materialized_jars]
      <4>1. PICK result \in ResolveCallSignature(call) :
              sig_cache' = [q \in DOMAIN sig_cache \cup {call.qualifier} |->
                              IF q = call.qualifier THEN Entry(result) ELSE sig_cache[q]]
        BY <1>1, <3>2 DEF CheckCall
      <4>2. AnswerIsRight(call.qualifier, Entry(result))
        BY DEF AnswerIsRight, ResolveCallSignature
      <4>3. /\ DOMAIN sig_cache' = DOMAIN sig_cache \cup {call.qualifier}
            /\ sig_cache'[call.qualifier] = Entry(result)
            /\ \A q \in DOMAIN sig_cache : sig_cache'[q] = sig_cache[q]
        BY <3>2, <4>1
      <4> HIDE DEF Entry
      <4>4. QED
        BY <2>2, <4>2, <4>3
    <3>3. QED
      BY <3>1, <3>2
  <2>4. \A q, entry : AnswerIsRight(q, entry)' <=> AnswerIsRight(q, entry)
    BY <2>1, AnswersStand
  <2>5. judging'.call = call /\ judging'.entry = sig_cache'[call.qualifier]
    BY <2>1
  <2>6. QED
    BY <2>1, <2>3, <2>4, <2>5 DEF ArgumentsInv
<1>2. ASSUME JudgeCall
      PROVE  ArgumentsInv'
  <2>1. /\ UNCHANGED <<arity, materialized_jars, sig_cache>>
        /\ judging # Nothing /\ judging' = Nothing
        /\ verdict'.call = judging.call /\ verdict'.entry = judging.entry
        /\ verdict'.with = materialized_jars
        /\ verdict'.flag = Flag(judging.call, judging.entry.result)
    BY <1>2 DEF JudgeCall
  <2>2. /\ \A q, entry : AnswerIsRight(q, entry)' <=> AnswerIsRight(q, entry)
        /\ \A call, result : Flag(call, result)' = Flag(call, result)
    BY <2>1, AnswersStand
  <2>3. QED
    BY <2>1, <2>2 DEF ArgumentsInv
<1>3. ASSUME NEW jar \in JarFiles, MaterializeJar(jar)
      PROVE  ArgumentsInv'
  <2>1. /\ UNCHANGED <<arity, sig_cache, judging>> /\ verdict' = Nothing
        /\ jar \notin materialized_jars
        /\ materialized_jars' = materialized_jars \cup {jar}
    BY <1>3 DEF MaterializeJar
  <2>2. ASSUME NEW q, NEW entry, AnswerIsRight(q, entry)
        PROVE  AnswerIsRight(q, entry)'
    <3>1. entry.seen \subseteq materialized_jars
      BY <2>2 DEF AnswerIsRight
    <3>2. entry.seen \subseteq materialized_jars' /\ entry.seen # materialized_jars'
      BY <2>1, <3>1
    <3>3. QED
      BY <3>2 DEF AnswerIsRight
  <2>3. QED
    BY <2>1, <2>2 DEF ArgumentsInv
<1>4. ASSUME UNCHANGED argVars
      PROVE  ArgumentsInv'
  <2>1. UNCHANGED <<arity, materialized_jars, sig_cache, judging, verdict>>
    BY <1>4 DEF argVars
  <2>2. /\ \A q, entry : AnswerIsRight(q, entry)' <=> AnswerIsRight(q, entry)
        /\ \A call, result : Flag(call, result)' = Flag(call, result)
    BY <2>1, AnswersStand
  <2>3. QED
    BY <2>1, <2>2 DEF ArgumentsInv
<1>5. QED
  BY <1>1, <1>2, <1>3, <1>4 DEF ArgNext

LEMMA ArgumentsInvariant == ArgSpec => []ArgumentsInv
BY ArgumentsStart, ArgumentsKept, PTL DEF ArgSpec

(* A call that is flagged fits no declaration it can see, also one of a JAR*)
(* that is yet to be materialized (call_arg_diagnostics.rs,                *)
(* check_call_args; call_signature.rs, resolve_call_signature).            *)
THEOREM FlaggedCallsFitNothing == ArgSpec => []FlaggedCallFitsNothing
BY ArgumentsInvariant, FlaggedIsRight, PTL

(* Where every declaration that is seen takes the same counts, a call that *)
(* takes others is flagged, whichever call of the name filled the run's    *)
(* cache (call_arg_diagnostics.rs, check_call_args).                       *)
THEOREM TyposAreFlagged == ArgSpec => []TypoIsFlagged
BY ArgumentsInvariant, TypoIsCaught, PTL

-----------------------------------------------------------------------------
(* The tail of name resolution.                                            *)

(* A finite set of one element.                                            *)
LEMMA OneElement ==
  ASSUME NEW S, IsFiniteSet(S)
  PROVE  Cardinality(S) = 1 <=> \E d : S = {d}
BY FS_Singleton

(* The candidate with the best evidence is the only one that stronger      *)
(* evidence leaves, or the only one of those that is imported.             *)
LEMMA TailIsBest ==
  ASSUME IsFiniteSet(LookupDefinitions)
  PROVE  TailPicksTheBest
<1> SUFFICES ASSUME NEW candidates \in SUBSET LookupDefinitions,
                    Cardinality(candidates) > 1
             PROVE  LET allowed == {d \in candidates : PackageOf[d] \notin Denylisted} IN
                    TailOf(candidates, TRUE)
                      = {{d} : d \in {e \in allowed :
                           \A f \in allowed \ {e} : Evidence(f) < Evidence(e)}}
  BY DEF TailPicksTheBest
<1> DEFINE allowed == {d \in candidates : PackageOf[d] \notin Denylisted}
           Needed(d) == dependencies # NoData /\ d \in dependencies
           Default(d) == PackageOf[d] \in DefaultImports
           Imported(d) == PackageOf[d] \in ImportedPackages(TRUE)
           scoped == Prefer(IF dependencies = NoData THEN {} ELSE allowed \cap dependencies,
                            allowed, allowed)
           default == Prefer({d \in scoped : Default(d)}, scoped, allowed)
           imported == {d \in default : Imported(d)}
           best == {e \in allowed : \A f \in allowed \ {e} : Evidence(f) < Evidence(e)}
<1>1. TailOf(candidates, TRUE) = IF Cardinality(default) = 1 THEN {default}
                                 ELSE OnlyOne(imported)
  BY DEF TailOf
<1>2. /\ scoped \subseteq allowed
      /\ \A e \in scoped, f \in allowed : Needed(f) => Needed(e)
      /\ \A e \in scoped, f \in allowed : (Needed(e) => Needed(f)) => f \in scoped
      /\ allowed # {} => scoped # {}
  BY DEF Prefer
<1> HIDE DEF scoped
<1>3. /\ default \subseteq scoped
      /\ \A e \in default, f \in scoped : Default(f) => Default(e)
      /\ \A e \in default, f \in scoped : (Default(e) => Default(f)) => f \in default
      /\ scoped # {} => default # {}
  BY DEF Prefer
<1> HIDE DEF default
<1> HIDE DEF Needed, Default, Imported
<1>4. \A d : Evidence(d) = (IF Needed(d) THEN 4 ELSE 0) + (IF Default(d) THEN 2 ELSE 0)
                            + (IF Imported(d) THEN 1 ELSE 0)
  BY DEF Evidence, Needed, Default, Imported
<1>5. \A e \in default, f \in allowed \ default : Evidence(f) < Evidence(e)
  <2> SUFFICES ASSUME NEW e \in default, NEW f \in allowed \ default
               PROVE  Evidence(f) < Evidence(e)
    OBVIOUS
  <2>1. CASE Needed(e) /\ ~Needed(f)
    BY <1>4, <2>1
  <2>2. CASE ~(Needed(e) /\ ~Needed(f))
    <3>1. f \in scoped /\ (Needed(e) <=> Needed(f))
      BY <1>2, <1>3, <2>2
    <3>2. Default(e) /\ ~Default(f)
      BY <1>3, <3>1
    <3>3. QED
      BY <1>4, <3>1, <3>2
  <2>3. QED
    BY <2>1, <2>2
<1>6. \A e \in default, f \in default :
        Evidence(f) < Evidence(e) <=> Imported(e) /\ ~Imported(f)
  <2> SUFFICES ASSUME NEW e \in default, NEW f \in default
               PROVE  Evidence(f) < Evidence(e) <=> Imported(e) /\ ~Imported(f)
    OBVIOUS
  <2>1. (Needed(e) <=> Needed(f)) /\ (Default(e) <=> Default(f))
    BY <1>2, <1>3
  <2>2. QED
    BY <1>4, <2>1
<1>7. best = {e \in default : \A f \in default \ {e} : Imported(e) /\ ~Imported(f)}
  <2>1. best \subseteq default
    <3> SUFFICES ASSUME NEW e \in best, e \notin default
                 PROVE  FALSE
      OBVIOUS
    <3>1. PICK f \in default : TRUE
      BY <1>2, <1>3
    <3>2. Evidence(e) < Evidence(f) /\ Evidence(f) < Evidence(e)
      BY <1>2, <1>3, <1>5, <3>1
    <3>3. Evidence(e) \in Nat /\ Evidence(f) \in Nat
      BY <1>4
    <3>4. QED
      BY <3>2, <3>3
  <2>2. default \subseteq allowed
    BY <1>2, <1>3
  <2>3. QED
    BY <1>5, <1>6, <2>1, <2>2
<1>8. IsFiniteSet(default) /\ IsFiniteSet(imported)
  <2>1. default \subseteq LookupDefinitions /\ imported \subseteq LookupDefinitions
    BY <1>2, <1>3
  <2>2. QED
    BY <2>1, FS_Subset
<1>9. CASE Cardinality(default) = 1
  <2>1. PICK d : default = {d}
    BY <1>8, <1>9, OneElement
  <2>2. best = {d}
    BY <1>7, <2>1
  <2>3. {{e} : e \in best} = {default}
    BY <2>1, <2>2
  <2>4. QED
    BY <1>1, <1>9, <2>3
<1>10. CASE Cardinality(default) # 1
  <2>1. \A d : default # {d}
    BY <1>8, <1>10, OneElement
  <2>2. CASE \E d : imported = {d}
    <3>1. PICK d : imported = {d}
      BY <2>2
    <3>2. best = {d}
      BY <1>7, <2>1, <3>1
    <3>3. {{e} : e \in best} = {imported} /\ Cardinality(imported) = 1
      BY <1>8, <3>1, <3>2, OneElement
    <3>4. QED
      BY <1>1, <1>10, <3>3 DEF OnlyOne
  <2>3. CASE \A d : imported # {d}
    <3>1. best = {}
      <4> SUFFICES ASSUME NEW e \in best
                   PROVE  FALSE
        OBVIOUS
      <4>0. e \in default /\ default # {e}
        BY <1>7, <2>1
      <4>1. PICK f \in default : f # e
        BY <4>0
      <4>2. e \in default /\ Imported(e) /\ \A d \in default \ {e} : ~Imported(d)
        BY <1>7, <4>1
      <4>3. imported = {e}
        BY <4>2
      <4>4. QED
        BY <2>3, <4>3
    <3>2. Cardinality(imported) # 1
      BY <1>8, <2>3, OneElement
    <3>3. {{e} : e \in best} = {}
      BY <3>1
    <3>4. QED
      BY <1>1, <1>10, <3>2, <3>3 DEF OnlyOne
  <2>4. QED
    BY <2>2, <2>3
<1>11. QED
  BY <1>9, <1>10

-----------------------------------------------------------------------------
(* The quick fix.                                                          *)

(* The caller's file is indexed with all it declares, and the import of a  *)
(* fix that was made names a package.                                      *)
ResolutionInv ==
  /\ disk \subseteq Sources /\ indexed \subseteq disk
  /\ caller_indexed => disk \cap {Here} \subseteq indexed
  /\ jars \in [JarDeclarations ->
                {"absent", "unlisted", "cold", "cached", "materialized"}]
  /\ imports \in [named : Packages \cup {NoPackage},
                  stars : SUBSET Packages, others : SUBSET Packages]
  /\ NoPackage \notin importable_fqns
  /\ fixed => caller_indexed /\ Here \notin disk /\ imports.named # NoPackage

LEMMA LookupIsFinite ==
  ASSUME ResolutionInv
  PROVE  IsFiniteSet(LookupDefinitions)
<1>1. indexed \in SUBSET Sources /\ JarDefinitions \in SUBSET JarDeclarations
  BY DEF ResolutionInv, JarDefinitions
<1>2. QED
  BY <1>1, ResolutionAssumption, FS_Subset, FS_Union DEF LookupDefinitions

(* What the named package has is found by its exact name or its short one. *)
LEMMA FixIsHome ==
  ASSUME ResolutionInv
  PROVE  FixLeadsHome
<1> SUFFICES ASSUME fixed
             PROVE  /\ ~Flagged
                    /\ InPackage(LookupDefinitions, imports.named) # {} =>
                         \A policy \in Policies, slots \in BOOLEAN :
                           \A answer \in ResolveChain(policy, slots) :
                             answer \cap InPackage(LookupDefinitions, imports.named) # {}
  BY DEF FixLeadsHome
<1>1. /\ caller_indexed /\ imports.named # NoPackage
      /\ Here \notin disk /\ Here \notin indexed
  BY DEF ResolutionInv
<1>2. ~Flagged
  BY <1>1 DEF Flagged, InScope
<1>3. ASSUME InPackage(LookupDefinitions, imports.named) # {},
             NEW policy \in Policies, NEW slots \in BOOLEAN,
             NEW answer \in ResolveChain(policy, slots)
      PROVE  answer \cap InPackage(LookupDefinitions, imports.named) # {}
  <2> DEFINE p == imports.named
             fd == slots /\ policy # "IndexOnly"
  <2>1. /\ Exactly(p) # {} => ViaImports(TRUE, fd) = Exactly(p)
        /\ Exactly(p) = {} /\ ByShortName(p) # {} =>
             ViaImports(TRUE, fd) = ByShortName(p)
    BY <1>1 DEF ViaImports
  <2>2. ByShortName(p) = {InOrBeneath(LookupDefinitions, p)}
        /\ InPackage(LookupDefinitions, p) \subseteq InOrBeneath(LookupDefinitions, p)
    BY <1>3 DEF ByShortName, InOrBeneath, InPackage
  <2>3. \A found \in Exactly(p) : found \cap InPackage(LookupDefinitions, p) # {}
    BY DEF Exactly, OneOf, InPackage, LookupDefinitions, Materialized,
       JarDefinitions
  <2>4. ViaImports(TRUE, fd) # {}
    BY <2>1, <2>2
  <2>5. answer \in ViaImports(TRUE, fd)
    <3>1. disk \cap {Here} = {} /\ Local = {}
      BY <1>1 DEF Local
    <3>2. QED
      BY <1>1, <1>3, <2>4, <3>1 DEF ResolveChain
  <2>6. CASE Exactly(p) # {}
    BY <2>1, <2>3, <2>5, <2>6
  <2>7. CASE Exactly(p) = {}
    <3>1. answer = InOrBeneath(LookupDefinitions, p)
      BY <2>1, <2>2, <2>5, <2>7
    <3>2. QED
      BY <1>3, <2>2, <3>1
  <2>8. QED
    BY <2>6, <2>7
<1>4. QED
  BY <1>2, <1>3

LEMMA ResolutionStarts ==
  ASSUME ResInit
  PROVE  ResolutionInv
BY ResolutionAssumption DEF ResInit, ResolutionInv

LEMMA ResolutionKept ==
  ASSUME ResolutionInv, [ResNext]_resVars
  PROVE  ResolutionInv'
<1>1. ASSUME NEW policy \in Policies, ResolveName(policy)
      PROVE  ResolutionInv'
  <2>1. jars' \in [JarDeclarations ->
                    {"absent", "unlisted", "cold", "cached", "materialized"}]
    BY <1>1 DEF ResolveName, ResolutionInv
  <2>2. QED
    BY <1>1, <2>1 DEF ResolveName, ResolutionInv, world
<1>2. ASSUME NEW d \in Sources, IndexFile(d)
      PROVE  ResolutionInv'
  BY <1>2 DEF IndexFile, ResolutionInv, world
<1>3. ASSUME IndexCaller
      PROVE  ResolutionInv'
  BY <1>3 DEF IndexCaller, ResolutionInv, world
<1>4. ASSUME NEW j \in JarDeclarations, ListJar(j) \/ PromoteJar(j)
      PROVE  ResolutionInv'
  BY <1>4 DEF ListJar, PromoteJar, ResolutionInv, world
<1>5. ASSUME JarPhaseEnds
      PROVE  ResolutionInv'
  BY <1>5 DEF JarPhaseEnds, ResolutionInv, world
<1>6. ASSUME RebuildImportableFqns
      PROVE  ResolutionInv'
  <2>1. indexed \cup Listed \subseteq Sources \cup JarDeclarations
    BY DEF ResolutionInv, Listed
  <2>2. QED
    BY <1>6, <2>1, ResolutionAssumption DEF RebuildImportableFqns,
       ResolutionInv, world
<1>7. ASSUME NEW p \in Packages, ImportFix(p)
      PROVE  ResolutionInv'
  <2>1. /\ caller_indexed /\ Here \notin indexed
        /\ p # NoPackage
    BY <1>7 DEF ImportFix, Flagged, InScope, Local, ResolutionInv
  <2>2. /\ imports'.named = p
        /\ imports' \in [named : Packages \cup {NoPackage},
                         stars : SUBSET Packages, others : SUBSET Packages]
    BY <1>7 DEF ImportFix, ResolutionInv
  <2>3. QED
    BY <1>7, <2>1, <2>2 DEF ImportFix, ResolutionInv, world
<1>8. ASSUME UNCHANGED resVars
      PROVE  ResolutionInv'
  BY <1>8 DEF resVars, ResolutionInv
<1>9. QED
  BY <1>1, <1>2, <1>3, <1>4, <1>5, <1>6, <1>7, <1>8 DEF ResNext

LEMMA ResolutionInvariant == ResSpec => []ResolutionInv
BY ResolutionStarts, ResolutionKept, PTL DEF ResSpec

(* Of several candidates the tail answers the one with strictly more       *)
(* evidence than every other, and none where there is no such one          *)
(* (resolver/mod.rs, ambiguity_safe_tail_with_denylist).                   *)
THEOREM TailAlwaysPicksTheBest == ResSpec => []TailPicksTheBest
BY ResolutionInvariant, LookupIsFinite, TailIsBest, PTL

(* The quick fix of a missing import leads to what it imports              *)
(* (resolver/mod.rs, resolve_via_imports, resolve_in_scope_strict).        *)
THEOREM FixesLeadHome == ResSpec => []FixLeadsHome
BY ResolutionInvariant, FixIsHome, PTL

(* No step of the chain that reads the index alone covers a name that is   *)
(* flagged (resolver/mod.rs, resolve_in_scope_strict, resolve_chain).      *)
LEMMA FlaggedHasNoAnswer == FlaggedIsUnreachable
BY DEF FlaggedIsUnreachable, Flagged, InScope, ResolveChain, LastResort, Local

THEOREM FlaggedStaysUnreachable == ResSpec => []FlaggedIsUnreachable
BY FlaggedHasNoAnswer, PTL

-----------------------------------------------------------------------------
(* Chains of member reads.                                                 *)

(* The program compiles: what is spelled is in scope, a generic supertype  *)
(* has its argument.                                                       *)
ProgramInv ==
  /\ means \in Scopes
  /\ member_type \in [Classes -> (UNION {MemberTypes[c] : c \in Classes}) \cup {Untyped}]
  /\ \A c \in Classes : member_type[c] \in MemberTypes[c] \cup {Untyped}
  /\ super_type \in [Classes -> (UNION {SuperTypes[c] : c \in Classes}) \cup {Untyped}]
  /\ \A c \in Classes : super_type[c] \in SuperTypes[c] \cup {Untyped}
  /\ \A c \in Classes, n \in ClassNames : Spells(c, n) => means[c][n] # NoName
  /\ \A c \in Classes :
       super_type[c] # Untyped /\ TypeParam[Parent(c)] # NoName => Len(super_type[c]) > 1
  /\ kind \in {"field", "method"}
  /\ walker \in IF kind = "field" THEN Walkers ELSE {"receiver"}

(* What the names of a type are in a file.                                 *)
Stands(type, uri, types) ==
  /\ type \in Seq(TypeNames) /\ Len(type) = Len(types)
  /\ \A i \in 1..Len(type) : /\ type[i] \in TypeNames /\ means[uri][type[i]] = types[i]
                             /\ type[i] \in ClassNames => types[i] \in Classes
HeadStands(type, uri, types) ==
  /\ type # <<>> /\ types # <<>>
  /\ means[uri][Head(type)] = Head(types) /\ Head(types) \in Classes

(* The head is what Kotlin means; so are the arguments, but those spelled  *)
(* in another file.                                                        *)
RightSoFar(type, uri, types, gaps) ==
  /\ uri \in Files /\ types \in Seq(Classes \cup {NoName})
  /\ HeadStands(type, uri, types)
  /\ "apart" \notin gaps => Stands(type, uri, types)

ReadInv ==
  doubts \subseteq {"apart"} /\ NamesAClass =>
    RightSoFar(current_type, current_uri, meant, doubts)
ChainInv == ProgramInv /\ ReadInv

-----------------------------------------------------------------------------
(* Functions by recursion over the levels.                                 *)

LEMMA FromZeroUp ==
  ASSUME NEW S, 0 \in S, \A n \in Nat : n \in S => n + 1 \in S
  PROVE  Nat \subseteq S
<1> DEFINE less == OpToRel(<, Nat)
           T == Nat \ S
<1>1. IsWellFoundedOn(less, Nat)
  BY NatLessThanWellFounded
<1>2. \A x, y \in Nat : x < y => <<x, y>> \in less
  BY DEF OpToRel
<1> HIDE DEF less
<1>3. SUFFICES ASSUME T # {}
               PROVE  FALSE
  OBVIOUS
<1>4. PICK x \in T : \A y \in T : ~ (<<y, x>> \in less)
  <2>1. T \subseteq Nat
    OBVIOUS
  <2> HIDE DEF T
  <2>2. QED
    BY <1>1, <1>3, <2>1, WFMin
<1>5. x \in Nat \ {0}
  BY <1>4
<1>6. x - 1 \in Nat /\ x - 1 < x
  BY <1>5
<1>7. x - 1 \in S
  BY <1>2, <1>4, <1>5, <1>6
<1>8. x \in S
  BY <1>5, <1>6, <1>7
<1>9. QED
  BY <1>4, <1>8

LEMMA LeastLevel ==
  ASSUME NEW S \in SUBSET Nat, S # {}
  PROVE  Min(S) \in S /\ \A n \in S : Min(S) <= n
<1> DEFINE below == {n \in Nat : \A m \in 0..n : m \notin S}
<1>1. PICK m \in S : \A n \in S : m <= n
  <2>1. SUFFICES ASSUME \A m \in S : \E n \in S : ~(m <= n)
                 PROVE  FALSE
    OBVIOUS
  <2>2. 0 \in below
    BY <2>1
  <2>3. ASSUME NEW n \in Nat, n \in below
        PROVE  n + 1 \in below
    <3>1. n + 1 \notin S
      BY <2>1, <2>3
    <3>2. QED
      BY <2>3, <3>1
  <2>4. Nat \subseteq below
    <3> HIDE DEF below
    <3>1. QED
      BY <2>2, <2>3, FromZeroUp
  <2>5. PICK m \in S : m \in Nat
    OBVIOUS
  <2>6. m \in 0..m /\ m \in below
    BY <2>4, <2>5
  <2>7. QED
    BY <2>5, <2>6
<1>2. QED
  BY <1>1 DEF Min

Iterates(f, x, g, N) == \A n \in 0..N : f[n] = IF n = 0 THEN x ELSE g[f[n - 1]]

LEMMA Iterated ==
  ASSUME NEW X, NEW x \in X, NEW g \in [X -> X], NEW N \in Nat
  PROVE  \E f \in [0..N -> X] : Iterates(f, x, g, N)
<1> DEFINE S == {m \in Nat : \E f \in [0..m -> X] : Iterates(f, x, g, m)}
<1>1. 0 \in S
  <2>1. [n \in 0..0 |-> x] \in [0..0 -> X] /\ Iterates([n \in 0..0 |-> x], x, g, 0)
    BY DEF Iterates
  <2>2. QED
    BY <2>1
<1>2. ASSUME NEW m \in Nat, m \in S
      PROVE  m + 1 \in S
  <2>1. PICK f \in [0..m -> X] : Iterates(f, x, g, m)
    BY <1>2
  <2> DEFINE h == [n \in 0..(m + 1) |-> IF n = m + 1 THEN g[f[m]] ELSE f[n]]
  <2>2. h \in [0..(m + 1) -> X]
    OBVIOUS
  <2>3. Iterates(h, x, g, m + 1)
    BY <2>1 DEF Iterates
  <2> HIDE DEF h
  <2>4. QED
    BY <2>2, <2>3
<1>3. Nat \subseteq S
  <2> HIDE DEF S
  <2>1. QED
    BY <1>1, <1>2, FromZeroUp
<1>4. QED
  BY <1>3

-----------------------------------------------------------------------------
(* Classes, scopes and types.                                              *)

LEMMA ProgramIs ==
  ASSUME ProgramInv, NEW c \in Classes
  PROVE  /\ member_type[c] = Untyped \/ IsType(member_type[c], Params(c))
         /\ super_type[c] = Untyped \/ (IsType(super_type[c], Params(c)) /\ Head(super_type[c]) \in ClassNames)
         /\ means \in [Files -> [TypeNames -> Classes \cup {NoName}]]
         /\ \A f \in Files, n \in TypeNames : means[f][n] # NoName => NameIn[means[f][n]] = n
         /\ NameIn[c] \in ClassNames /\ NameIn[c] \in TypeNames /\ c \in Files
         /\ TypeParam[c] # NoName => TypeParam[c] \in ParamNames
BY ChainAssumption DEF ProgramInv, ClassNames, TypeNames, Files, ParamNames

(* A type of length one is a name; the last of a longer one may be the     *)
(* parameter, the others are names of classes.                             *)
LEMMA TypeIs ==
  ASSUME NEW c \in Classes, NEW type, IsType(type, Params(c))
  PROVE  /\ Len(type) \in Nat /\ Len(type) > 0 /\ Last(type) = type[Len(type)] /\ Head(type) = type[1]
         /\ DOMAIN type = 1..Len(type) /\ type # Untyped
         /\ \A i \in 1..Len(type) : type[i] \in TypeNames \/ (i = Len(type) /\ type[i] = TypeParam[c] /\ TypeParam[c] # NoName)
         /\ type[1] # Star
         /\ Mentions(type, c) <=> TypeParam[c] # NoName /\ type[Len(type)] = TypeParam[c]
         /\ TypeParam[c] # NoName => TypeParam[c] \in ParamNames /\ TypeParam[c] \notin TypeNames
         /\ ~Mentions(type, c) => type \in Seq(TypeNames) /\ Head(type) \in ClassNames
         /\ Len(type) > 1 => Head(type) \in ClassNames
         /\ Mentions(type, c) => type[Len(type)] \notin TypeNames
BY ChainAssumption DEF IsType, Params, Mentions, Last, Untyped, TypeNames, ParamNames

LEMMA ParentIs ==
  ASSUME ProgramInv, NEW c \in Classes
  PROVE  /\ super_type[c] = Untyped => Parent(c) = NoName
         /\ super_type[c] # Untyped => /\ Parent(c) = means[c][Head(super_type[c])]
                                       /\ Parent(c) \in Classes
         /\ Parent(c) \in Classes \cup {NoName}
<1>1. CASE super_type[c] = Untyped
  BY <1>1 DEF Parent
<1>2. CASE super_type[c] # Untyped
  <2>1. IsType(super_type[c], Params(c)) /\ Head(super_type[c]) \in ClassNames
    BY <1>2, ProgramIs
  <2>2. Head(super_type[c]) \in Range(super_type[c])
    BY <2>1, TypeIs DEF Range
  <2>3. means[c][Head(super_type[c])] # NoName
    BY <2>1, <2>2 DEF ProgramInv, Spells
  <2>4. means[c][Head(super_type[c])] \in Classes \cup {NoName}
    BY <2>1, ProgramIs DEF TypeNames
  <2>5. QED
    BY <1>2, <2>3, <2>4 DEF Parent
<1>3. QED
  BY <1>1, <1>2

LEMMA AncestorIs ==
  ASSUME ProgramInv, NEW c \in Classes
  PROVE  \A n \in 0..MaxWalkDepth :
           /\ Ancestor(c)[n] \in Classes \cup {NoName}
           /\ Ancestor(c)[n] = IF n = 0 THEN c
                               ELSE IF Ancestor(c)[n - 1] = NoName THEN NoName
                               ELSE Parent(Ancestor(c)[n - 1])
<1> DEFINE X == Classes \cup {NoName}
           up(k) == IF k = NoName THEN NoName ELSE Parent(k)
           g == [k \in X |-> up(k)]
           Solves(f) == f = [n \in 0..MaxWalkDepth |->
                              IF n = 0 THEN c
                              ELSE IF f[n - 1] = NoName THEN NoName ELSE Parent(f[n - 1])]
<1>1. MaxWalkDepth \in Nat /\ c \in X
  BY ChainAssumption
<1>2. \A k \in X : up(k) \in X
  BY ParentIs
<1>3. g \in [X -> X]
  <2> HIDE DEF up, X
  <2>1. QED
    BY <1>2
<1>4. \A k \in X : g[k] = IF k = NoName THEN NoName ELSE Parent(k)
  <2> HIDE DEF X
  <2>1. QED
    OBVIOUS
<1>5. PICK f \in [0..MaxWalkDepth -> X] :
        Iterates(f, c, g, MaxWalkDepth)
  <2> HIDE DEF g, X
  <2>1. QED
    BY <1>1, <1>3, Iterated
<1>6. \A n \in 0..MaxWalkDepth : n # 0 => n - 1 \in 0..MaxWalkDepth
  BY <1>1
<1>7. Solves(f)
  <2> HIDE DEF g, X
  <2>1. \A n \in 0..MaxWalkDepth :
          f[n] = IF n = 0 THEN c ELSE IF f[n - 1] = NoName THEN NoName ELSE Parent(f[n - 1])
    BY <1>4, <1>5, <1>6 DEF Iterates
  <2>2. QED
    BY <1>5, <2>1
<1>8. Ancestor(c) = CHOOSE h : Solves(h)
  BY Zenon DEF Ancestor
<1>9. Solves(Ancestor(c))
  <2> HIDE DEF Solves
  <2>1. QED
    BY <1>7, <1>8
<1> DEFINE S == {n \in Nat : n \in 0..MaxWalkDepth => Ancestor(c)[n] \in X}
<1>10. 0 \in S
  <2> HIDE DEF X
  <2>1. QED
    BY <1>1, <1>9
<1>11. ASSUME NEW n \in Nat, n \in S
       PROVE  n + 1 \in S
  <2>1. SUFFICES ASSUME n + 1 \in 0..MaxWalkDepth
                 PROVE  Ancestor(c)[n + 1] \in X
    OBVIOUS
  <2>2. n \in 0..MaxWalkDepth /\ (n + 1) - 1 = n /\ n + 1 # 0
    BY <1>1, <2>1
  <2>3. Ancestor(c)[n] \in X
    BY <1>11, <2>2
  <2>4. Ancestor(c)[n + 1] = up(Ancestor(c)[n])
    BY <1>9, <2>1, <2>2
  <2> HIDE DEF X, up
  <2>5. QED
    BY <1>2, <2>3, <2>4
<1>12. Nat \subseteq S
  <2> HIDE DEF S
  <2>1. QED
    BY <1>10, <1>11, FromZeroUp
<1>13. ASSUME NEW n \in 0..MaxWalkDepth
       PROVE  /\ Ancestor(c)[n] \in X
              /\ Ancestor(c)[n] = IF n = 0 THEN c
                                  ELSE IF Ancestor(c)[n - 1] = NoName THEN NoName
                                  ELSE Parent(Ancestor(c)[n - 1])
  <2>1. n \in Nat
    BY <1>1
  <2>2. n \in S
    BY <1>12, <2>1
  <2>3. QED
    BY <1>9, <2>2
<1>14. QED
  BY <1>13

(* The types of a class and of its supertypes, as Kotlin sees them.        *)
NextSeen(s) ==
  IF s = <<>> \/ Head(s) \notin Classes THEN <<>>
  ELSE Meaning(super_type[Head(s)], Head(s), Tail(s))

LEMMA MeaningIs ==
  ASSUME ProgramInv, NEW c \in Classes, NEW type, type = Untyped \/ IsType(type, Params(c)),
         NEW args \in Seq(Classes \cup {NoName})
  PROVE  /\ type = Untyped => Meaning(type, c, args) = <<>>
         /\ type # Untyped /\ ~Mentions(type, c) =>
              Meaning(type, c, args) = [i \in 1..Len(type) |-> means[c][type[i]]]
         /\ type # Untyped /\ Mentions(type, c) /\ Len(type) = 1 => Meaning(type, c, args) = args
         /\ type # Untyped /\ Len(type) > 1 =>
              /\ Meaning(type, c, args) # <<>>
              /\ Head(Meaning(type, c, args)) = means[c][Head(type)]
         /\ type # Untyped /\ Mentions(type, c) =>
              Meaning(type, c, args) = [i \in 1..(Len(type) - 1) |-> means[c][type[i]]] \o args
         /\ Meaning(type, c, args) \in Seq(Classes \cup {NoName})
<1>1. CASE type = Untyped
  <2>1. DOMAIN type = {}
    BY <1>1 DEF Untyped
  <2>2. Meaning(type, c, args) = [i \in {} |-> means[c][type[i]]] \o <<>>
    BY <1>1, <2>1 DEF Meaning, Mentions
  <2>3. [i \in {} |-> means[c][type[i]]] = <<>>
    OBVIOUS
  <2>4. QED
    BY <1>1, <2>2, <2>3
<1>2. CASE type # Untyped
  <2>1. IsType(type, Params(c))
    BY <1>2
  <2>2. means \in [Files -> [TypeNames -> Classes \cup {NoName}]] /\ c \in Files
    BY ProgramIs
  <2>3. CASE ~Mentions(type, c)
    <3>1. type \in Seq(TypeNames) /\ Len(type) > 0 /\ DOMAIN type = 1..Len(type) /\ Head(type) = type[1]
          /\ Len(type) \in Nat
      BY <2>1, <2>3, TypeIs
    <3> DEFINE m == [i \in 1..Len(type) |-> means[c][type[i]]]
    <3>2. m \in Seq(Classes \cup {NoName})
      BY <2>2, <3>1
    <3>3. Meaning(type, c, args) = m \o <<>>
      BY <2>3, <3>1 DEF Meaning
    <3>4. m # <<>> /\ Head(m) = means[c][type[1]]
      BY <3>1, <3>2
    <3> HIDE DEF m
    <3>5. m \o <<>> = m
      BY <3>2
    <3>6. QED
      BY <1>2, <2>3, <3>1, <3>2, <3>3, <3>4, <3>5 DEF m
  <2>4. CASE Mentions(type, c)
    <3>1. Len(type) \in Nat /\ Len(type) > 0 /\ Head(type) = type[1]
          /\ \A i \in 1..(Len(type) - 1) : type[i] \in TypeNames
          /\ type \in Seq(TypeNames \cup Params(c))
      BY <2>1, TypeIs DEF IsType
    <3> DEFINE m == [i \in 1..(Len(type) - 1) |-> means[c][type[i]]]
               fr == Front(type)
    <3>2. DOMAIN fr = 1..(Len(type) - 1) /\ \A i \in 1..(Len(type) - 1) : fr[i] = type[i]
      BY <3>1 DEF Front
    <3>3. m \in Seq(Classes \cup {NoName}) /\ Len(m) = Len(type) - 1
      BY <2>2, <3>1
    <3>4. Meaning(type, c, args) = [i \in DOMAIN fr |-> means[c][fr[i]]] \o args
      BY <2>4 DEF Meaning
    <3> HIDE DEF fr
    <3>5. [i \in DOMAIN fr |-> means[c][fr[i]]] = m
      BY <3>2
    <3>6. Len(type) > 1 => m # <<>> /\ Head(m) = means[c][type[1]] /\ m[1] = Head(m)
      BY <3>1, <3>3
    <3> HIDE DEF m
    <3>7. Len(type) > 1 => m \o args # <<>> /\ Head(m \o args) = Head(m)
      BY <3>1, <3>3, <3>6
    <3>8. Len(type) = 1 => m \o args = args
      <4>1. Len(type) = 1 => m = <<>>
        BY <3>1, <3>3
      <4>2. <<>> \o args = args
        OBVIOUS
      <4>3. QED
        BY <4>1, <4>2
    <3>9. m \o args \in Seq(Classes \cup {NoName})
      BY <3>3
    <3>10. QED
      BY <1>2, <2>4, <3>1, <3>4, <3>5, <3>6, <3>7, <3>8, <3>9 DEF m
  <2>5. QED
    BY <2>3, <2>4
<1>3. QED
  BY <1>1, <1>2

LEMMA SeenIs ==
  ASSUME ProgramInv, NEW types \in Seq(Classes \cup {NoName})
  PROVE  \A n \in 0..MaxWalkDepth :
           /\ Seen(types)[n] \in Seq(Classes \cup {NoName})
           /\ Seen(types)[n] = IF n = 0 THEN types ELSE NextSeen(Seen(types)[n - 1])
<1> DEFINE X == Seq(Classes \cup {NoName})
           g == [s \in X |-> NextSeen(s)]
           Solves(f) == f = [n \in 0..MaxWalkDepth |->
                              IF n = 0 THEN types
                              ELSE IF f[n - 1] = <<>> \/ Head(f[n - 1]) \notin Classes THEN <<>>
                              ELSE Meaning(super_type[Head(f[n - 1])], Head(f[n - 1]),
                                           Tail(f[n - 1]))]
<1>1. MaxWalkDepth \in Nat /\ types \in X
  BY ChainAssumption
<1>2. \A s \in X : NextSeen(s) \in X
  <2>1. SUFFICES ASSUME NEW s \in X, s # <<>>, Head(s) \in Classes
                 PROVE  Meaning(super_type[Head(s)], Head(s), Tail(s)) \in X
    BY DEF NextSeen
  <2>2. Tail(s) \in X
    BY <2>1
  <2>3. super_type[Head(s)] = Untyped \/ IsType(super_type[Head(s)], Params(Head(s)))
    BY <2>1, ProgramIs
  <2>4. QED
    BY <2>1, <2>2, <2>3, MeaningIs
<1>3. g \in [X -> X]
  <2> HIDE DEF X
  <2>1. QED
    BY <1>2
<1>4. \A s \in X : g[s] = NextSeen(s)
  <2> HIDE DEF X
  <2>1. QED
    OBVIOUS
<1>5. PICK f \in [0..MaxWalkDepth -> X] :
        Iterates(f, types, g, MaxWalkDepth)
  <2> HIDE DEF g, X
  <2>1. QED
    BY <1>1, <1>3, Iterated
<1>6. \A n \in 0..MaxWalkDepth : n # 0 => n - 1 \in 0..MaxWalkDepth
  BY <1>1
<1>7. Solves(f)
  <2> HIDE DEF g, X
  <2>1. \A n \in 0..MaxWalkDepth : f[n] = IF n = 0 THEN types ELSE NextSeen(f[n - 1])
    BY <1>4, <1>5, <1>6 DEF Iterates
  <2>2. QED
    BY <1>5, <2>1 DEF NextSeen
<1>8. Seen(types) = CHOOSE h : Solves(h)
  BY Zenon DEF Seen
<1>9. Solves(Seen(types))
  <2> HIDE DEF Solves
  <2>1. QED
    BY <1>7, <1>8
<1>10. \A n \in 0..MaxWalkDepth :
         Seen(types)[n] = IF n = 0 THEN types ELSE NextSeen(Seen(types)[n - 1])
  BY <1>9 DEF NextSeen
<1> HIDE DEF Solves
<1> DEFINE S == {n \in Nat : n \in 0..MaxWalkDepth => Seen(types)[n] \in X}
<1>11. 0 \in S
  <2> HIDE DEF X
  <2>1. QED
    BY <1>1, <1>10
<1>12. ASSUME NEW n \in Nat, n \in S
       PROVE  n + 1 \in S
  <2>1. SUFFICES ASSUME n + 1 \in 0..MaxWalkDepth
                 PROVE  Seen(types)[n + 1] \in X
    OBVIOUS
  <2>2. n \in 0..MaxWalkDepth /\ (n + 1) - 1 = n /\ n + 1 # 0
    BY <1>1, <2>1
  <2>3. Seen(types)[n] \in X
    BY <1>12, <2>2
  <2>4. Seen(types)[n + 1] = NextSeen(Seen(types)[n])
    BY <1>10, <2>1, <2>2
  <2> HIDE DEF X
  <2>5. QED
    BY <1>2, <2>3, <2>4
<1>13. Nat \subseteq S
  <2> HIDE DEF S
  <2>1. QED
    BY <1>11, <1>12, FromZeroUp
<1>14. ASSUME NEW n \in 0..MaxWalkDepth
       PROVE  Seen(types)[n] \in X
  <2>1. n \in Nat
    BY <1>1
  <2>2. n \in S
    BY <1>13, <2>1
  <2>3. QED
    BY <2>2
<1>15. QED
  BY <1>10, <1>14

(* The walk of the resolver and Kotlin's go up the same classes.           *)
SameClass(k, s) ==
  IF k = NoName THEN s = <<>> \/ Head(s) \notin Classes
  ELSE s # <<>> /\ Head(s) = k /\ k \in Classes

LEMMA SameStep ==
  ASSUME ProgramInv, NEW c \in Classes, NEW s \in Seq(Classes \cup {NoName}), SameClass(c, s)
  PROVE  SameClass(Parent(c), NextSeen(s))
<1>1. NoName \notin Classes
  BY ChainAssumption
<1>2. s # <<>> /\ Head(s) = c /\ Tail(s) \in Seq(Classes \cup {NoName})
  BY <1>1 DEF SameClass
<1>3. NextSeen(s) = Meaning(super_type[c], c, Tail(s))
  BY <1>2 DEF NextSeen
<1>4. CASE super_type[c] = Untyped
  BY <1>1, <1>2, <1>3, <1>4, ParentIs, MeaningIs DEF SameClass
<1>5. CASE super_type[c] # Untyped
  <2>1. IsType(super_type[c], Params(c)) /\ Head(super_type[c]) \in ClassNames
    BY <1>5, ProgramIs
  <2>2. Parent(c) = means[c][Head(super_type[c])] /\ Parent(c) \in Classes
    BY <1>5, ParentIs
  <2>3. CASE ~Mentions(super_type[c], c)
    <3>1. NextSeen(s) = [i \in 1..Len(super_type[c]) |-> means[c][super_type[c][i]]]
      BY <1>2, <1>3, <1>5, <2>1, <2>3, MeaningIs
    <3>2. Len(super_type[c]) \in Nat /\ Len(super_type[c]) > 0 /\ Head(super_type[c]) = super_type[c][1]
      BY <2>1, TypeIs
    <3>3. NextSeen(s) # <<>> /\ Head(NextSeen(s)) = means[c][super_type[c][1]]
      BY <3>1, <3>2
    <3>4. QED
      BY <1>1, <2>2, <3>2, <3>3 DEF SameClass
  <2>4. CASE Mentions(super_type[c], c)
    <3>1. Len(super_type[c]) > 1
      <4>1. Head(super_type[c]) \in TypeNames
        BY <2>1 DEF TypeNames
      <4>2. QED
        BY <2>1, <2>4, <4>1, TypeIs
    <3>2. NextSeen(s) # <<>> /\ Head(NextSeen(s)) = means[c][Head(super_type[c])]
      <4> DEFINE type == super_type[c]
                 args == Tail(s)
      <4>1. args \in Seq(Classes \cup {NoName}) /\ IsType(type, Params(c)) /\ type # Untyped
            /\ Len(type) > 1
        BY <1>2, <1>5, <2>1, <3>1
      <4> HIDE DEF type, args
      <4>2. Meaning(type, c, args) # <<>> /\ Head(Meaning(type, c, args)) = means[c][Head(type)]
        BY <4>1, MeaningIs
      <4>3. QED
        BY <1>3, <4>2 DEF type, args
    <3>3. QED
      BY <1>1, <2>2, <3>2 DEF SameClass
  <2>5. QED
    BY <2>3, <2>4
<1>6. QED
  BY <1>4, <1>5

LEMMA SameWay ==
  ASSUME ProgramInv, NEW types \in Seq(Classes \cup {NoName}), NEW c \in Classes,
         types # <<>>, Head(types) = c
  PROVE  \A n \in 0..MaxWalkDepth : SameClass(Ancestor(c)[n], Seen(types)[n])
<1>1. MaxWalkDepth \in Nat /\ NoName \notin Classes
  BY ChainAssumption
<1> DEFINE S == {n \in Nat : n \in 0..MaxWalkDepth => SameClass(Ancestor(c)[n], Seen(types)[n])}
<1>2. 0 \in S
  <2>1. 0 \in 0..MaxWalkDepth
    BY <1>1
  <2>2. Ancestor(c)[0] = c /\ Seen(types)[0] = types
    BY <2>1, AncestorIs, SeenIs
  <2>3. QED
    BY <1>1, <2>2 DEF SameClass
<1>3. ASSUME NEW n \in Nat, n \in S
      PROVE  n + 1 \in S
  <2>1. SUFFICES ASSUME n + 1 \in 0..MaxWalkDepth
                 PROVE  SameClass(Ancestor(c)[n + 1], Seen(types)[n + 1])
    OBVIOUS
  <2>2. n \in 0..MaxWalkDepth /\ (n + 1) - 1 = n /\ n + 1 # 0
    BY <1>1, <2>1
  <2>3. SameClass(Ancestor(c)[n], Seen(types)[n])
    BY <1>3, <2>2
  <2>4. /\ Ancestor(c)[n] \in Classes \cup {NoName}
        /\ Ancestor(c)[n + 1] = IF Ancestor(c)[n] = NoName THEN NoName ELSE Parent(Ancestor(c)[n])
    BY <2>1, <2>2, AncestorIs
  <2>5. /\ Seen(types)[n] \in Seq(Classes \cup {NoName})
        /\ Seen(types)[n + 1] = NextSeen(Seen(types)[n])
    BY <2>1, <2>2, SeenIs
  <2>6. CASE Ancestor(c)[n] = NoName
    BY <2>3, <2>4, <2>5, <2>6 DEF SameClass, NextSeen
  <2>7. CASE Ancestor(c)[n] # NoName
    <3>1. Ancestor(c)[n] \in Classes
      BY <2>4, <2>7
    <3>2. QED
      BY <2>3, <2>4, <2>5, <2>7, <3>1, SameStep
  <2>8. QED
    BY <2>6, <2>7
<1>4. Nat \subseteq S
  <2> HIDE DEF S
  <2>1. QED
    BY <1>2, <1>3, FromZeroUp
<1>5. QED
  BY <1>1, <1>4

-----------------------------------------------------------------------------
(* What is looked up.                                                      *)

LEMMA OneCandidate ==
  ASSUME ProgramInv, NEW c \in Classes, NEW name, NEW uri, means[uri][name] = c
  PROVE  Candidates(name, uri) = <<c>>
BY ChainAssumption DEF Candidates

LEMMA LeastOfOne == Min({1}) = 1
BY DEF Min

LEMMA FirstOfOne ==
  ASSUME NEW c
  PROVE  /\ FirstOf(<<c>>, HasMember) = IF HasMember(c) THEN c ELSE NoName
         /\ FirstOf(<<c>>, Inherits) = IF Inherits(c) THEN c ELSE NoName
         /\ FirstOf(<<c>>, LAMBDA s : TypeParam[s] # NoName) =
              IF TypeParam[c] # NoName THEN c ELSE NoName
         /\ FirstOf(<<c>>, LAMBDA s : TRUE) = c
<1>1. Len(<<c>>) = 1 /\ 1..Len(<<c>>) = {1} /\ <<c>>[1] = c
  OBVIOUS
<1> DEFINE h == {i \in {1} : HasMember(<<c>>[i])}
           u == {i \in {1} : Inherits(<<c>>[i])}
           p == {i \in {1} : TypeParam[<<c>>[i]] # NoName}
           o == {i \in {1} : TRUE}
<1>2. /\ h = IF HasMember(c) THEN {1} ELSE {}
      /\ u = IF Inherits(c) THEN {1} ELSE {}
      /\ p = IF TypeParam[c] # NoName THEN {1} ELSE {}
      /\ o = {1}
  BY <1>1
<1>3. /\ SelectInSeq(<<c>>, HasMember) = IF h # {} THEN Min(h) ELSE 0
      /\ SelectInSeq(<<c>>, Inherits) = IF u # {} THEN Min(u) ELSE 0
      /\ SelectInSeq(<<c>>, LAMBDA s : TypeParam[s] # NoName) = IF p # {} THEN Min(p) ELSE 0
      /\ SelectInSeq(<<c>>, LAMBDA s : TRUE) = IF o # {} THEN Min(o) ELSE 0
  BY <1>1 DEF SelectInSeq
<1> HIDE DEF h, u, p, o
<1>4. /\ SelectInSeq(<<c>>, HasMember) = IF HasMember(c) THEN 1 ELSE 0
      /\ SelectInSeq(<<c>>, Inherits) = IF Inherits(c) THEN 1 ELSE 0
      /\ SelectInSeq(<<c>>, LAMBDA s : TypeParam[s] # NoName) = IF TypeParam[c] # NoName THEN 1 ELSE 0
      /\ SelectInSeq(<<c>>, LAMBDA s : TRUE) = 1
  BY <1>2, <1>3, LeastOfOne
<1> DEFINE At(i) == IF i = 0 THEN NoName ELSE <<c>>[i]
<1>5. /\ FirstOf(<<c>>, HasMember) = At(SelectInSeq(<<c>>, HasMember))
      /\ FirstOf(<<c>>, Inherits) = At(SelectInSeq(<<c>>, Inherits))
      /\ FirstOf(<<c>>, LAMBDA s : TypeParam[s] # NoName)
           = At(SelectInSeq(<<c>>, LAMBDA s : TypeParam[s] # NoName))
      /\ FirstOf(<<c>>, LAMBDA s : TRUE) = At(SelectInSeq(<<c>>, LAMBDA s : TRUE))
  BY Zenon DEF FirstOf
<1>6. At(1) = c /\ At(0) = NoName
  OBVIOUS
<1> HIDE DEF At
<1>7. QED
  BY <1>4, <1>5, <1>6

(* The level of the member is the same for the resolver and for Kotlin.    *)
LEMMA LevelIs ==
  ASSUME ProgramInv, NEW types \in Seq(Classes \cup {NoName}), NEW c \in Classes,
         types # <<>>, Head(types) = c, Levels(types) # {}
  PROVE  LET level == Min(Levels(types))
             seen == Seen(types)[level]
             owner == Head(seen)
         IN  /\ level \in 0..MaxWalkDepth
             /\ seen \in Seq(Classes \cup {NoName}) /\ seen # <<>>
             /\ owner \in Classes /\ HasMember(owner) /\ owner = Ancestor(c)[level]
             /\ level = 0 <=> HasMember(c)
             /\ level = 0 => seen = types
             /\ level # 0 => Inherits(c) /\ Min(LevelsAbove(c)) = level
             /\ level = 1 => /\ super_type[c] # Untyped /\ owner = Parent(c)
                             /\ seen = Meaning(super_type[c], c, Tail(types))
<1>1. MaxWalkDepth \in Nat /\ NoName \notin Classes
  BY ChainAssumption
<1>2. \A n \in 0..MaxWalkDepth :
        /\ n \in Levels(types) <=> Ancestor(c)[n] # NoName /\ HasMember(Ancestor(c)[n])
        /\ n \in Levels(types) => /\ Seen(types)[n] # <<>>
                                  /\ Head(Seen(types)[n]) = Ancestor(c)[n]
                                  /\ Ancestor(c)[n] \in Classes
  BY <1>1, SameWay DEF Levels, SameClass
<1>3. Levels(types) \subseteq 0..MaxWalkDepth
  BY DEF Levels
<1>4. LevelsAbove(c) = Levels(types) \ {0}
  <2>1. LevelsAbove(c) = {n \in 1..MaxWalkDepth : n \in Levels(types)}
    BY <1>1, <1>2 DEF LevelsAbove
  <2>2. QED
    BY <1>1, <1>3, <2>1
<1>5. 0 \in 0..MaxWalkDepth /\ Ancestor(c)[0] = c /\ Seen(types)[0] = types
  BY <1>1, AncestorIs, SeenIs
<1>6. 0 \in Levels(types) <=> HasMember(c)
  BY <1>1, <1>2, <1>5
<1> DEFINE level == Min(Levels(types))
<1>7. level \in Levels(types) /\ \A n \in Levels(types) : level <= n
  BY <1>1, <1>3, LeastLevel
<1>8. level \in 0..MaxWalkDepth
  BY <1>3, <1>7
<1>9. level = 0 <=> HasMember(c)
  BY <1>1, <1>3, <1>6, <1>7
<1>10. level # 0 => Inherits(c) /\ Min(LevelsAbove(c)) = level
  BY <1>4, <1>6, <1>7, <1>9 DEF Inherits
<1>11. level = 1 => /\ super_type[c] # Untyped /\ Head(Seen(types)[1]) = Parent(c)
                    /\ Seen(types)[1] = Meaning(super_type[c], c, Tail(types))
  <2>1. SUFFICES ASSUME level = 1
                 PROVE  /\ super_type[c] # Untyped /\ Head(Seen(types)[1]) = Parent(c)
                        /\ Seen(types)[1] = Meaning(super_type[c], c, Tail(types))
    OBVIOUS
  <2>2. 1 \in 0..MaxWalkDepth /\ 1 \in Levels(types)
    BY <1>7, <1>8, <2>1
  <2>3. Ancestor(c)[1] = Parent(c) /\ Seen(types)[1] = NextSeen(types)
    BY <1>1, <1>5, <2>2, AncestorIs, SeenIs
  <2>4. Parent(c) \in Classes /\ Head(Seen(types)[1]) = Parent(c)
    BY <1>2, <2>2, <2>3
  <2>5. QED
    BY <1>1, <2>3, <2>4, ParentIs DEF NextSeen
<1> HIDE DEF level
<1>12. /\ Seen(types)[level] \in Seq(Classes \cup {NoName}) /\ Seen(types)[level] # <<>>
       /\ Head(Seen(types)[level]) \in Classes /\ HasMember(Head(Seen(types)[level]))
       /\ Head(Seen(types)[level]) = Ancestor(c)[level]
  BY <1>2, <1>7, <1>8, SeenIs
<1>13. QED
  BY <1>5, <1>8, <1>9, <1>10, <1>11, <1>12 DEF level

LEMMA FoundIs ==
  ASSUME ProgramInv, NEW c \in Classes, NEW name, NEW uri, means[uri][name] = c,
         HasMember(c) \/ Inherits(c)
  PROVE  FoundMember(name, uri) =
           {IF HasMember(c) THEN [type |-> member_type[c], uri |-> c] ELSE Inherited(c)}
<1>1. Candidates(name, uri) = <<c>> /\ c # NoName
  BY OneCandidate, ChainAssumption
<1>2. FirstOf(<<c>>, HasMember) = IF HasMember(c) THEN c ELSE NoName
  BY FirstOfOne
<1>3. FirstOf(<<c>>, Inherits) = IF Inherits(c) THEN c ELSE NoName
  BY FirstOfOne
<1> DEFINE declarer == FirstOf(<<c>>, HasMember)
           heir == FirstOf(<<c>>, Inherits)
<1>4. FoundMember(name, uri) =
        IF declarer # NoName THEN {[type |-> member_type[declarer], uri |-> declarer]}
        ELSE IF heir # NoName THEN {Inherited(heir)} ELSE {}
  BY <1>1, Zenon DEF FoundMember
<1> HIDE DEF declarer, heir
<1>5. declarer = (IF HasMember(c) THEN c ELSE NoName) /\ heir = IF Inherits(c) THEN c ELSE NoName
  BY <1>2, <1>3 DEF declarer, heir
<1>6. QED
  BY <1>1, <1>4, <1>5

(* A plain type is inherited as it stands; a method's parameter of the     *)
(* direct supertype is what the class gives it.                            *)
LEMMA InheritedIs ==
  ASSUME ProgramInv, NEW c \in Classes, NEW level, level = Min(LevelsAbove(c)),
         NEW owner \in Classes, owner = Ancestor(c)[level], HasMember(owner),
         level = 1 => super_type[c] # Untyped /\ owner = Parent(c)
  PROVE  /\ ~Mentions(member_type[owner], owner) =>
              Inherited(c) = [type |-> member_type[owner], uri |-> owner]
         /\ /\ Mentions(member_type[owner], owner) /\ level = 1
            /\ Len(member_type[owner]) = 1 /\ kind = "method"
            => /\ Len(super_type[c]) > 1
               /\ Inherited(c) = [type |-> Tail(super_type[c]),
                                  uri |-> IF Tail(super_type[c]) # member_type[owner]
                                          THEN c ELSE owner]
<1> DEFINE type == member_type[owner]
           generic == FirstOf(Candidates(Head(super_type[c]), c), LAMBDA s : TypeParam[s] # NoName)
<1>1. WithSuperArgs(type, c, level) =
        IF /\ level = 1 /\ Len(super_type[c]) > 1
           /\ generic # NoName /\ Mentions(type, generic)
        THEN Front(type) \o Tail(super_type[c]) ELSE type
  BY Zenon DEF WithSuperArgs
<1>2. ASSUME level = 1
      PROVE  generic = IF TypeParam[owner] # NoName THEN owner ELSE NoName
  <2>1. means[c][Head(super_type[c])] = owner
    BY <1>2, ParentIs
  <2>2. Candidates(Head(super_type[c]), c) = <<owner>>
    BY <2>1, OneCandidate
  <2>3. FirstOf(<<owner>>, LAMBDA s : TypeParam[s] # NoName)
          = IF TypeParam[owner] # NoName THEN owner ELSE NoName
    BY FirstOfOne
  <2>4. QED
    BY <2>2, <2>3
<1> HIDE DEF generic
<1>3. Inherited(c) =
        [type |-> WithSuperArgs(type, c, level),
         uri |-> IF kind = "method" /\ WithSuperArgs(type, c, level) # type THEN c ELSE owner]
  BY DEF Inherited
<1>4. ASSUME ~Mentions(type, owner)
      PROVE  Inherited(c) = [type |-> type, uri |-> owner]
  <2>1. WithSuperArgs(type, c, level) = type
    BY <1>1, <1>2, <1>4
  <2>2. QED
    BY <1>3, <2>1
<1>5. ASSUME Mentions(type, owner), level = 1, Len(type) = 1, kind = "method"
      PROVE  /\ Len(super_type[c]) > 1
             /\ Inherited(c) = [type |-> Tail(super_type[c]),
                                uri |-> IF Tail(super_type[c]) # type THEN c ELSE owner]
  <2>1. TypeParam[owner] # NoName /\ owner # NoName
    BY <1>5, ChainAssumption DEF Mentions
  <2>2. Len(super_type[c]) > 1
    BY <1>5, <2>1 DEF ProgramInv
  <2>3. Front(type) = <<>>
    <3>1. type \in Seq(TypeNames \cup Params(owner))
      BY ProgramIs DEF IsType, HasMember
    <3>2. Len(type) = 1
      BY <1>5
    <3> HIDE DEF type
    <3>3. QED
      BY <3>1, <3>2 DEF Front
  <2>4. IsType(super_type[c], Params(c))
    BY <1>5, ProgramIs
  <2>5. Tail(super_type[c]) \in Seq(TypeNames \cup Params(c))
    BY <2>4 DEF IsType
  <2>6. <<>> \o Tail(super_type[c]) = Tail(super_type[c])
    BY <2>5
  <2>7. WithSuperArgs(type, c, level) = Tail(super_type[c])
    BY <1>1, <1>2, <1>5, <2>1, <2>2, <2>3, <2>6
  <2>8. QED
    BY <1>3, <1>5, <2>2, <2>7
<1>6. QED
  BY <1>4, <1>5

-----------------------------------------------------------------------------
(* What becomes of a type that was found.                                  *)

LEMMA ParamIs ==
  ASSUME NEW name, NEW uri, NEW param \in ParamFor(name, uri)
  PROVE  /\ param \in ParamNames \cup {NoName}
         /\ uri \in Classes /\ NameIn[uri] = name => param = TypeParam[uri]
BY DEF ParamFor, ParamNames

(* A type without a parameter stays what it is.                            *)
LEMMA KeepsPlain ==
  ASSUME NEW type \in Seq(TypeNames), type # <<>>, NEW file, NEW param \in ParamNames \cup {NoName},
         NEW receiver, NEW uri
  PROVE  Substituted([type |-> type, uri |-> file], param, receiver, uri) = [type |-> type, uri |-> file]
<1>1. TypeNames \cap ParamNames = {} /\ NoName \notin TypeNames
  BY ChainAssumption
<1>2. Head(type) \in TypeNames /\ Last(type) \in TypeNames
  BY DEF Last
<1>3. Head(type) # param /\ Last(type) # param /\ Head(type) \notin ParamNames
  BY <1>1, <1>2
<1>4. AnchorOf([type |-> type, uri |-> file], param, receiver, uri) = file
  BY <1>3 DEF AnchorOf
<1>5. QED
  BY <1>3, <1>4 DEF Substituted

(* The parameter under a head is filled in; the head stays.                *)
LEMMA FillsIn ==
  ASSUME NEW names, NEW type \in Seq(names), Len(type) > 1, NEW file, NEW param \in ParamNames,
         Head(type) \in TypeNames, Last(type) = param,
         NEW receiver, Tail(receiver) \in Seq(TypeNames), NEW uri
  PROVE  LET r == Substituted([type |-> type, uri |-> file], param, receiver, uri)
         IN  r.uri = file /\ r.type # <<>> /\ Head(r.type) = Head(type)
<1>1. TypeNames \cap ParamNames = {} /\ NoName \notin TypeNames
  BY ChainAssumption
<1> DEFINE fr == Front(type)
           args == Tail(receiver)
<1>2. fr \in Seq(names) /\ fr # <<>> /\ Head(fr) = Head(type)
  <2>1. fr = SubSeq(type, 1, Len(type) - 1)
    BY DEF Front
  <2>2. Len(type) \in Nat /\ Head(type) = type[1]
    OBVIOUS
  <2> DEFINE f == SubSeq(type, 1, Len(type) - 1)
  <2>3. f \in Seq(names) /\ Len(f) = Len(type) - 1
    BY <2>2
  <2>4. f[1] = type[1]
    BY <2>2, <2>3
  <2> HIDE DEF f, fr
  <2>5. f # <<>> /\ Head(f) = f[1]
    BY <2>2, <2>3
  <2>6. QED
    BY <2>1, <2>2, <2>3, <2>4, <2>5 DEF f
<1>3. Head(type) # param /\ Head(type) \notin ParamNames
  BY <1>1
<1>4. AnchorOf([type |-> type, uri |-> file], param, receiver, uri) = file
  BY <1>3 DEF AnchorOf
<1> HIDE DEF fr
<1>5. fr \o args # <<>> /\ Head(fr \o args) = Head(type)
  BY <1>2
<1>6. Append(fr, Star) # <<>> /\ Head(Append(fr, Star)) = Head(type)
  BY <1>2
<1> DEFINE t == IF param = NoName \/ Last(type) # param THEN type
                ELSE IF ~Unreadable(Arguments(receiver)) THEN fr \o args
                ELSE IF Len(type) > 1 THEN Append(fr, Star)
                ELSE type
<1>7. t # <<>> /\ Head(t) = Head(type)
  BY <1>5, <1>6
<1>8. Substituted([type |-> type, uri |-> file], param, receiver, uri) =
        IF Len(t) = 1 /\ Head(t) \in ParamNames
        THEN [type |-> IF ~Unreadable(Arguments(receiver)) /\ Head(Arguments(receiver)) \notin ParamNames
                       THEN Arguments(receiver) ELSE Untyped,
              uri |-> uri]
        ELSE [type |-> t, uri |-> file]
  BY <1>4 DEF Substituted, Arguments, fr
<1> HIDE DEF t
<1>9. QED
  BY <1>3, <1>7, <1>8

(* A parameter is the receiver's argument, or nothing.                     *)
IsArgument(r, receiver, uri) ==
  r = [type |-> Tail(receiver), uri |-> uri] /\ Tail(receiver) # <<>>
IsBound(r, p, file, param, receiver, uri) ==
  /\ r = Substituted([type |-> <<p>>, uri |-> file], param, receiver, uri)
  /\ r.type # Untyped /\ Tail(receiver) \in Seq(TypeNames)
LEMMA TakesArgument ==
  ASSUME NEW p \in ParamNames, NEW file, NEW param \in ParamNames \cup {NoName},
         NEW receiver, NEW uri, NEW r, IsBound(r, p, file, param, receiver, uri)
  PROVE  IsArgument(r, receiver, uri)
<1> SUFFICES r = [type |-> Tail(receiver), uri |-> uri] /\ Tail(receiver) # <<>>
  BY DEF IsArgument
<1> USE DEF IsBound
<1>1. TypeNames \cap ParamNames = {} /\ NoName \notin ParamNames
  BY ChainAssumption DEF ParamNames
<1> DEFINE args == Tail(receiver)
           bound == ~Unreadable(args)
<1>2. Last(<<p>>) = p /\ Front(<<p>>) = <<>> /\ Len(<<p>>) = 1 /\ Head(<<p>>) = p
  BY DEF Last, Front
<1>3. <<>> \o args = args
  OBVIOUS
<1>4. bound => args # <<>> /\ Head(args) \in TypeNames
  BY DEF Unreadable, Untyped
<1>5. CASE param # p
  <2>1. r = [type |-> IF bound /\ Head(args) \notin ParamNames THEN args ELSE Untyped, uri |-> uri]
    BY <1>2, <1>5 DEF Substituted, Arguments
  <2>2. bound /\ Head(args) \notin ParamNames
    <3>1. SUFFICES ASSUME ~(bound /\ Head(args) \notin ParamNames)
                   PROVE  FALSE
      OBVIOUS
    <3> HIDE DEF bound, args
    <3>2. r = [type |-> Untyped, uri |-> uri]
      BY <2>1, <3>1
    <3>3. QED
      BY <3>2
  <2> HIDE DEF bound
  <2>3. QED
    BY <1>4, <2>1, <2>2
<1>6. CASE param = p /\ bound
  <2>1. AnchorOf([type |-> <<p>>, uri |-> file], param, receiver, uri) = uri
    BY <1>2, <1>6 DEF AnchorOf, Arguments
  <2>2. r = [type |-> args, uri |-> uri]
    BY <1>1, <1>2, <1>3, <1>4, <1>6, <2>1 DEF Substituted, Arguments
  <2>3. QED
    BY <1>4, <1>6, <2>2
<1>7. CASE param = p /\ ~bound
  <2>1. r = [type |-> Untyped, uri |-> uri]
    BY <1>1, <1>2, <1>7 DEF Substituted, Arguments
  <2>2. QED
    BY <2>1
<1>8. QED
  BY <1>5, <1>6, <1>7

-----------------------------------------------------------------------------
(* A read.                                                                 *)

LEMMA ProgramStands ==
  ASSUME ProgramInv, UNCHANGED program
  PROVE  ProgramInv'
BY DEF ProgramInv, program, Spells, Parent

(* The names of a type that a class spells stand in its file.              *)
LEMMA SpelledStands ==
  ASSUME ProgramInv, NEW c \in Classes, NEW type, type \in {member_type[c], super_type[c]},
         type # Untyped
  PROVE  \A i \in 1..Len(type) : type[i] \in ClassNames => means[c][type[i]] \in Classes
<1>1. ASSUME NEW i \in 1..Len(type), type[i] \in ClassNames
      PROVE  means[c][type[i]] \in Classes
  <2>1. DOMAIN type = 1..Len(type)
    BY ProgramIs, TypeIs
  <2>2. Spells(c, type[i])
    BY <1>1, <2>1 DEF Spells, Range
  <2>3. means[c][type[i]] # NoName
    BY <1>1, <2>2 DEF ProgramInv
  <2>4. means[c][type[i]] \in Classes \cup {NoName}
    BY <1>1, ProgramIs DEF TypeNames
  <2>5. QED
    BY <2>3, <2>4
<1>2. QED
  BY <1>1

(* A read whose gaps are none that the property excepts.                   *)
LEMMA ReadIs ==
  ASSUME ProgramInv, ReadInv, ReadMember, doubts' \subseteq {"apart"}
  PROVE  LET level == Min(Levels(meant))
             seen == Seen(meant)[level]
             owner == Head(seen)
         IN  /\ HeadStands(current_type, current_uri, meant) /\ current_uri \in Files
             /\ meant \in Seq(Classes \cup {NoName}) /\ Levels(meant) # {}
             /\ Head(current_type) \in ClassNames
             /\ meant' = Meaning(member_type[owner], owner, Tail(seen))
             /\ Doubts(level, owner, Head(meant)) \subseteq doubts'
             /\ "apart" \notin doubts => Stands(current_type, current_uri, meant)
             /\ \E r \in MemberTypeOn(current_type, current_uri) :
                  current_type' = r.type /\ current_uri' = r.uri
<1> DEFINE level == Min(Levels(meant))
           owner == Head(Seen(meant)[level])
           leak == IF MemberTypeOn(current_type, current_uri) = {} THEN {"leaked"} ELSE {}
<1>1. /\ NamesAClass /\ meant # <<>> /\ Levels(meant) # {}
      /\ meant' = Meaning(member_type[owner], owner, Tail(Seen(meant)[level]))
      /\ doubts' = doubts \cup Doubts(level, owner, Head(meant)) \cup leak
      /\ \/ \E r \in MemberTypeOn(current_type, current_uri) :
              current_type' = r.type /\ current_uri' = r.uri
         \/ MemberTypeOn(current_type, current_uri) = {}
  BY DEF ReadMember
<1>2. doubts \subseteq {"apart"} /\ leak = {}
  BY <1>1
<1>3. MemberTypeOn(current_type, current_uri) # {}
  BY <1>2
<1>4. Doubts(level, owner, Head(meant)) \subseteq doubts'
  BY <1>1
<1> HIDE DEF leak
<1>5. QED
  BY <1>1, <1>2, <1>3, <1>4 DEF ReadInv, RightSoFar, NamesAClass

(* Which gaps those are.                                                   *)
LEMMA DoubtsAre ==
  ASSUME NEW level, NEW owner, NEW c, NEW d \in SUBSET {"apart"}, Doubts(level, owner, c) \subseteq d,
         doubts \subseteq d, Mentions(member_type[owner], owner)
  PROVE  /\ level = 1 => kind # "field"
         /\ ~(level > 1)
         /\ Len(member_type[owner]) > 1 => "apart" \in d /\ ~(level > 0 /\ kind = "method")
         /\ "apart" \notin doubts
         /\ level = 1 /\ Mentions(super_type[c], c) /\ Len(super_type[c]) > 2 => "apart" \in d
<1> DEFINE generic == Mentions(member_type[owner], owner)
           nested == generic /\ Len(member_type[owner]) > 1
           handed_on == generic /\ level = 1 /\ Mentions(super_type[c], c) /\ Len(super_type[c]) > 2
<1>1. /\ level = 1 /\ generic /\ kind = "field" => "inherited field" \in Doubts(level, owner, c)
      /\ level > 1 /\ generic => "deep" \in Doubts(level, owner, c)
      /\ nested /\ level > 0 /\ kind = "method" => "nested" \in Doubts(level, owner, c)
      /\ generic /\ "apart" \in doubts => "exposed" \in Doubts(level, owner, c)
      /\ nested \/ handed_on => "apart" \in Doubts(level, owner, c)
  BY DEF Doubts
<1>2. "inherited field" \notin d /\ "deep" \notin d /\ "nested" \notin d /\ "exposed" \notin d
  OBVIOUS
<1>3. QED
  BY <1>1, <1>2

LEMMA MemberIs ==
  ASSUME NEW type, NEW uri, NEW found, FoundMember(Head(type), uri) = {found},
         NEW r \in MemberTypeOn(type, uri)
  PROVE  \/ walker = "names" /\ r = found
         \/ /\ walker # "names" /\ r.type # Untyped
            /\ \E param \in ParamFor(Head(type), found.uri) :
                 r = Substituted(found, param, type, uri)
<1>1. CASE walker = "names"
  BY <1>1 DEF MemberTypeOn
<1>2. CASE walker # "names"
  BY <1>2 DEF MemberTypeOn
<1>3. QED
  BY <1>1, <1>2

(* A type without a parameter: its names stand where it is declared.       *)
LEMMA PlainRead ==
  ASSUME ProgramInv, NEW owner \in Classes, HasMember(owner),
         ~Mentions(member_type[owner], owner), NEW type, NEW uri,
         FoundMember(Head(type), uri) = {[type |-> member_type[owner], uri |-> owner]},
         NEW r \in MemberTypeOn(type, uri), NEW args \in Seq(Classes \cup {NoName}), NEW gaps
  PROVE  RightSoFar(r.type, r.uri, Meaning(member_type[owner], owner, args), gaps)
<1> DEFINE t == member_type[owner]
           found == [type |-> t, uri |-> owner]
<1>1. t # Untyped /\ IsType(t, Params(owner)) /\ owner \in Files
  BY ProgramIs DEF HasMember
<1>2. /\ t \in Seq(TypeNames) /\ t # <<>> /\ Head(t) \in ClassNames
      /\ Len(t) \in Nat /\ Len(t) > 0 /\ Head(t) = t[1]
  BY <1>1, TypeIs DEF Untyped
<1>3. Meaning(t, owner, args) = [i \in 1..Len(t) |-> means[owner][t[i]]]
      /\ Meaning(t, owner, args) \in Seq(Classes \cup {NoName})
  BY <1>1, MeaningIs
<1>4. r = found
  <2>1. CASE walker = "names" /\ r = found
    BY <2>1
  <2>2. ASSUME NEW param \in ParamFor(Head(type), found.uri), r = Substituted(found, param, type, uri)
        PROVE  r = found
    <3>1. param \in ParamNames \cup {NoName}
      BY <2>2, ParamIs
    <3> HIDE DEF t
    <3>2. Substituted(found, param, type, uri) = found
      BY <1>2, <3>1, KeepsPlain
    <3>3. QED
      BY <2>2, <3>2
  <2>3. QED
    BY <2>1, <2>2, MemberIs
<1>5. \A i \in 1..Len(t) : t[i] \in ClassNames => means[owner][t[i]] \in Classes
  BY <1>1, SpelledStands
<1> HIDE DEF t
<1> DEFINE m == [i \in 1..Len(t) |-> means[owner][t[i]]]
<1>6. Len(m) = Len(t) /\ m # <<>> /\ Head(m) = m[1] /\ \A i \in 1..Len(t) : m[i] = means[owner][t[i]]
  BY <1>2
<1> HIDE DEF m
<1>7. Stands(t, owner, m)
  BY <1>2, <1>5, <1>6 DEF Stands
<1>8. HeadStands(t, owner, m)
  BY <1>2, <1>5, <1>6 DEF HeadStands
<1>9. QED
  BY <1>1, <1>3, <1>4, <1>7, <1>8 DEF RightSoFar, m, t

(* The arguments of a type that stands do so too.                          *)
LEMMA ArgumentsStand ==
  ASSUME NEW type, NEW uri, NEW types \in Seq(Classes \cup {NoName}), type # <<>>, types # <<>>,
         Stands(type, uri, types)
  PROVE  Tail(type) \in Seq(TypeNames) /\ Stands(Tail(type), uri, Tail(types))
<1> DEFINE a == Tail(type)
           b == Tail(types)
<1>1. type \in Seq(TypeNames) /\ Len(type) = Len(types) /\ Len(type) \in Nat /\ Len(type) > 0
  BY DEF Stands
<1>2. /\ a \in Seq(TypeNames) /\ Len(a) = Len(type) - 1 /\ Len(b) = Len(a)
      /\ \A i \in 1..Len(a) : a[i] = type[i + 1] /\ b[i] = types[i + 1] /\ i + 1 \in 1..Len(type)
  BY <1>1
<1> HIDE DEF a, b
<1>3. Stands(a, uri, b)
  BY <1>2 DEF Stands
<1>4. QED
  BY <1>2, <1>3 DEF a, b

(* A type that stands and names a class.                                   *)
LEMMA StandsIsRight ==
  ASSUME NEW type, NEW uri \in Files, NEW types \in Seq(Classes \cup {NoName}), NEW gaps,
         Stands(type, uri, types), type # <<>>, Head(type) \in ClassNames
  PROVE  RightSoFar(type, uri, types, gaps)
<1>1. type \in Seq(TypeNames) /\ Len(type) = Len(types)
  BY DEF Stands
<1>2. 1 \in 1..Len(type) /\ Head(type) = type[1] /\ types # <<>> /\ Head(types) = types[1]
  BY <1>1
<1>3. HeadStands(type, uri, types)
  BY <1>2 DEF Stands, HeadStands
<1>4. QED
  BY <1>3 DEF RightSoFar

(* The parameter of the class that is read.                                *)
LEMMA OwnParameterRead ==
  ASSUME ProgramInv, NEW type, NEW uri \in Files, NEW types \in Seq(Classes \cup {NoName}),
         types # <<>>, type # <<>>, Stands(type, uri, types), NEW c \in Classes, Head(types) = c,
         means[uri][Head(type)] = c, Head(type) \in ClassNames,
         HasMember(c), Mentions(member_type[c], c),
         FoundMember(Head(type), uri) = {[type |-> member_type[c], uri |-> c]},
         NEW r \in MemberTypeOn(type, uri), NEW gaps, Len(member_type[c]) > 1 => "apart" \in gaps,
         r.type # Untyped, Head(r.type) \in ClassNames
  PROVE  RightSoFar(r.type, r.uri, Meaning(member_type[c], c, Tail(types)), gaps)
<1> DEFINE t == member_type[c]
           p == TypeParam[c]
           found == [type |-> t, uri |-> c]
           args == Tail(type)
<1>1. t # Untyped /\ IsType(t, Params(c)) /\ c \in Files /\ Tail(types) \in Seq(Classes \cup {NoName})
  BY ProgramIs DEF HasMember
<1>2. /\ p \in ParamNames /\ p \notin TypeNames /\ Last(t) = p /\ Last(t) = t[Len(t)]
      /\ Len(t) \in Nat /\ Len(t) > 0 /\ Head(t) = t[1] /\ t \in Seq(TypeNames \cup Params(c))
      /\ Len(t) > 1 => Head(t) \in ClassNames
  BY <1>1, TypeIs DEF Mentions, IsType
<1>3. Meaning(t, c, Tail(types)) \in Seq(Classes \cup {NoName})
      /\ (Len(t) = 1 => Meaning(t, c, Tail(types)) = Tail(types))
      /\ (Len(t) > 1 => /\ Meaning(t, c, Tail(types)) # <<>>
                        /\ Head(Meaning(t, c, Tail(types))) = means[c][Head(t)])
  BY <1>1, MeaningIs
<1>4. args \in Seq(TypeNames) /\ Stands(args, uri, Tail(types))
  BY ArgumentsStand
<1>5. NameIn[c] = Head(type)
  BY ProgramIs, ChainAssumption DEF TypeNames
<1>6. \/ r = found
      \/ r.type # Untyped /\ r = Substituted(found, p, type, uri)
  <2>1. ASSUME NEW param \in ParamFor(Head(type), found.uri)
        PROVE  param = p
    BY <1>5, <2>1, ParamIs
  <2>2. QED
    BY <2>1, MemberIs
<1>7. \A i \in 1..Len(t) : t[i] \in ClassNames => means[c][t[i]] \in Classes
  BY <1>1, SpelledStands
<1> HIDE DEF t
<1>8. CASE Len(t) > 1
  <2>1. r.uri = c /\ r.type # <<>> /\ Head(r.type) = Head(t)
    <3>1. CASE r = found
      BY <1>2, <1>8, <3>1
    <3>2. CASE r = Substituted(found, p, type, uri)
      <4>1. Head(t) \in TypeNames
        BY <1>2, <1>8 DEF TypeNames
      <4>2. t \in Seq(TypeNames \cup Params(c)) /\ p \in ParamNames /\ Last(t) = p
            /\ Tail(type) \in Seq(TypeNames)
        BY <1>2, <1>4
      <4>3. r = Substituted([type |-> t, uri |-> c], p, type, uri)
        BY <3>2
      <4> HIDE DEF p
      <4>4. LET s == Substituted([type |-> t, uri |-> c], p, type, uri)
            IN  s.uri = c /\ s.type # <<>> /\ Head(s.type) = Head(t)
        BY <1>8, <4>1, <4>2, FillsIn
      <4>5. QED
        BY <4>3, <4>4
    <3>3. QED
      BY <1>6, <3>1, <3>2
  <2>2. HeadStands(r.type, c, Meaning(t, c, Tail(types)))
    BY <1>2, <1>3, <1>7, <1>8, <2>1 DEF HeadStands
  <2>3. QED
    BY <1>1, <1>3, <1>8, <2>1, <2>2 DEF RightSoFar, t
<1>9. CASE Len(t) = 1
  <2>1. t = <<p>>
    BY <1>2, <1>9
  <2>2. r # found
    <3>1. Head(<<p>>) = p /\ p \notin ClassNames
      BY <1>2 DEF TypeNames
    <3>2. QED
      BY <2>1, <3>1
  <2>3. r = [type |-> args, uri |-> uri] /\ args # <<>>
    <3>1. r = Substituted([type |-> <<p>>, uri |-> c], p, type, uri) /\ r.type # Untyped
      BY <1>6, <2>1, <2>2
    <3>2. p \in ParamNames /\ p \in ParamNames \cup {NoName} /\ Tail(type) \in Seq(TypeNames)
      BY <1>2, <1>4
    <3> HIDE DEF p
    <3>3. IsBound(r, p, c, p, type, uri)
      BY <3>1, <3>2 DEF IsBound
    <3>4. QED
      BY <3>2, <3>3, TakesArgument DEF IsArgument
  <2>4. RightSoFar(args, uri, Tail(types), gaps)
    BY <1>1, <1>4, <2>3, StandsIsRight
  <2>5. QED
    BY <1>3, <1>9, <2>3, <2>4 DEF t
<1>10. Len(t) > 1 \/ Len(t) = 1
  <2>1. Len(t) \in Nat /\ Len(t) > 0
    BY <1>2
  <2>2. \A n \in Nat : n > 0 => n > 1 \/ n = 1
    OBVIOUS
  <2>3. QED
    BY <2>1, <2>2
<1>11. QED
  BY <1>8, <1>9, <1>10

-----------------------------------------------------------------------------
(* An inherited parameter.                                                 *)

LEMMA TailIs ==
  ASSUME NEW X, NEW q \in Seq(X), Len(q) > 1
  PROVE  /\ Tail(q) \in Seq(X) /\ Len(q) \in Nat /\ Len(Tail(q)) = Len(q) - 1 /\ Tail(q) # <<>>
         /\ \A i \in 1..Len(Tail(q)) : Tail(q)[i] = q[i + 1] /\ i + 1 \in 1..Len(q)
         /\ Head(Tail(q)) = q[2] /\ Head(Tail(q)) = Tail(q)[1]
<1> DEFINE a == Tail(q)
<1>1. Len(q) \in Nat /\ q # <<>>
  OBVIOUS
<1>2. a \in Seq(X) /\ Len(a) = Len(q) - 1
  BY <1>1
<1>3. \A i \in 1..Len(a) : a[i] = q[i + 1] /\ i + 1 \in 1..Len(q)
  BY <1>1, <1>2
<1> HIDE DEF a
<1>4. Len(a) \in Nat /\ Len(a) > 0
  BY <1>1, <1>2
<1>5. a # <<>> /\ 1 \in 1..Len(a)
  BY <1>4
<1>6. Head(a) = a[1]
  BY <1>2, <1>5
<1>7. a[1] = q[2]
  BY <1>3, <1>5
<1>8. QED
  BY <1>1, <1>2, <1>3, <1>5, <1>6, <1>7 DEF a

LEMMA MeaningOf ==
  ASSUME ProgramInv, NEW c \in Classes, NEW t, IsType(t, Params(c)),
         NEW b \in Seq(Classes \cup {NoName})
  PROVE  /\ ~Mentions(t, c) => Meaning(t, c, b) = [i \in 1..Len(t) |-> means[c][t[i]]]
         /\ Mentions(t, c) => Meaning(t, c, b) = [i \in 1..(Len(t) - 1) |-> means[c][t[i]]] \o b
<1>1. t # Untyped
  BY TypeIs
<1>2. ~Mentions(t, c) => Meaning(t, c, b) = [i \in 1..Len(t) |-> means[c][t[i]]]
  BY <1>1, MeaningIs
<1>3. Mentions(t, c) => Meaning(t, c, b) = [i \in 1..(Len(t) - 1) |-> means[c][t[i]]] \o b
  BY <1>1, MeaningIs
<1>4. QED
  BY <1>2, <1>3

LEMMA TailOfOne ==
  ASSUME NEW X, NEW f \in Seq(X), NEW b \in Seq(X), Len(f) = 1
  PROVE  Tail(f \o b) = b
<1>1. Len(b) \in Nat
  OBVIOUS
<1> DEFINE g == f \o b
<1>2. g \in Seq(X) /\ Len(g) = Len(f) + Len(b) /\ Len(g) = 1 + Len(b)
  <2>1. \A p, q \in Seq(X) : p \o q \in Seq(X) /\ Len(p \o q) = Len(p) + Len(q)
    OBVIOUS
  <2>2. g \in Seq(X) /\ Len(g) = Len(f) + Len(b)
    BY <2>1
  <2> HIDE DEF g
  <2>3. QED
    BY <2>2
<1>3. \A i \in 1..Len(b) : g[i + 1] = b[i]
  BY <1>1, <1>2
<1> HIDE DEF g
<1>4. Tail(g) \in Seq(X) /\ Len(Tail(g)) = Len(b) /\ \A i \in 1..Len(b) : Tail(g)[i] = b[i]
  BY <1>1, <1>2, <1>3
<1>5. Tail(g) = b
  BY <1>4
<1>6. QED
  BY <1>5 DEF g

(* The parameter of the direct supertype that a method is inherited from.  *)
LEMMA InheritedParameterRead ==
  ASSUME ProgramInv, NEW type, NEW uri \in Files, NEW types \in Seq(Classes \cup {NoName}),
         types # <<>>, type # <<>>, Stands(type, uri, types), NEW c \in Classes, Head(types) = c,
         NEW t \in Seq(TypeNames \cup Params(c)), super_type[c] = t, t # Untyped,
         walker # "names", Len(t) > 1,
         NEW file, FoundMember(Head(type), uri) = {[type |-> Tail(t), uri |-> file]},
         ~Mentions(t, c) => file = c,
         NEW r \in MemberTypeOn(type, uri), NEW gaps, Mentions(t, c) /\ Len(t) > 2 => "apart" \in gaps,
         Mentions(t, c) /\ Len(t) > 2 => file = c,
         r.type # Untyped, Head(r.type) \in ClassNames
  PROVE  RightSoFar(r.type, r.uri, Tail(Meaning(t, c, Tail(types))), gaps)
<1> DEFINE s == Tail(t)
           m == Meaning(t, c, Tail(types))
           args == Tail(type)
           names == TypeNames \cup Params(c)
<1>1. IsType(t, Params(c)) /\ c \in Files /\ Tail(types) \in Seq(Classes \cup {NoName})
  BY ProgramIs
<1>2. /\ s \in Seq(TypeNames \cup Params(c)) /\ Len(t) \in Nat /\ Len(s) = Len(t) - 1 /\ s # <<>>
      /\ \A i \in 1..Len(s) : s[i] = t[i + 1] /\ i + 1 \in 1..Len(t)
      /\ Head(s) = s[1] /\ Head(s) = t[2]
  <2>1. t \in Seq(names)
    OBVIOUS
  <2> HIDE DEF names
  <2>2. QED
    BY <2>1, TailIs DEF names
<1>3. args \in Seq(TypeNames) /\ Stands(args, uri, Tail(types))
  BY ArgumentsStand
<1>4. PICK param \in ParamFor(Head(type), file) :
        r = Substituted([type |-> s, uri |-> file], param, type, uri)
  <2> DEFINE found == [type |-> s, uri |-> file]
  <2>1. FoundMember(Head(type), uri) = {found}
    OBVIOUS
  <2> HIDE DEF found
  <2>2. \E param \in ParamFor(Head(type), found.uri) : r = Substituted(found, param, type, uri)
    BY <2>1, MemberIs
  <2>3. QED
    BY <2>2 DEF found
<1>5. param \in ParamNames \cup {NoName}
  BY ParamIs
<1>6. \A i \in 1..Len(t) : t[i] \in ClassNames => means[c][t[i]] \in Classes
  BY SpelledStands
<1>7. m \in Seq(Classes \cup {NoName})
  BY <1>1, MeaningIs
<1>m. /\ ~Mentions(t, c) => m = [i \in 1..Len(t) |-> means[c][t[i]]]
      /\ Mentions(t, c) => m = [i \in 1..(Len(t) - 1) |-> means[c][t[i]]] \o Tail(types)
  <2> DEFINE b == Tail(types)
  <2>1. b \in Seq(Classes \cup {NoName})
    BY <1>1
  <2> HIDE DEF b
  <2>2. ~Mentions(t, c) => Meaning(t, c, b) = [i \in 1..Len(t) |-> means[c][t[i]]]
    BY <1>1, <2>1, MeaningOf
  <2>3. Mentions(t, c) => Meaning(t, c, b) = [i \in 1..(Len(t) - 1) |-> means[c][t[i]]] \o b
    BY ONLY <1>1, <2>1, ProgramInv, c \in Classes, MeaningOf
  <2>4. QED
    BY <2>2, <2>3 DEF b
<1> HIDE DEF s, m
<1>8. CASE ~Mentions(t, c)
  <2>1. t \in Seq(TypeNames) /\ file = c
    BY <1>1, <1>8, TypeIs
  <2>2. s \in Seq(TypeNames)
    BY <2>1 DEF s
  <2>3. r = [type |-> s, uri |-> c]
    BY <1>2, <1>4, <1>5, <2>1, <2>2, KeepsPlain
  <2>4. m = [i \in 1..Len(t) |-> means[c][t[i]]]
    BY <1>8, <1>m
  <2>5. /\ Len(m) = Len(t) /\ Len(Tail(m)) = Len(s) /\ Tail(m) \in Seq(Classes \cup {NoName})
        /\ \A i \in 1..Len(s) : Tail(m)[i] = means[c][t[i + 1]]
    <3>1. Len(m) = Len(t) /\ m # <<>>
      BY <1>2, <1>7, <2>4
    <3>2. Tail(m) \in Seq(Classes \cup {NoName}) /\ Len(Tail(m)) = Len(m) - 1
          /\ \A i \in 1..Len(s) : Tail(m)[i] = m[i + 1]
      BY <1>2, <1>7, <3>1
    <3>3. \A i \in 1..Len(s) : m[i + 1] = means[c][t[i + 1]]
      BY <1>2, <2>4
    <3>4. QED
      BY <1>2, <3>1, <3>2, <3>3
  <2>6. \A i \in 1..Len(s) : s[i] \in TypeNames
    BY <2>2
  <2>7. Stands(s, c, Tail(m))
    BY <1>2, <1>6, <2>2, <2>5, <2>6 DEF Stands
  <2>8. Head(s) \in ClassNames /\ r.type = s /\ r.uri = c
    BY <2>3
  <2>9. QED
    BY <1>1, <1>2, <2>5, <2>7, <2>8, StandsIsRight DEF m
<1>9. ASSUME Mentions(t, c)
      PROVE  /\ TypeParam[c] \in ParamNames /\ TypeParam[c] \notin TypeNames
             /\ t[Len(t)] = TypeParam[c]
             /\ m = [i \in 1..(Len(t) - 1) |-> means[c][t[i]]] \o Tail(types)
             /\ \A i \in 1..(Len(t) - 1) : t[i] \in TypeNames
  <2>1. /\ TypeParam[c] \in ParamNames /\ TypeParam[c] \notin TypeNames
        /\ t[Len(t)] = TypeParam[c]
    BY <1>1, <1>9, TypeIs DEF Mentions
  <2>2. \A i \in 1..(Len(t) - 1) : t[i] \in TypeNames
    BY <1>1 DEF IsType
  <2>3. QED
    BY <1>9, <1>m, <2>1, <2>2
<1>10. CASE Mentions(t, c) /\ Len(t) > 2
  <2>1. /\ Len(s) > 1 /\ Last(s) = TypeParam[c] /\ Head(s) \in TypeNames
        /\ TypeParam[c] \in ParamNames /\ file = c
    BY <1>2, <1>9, <1>10 DEF Last
  <2>2. s \in Seq(names) /\ args \in Seq(TypeNames)
    BY <1>2, <1>3
  <2>3. r.uri = c /\ r.type # <<>> /\ Head(r.type) = Head(s)
    <3>1. CASE param = TypeParam[c]
      <4> HIDE DEF names
      <4>1. LET u == Substituted([type |-> s, uri |-> c], param, type, uri)
            IN  u.uri = c /\ u.type # <<>> /\ Head(u.type) = Head(s)
        BY <2>1, <2>2, <3>1, FillsIn
      <4>2. QED
        BY <1>4, <2>1, <4>1
    <3>2. CASE param # TypeParam[c]
      <4>1. Head(s) \notin ParamNames /\ Head(s) # param
        BY <1>5, <2>1, ChainAssumption
      <4>2. AnchorOf([type |-> s, uri |-> c], param, type, uri) = c
        BY <4>1 DEF AnchorOf
      <4>3. Substituted([type |-> s, uri |-> c], param, type, uri) = [type |-> s, uri |-> c]
        BY <2>1, <3>2, <4>1, <4>2 DEF Substituted
      <4>4. QED
        BY <1>2, <1>4, <2>1, <4>3
    <3>3. QED
      BY <3>1, <3>2
  <2>4. /\ Tail(m) \in Seq(Classes \cup {NoName}) /\ Tail(m) # <<>>
        /\ Head(Tail(m)) = means[c][Head(s)]
    <3> DEFINE f == [i \in 1..(Len(t) - 1) |-> means[c][t[i]]]
               b == Tail(types)
    <3>1. m = f \o b /\ Len(f) = Len(t) - 1 /\ f \in Seq(Classes \cup {NoName})
      <4>1. \A i \in 1..(Len(t) - 1) : t[i] \in TypeNames
        BY <1>9, <1>10
      <4>2. \A i \in 1..(Len(t) - 1) : means[c][t[i]] \in Classes \cup {NoName}
        BY <1>1, <4>1, ProgramIs
      <4>3. f \in Seq(Classes \cup {NoName}) /\ Len(f) = Len(t) - 1
        BY <1>2, <4>2
      <4>4. QED
        BY <1>9, <1>10, <4>3
    <3>2. f[2] = means[c][t[2]] /\ Len(f) \in Nat /\ Len(f) > 1
      BY <1>2, <1>10, <3>1
    <3> HIDE DEF f, b
    <3>3. b \in Seq(Classes \cup {NoName})
      BY <1>1 DEF b
    <3>4. Len(m) > 1 /\ m[2] = f[2]
      BY <3>1, <3>2, <3>3
    <3>5. Tail(m) \in Seq(Classes \cup {NoName}) /\ Tail(m) # <<>> /\ Head(Tail(m)) = m[2]
      <4> DEFINE X == Classes \cup {NoName}
      <4>1. m \in Seq(X)
        BY <1>7
      <4> HIDE DEF X
      <4>2. QED
        BY <3>4, <4>1, TailIs DEF X
    <3>6. QED
      BY <1>2, <3>2, <3>4, <3>5
  <2>5. means[c][Head(s)] \in Classes
    <3>1. Head(s) \in ClassNames /\ Head(s) = t[2] /\ 2 \in 1..Len(t)
      BY <1>2, <1>10, <2>3
    <3>2. QED
      BY <1>6, <3>1
  <2>6. HeadStands(r.type, c, Tail(m))
    BY <2>3, <2>4, <2>5 DEF HeadStands
  <2>7. QED
    BY <1>1, <1>10, <2>3, <2>4, <2>6 DEF RightSoFar, m
<1>11. CASE Mentions(t, c) /\ Len(t) = 2
  <2>1. s = <<TypeParam[c]>> /\ TypeParam[c] \in ParamNames
    <3>1. Len(s) = 1 /\ s[1] = TypeParam[c]
      BY <1>2, <1>9, <1>11
    <3>2. QED
      BY <1>2, <1>9, <1>11, <3>1
  <2>2. r = [type |-> args, uri |-> uri] /\ args # <<>>
    <3> DEFINE p == TypeParam[c]
    <3>1. p \in ParamNames /\ Tail(type) \in Seq(TypeNames)
      BY <1>3, <2>1
    <3>2. r = Substituted([type |-> <<p>>, uri |-> file], param, type, uri)
      BY <1>4, <2>1
    <3> HIDE DEF p
    <3>3. IsBound(r, p, file, param, type, uri)
      BY <3>1, <3>2 DEF IsBound
    <3>4. QED
      BY <1>5, <3>1, <3>3, TakesArgument DEF IsArgument
  <2>3. Tail(m) = Tail(types)
    <3> DEFINE f == [i \in 1..(Len(t) - 1) |-> means[c][t[i]]]
               b == Tail(types)
    <3>1. m = f \o b /\ Len(f) = 1 /\ f \in Seq(Classes \cup {NoName})
      <4>1. \A i \in 1..(Len(t) - 1) : t[i] \in TypeNames
        BY <1>9, <1>11
      <4>2. \A i \in 1..(Len(t) - 1) : means[c][t[i]] \in Classes \cup {NoName}
        BY <1>1, <4>1, ProgramIs
      <4>3. f \in Seq(Classes \cup {NoName}) /\ Len(f) = 1
        BY <1>2, <1>11, <4>2
      <4>4. QED
        BY <1>9, <1>11, <4>3
    <3>2. b \in Seq(Classes \cup {NoName})
      BY <1>1
    <3> HIDE DEF f, b
    <3>3. Tail(f \o b) = b
      BY <3>1, <3>2, TailOfOne
    <3>4. QED
      BY <3>1, <3>3 DEF b
  <2>4. RightSoFar(args, uri, Tail(types), gaps)
    BY <1>1, <1>3, <2>2, StandsIsRight
  <2>5. QED
    BY <2>2, <2>3, <2>4 DEF m
<1>12. Len(t) > 2 \/ Len(t) = 2
  <2>1. \A n \in Nat : n > 1 => n > 2 \/ n = 2
    OBVIOUS
  <2>2. QED
    BY <1>2, <2>1
<1>13. QED
  BY <1>8, <1>10, <1>11, <1>12

-----------------------------------------------------------------------------
(* Every read keeps it right.                                              *)

LEMMA ReadKept ==
  ASSUME ProgramInv, ReadInv, ReadMember
  PROVE  ReadInv'
<1> SUFFICES ASSUME doubts' \subseteq {"apart"}, NamesAClass'
             PROVE  RightSoFar(current_type, current_uri, meant, doubts)'
  BY DEF ReadInv
<1> DEFINE c == Head(meant)
           level == Min(Levels(meant))
           seen == Seen(meant)[level]
           owner == Head(seen)
           t == member_type[owner]
<1>1. /\ HeadStands(current_type, current_uri, meant) /\ current_uri \in Files
      /\ meant \in Seq(Classes \cup {NoName}) /\ Levels(meant) # {}
      /\ Head(current_type) \in ClassNames
      /\ meant' = Meaning(t, owner, Tail(seen))
      /\ Doubts(level, owner, c) \subseteq doubts'
      /\ "apart" \notin doubts => Stands(current_type, current_uri, meant)
      /\ \E r \in MemberTypeOn(current_type, current_uri) :
           current_type' = r.type /\ current_uri' = r.uri
  BY ReadIs
<1>2. c \in Classes /\ means[current_uri][Head(current_type)] = c /\ meant # <<>> /\ current_type # <<>>
  BY <1>1 DEF HeadStands
<1>3. /\ level \in 0..MaxWalkDepth
      /\ seen \in Seq(Classes \cup {NoName}) /\ seen # <<>>
      /\ owner \in Classes /\ HasMember(owner) /\ owner = Ancestor(c)[level]
      /\ level = 0 <=> HasMember(c)
      /\ level = 0 => seen = meant
      /\ level # 0 => Inherits(c) /\ Min(LevelsAbove(c)) = level
      /\ level = 1 => /\ super_type[c] # Untyped /\ owner = Parent(c)
                      /\ seen = Meaning(super_type[c], c, Tail(meant))
  BY <1>1, <1>2, LevelIs
<1>4. PICK r \in MemberTypeOn(current_type, current_uri) :
        current_type' = r.type /\ current_uri' = r.uri
  BY <1>1
<1>5. r.type # Untyped /\ Head(r.type) \in ClassNames
  BY <1>4 DEF NamesAClass, Untyped, ClassNames, Classes
<1>6. doubts \subseteq doubts'
  BY DEF ReadMember
<1>7. FoundMember(Head(current_type), current_uri) =
        {IF HasMember(c) THEN [type |-> member_type[c], uri |-> c] ELSE Inherited(c)}
  <2> HIDE DEF c
  <2>1. HasMember(c) \/ Inherits(c)
    BY <1>3
  <2>2. QED
    BY <1>2, <2>1, FoundIs
<1>8. Tail(seen) \in Seq(Classes \cup {NoName})
  BY <1>3
<1> HIDE DEF c, level, seen, owner, t
<1>9. level = 0 => owner = c
  BY <1>3 DEF owner, c
<1>10. RightSoFar(r.type, r.uri, meant', doubts')
  <2>1. CASE ~Mentions(t, owner)
    <3>1. FoundMember(Head(current_type), current_uri) = {[type |-> t, uri |-> owner]}
      <4>1. CASE level = 0
        BY <1>3, <1>7, <1>9, <4>1 DEF t
      <4>2. CASE level # 0
        <5>1. Inherited(c) = [type |-> t, uri |-> owner]
          BY <1>2, <1>3, <2>1, <4>2, InheritedIs DEF t
        <5>2. QED
          BY <1>3, <1>7, <4>2, <5>1
      <4>3. QED
        BY <4>1, <4>2
    <3>2. QED
      BY <1>1, <1>3, <1>8, <2>1, <3>1, PlainRead DEF t
  <2>2. ASSUME Mentions(t, owner)
        PROVE  /\ level = 1 => kind # "field"
               /\ ~(level > 1)
               /\ Len(t) > 1 => "apart" \in doubts' /\ ~(level > 0 /\ kind = "method")
               /\ Stands(current_type, current_uri, meant)
               /\ level = 1 /\ Mentions(super_type[c], c) /\ Len(super_type[c]) > 2
                    => "apart" \in doubts'
    <3> DEFINE d == doubts'
    <3>1. d \in SUBSET {"apart"} /\ Doubts(level, owner, c) \subseteq d /\ doubts \subseteq d
      BY <1>1, <1>6
    <3>2. Mentions(member_type[owner], owner)
      BY <2>2 DEF t
    <3> HIDE DEF d
    <3>3. /\ level = 1 => kind # "field"
          /\ ~(level > 1)
          /\ Len(member_type[owner]) > 1 => "apart" \in d /\ ~(level > 0 /\ kind = "method")
          /\ "apart" \notin doubts
          /\ level = 1 /\ Mentions(super_type[c], c) /\ Len(super_type[c]) > 2 => "apart" \in d
      BY <3>1, <3>2, DoubtsAre
    <3>4. QED
      BY <1>1, <3>3 DEF d, t
  <2>3. CASE Mentions(t, owner) /\ level = 0
    <3>1. /\ t = member_type[c] /\ owner = c /\ seen = meant /\ HasMember(c)
          /\ FoundMember(Head(current_type), current_uri) = {[type |-> t, uri |-> c]}
      BY <1>3, <1>7, <1>9, <2>3 DEF t
    <3>2. Stands(current_type, current_uri, meant) /\ (Len(t) > 1 => "apart" \in doubts')
      BY <2>2, <2>3
    <3>3. meant' = Meaning(member_type[c], c, Tail(meant)) /\ Mentions(member_type[c], c)
      BY <1>1, <2>3, <3>1
    <3>4. Head(meant) = c
      BY DEF c
    <3>5. RightSoFar(r.type, r.uri, Meaning(member_type[c], c, Tail(meant)), doubts')
      BY <1>1, <1>2, <1>5, <3>1, <3>2, <3>3, <3>4, OwnParameterRead
    <3>6. QED
      BY <3>3, <3>5
  <2>4. CASE Mentions(t, owner) /\ level # 0
    <3> DEFINE s == super_type[c]
               file == IF Tail(s) # t THEN c ELSE owner
    <3>1. level = 1 /\ kind = "method" /\ walker # "names"
      <4>1. level = 1
        BY <1>3, <2>2, <2>4, ChainAssumption
      <4>2. QED
        BY <2>2, <2>4, <4>1 DEF ProgramInv
    <3>2. t # Untyped /\ IsType(t, Params(owner))
      BY <1>3, ProgramIs DEF HasMember, t
    <3>3. Len(t) = 1
      <4>1. ~(Len(t) > 1)
        BY <2>2, <2>4, <3>1
      <4>2. Len(t) \in Nat /\ Len(t) > 0
        BY <1>3, <3>2, TypeIs
      <4>3. \A n \in Nat : n > 0 /\ ~(n > 1) => n = 1
        OBVIOUS
      <4>4. QED
        BY <4>1, <4>2, <4>3
    <3>4. Len(s) > 1 /\ Inherited(c) = [type |-> Tail(s), uri |-> file]
      BY <1>2, <1>3, <2>4, <3>1, <3>3, InheritedIs DEF t
    <3>5. s # Untyped /\ IsType(s, Params(c))
      BY <1>2, <1>3, <3>1, ProgramIs
    <3>6. t = <<TypeParam[owner]>> /\ TypeParam[owner] \notin TypeNames
      <4>1. t[1] = TypeParam[owner] /\ TypeParam[owner] \notin TypeNames
        BY <1>3, <2>4, <3>2, <3>3, TypeIs
      <4>2. t \in Seq(TypeNames \cup Params(owner))
        BY <3>2 DEF IsType
      <4>3. QED
        BY <3>3, <4>1, <4>2
    <3>7. ~Mentions(s, c) => file = c
      <4>1. ASSUME ~Mentions(s, c)
            PROVE  Tail(s) # t
        <5>1. s \in Seq(TypeNames)
          BY <1>2, <3>5, <4>1, TypeIs
        <5> HIDE DEF s
        <5>2. Tail(s)[1] \in TypeNames
          <6>1. Head(Tail(s)) = s[2] /\ Head(Tail(s)) = Tail(s)[1] /\ 2 \in 1..Len(s)
            BY <3>4, <5>1, TailIs
          <6>2. QED
            BY <5>1, <6>1
        <5>3. t[1] \notin TypeNames
          BY <3>6
        <5>4. QED
          BY <5>2, <5>3
      <4>2. QED
        BY <4>1
    <3>8. Len(s) > 2 => file = c
      <4>1. ASSUME Len(s) > 2
            PROVE  Tail(s) # t
        <5>1. s \in Seq(TypeNames \cup Params(c))
          BY <3>5 DEF IsType
        <5> DEFINE X == TypeNames \cup Params(c)
        <5>2. s \in Seq(X)
          BY <5>1
        <5> HIDE DEF s, X
        <5>3. Len(Tail(s)) = Len(s) - 1 /\ Len(s) \in Nat
          BY <3>4, <5>2, TailIs
        <5>4. QED
          BY <3>3, <4>1, <5>3
      <4>2. QED
        BY <4>1
    <3>9. FoundMember(Head(current_type), current_uri) = {[type |-> Tail(s), uri |-> file]}
      BY <1>3, <1>7, <2>4, <3>4
    <3>10. meant' = Tail(seen) /\ seen = Meaning(s, c, Tail(meant))
      <4>1. Meaning(t, owner, Tail(seen)) = Tail(seen)
        <5> DEFINE a == Tail(seen)
        <5>1. a \in Seq(Classes \cup {NoName})
          BY <1>8
        <5> HIDE DEF a
        <5>2. Meaning(t, owner, a) = a
          BY <1>3, <2>4, <3>2, <3>3, <5>1, MeaningIs
        <5>3. QED
          BY <5>2 DEF a
      <4>2. QED
        BY <1>1, <1>3, <3>1, <4>1
    <3>11. Stands(current_type, current_uri, meant)
           /\ (Mentions(s, c) /\ Len(s) > 2 => "apart" \in doubts')
      BY <2>2, <2>4, <3>1
    <3>12. super_type[c] = s /\ s \in Seq(TypeNames \cup Params(c)) /\ Head(meant) = c
      BY <3>5 DEF IsType, c
    <3> HIDE DEF s, file
    <3>13. RightSoFar(r.type, r.uri, Tail(Meaning(s, c, Tail(meant))), doubts')
      BY <1>1, <1>2, <1>5, <3>1, <3>4, <3>5, <3>7, <3>8, <3>9, <3>11, <3>12, InheritedParameterRead
    <3>14. QED
      BY <3>10, <3>13
  <2>5. QED
    BY <2>1, <2>3, <2>4
<1>11. means' = means
  BY DEF ReadMember, program
<1>12. QED
  BY <1>4, <1>10, <1>11 DEF RightSoFar, HeadStands, Stands

(* The types a program may give its classes.                               *)
LEMMA TypedIs ==
  ASSUME NEW those \in SUBSET Classes, NEW types, NEW f \in Typed(those, types)
  PROVE  /\ \A c \in Classes : f[c] \in types[c] \cup {Untyped}
         /\ f \in [Classes -> (UNION {types[c] : c \in Classes}) \cup {Untyped}]
<1>1. PICK g \in [those -> UNION {types[c] : c \in those}] :
        /\ \A c \in those : g[c] \in types[c]
        /\ f = [c \in Classes |-> IF c \in those THEN g[c] ELSE Untyped]
  BY DEF Typed
<1>2. \A c \in Classes : f[c] \in types[c] \cup {Untyped}
  BY <1>1
<1>3. f \in [Classes -> (UNION {types[c] : c \in Classes}) \cup {Untyped}]
  <2> DEFINE Y == (UNION {types[c] : c \in Classes}) \cup {Untyped}
  <2>1. ASSUME NEW c \in Classes
        PROVE  f[c] \in Y
    <3>1. \A x \in types[c] : x \in Y
      BY DEF Y
    <3>2. f[c] \in types[c] \/ f[c] = Untyped
      BY <1>2
    <3>3. Untyped \in Y
      BY DEF Y
    <3>4. QED
      BY <3>1, <3>2, <3>3
  <2> HIDE DEF Y
  <2>2. DOMAIN f = Classes /\ f = [c \in Classes |-> f[c]]
    BY <1>1
  <2>3. QED
    BY <2>1, <2>2 DEF Y
<1>4. QED
  BY <1>2, <1>3

LEMMA InitChain == ChainInit => ChainInv
<1> SUFFICES ASSUME ChainInit
             PROVE  ChainInv
  OBVIOUS
<1>1. ProgramInv
  <2>1. PICK declaring \in SUBSET Classes : member_type \in Typed(declaring, MemberTypes)
    BY DEF ChainInit
  <2>2. PICK extending \in SUBSET Classes : super_type \in Typed(extending, SuperTypes)
    BY DEF ChainInit
  <2>3. /\ \A c \in Classes : member_type[c] \in MemberTypes[c] \cup {Untyped}
        /\ member_type \in [Classes -> (UNION {MemberTypes[c] : c \in Classes}) \cup {Untyped}]
    BY <2>1, TypedIs
  <2>4. /\ \A c \in Classes : super_type[c] \in SuperTypes[c] \cup {Untyped}
        /\ super_type \in [Classes -> (UNION {SuperTypes[c] : c \in Classes}) \cup {Untyped}]
    BY <2>2, TypedIs
  <2>5. QED
    BY <2>3, <2>4 DEF ChainInit, ProgramInv
<1>2. ASSUME NamesAClass
      PROVE  RightSoFar(current_type, current_uri, meant, doubts)
  <2> DEFINE t == current_type
  <2>1. /\ IsType(t, {}) /\ current_uri = CallerFile /\ CallerFile \in Files
        /\ meant = [i \in DOMAIN t |-> means[CallerFile][t[i]]]
        /\ \A n \in Range(t) \cap ClassNames : means[CallerFile][n] # NoName
    BY ChainAssumption DEF ChainInit, Files
  <2>2. t \in Seq(TypeNames) /\ t # <<>> /\ DOMAIN t = 1..Len(t) /\ Len(t) \in Nat
    BY <2>1 DEF IsType
  <2>3. /\ \A i \in 1..Len(t) : /\ t[i] \in TypeNames
                                /\ means[CallerFile][t[i]] \in Classes \cup {NoName}
        /\ \A i \in 1..Len(t) : t[i] \in ClassNames => means[CallerFile][t[i]] \in Classes
    <3>1. means \in [Files -> [TypeNames -> Classes \cup {NoName}]]
      BY <1>1, ChainAssumption DEF ProgramInv
    <3>2. \A i \in 1..Len(t) : t[i] \in TypeNames /\ t[i] \in Range(t)
      BY <2>2 DEF Range
    <3>3. QED
      BY <2>1, <3>1, <3>2
  <2> HIDE DEF t
  <2>4. /\ Len(meant) = Len(t) /\ meant \in Seq(Classes \cup {NoName})
        /\ \A i \in 1..Len(t) : meant[i] = means[CallerFile][t[i]]
    BY <2>1, <2>2, <2>3
  <2>5. Stands(t, CallerFile, meant)
    BY <2>2, <2>3, <2>4 DEF Stands
  <2>6. Head(t) \in ClassNames
    BY <1>2 DEF NamesAClass, t
  <2>7. QED
    BY <2>1, <2>2, <2>4, <2>5, <2>6, StandsIsRight DEF t
<1>3. QED
  BY <1>1, <1>2 DEF ChainInv, ReadInv

LEMMA ChainInvIsRight == ChainInv => NextReadIsRight
<1> SUFFICES ASSUME ChainInv, doubts \subseteq {"apart"}, NamesAClass
             PROVE  Reads = Head(meant)
  BY DEF NextReadIsRight
<1> DEFINE c == Head(meant)
<1>1. means[current_uri][Head(current_type)] = c /\ c \in Classes
  BY DEF ChainInv, ReadInv, RightSoFar, HeadStands
<1> HIDE DEF c
<1>2. Candidates(Head(current_type), current_uri) = <<c>>
  BY <1>1, OneCandidate DEF ChainInv
<1>3. FirstOf(<<c>>, LAMBDA s : TRUE) = c
  BY FirstOfOne
<1>4. Reads = c
  BY <1>2, <1>3, Zenon DEF Reads
<1>5. QED
  BY <1>4 DEF c

(* "only the leaf's own declaring file's imports/package can disambiguate": *)
(* at any length of the chain, in any program.                              *)
THEOREM NextReadsAreRight == ChainSpec => []NextReadIsRight
<1>1. ChainInit => ChainInv
  BY InitChain
<1>2. ChainInv /\ [ChainNext]_chainVars => ChainInv'
  <2> SUFFICES ASSUME ChainInv, [ChainNext]_chainVars
               PROVE  ChainInv'
    OBVIOUS
  <2>1. CASE ReadMember
    <3>1. UNCHANGED program
      BY <2>1 DEF ReadMember
    <3>2. QED
      BY <2>1, <3>1, ReadKept, ProgramStands DEF ChainInv
  <2>2. CASE UNCHANGED chainVars
    <3>1. UNCHANGED program
      BY <2>2 DEF chainVars, program
    <3>2. ReadInv'
      BY <2>2 DEF chainVars, ChainInv, ReadInv, NamesAClass, RightSoFar, HeadStands, Stands
    <3>3. QED
      BY <3>1, <3>2, ProgramStands DEF ChainInv
  <2>3. QED
    BY <2>1, <2>2 DEF ChainNext
<1>3. QED
  BY <1>1, <1>2, ChainInvIsRight, PTL DEF ChainSpec

================================================================================

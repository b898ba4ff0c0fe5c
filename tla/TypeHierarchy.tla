--------------------------- MODULE TypeHierarchy ---------------------------
(* The supertype walks of resolver/hierarchy.rs: depth first, collecting   *)
(* every match, and breadth first, returning the nearest ones.  A supertype *)
(* is spelled by its name; finding its declaration may need a JAR's        *)
(* symbols, which a walk promotes through the sidecar, if nobody else      *)
(* holds it, on a budget.                                                  *)
EXTENDS Naturals, Sequences, FiniteSets

CONSTANTS
  Types, Names,
  NameOf,              \* the simple name a type is declared with
  MaxDepth,            \* 12 or 24 in the code
  PromotionBudget      \* MAX_SYNC_JAR_PROMOTIONS_PER_HIERARCHY_WALK

ASSUME HierarchyAssumption ==
  /\ NameOf \in [Types -> Names]
  /\ IsFiniteSet(Types)
  /\ MaxDepth \in Nat \ {0} /\ PromotionBudget \in Nat

VARIABLES
  supers,              \* the direct supertypes each type declares
  cold,                \* types of JARs whose symbols are not materialized
  walk                 \* the walk under way, or the last one

hierarchyVars == <<supers, cold, walk>>

\* a class being expanded: the supertypes it spells that are still to be
\* resolved, and the declarations found for the others
Frames == [of : Types, unresolved : SUBSET Types, targets : SUBSET Types, depth : 0..MaxDepth]

FrameOf(t, depth) ==
  [of |-> t, unresolved |-> supers[t], targets |-> {}, depth |-> depth]

NoWalk ==
  [kind |-> "none", target |-> CHOOSE n \in Names : TRUE, start |-> CHOOSE t \in Types : TRUE,
   frames |-> <<>>, next |-> {}, visited |-> {}, found |-> {}, budget |-> 0,
   missed |-> FALSE, guessed |-> FALSE]

\* walk_hierarchy and walk_hierarchy_breadth_first: the start is visited,
\* never collected.  missed and guessed record, for the properties, that a
\* declared supertype was dropped or that another type took its place.
WalkFrom(kind, t, n, budget) ==
  [NoWalk EXCEPT !.kind = kind, !.target = n, !.start = t,
                 !.frames = <<FrameOf(t, 0)>>, !.visited = {t}, !.budget = budget]

Walking == walk.frames # <<>>

Walks ==
  [kind : {"none", "dfs", "bfs"}, target : Names, start : Types, frames : Seq(Frames),
   next : SUBSET Types, visited : SUBSET Types, found : SUBSET Types, budget : Nat,
   missed : BOOLEAN, guessed : BOOLEAN]

HierarchyTypeOK ==
  /\ supers \in [Types -> SUBSET Types] /\ cold \subseteq Types /\ walk \in Walks
  \* the chain of classes being expanded is as deep as its frames say
  /\ walk.kind = "dfs" =>
       \A i \in DOMAIN walk.frames : walk.frames[i].depth = Len(walk.frames) - i

HierarchyInit ==
  /\ supers \in [Types -> SUBSET Types] /\ \A t \in Types : t \notin supers[t]
  /\ cold \in SUBSET Types
  /\ walk = NoWalk

----------------------------------------------------------------------------
(* supertype_targets: each name is promoted, then resolved ambiguity-safe. *)
(* A visible declaration the file's imports or package name is found; if   *)
(* they do not, or the declaration is not visible, a unique type of that   *)
(* name anywhere in the index is taken and an ambiguous name is declined.  *)

Namesakes(s) == {t \in Types \ (cold \cup {s}) : NameOf[t] = NameOf[s]}

Step(frame) == [walk EXCEPT !.frames = <<frame>> \o Tail(@)]

\* (a mutant: visited before it is entered)
FoundAndMarked(s) ==
  LET f == Head(walk.frames) IN
    [Step([f EXCEPT !.unresolved = @ \ {s}, !.targets = @ \cup {s}])
       EXCEPT !.visited = @ \cup {s}]

Found(s) ==
  LET f == Head(walk.frames) IN
    Step([f EXCEPT !.unresolved = @ \ {s}, !.targets = @ \cup {s}])

Dropped(s) ==
  [Step([Head(walk.frames) EXCEPT !.unresolved = @ \ {s}]) EXCEPT !.missed = TRUE]

Guessed(s, other) ==
  LET f == Head(walk.frames) IN
    [Step([f EXCEPT !.unresolved = @ \ {s}, !.targets = @ \cup {other}])
       EXCEPT !.guessed = TRUE]

Unresolved(s) == Walking /\ s \in Head(walk.frames).unresolved

\* already materialized, or declared in the workspace
ResolveVisible(s) ==
  /\ Unresolved(s) /\ s \notin cold
  /\ \/ walk' = Found(s)
     \/ Namesakes(s) # {} /\ walk' = Dropped(s)
  /\ UNCHANGED <<supers, cold>>

\* promote_candidates_bounded: a fresh cache entry costs nothing, the
\* sidecar's answer one unit of the budget
Promote(s, cached) ==
  /\ Unresolved(s) /\ s \in cold
  /\ cached \/ walk.budget > 0
  /\ cold' = cold \ {s}
  /\ walk' = [Found(s) EXCEPT !.budget = IF cached THEN @ ELSE @ - 1]
  /\ UNCHANGED supers

\* the sidecar was asked and had no answer; or it was not asked, because a
\* crawl or another request holds it (try_lock_sidecar_bounded) or because
\* the budget is spent
ResolveCold(s, asked) ==
  /\ Unresolved(s) /\ s \in cold
  /\ asked => walk.budget > 0
  /\ \E result \in {Dropped(s)} \cup {Guessed(s, t) : t \in Namesakes(s)} :
       walk' = [result EXCEPT !.budget = IF asked THEN @ - 1 ELSE @]
  /\ UNCHANGED <<supers, cold>>

\* the file of the class cannot be read: it seems to declare no supertypes
NoFileData ==
  /\ Walking /\ Head(walk.frames).unresolved # {}
  /\ Head(walk.frames).unresolved = supers[Head(walk.frames).of]
  /\ walk' = [Step([Head(walk.frames) EXCEPT !.unresolved = {}]) EXCEPT !.missed = TRUE]
  /\ UNCHANGED <<supers, cold>>

Resolve(s) ==
  \/ ResolveVisible(s)
  \/ \E cached \in BOOLEAN : Promote(s, cached)
  \/ \E asked \in BOOLEAN : ResolveCold(s, asked)

----------------------------------------------------------------------------
(* The traversal, once every name of the class under expansion is resolved.*)

Expanded == Walking /\ Head(walk.frames).unresolved = {}

Collected(t) ==
  IF NameOf[t] = walk.target THEN walk.found \cup {t} ELSE walk.found

\* a type two classes extend is entered once
SkipVisited(t) ==
  /\ Expanded /\ t \in Head(walk.frames).targets \cap walk.visited
  /\ walk' = Step([Head(walk.frames) EXCEPT !.targets = @ \ {t}])
  /\ UNCHANGED <<supers, cold>>

\* HierarchyWalker::recurse: into the supertype at once, no deeper than max_depth
VisitDepthFirst(t) ==
  LET f == Head(walk.frames)
      rest == Step([f EXCEPT !.targets = @ \ {t}]) IN
    /\ Expanded /\ walk.kind = "dfs" /\ t \in f.targets \ walk.visited
    /\ walk' = [rest EXCEPT
         !.visited = @ \cup {t}, !.found = Collected(t),
         !.frames = IF f.depth + 1 < MaxDepth THEN <<FrameOf(t, f.depth + 1)>> \o @ ELSE @,
         !.missed = @ \/ (f.depth + 1 >= MaxDepth /\ supers[t] # {})]
    /\ UNCHANGED <<supers, cold>>

\* walk_hierarchy_breadth_first: the supertype waits for the next level
VisitBreadthFirst(t) ==
  /\ Expanded /\ walk.kind = "bfs" /\ t \in Head(walk.frames).targets \ walk.visited
  /\ walk' = [Step([Head(walk.frames) EXCEPT !.targets = @ \ {t}]) EXCEPT
                !.visited = @ \cup {t}, !.found = Collected(t), !.next = @ \cup {t}]
  /\ UNCHANGED <<supers, cold>>

\* the class is done; a level ends with its last class, and the walk with
\* the first level that found something
Return ==
  LET f == Head(walk.frames)
      last == walk.kind = "bfs" /\ Tail(walk.frames) = <<>> IN
    /\ Expanded /\ f.targets = {}
    /\ \/ ~last /\ walk' = [walk EXCEPT !.frames = Tail(@)]
       \/ /\ last /\ (walk.found # {} \/ walk.next = {} \/ f.depth + 1 = MaxDepth)
          /\ walk' = [walk EXCEPT !.frames = <<>>, !.next = {},
                        !.missed = @ \/ (walk.found = {} /\ walk.next # {})]
       \/ /\ last /\ walk.found = {} /\ walk.next # {} /\ f.depth + 1 < MaxDepth
          /\ \E level \in [1..Cardinality(walk.next) -> walk.next] :
               /\ \A t \in walk.next : \E i \in DOMAIN level : level[i] = t
               /\ walk' = [walk EXCEPT !.next = {},
                    !.frames = [i \in DOMAIN level |-> FrameOf(level[i], f.depth + 1)]]
    /\ UNCHANGED <<supers, cold>>

WalkStep ==
  \/ \E t \in Types : Resolve(t) \/ SkipVisited(t) \/ VisitDepthFirst(t) \/ VisitBreadthFirst(t)
  \/ NoFileData \/ Return

----------------------------------------------------------------------------
(* The reference: what the declarations say.                               *)

\* the types n or fewer declarations away, t among them
Reached[n \in Nat] ==
  [t \in Types |-> IF n = 0 THEN {t} ELSE {t} \cup UNION {supers[s] : s \in Reached[n - 1][t]}]

\* the least set that has what t declares and what its members declare
Closed(A) == \A s \in A : supers[s] \subseteq A
Ancestors(t) ==
  {s \in Types : \A A \in SUBSET Types : supers[t] \subseteq A /\ Closed(A) => s \in A}

Descends(t, n) == \E s \in Ancestors(t) : NameOf[s] = n

Matches(t, n) == {s \in Ancestors(t) \ {t} : NameOf[s] = n}

\* as far up as the first one is, and no farther
Nearest(t, n) ==
  {s \in Matches(t, n) : \E d \in 1..Cardinality(Types) :
     s \in Reached[d][t] /\ Matches(t, n) \cap Reached[d - 1][t] = {}}

Finished == walk.kind # "none" /\ walk.frames = <<>>

\* A walk that dropped no supertype and took none for another (see missed
\* and guessed) has found exactly the ancestors of the name it looks for,
\* depth first all of them, breadth first the nearest and nothing farther:
\* classes that extend each other, a supertype reached twice and the order of
\* the traversal lose nothing and add nothing (hierarchy.rs:69-81, 155-183).
WalkIsExact ==
  Finished /\ ~walk.missed /\ ~walk.guessed =>
    walk.found = IF walk.kind = "dfs" THEN Matches(walk.start, walk.target)
                 ELSE Nearest(walk.start, walk.target)
============================================================================

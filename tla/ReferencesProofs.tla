--------------------------- MODULE ReferencesProofs ---------------------------
(***************************************************************************)
(* The walks of the type hierarchy find what they look for, and a search   *)
(* for references and a rename draw the right conclusions from them, for   *)
(* every finite graph of supertypes, every site and every budget.          *)
(*                                                                         *)
(* A walk visits no class that is not an ancestor (NothingAdded) and drops *)
(* none: what a class it has expanded declares has been entered, or a      *)
(* frame of the stack still owes it (NothingLost).  Depth first, that is   *)
(* enough: once no frame is left the classes visited are closed under      *)
(* supers, and the ancestors are the least such set.  Breadth first, the   *)
(* frames are all of one level, and what was visited before it is what the *)
(* reference reaches in as many steps (Levels), by ReachedByLevel, for     *)
(* which the supertypes must be finitely many.                             *)
(*                                                                         *)
(* VerifyInv ties the walk of a candidate to the question asked of it, and *)
(* OverridesAreProven the declarations kept to the overrides that stop a   *)
(* rename.                                                                 *)
(***************************************************************************)
EXTENDS References, TLAPS, NaturalsInduction, WellFoundedInduction, FiniteSetTheorems,
        SequenceTheorems

-----------------------------------------------------------------------------
(* Reaching an ancestor.  SmallestFirst is induction over the numbers, as  *)
(* a fact about sets of numbers.                                           *)

LEMMA SmallestFirst ==
  ASSUME NEW S, 0 \in S, \A n \in Nat : n \in S => n + 1 \in S
  PROVE  Nat \subseteq S
<1> DEFINE less == OpToRel(<, Nat)
           T == Nat \ S
<1>1. IsWellFoundedOn(less, Nat)
  BY NatLessThanWellFounded
<1>2. \A x, y \in Nat : x < y => <<x, y>> \in less
  BY DEF OpToRel
<1> HIDE DEF less
<1>3. SUFFICES ASSUME T # {}
               PROVE  FALSE
  OBVIOUS
<1>4. PICK x \in T : \A y \in T : ~ (<<y, x>> \in less)
  <2>1. T \subseteq Nat
    OBVIOUS
  <2> HIDE DEF T
  <2>2. QED
    BY <1>1, <1>3, <2>1, WFMin
<1>5. x \in Nat \ {0}
  BY <1>4
<1>6. x - 1 \in Nat /\ x - 1 < x
  BY <1>5
<1>7. x - 1 \in S
  BY <1>2, <1>4, <1>5, <1>6
<1>8. x \in S
  BY <1>5, <1>6, <1>7
<1>9. QED
  BY <1>4, <1>8

-----------------------------------------------------------------------------
(* How far up a type is.                                                   *)

(* A chain of k declarations from t up to s.                               *)
Climbs(p, k, t, s) ==
  /\ p \in [0..k -> Types] /\ p[0] = t /\ p[k] = s
  /\ \A i \in 0..(k - 1) : p[i + 1] \in supers[p[i]]

Above(n, t) == {s \in Types : \E k \in 0..n : \E p \in [0..k -> Types] : Climbs(p, k, t, s)}

(* Chains are longer by one than the chains to a declaring class.          *)
LEMMA OneFurther ==
  ASSUME supers \in [Types -> SUBSET Types], NEW t \in Types, NEW n \in Nat
  PROVE  /\ Above(0, t) = {t}
         /\ Above(n + 1, t) = {t} \cup UNION {supers[s] : s \in Above(n, t)}
<1>1. ASSUME NEW k \in Nat
      PROVE  t \in Above(k, t)
  <2> DEFINE p == [i \in 0..0 |-> t]
  <2>1. Climbs(p, 0, t, t)
    BY DEF Climbs
  <2>2. p \in [0..0 -> Types] /\ 0 \in 0..k
    OBVIOUS
  <2> HIDE DEF p
  <2>3. QED
    BY <2>1, <2>2 DEF Above
<1>2. ASSUME NEW s \in Above(0, t)
      PROVE  s = t
  BY <1>2 DEF Above, Climbs
<1>3. ASSUME NEW u \in Above(n, t), NEW s \in supers[u]
      PROVE  s \in Above(n + 1, t)
  <2>0. PICK k \in 0..n : \E p \in [0..k -> Types] : Climbs(p, k, t, u)
    BY DEF Above
  <2>1. PICK p \in [0..k -> Types] : Climbs(p, k, t, u)
    BY <2>0
  <2> DEFINE q == [i \in 0..(k + 1) |-> IF i \in 0..k THEN p[i] ELSE s]
  <2>2. s \in Types
    BY DEF Above
  <2>3. q \in [0..(k + 1) -> Types]
    BY <2>2
  <2>4. q[0] = t /\ q[k + 1] = s
    BY <2>1 DEF Climbs
  <2>5. ASSUME NEW i \in 0..k
        PROVE  q[i + 1] \in supers[q[i]]
    <3>1. CASE i = k
      BY <2>1, <3>1 DEF Climbs
    <3>2. CASE i # k
      <4>1. i \in 0..(k - 1) /\ i + 1 \in 0..k /\ i + 1 \in 0..(k + 1) /\ i \in 0..(k + 1)
        BY <3>2
      <4>2. QED
        BY <2>1, <4>1 DEF Climbs
    <3>3. QED
      BY <3>1, <3>2
  <2>6. k + 1 \in 0..(n + 1) /\ (k + 1) - 1 = k
    OBVIOUS
  <2> HIDE DEF q
  <2>7. Climbs(q, k + 1, t, s)
    BY <2>3, <2>4, <2>5, <2>6 DEF Climbs
  <2>8. QED
    BY <2>2, <2>3, <2>6, <2>7 DEF Above
<1>4. ASSUME NEW s \in Above(n + 1, t), s # t
      PROVE  \E u \in Above(n, t) : s \in supers[u]
  <2>0. PICK k \in 0..(n + 1) : \E p \in [0..k -> Types] : Climbs(p, k, t, s)
    BY DEF Above
  <2>1. PICK p \in [0..k -> Types] : Climbs(p, k, t, s)
    BY <2>0
  <2>2. k # 0
    BY <1>4, <2>1 DEF Climbs
  <2> DEFINE q == [i \in 0..(k - 1) |-> p[i]]
  <2>3. k - 1 \in 0..n /\ q \in [0..(k - 1) -> Types] /\ p[k - 1] \in Types
    BY <2>2
  <2>4. Climbs(q, k - 1, t, p[k - 1])
    <3>1. q[0] = t /\ q[k - 1] = p[k - 1]
      BY <2>1, <2>2 DEF Climbs
    <3>2. ASSUME NEW i \in 0..((k - 1) - 1)
          PROVE  q[i + 1] \in supers[q[i]]
      <4>1. i \in 0..(k - 1) /\ i + 1 \in 0..(k - 1)
        BY <2>2
      <4>2. QED
        BY <2>1, <4>1 DEF Climbs
    <3> HIDE DEF q
    <3>3. QED
      BY <2>3, <3>1, <3>2 DEF Climbs
  <2>5. p[k] \in supers[p[k - 1]] /\ p[k] = s
    BY <2>1, <2>2 DEF Climbs
  <2> HIDE DEF q
  <2>6. p[k - 1] \in Above(n, t)
    BY <2>3, <2>4 DEF Above
  <2>7. QED
    BY <2>5, <2>6
<1>5. Above(0, t) = {t}
  BY <1>1, <1>2
<1>6. QED
  BY <1>1, <1>3, <1>4, <1>5

(* The definition by levels has one solution at least, and so is one.      *)
LEMMA ReachedByLevel ==
  ASSUME supers \in [Types -> SUBSET Types], NEW t \in Types, NEW n \in Nat
  PROVE  /\ Reached[0][t] = {t}
         /\ Reached[n + 1][t] = {t} \cup UNION {supers[s] : s \in Reached[n][t]}
<1> DEFINE Solves(f) ==
      f = [k \in Nat |->
            [u \in Types |->
               IF k = 0 THEN {u} ELSE {u} \cup UNION {supers[s] : s \in f[k - 1][u]}]]
           above == [k \in Nat |-> [u \in Types |-> Above(k, u)]]
<1>1. Solves(above)
  <2>1. ASSUME NEW k \in Nat, NEW u \in Types
        PROVE  Above(k, u) =
                 IF k = 0 THEN {u} ELSE {u} \cup UNION {supers[s] : s \in above[k - 1][u]}
    <3>1. CASE k = 0
      BY <3>1, OneFurther
    <3>2. CASE k # 0
      <4>1. k - 1 \in Nat /\ (k - 1) + 1 = k /\ above[k - 1][u] = Above(k - 1, u)
        BY <3>2
      <4> HIDE DEF above
      <4>2. QED
        BY <3>2, <4>1, OneFurther
    <3>3. QED
      BY <3>1, <3>2
  <2>2. QED
    BY <2>1
<1> HIDE DEF above
<1>2. Solves(Reached)
  <2>1. Reached = CHOOSE f : Solves(f)
    BY Zenon DEF Reached
  <2> HIDE DEF Solves
  <2>2. QED
    BY <1>1, <2>1
<1>3. n + 1 \in Nat /\ n + 1 # 0 /\ (n + 1) - 1 = n
  OBVIOUS
<1>4. QED
  BY <1>2, <1>3

(* What is so far up is no farther.                                        *)
LEMMA FartherHasMore ==
  ASSUME supers \in [Types -> SUBSET Types], NEW t \in Types,
         NEW n \in Nat, NEW m \in 0..n
  PROVE  Reached[m][t] \subseteq Reached[n][t]
<1> DEFINE S == {k \in Nat : \A l \in 0..k : Reached[l][t] \subseteq Reached[k][t]}
<1>1. 0 \in S
  OBVIOUS
<1>2. ASSUME NEW k \in S
      PROVE  k + 1 \in S
  <2>1. ASSUME NEW l \in 0..(k + 1)
        PROVE  Reached[l][t] \subseteq Reached[k + 1][t]
    <3>1. CASE l = 0
      BY <3>1, ReachedByLevel
    <3>2. CASE l # 0
      <4>1. l - 1 \in 0..k /\ l - 1 \in Nat /\ (l - 1) + 1 = l
        BY <3>2
      <4>2. Reached[l - 1][t] \subseteq Reached[k][t]
        BY <4>1
      <4>3. Reached[l][t] = {t} \cup UNION {supers[s] : s \in Reached[l - 1][t]}
        BY <4>1, ReachedByLevel
      <4>4. Reached[k + 1][t] = {t} \cup UNION {supers[s] : s \in Reached[k][t]}
        BY ReachedByLevel
      <4>5. QED
        BY <4>2, <4>3, <4>4
    <3>3. QED
      BY <3>1, <3>2
  <2>2. QED
    BY <2>1
<1>3. Nat \subseteq S
  <2> HIDE DEF S
  <2>1. QED
    BY <1>1, <1>2, SmallestFirst
<1>4. QED
  BY <1>3

(* The walk dropped no supertype and took none for another.                *)
Clean == ~walk.missed /\ ~walk.guessed

Pending(frame) == frame.unresolved \cup frame.targets

(* The class t is being expanded and s is not dealt with yet.              *)
Owes(t, s) ==
  \E i \in DOMAIN walk.frames : walk.frames[i].of = t /\ s \in Pending(walk.frames[i])

(* What is entered or about to be is declared, from the start upwards.     *)
NothingAdded ==
  /\ walk.start \in walk.visited \ walk.next
  /\ walk.visited \subseteq {walk.start} \cup Ancestors(walk.start)
  /\ walk.next \subseteq walk.visited
  /\ \A i \in DOMAIN walk.frames :
       /\ walk.frames[i].of \in walk.visited \ walk.next
       /\ Pending(walk.frames[i]) \subseteq supers[walk.frames[i].of]

(* What a class declares is entered, unless its turn is still to come.     *)
NothingLost ==
  \A t \in walk.visited \ walk.next : \A s \in supers[t] : s \in walk.visited \/ Owes(t, s)

(* Depth first: no class waits, and the matches visited are those found.  *)
Chain ==
  /\ walk.next = {}
  /\ walk.found = {t \in walk.visited \ {walk.start} : NameOf[t] = walk.target}

(* The level that is expanded: the classes exactly that far up are those   *)
(* entered before it, and none of them matches.                            *)
Level == Head(walk.frames).depth
Levels ==
  /\ \A i \in DOMAIN walk.frames : walk.frames[i].depth = Level
  /\ walk.visited \ walk.next = Reached[Level][walk.start]
  /\ \A t \in walk.next : \E u \in walk.visited \ walk.next : t \in supers[u]
  /\ walk.found = {t \in walk.next : NameOf[t] = walk.target}
  /\ \A t \in walk.visited \ walk.next : t # walk.start => NameOf[t] # walk.target
  /\ Level < Cardinality(walk.visited \ walk.next)

(* A walk that was cut short anywhere owes nothing.                        *)
WalkInv ==
  /\ walk.kind = "none" => walk = NoWalk
  /\ walk.kind = "dfs" /\ Clean => NothingAdded /\ NothingLost /\ Chain
  /\ walk.kind = "bfs" /\ Clean /\ Walking => NothingAdded /\ NothingLost /\ Levels
  /\ walk.kind = "bfs" /\ Clean /\ ~Walking => walk.found = Nearest(walk.start, walk.target)

(* What the verdicts say of simple names, whoever's they are: more than    *)
(* VerdictsAreRight, which reads them as the classes themselves.           *)
Related(t, n) == NameOf[t] = n \/ Descends(t, n)

VerdictsByName ==
  /\ \A v \in kept :
       v.source = "CstResolved" /\ ~v.blind => Related(v.site.type, QueryName)
  /\ \A v \in rejected : ~v.shape /\ ~v.blind => ~Related(v.site.type, QueryName)

(* The walks answer the question of the candidate they are made for.       *)
Forward(type, agreement, blind) ==
  /\ NameOf[type] # QueryName
  /\ ~blind => (agreement = "Inherited" <=> Descends(type, QueryName))

Reverse(type, agreement, blind) ==
  ~blind => (agreement = "Inherited" <=> Descends(query.class, NameOf[type]))

(* The candidate a walk is under way for is not decided yet, and the walk  *)
(* starts and aims at its classes, unless it started from a namesake.      *)
VerifyInv ==
  /\ candidate.at = "none" => (query.request # "extension" => ~Walking)
  /\ candidate.at # "none" =>
       /\ outcome = "none" /\ walk.kind = "dfs" /\ query.request # "extension"
       /\ NameOf[candidate.site.type] # QueryName
       /\ \A v \in kept \cup rejected : v.site # candidate.site
  /\ candidate.at = "forward" =>
       (Clean => walk.start = candidate.site.type) /\ walk.target = QueryName
  /\ candidate.at = "reverse" =>
       /\ LooksBack /\ candidate.site.kind = "declaration"
       /\ walk.start = query.class /\ walk.target = NameOf[candidate.site.type]
       /\ Forward(candidate.site.type, forward.agreement, forward.blind)

(* What a declaration was kept for, when the rename looks both ways.       *)
OverridesAreProven ==
  LooksBack =>
    \A v \in kept :
      /\ v.site.kind = "declaration" /\ ~v.blind /\ NameOf[v.site.type] # QueryName
      /\ Descends(v.site.type, QueryName) \/ Descends(query.class, NameOf[v.site.type])
      => \E o \in proven_overrides : o.site = v.site

(* A rename that edits has seen no override (rename.rs:144-149).           *)
EditsWhatIsFree == outcome = "edited" => query.request = "rename" /\ proven_overrides = {}

ReferencesInv ==
  ReferencesTypeOK /\ WalkInv /\ VerifyInv /\ VerdictsByName /\ OverridesAreProven
    /\ EditsWhatIsFree

-----------------------------------------------------------------------------
(* The chain of classes being expanded.                                    *)

LEMMA HeadReplaced ==
  ASSUME NEW S, NEW s \in Seq(S), s # <<>>, NEW f \in S
  PROVE  LET r == <<f>> \o Tail(s) IN
           /\ r \in Seq(S) /\ r # <<>> /\ Len(r) = Len(s) /\ DOMAIN r = DOMAIN s
           /\ r[1] = f /\ Head(r) = f
           /\ \A i \in DOMAIN s : i # 1 => r[i] = s[i]
OBVIOUS

LEMMA Pushed ==
  ASSUME NEW S, NEW s \in Seq(S), NEW f \in S
  PROVE  LET r == <<f>> \o s IN
           /\ r \in Seq(S) /\ r # <<>> /\ Len(r) = Len(s) + 1
           /\ r[1] = f /\ Head(r) = f /\ 1 \in DOMAIN r
           /\ \A i \in DOMAIN s : i + 1 \in DOMAIN r /\ r[i + 1] = s[i]
           /\ \A i \in DOMAIN r : i # 1 => i - 1 \in DOMAIN s /\ r[i] = s[i - 1]
OBVIOUS

LEMMA Popped ==
  ASSUME NEW S, NEW s \in Seq(S), s # <<>>
  PROVE  LET r == Tail(s) IN
           /\ r \in Seq(S) /\ Len(r) = Len(s) - 1
           /\ \A i \in DOMAIN r : i + 1 \in DOMAIN s /\ r[i] = s[i + 1]
           /\ \A i \in DOMAIN s : i # 1 => i - 1 \in DOMAIN r /\ s[i] = r[i - 1]
           /\ 1 \in DOMAIN s /\ s[1] = Head(s) /\ Head(s) \in S
OBVIOUS

-----------------------------------------------------------------------------
(* What the steps of a walk do.                                            *)

SameQuestion ==
  walk'.kind = walk.kind /\ walk'.target = walk.target /\ walk'.start = walk.start

SameProgress ==
  walk'.next = walk.next /\ walk'.visited = walk.visited /\ walk'.found = walk.found

LEMMA HeadIsFrame ==
  ASSUME walk \in Walks, Walking
  PROVE  /\ Head(walk.frames) \in Frames /\ walk.frames \in Seq(Frames)
         /\ 1 \in DOMAIN walk.frames /\ walk.frames[1] = Head(walk.frames)
         /\ Len(walk.frames) \in Nat /\ Tail(walk.frames) \in Seq(Frames)
BY DEF Walking, Walks

LEMMA FrameTyped ==
  ASSUME HierarchyTypeOK, NEW t \in Types, NEW d \in 0..MaxDepth
  PROVE  FrameOf(t, d) \in Frames
BY DEF FrameOf, Frames, HierarchyTypeOK

(* One of the names the class spells is resolved: if nothing is dropped    *)
(* and nothing guessed it is the type of that name that is added.          *)
Resolved(s, T) ==
  walk'.frames =
    <<[Head(walk.frames) EXCEPT !.unresolved = @ \ {s}, !.targets = T]>> \o Tail(walk.frames)

LEMMA ResolveDoes ==
  ASSUME HierarchyTypeOK, HierarchyAssumption, NEW s \in Types, Resolve(s)
  PROVE  /\ Walking /\ s \in Head(walk.frames).unresolved
         /\ supers' = supers /\ cold' \subseteq cold
         /\ walk' \in Walks /\ SameQuestion /\ SameProgress
         /\ \E T \in SUBSET Types :
              /\ Resolved(s, T)
              /\ Clean' => Clean /\ T = Head(walk.frames).targets \cup {s}
<1> DEFINE f == Head(walk.frames)
           One(w, T) ==
             /\ w \in Walks /\ T \in SUBSET Types
             /\ w.kind = walk.kind /\ w.target = walk.target /\ w.start = walk.start
             /\ w.next = walk.next /\ w.visited = walk.visited /\ w.found = walk.found
             /\ w.frames = <<[f EXCEPT !.unresolved = @ \ {s}, !.targets = T]>>
                              \o Tail(walk.frames)
             /\ ~w.missed /\ ~w.guessed => Clean /\ T = f.targets \cup {s}
<1>1. Walking /\ s \in f.unresolved
  BY DEF Resolve, ResolveVisible, Promote, ResolveCold, Unresolved
<1>2. f \in Frames /\ walk \in Walks /\ walk.frames \in Seq(Frames) /\ walk.frames # <<>>
  BY <1>1, HeadIsFrame DEF HierarchyTypeOK, Walking
<1>3. ASSUME NEW T \in SUBSET Types
      PROVE  /\ [f EXCEPT !.unresolved = @ \ {s}, !.targets = T] \in Frames
             /\ <<[f EXCEPT !.unresolved = @ \ {s}, !.targets = T]>> \o Tail(walk.frames)
                  \in Seq(Frames)
  <2>1. [f EXCEPT !.unresolved = @ \ {s}, !.targets = T] \in Frames
    BY <1>2 DEF Frames
  <2>2. QED
    BY <1>2, <2>1, HeadReplaced
<1>4. f.targets \in SUBSET Types
  BY <1>2 DEF Frames
<1>5. [f EXCEPT !.unresolved = @ \ {s}]
        = [f EXCEPT !.unresolved = @ \ {s}, !.targets = f.targets]
  BY <1>2 DEF Frames
<1>6. One(Found(s), f.targets \cup {s})
  <2>1. Found(s) = [walk EXCEPT !.frames =
                      <<[f EXCEPT !.unresolved = @ \ {s}, !.targets = f.targets \cup {s}]>>
                        \o Tail(walk.frames)]
    BY <1>2 DEF Found, Step, Frames
  <2>2. f.targets \cup {s} \in SUBSET Types
    BY <1>4
  <2> HIDE DEF f
  <2>3. QED
    BY <1>2, <1>3, <2>1, <2>2 DEF Walks, Clean
<1>7. One(Dropped(s), f.targets) /\ Dropped(s).missed
  <2>1. Dropped(s) = [walk EXCEPT !.missed = TRUE, !.frames =
                        <<[f EXCEPT !.unresolved = @ \ {s}, !.targets = f.targets]>>
                          \o Tail(walk.frames)]
    BY <1>2, <1>5 DEF Dropped, Step, Walks
  <2> HIDE DEF f
  <2>2. QED
    BY <1>2, <1>3, <1>4, <2>1 DEF Walks
<1>8. ASSUME NEW t \in Types
      PROVE  One(Guessed(s, t), f.targets \cup {t})
  <2>1. Guessed(s, t) = [walk EXCEPT !.guessed = TRUE, !.frames =
                      <<[f EXCEPT !.unresolved = @ \ {s}, !.targets = f.targets \cup {t}]>>
                        \o Tail(walk.frames)]
    BY <1>2 DEF Guessed, Step, Frames, Walks
  <2>2. f.targets \cup {t} \in SUBSET Types
    BY <1>4
  <2> HIDE DEF f
  <2>3. QED
    BY <1>2, <1>3, <2>1, <2>2 DEF Walks
<1>9. ASSUME NEW w, NEW T, One(w, T), NEW b \in Nat
      PROVE  One([w EXCEPT !.budget = b], T)
  <2> HIDE DEF f
  <2>1. QED
    BY <1>9 DEF Walks
<1>10. ASSUME NEW T, One(walk', T)
       PROVE  /\ walk' \in Walks /\ SameQuestion /\ SameProgress
              /\ \E U \in SUBSET Types :
                   /\ Resolved(s, U)
                   /\ Clean' => Clean /\ U = f.targets \cup {s}
  BY <1>10 DEF SameQuestion, SameProgress, Resolved, Clean
<1>11. ASSUME NEW w, NEW T, One(w, T)
       PROVE  w.budget \in Nat /\ (w.budget > 0 => w.budget - 1 \in Nat)
  BY <1>11 DEF Walks
<1> HIDE DEF One
<1>12. \E T : One(walk', T)
  <2>1. CASE ResolveVisible(s)
    BY <1>6, <1>7, <2>1 DEF ResolveVisible
  <2>2. ASSUME NEW cached \in BOOLEAN, Promote(s, cached)
        PROVE  \E T : One(walk', T)
    <3>1. walk' = [Found(s) EXCEPT !.budget = IF cached THEN @ ELSE @ - 1]
      BY <2>2 DEF Promote
    <3>2. cached \/ Found(s).budget > 0
      BY <1>2, <2>2 DEF Promote, Found, Step, Walks
    <3>3. PICK b \in Nat : walk' = [Found(s) EXCEPT !.budget = b]
      BY <1>6, <1>11, <3>1, <3>2
    <3>4. QED
      BY <1>6, <1>9, <3>3
  <2>3. ASSUME NEW asked \in BOOLEAN, ResolveCold(s, asked)
        PROVE  \E T : One(walk', T)
    <3>1. PICK w \in {Dropped(s)} \cup {Guessed(s, t) : t \in Namesakes(s)} :
            walk' = [w EXCEPT !.budget = IF asked THEN @ - 1 ELSE @]
      BY <2>3 DEF ResolveCold
    <3>2. PICK T : One(w, T)
      BY <1>7, <1>8 DEF Namesakes
    <3>3. asked => w.budget > 0
      <4>1. Dropped(s).budget = walk.budget
        BY <1>2 DEF Dropped, Step, Walks
      <4>2. \A t \in Types : Guessed(s, t).budget = walk.budget
        BY <1>2 DEF Guessed, Step, Walks
      <4>3. w.budget = walk.budget
        BY <3>1, <4>1, <4>2 DEF Namesakes
      <4>4. QED
        BY <2>3, <4>3 DEF ResolveCold
    <3>4. PICK b \in Nat : walk' = [w EXCEPT !.budget = b]
      BY <1>11, <3>1, <3>2, <3>3
    <3>5. QED
      BY <1>9, <3>2, <3>4
  <2>4. QED
    BY <2>1, <2>2, <2>3 DEF Resolve
<1>13. supers' = supers /\ cold' \subseteq cold
  BY DEF Resolve, ResolveVisible, Promote, ResolveCold
<1>14. QED
  BY <1>1, <1>10, <1>12, <1>13

(* A class whose file cannot be read is dropped with all it declares.      *)
LEMMA NoFileDataDoes ==
  ASSUME HierarchyTypeOK, NoFileData
  PROVE  /\ Walking /\ supers' = supers /\ cold' = cold /\ walk' \in Walks
         /\ SameQuestion /\ ~Clean'
         /\ DOMAIN walk'.frames = DOMAIN walk.frames /\ Len(walk'.frames) = Len(walk.frames)
         /\ \A i \in DOMAIN walk.frames : walk'.frames[i].depth = walk.frames[i].depth
<1> DEFINE f == Head(walk.frames)
           g == [f EXCEPT !.unresolved = {}]
           fs == <<g>> \o Tail(walk.frames)
<1>1. Walking /\ walk \in Walks /\ supers' = supers /\ cold' = cold
  BY DEF NoFileData, HierarchyTypeOK
<1>2. f \in Frames /\ walk.frames \in Seq(Frames) /\ walk.frames # <<>> /\ walk.frames[1] = f
  BY <1>1, HeadIsFrame DEF Walking
<1>3. g \in Frames /\ g.depth = f.depth
  BY <1>2 DEF Frames
<1>4. walk' = [walk EXCEPT !.frames = fs, !.missed = TRUE]
  BY <1>1 DEF NoFileData, Step, Walks
<1> HIDE DEF g
<1>5. /\ fs \in Seq(Frames) /\ Len(fs) = Len(walk.frames) /\ DOMAIN fs = DOMAIN walk.frames
      /\ fs[1] = g /\ \A i \in DOMAIN walk.frames : i # 1 => fs[i] = walk.frames[i]
  BY <1>2, <1>3, HeadReplaced
<1> HIDE DEF f, fs
<1>6. walk' \in Walks /\ SameQuestion /\ walk'.frames = fs /\ walk'.missed
  BY <1>1, <1>4, <1>5 DEF Walks, SameQuestion
<1>7. QED
  BY <1>1, <1>2, <1>3, <1>5, <1>6 DEF Clean

(* One of the types to enter is dealt with.                                *)
Dealt(t) == <<[Head(walk.frames) EXCEPT !.targets = @ \ {t}]>> \o Tail(walk.frames)

LEMMA DealtTyped ==
  ASSUME walk \in Walks, Walking, NEW t \in Types
  PROVE  Dealt(t) \in Seq(Frames) /\ Len(Dealt(t)) = Len(walk.frames)
<1>1. Head(walk.frames) \in Frames /\ walk.frames \in Seq(Frames) /\ walk.frames # <<>>
  BY HeadIsFrame DEF Walking
<1>2. [Head(walk.frames) EXCEPT !.targets = @ \ {t}] \in Frames
  BY <1>1 DEF Frames
<1>3. QED
  BY <1>1, <1>2, HeadReplaced DEF Dealt

LEMMA SkipDoes ==
  ASSUME HierarchyTypeOK, NEW t \in Types, SkipVisited(t)
  PROVE  /\ Expanded /\ t \in Head(walk.frames).targets \cap walk.visited
         /\ supers' = supers /\ cold' = cold
         /\ walk' \in Walks /\ SameQuestion /\ SameProgress
         /\ walk'.frames = Dealt(t)
         /\ Clean' <=> Clean
<1>1. Expanded /\ Walking /\ walk \in Walks
  BY DEF SkipVisited, Expanded, HierarchyTypeOK
<1>2. walk' = [walk EXCEPT !.frames = Dealt(t)]
  BY DEF SkipVisited, Step, Dealt
<1>3. Dealt(t) \in Seq(Frames)
  BY <1>1, DealtTyped
<1>4. QED
  BY <1>1, <1>2, <1>3 DEF SkipVisited, SameQuestion, SameProgress, Clean, Walks

LEMMA CollectedTyped ==
  ASSUME walk \in Walks, NEW t \in Types
  PROVE  Collected(t) \in SUBSET Types
BY DEF Collected, Walks

LEMMA DepthFirstDoes ==
  ASSUME HierarchyTypeOK, HierarchyAssumption, NEW t \in Types, VisitDepthFirst(t)
  PROVE  LET d == Head(walk.frames).depth + 1 IN
         /\ Expanded /\ walk.kind = "dfs" /\ t \in Head(walk.frames).targets \ walk.visited
         /\ supers' = supers /\ cold' = cold
         /\ walk' \in Walks /\ SameQuestion
         /\ walk'.next = walk.next /\ walk'.visited = walk.visited \cup {t}
         /\ walk'.found = Collected(t)
         /\ \/ walk'.frames = <<FrameOf(t, d)>> \o Dealt(t) /\ d \in 0..MaxDepth
            \/ walk'.frames = Dealt(t) /\ (Clean' => supers[t] = {})
         /\ Clean' => Clean
<1> DEFINE f == Head(walk.frames)
           d == f.depth + 1
           fs == IF d < MaxDepth THEN <<FrameOf(t, d)>> \o Dealt(t) ELSE Dealt(t)
           m == walk.missed \/ (d >= MaxDepth /\ supers[t] # {})
<1>1. Expanded /\ Walking /\ walk \in Walks
  BY DEF VisitDepthFirst, Expanded, HierarchyTypeOK
<1>2. f \in Frames /\ walk.frames \in Seq(Frames)
  BY <1>1, HeadIsFrame
<1>3. d \in Nat /\ MaxDepth \in Nat
  BY <1>2 DEF Frames, HierarchyAssumption
<1>4. Dealt(t) \in Seq(Frames) /\ fs \in Seq(Frames)
  <2>1. Dealt(t) \in Seq(Frames)
    BY <1>1, DealtTyped
  <2>2. CASE d < MaxDepth
    <3>1. FrameOf(t, d) \in Frames
      BY <1>3, <2>2, FrameTyped
    <3>2. QED
      BY <2>1, <3>1, Pushed
  <2>3. CASE ~(d < MaxDepth)
    BY <2>1, <2>3
  <2>4. QED
    BY <2>1, <2>2, <2>3
<1>5. walk' = [walk EXCEPT !.visited = @ \cup {t}, !.found = Collected(t), !.frames = fs,
                           !.missed = m]
  <2>1. [walk EXCEPT !.frames = Dealt(t)].frames = Dealt(t)
    BY <1>1 DEF Walks
  <2>2. [walk EXCEPT !.frames = Dealt(t)].missed = walk.missed
    BY <1>1 DEF Walks
  <2>3. [walk EXCEPT !.frames = Dealt(t)].visited = walk.visited
    BY <1>1 DEF Walks
  <2>4. Step([f EXCEPT !.targets = @ \ {t}]) = [walk EXCEPT !.frames = Dealt(t)]
    BY DEF Step, Dealt
  <2>5. walk' = [[walk EXCEPT !.frames = Dealt(t)] EXCEPT
                   !.visited = walk.visited \cup {t}, !.found = Collected(t), !.frames = fs,
                   !.missed = m]
    BY <2>1, <2>2, <2>3, <2>4 DEF VisitDepthFirst
  <2> HIDE DEF fs, m
  <2>6. QED
    BY <1>1, <2>5 DEF Walks
<1>6. m \in BOOLEAN
  BY <1>1 DEF Walks
<1>7. walk' \in Walks
  <2> HIDE DEF fs, m
  <2>1. QED
    BY <1>1, <1>4, <1>5, <1>6, CollectedTyped DEF Walks
<1>8. /\ SameQuestion /\ walk'.next = walk.next /\ walk'.visited = walk.visited \cup {t}
      /\ walk'.found = Collected(t) /\ walk'.frames = fs /\ walk'.missed = m
      /\ walk'.guessed = walk.guessed
  <2> HIDE DEF fs, m
  <2>1. QED
    BY <1>1, <1>5 DEF Walks, SameQuestion
<1>9. supers' = supers /\ cold' = cold /\ walk.kind = "dfs" /\ t \in f.targets \ walk.visited
  BY DEF VisitDepthFirst
<1>10. Clean' => Clean
  BY <1>8 DEF Clean
<1>11. CASE d < MaxDepth
  BY <1>1, <1>3, <1>7, <1>8, <1>9, <1>10, <1>11
<1>12. CASE ~(d < MaxDepth)
  <2>1. d >= MaxDepth
    BY <1>3, <1>12
  <2>2. supers[t] # {} => walk'.missed
    BY <1>8, <2>1, Zenon
  <2>3. Clean' => supers[t] = {}
    BY <2>2 DEF Clean
  <2>4. QED
    BY <1>1, <1>7, <1>8, <1>9, <1>10, <1>12, <2>3
<1>13. QED
  BY <1>11, <1>12

LEMMA BreadthFirstDoes ==
  ASSUME HierarchyTypeOK, NEW t \in Types, VisitBreadthFirst(t)
  PROVE  /\ Expanded /\ walk.kind = "bfs" /\ t \in Head(walk.frames).targets \ walk.visited
         /\ supers' = supers /\ cold' = cold
         /\ walk' \in Walks /\ SameQuestion
         /\ walk'.next = walk.next \cup {t} /\ walk'.visited = walk.visited \cup {t}
         /\ walk'.found = Collected(t)
         /\ walk'.frames = Dealt(t)
         /\ Clean' <=> Clean
<1>1. Expanded /\ Walking /\ walk \in Walks
  BY DEF VisitBreadthFirst, Expanded, HierarchyTypeOK
<1>2. walk' = [walk EXCEPT !.frames = Dealt(t), !.visited = @ \cup {t},
                           !.found = Collected(t), !.next = @ \cup {t}]
  BY <1>1 DEF VisitBreadthFirst, Step, Dealt, Walks
<1>3. Dealt(t) \in Seq(Frames)
  BY <1>1, DealtTyped
<1>4. supers' = supers /\ cold' = cold /\ walk.kind = "bfs"
        /\ t \in Head(walk.frames).targets \ walk.visited
  BY DEF VisitBreadthFirst
<1>5. QED
  BY <1>1, <1>2, <1>3, <1>4, CollectedTyped DEF SameQuestion, Clean, Walks

(* The class is done: it returns to the one that led to it; the level or   *)
(* the walk ends; or the next level begins.                                *)
LastOfLevel == walk.kind = "bfs" /\ Tail(walk.frames) = <<>>

Pops ==
  /\ ~LastOfLevel /\ SameProgress /\ walk'.frames = Tail(walk.frames)
  /\ Clean' <=> Clean

Ends ==
  /\ LastOfLevel /\ walk'.frames = <<>> /\ walk'.next = {}
  /\ walk'.visited = walk.visited /\ walk'.found = walk.found
  /\ Clean' => Clean /\ (walk.found # {} \/ walk.next = {})

Climbing ==
  LET d == Head(walk.frames).depth + 1 IN
    /\ LastOfLevel /\ walk.found = {} /\ walk.next # {} /\ d \in 0..MaxDepth
    /\ walk'.next = {} /\ walk'.visited = walk.visited /\ walk'.found = {}
    /\ walk'.frames # <<>>
    /\ \A t \in walk.next : \E i \in DOMAIN walk'.frames : walk'.frames[i] = FrameOf(t, d)
    /\ \A i \in DOMAIN walk'.frames : \E t \in walk.next : walk'.frames[i] = FrameOf(t, d)
    /\ Clean' <=> Clean

LEMMA ReturnDoes ==
  ASSUME HierarchyTypeOK, HierarchyAssumption, Return
  PROVE  /\ Expanded /\ Head(walk.frames).targets = {}
         /\ supers' = supers /\ cold' = cold
         /\ walk' \in Walks /\ SameQuestion
         /\ Pops \/ Ends \/ Climbing
<1> DEFINE f == Head(walk.frames)
           d == f.depth + 1
<1>1. Expanded /\ Walking /\ walk \in Walks /\ f.targets = {} /\ supers' = supers
        /\ cold' = cold
  BY DEF Return, Expanded, HierarchyTypeOK
<1>2. f \in Frames /\ walk.frames \in Seq(Frames) /\ Tail(walk.frames) \in Seq(Frames)
  BY <1>1, HeadIsFrame
<1>3. d \in Nat /\ MaxDepth \in Nat
  BY <1>2 DEF Frames, HierarchyAssumption
<1>4. CASE ~LastOfLevel /\ walk' = [walk EXCEPT !.frames = Tail(@)]
  <2>1. walk' \in Walks /\ SameQuestion
    BY <1>1, <1>2, <1>4 DEF Walks, SameQuestion
  <2>2. Pops
    BY <1>1, <1>4 DEF Walks, Pops, SameProgress, Clean
  <2>3. QED
    BY <1>1, <2>1, <2>2
<1>5. CASE /\ LastOfLevel /\ (walk.found # {} \/ walk.next = {} \/ d = MaxDepth)
           /\ walk' = [walk EXCEPT !.frames = <<>>, !.next = {},
                         !.missed = @ \/ (walk.found = {} /\ walk.next # {})]
  <2> DEFINE m == walk.missed \/ (walk.found = {} /\ walk.next # {})
  <2>1. m \in BOOLEAN /\ (~m => ~walk.missed /\ (walk.found # {} \/ walk.next = {}))
    BY <1>1 DEF Walks
  <2>2. walk' = [walk EXCEPT !.frames = <<>>, !.next = {}, !.missed = m]
    BY <1>5
  <2> HIDE DEF m
  <2>3. walk' \in Walks /\ SameQuestion
    <3>1. <<>> \in Seq(Frames) /\ m \in BOOLEAN /\ walk \in Walks
      BY <1>1, <2>1
    <3>2. QED
      BY <2>2, <3>1 DEF Walks, SameQuestion
  <2>4. /\ walk'.frames = <<>> /\ walk'.next = {} /\ walk'.visited = walk.visited
        /\ walk'.found = walk.found /\ walk'.missed = m /\ walk'.guessed = walk.guessed
    BY <1>1, <2>2 DEF Walks
  <2>5. Ends
    BY <1>5, <2>1, <2>4 DEF Ends, Clean
  <2>6. QED
    BY <1>1, <2>3, <2>5
<1>6. ASSUME LastOfLevel, walk.found = {}, walk.next # {}, d < MaxDepth,
             NEW level \in [1..Cardinality(walk.next) -> walk.next],
             \A t \in walk.next : \E i \in DOMAIN level : level[i] = t,
             walk' = [walk EXCEPT !.next = {},
                        !.frames = [i \in DOMAIN level |-> FrameOf(level[i], d)]]
      PROVE  walk' \in Walks /\ SameQuestion /\ Climbing
  <2> DEFINE fs == [i \in DOMAIN level |-> FrameOf(level[i], d)]
             n == Cardinality(walk.next)
  <2>1. n \in Nat /\ n # 0
    <3>1. IsFiniteSet(walk.next)
      BY <1>1, FS_Subset DEF HierarchyAssumption, Walks
    <3>2. QED
      BY <1>6, <3>1, FS_CardinalityType, FS_EmptySet
  <2>2. d \in 0..MaxDepth /\ walk.next \subseteq Types
    BY <1>1, <1>3, <1>6 DEF Walks
  <2>3. \A t \in walk.next : FrameOf(t, d) \in Frames
    BY <2>2, FrameTyped
  <2>4. DOMAIN level = 1..n /\ DOMAIN fs = 1..n
    OBVIOUS
  <2>5. \A i \in 1..n : fs[i] = FrameOf(level[i], d) /\ level[i] \in walk.next
    OBVIOUS
  <2>6. fs \in Seq(Frames) /\ fs # <<>>
    <3>1. fs = [i \in 1..n |-> fs[i]]
      OBVIOUS
    <3>2. \A i \in 1..n : fs[i] \in Frames
      BY <2>3, <2>5
    <3> HIDE DEF fs, n
    <3>3. fs \in [1..n -> Frames]
      BY <3>1, <3>2
    <3>4. fs \in Seq(Frames) /\ Len(fs) = n
      BY <2>1, <3>3
    <3>5. QED
      BY <2>1, <3>4
  <2> HIDE DEF fs, n
  <2>7. walk' = [walk EXCEPT !.next = {}, !.frames = fs]
    BY <1>6 DEF fs
  <2>8. walk' \in Walks /\ SameQuestion
    BY <1>1, <2>6, <2>7 DEF Walks, SameQuestion
  <2>9. /\ walk'.next = {} /\ walk'.visited = walk.visited /\ walk'.found = {}
        /\ walk'.frames = fs /\ (Clean' <=> Clean)
    BY <1>1, <1>6, <2>7 DEF Walks, Clean
  <2>10. \A t \in walk.next : \E i \in 1..n : fs[i] = FrameOf(t, d)
    BY <1>6, <2>4, <2>5
  <2>11. \A i \in 1..n : \E t \in walk.next : fs[i] = FrameOf(t, d)
    BY <2>5
  <2>12. DOMAIN walk'.frames = 1..n
    BY <2>4, <2>9
  <2>13. Climbing
    BY <1>6, <2>2, <2>6, <2>9, <2>10, <2>11, <2>12 DEF Climbing
  <2>14. QED
    BY <2>8, <2>13
<1>7. QED
  BY <1>1, <1>4, <1>5, <1>6 DEF Return, LastOfLevel

-----------------------------------------------------------------------------
(* The invariant of a walk is kept.                                        *)

(* A walk changes no declaration, and so not what it is measured by.       *)
LEMMA DeclarationsStand ==
  ASSUME supers' = supers
  PROVE  /\ Reached' = Reached
         /\ \A t : Ancestors(t)' = Ancestors(t)
         /\ \A t, n : Nearest(t, n)' = Nearest(t, n) /\ Matches(t, n)' = Matches(t, n)
         /\ \A t, n : Descends(t, n)' = Descends(t, n)
<1>1. Reached' = Reached
  BY DEF Reached
<1>2. \A t : Ancestors(t)' = Ancestors(t)
  BY DEF Ancestors, Closed
<1>3. \A t, n : Matches(t, n)' = Matches(t, n)
  BY <1>2 DEF Matches
<1>4. \A t, n : Nearest(t, n)' = Nearest(t, n)
  BY <1>1, <1>3 DEF Nearest
<1>5. \A t, n : Descends(t, n)' = Descends(t, n)
  BY <1>2 DEF Descends
<1>6. QED
  BY <1>1, <1>2, <1>3, <1>4, <1>5

LEMMA DeclaredAbove ==
  ASSUME supers \in [Types -> SUBSET Types], NEW t \in Types
  PROVE  /\ supers[t] \subseteq Ancestors(t)
         /\ \A s \in Ancestors(t) : supers[s] \subseteq Ancestors(t)
         /\ \A A \in SUBSET Types :
              supers[t] \subseteq A /\ Closed(A) => Ancestors(t) \subseteq A
BY DEF Ancestors, Closed

(* The classes being expanded after one of their types was dealt with.     *)
LEMMA AfterDealt ==
  ASSUME walk \in Walks, Walking, NEW t \in Types
  PROVE  /\ DOMAIN Dealt(t) = DOMAIN walk.frames
         /\ \A i \in DOMAIN walk.frames :
              /\ Dealt(t)[i].of = walk.frames[i].of
              /\ Dealt(t)[i].depth = walk.frames[i].depth
              /\ Pending(Dealt(t)[i]) \subseteq Pending(walk.frames[i])
              /\ \A x \in Pending(walk.frames[i]) : x = t \/ x \in Pending(Dealt(t)[i])
<1> DEFINE f == Head(walk.frames)
           g == [f EXCEPT !.targets = @ \ {t}]
<1>1. f \in Frames /\ walk.frames \in Seq(Frames) /\ walk.frames # <<>>
        /\ walk.frames[1] = f
  BY HeadIsFrame DEF Walking
<1>2. g \in Frames /\ g.of = f.of /\ g.depth = f.depth
        /\ g.unresolved = f.unresolved /\ g.targets = f.targets \ {t}
  BY <1>1 DEF Frames
<1> HIDE DEF f, g
<1>3. /\ DOMAIN Dealt(t) = DOMAIN walk.frames /\ Dealt(t)[1] = g
      /\ \A i \in DOMAIN walk.frames : i # 1 => Dealt(t)[i] = walk.frames[i]
  BY <1>1, <1>2, HeadReplaced DEF Dealt, f, g
<1>4. QED
  BY <1>1, <1>2, <1>3 DEF Pending

LEMMA AfterResolved ==
  ASSUME walk \in Walks, Walking, NEW s \in Head(walk.frames).unresolved,
         NEW T \in SUBSET Types, Resolved(s, T)
  PROVE  /\ DOMAIN walk'.frames = DOMAIN walk.frames /\ walk'.frames # <<>>
         /\ \A i \in DOMAIN walk.frames :
              /\ walk'.frames[i].of = walk.frames[i].of
              /\ walk'.frames[i].depth = walk.frames[i].depth
              /\ T = Head(walk.frames).targets \cup {s} =>
                   Pending(walk'.frames[i]) = Pending(walk.frames[i])
<1> DEFINE f == Head(walk.frames)
           g == [f EXCEPT !.unresolved = @ \ {s}, !.targets = T]
<1>1. f \in Frames /\ walk.frames \in Seq(Frames) /\ walk.frames # <<>>
        /\ walk.frames[1] = f
  BY HeadIsFrame DEF Walking
<1>2. g \in Frames /\ g.of = f.of /\ g.depth = f.depth
        /\ g.unresolved = f.unresolved \ {s} /\ g.targets = T
  BY <1>1 DEF Frames
<1>3. T = f.targets \cup {s} => Pending(g) = Pending(f)
  BY <1>2 DEF Pending
<1> HIDE DEF f, g
<1>4. /\ DOMAIN walk'.frames = DOMAIN walk.frames /\ walk'.frames[1] = g
      /\ walk'.frames # <<>>
      /\ \A i \in DOMAIN walk.frames : i # 1 => walk'.frames[i] = walk.frames[i]
  BY <1>1, <1>2, HeadReplaced DEF Resolved, f, g
<1>5. QED
  BY <1>1, <1>2, <1>3, <1>4 DEF f

LEMMA ResolveKeeps ==
  ASSUME HierarchyTypeOK, HierarchyAssumption, WalkInv, NEW s \in Types, Resolve(s)
  PROVE  WalkInv'
<1>1. /\ Walking /\ walk \in Walks /\ supers' = supers /\ SameQuestion /\ SameProgress
      /\ s \in Head(walk.frames).unresolved /\ walk' \in Walks
  BY ResolveDoes DEF HierarchyTypeOK
<1>2. PICK T \in SUBSET Types :
        Resolved(s, T) /\ (Clean' => Clean /\ T = Head(walk.frames).targets \cup {s})
  BY ResolveDoes
<1>3. /\ DOMAIN walk'.frames = DOMAIN walk.frames /\ walk'.frames # <<>>
      /\ \A i \in DOMAIN walk.frames :
           /\ walk'.frames[i].of = walk.frames[i].of
           /\ walk'.frames[i].depth = walk.frames[i].depth
           /\ Clean' => Pending(walk'.frames[i]) = Pending(walk.frames[i])
  BY <1>1, <1>2, AfterResolved
<1>4. walk.kind # "none"
  BY <1>1 DEF WalkInv, NoWalk, Walking
<1>5. CASE ~Clean'
  BY <1>1, <1>4, <1>5 DEF WalkInv, SameQuestion
<1>6. CASE Clean'
  <2>1. Clean /\ Walking'
    BY <1>2, <1>3, <1>6 DEF Walking
  <2>2. Head(walk'.frames).depth = Head(walk.frames).depth
    <3>1. walk'.frames \in Seq(Frames) /\ walk.frames \in Seq(Frames)
      BY <1>1 DEF Walks
    <3>2. Head(walk'.frames) = walk'.frames[1] /\ Head(walk.frames) = walk.frames[1]
            /\ 1 \in DOMAIN walk.frames
      BY <1>1, <1>3, <3>1 DEF Walking
    <3>3. QED
      BY <1>3, <3>2
  <2>3. NothingAdded => NothingAdded'
    BY <1>1, <1>3, <1>6, DeclarationsStand DEF NothingAdded, SameQuestion, SameProgress
  <2>4. NothingLost => NothingLost'
    BY <1>1, <1>3, <1>6 DEF NothingLost, Owes, SameQuestion, SameProgress
  <2>5. Chain => Chain'
    BY <1>1 DEF Chain, SameQuestion, SameProgress
  <2>6. Levels => Levels'
    BY <1>1, <1>3, <2>2, DeclarationsStand DEF Levels, Level, SameQuestion, SameProgress
  <2>7. QED
    BY <1>1, <1>4, <2>1, <2>3, <2>4, <2>5, <2>6 DEF WalkInv, SameQuestion
<1>7. QED
  BY <1>5, <1>6

LEMMA SkipKeeps ==
  ASSUME HierarchyTypeOK, WalkInv, NEW t \in Types, SkipVisited(t)
  PROVE  WalkInv'
<1>1. /\ Walking /\ walk \in Walks /\ supers' = supers /\ SameQuestion /\ SameProgress
      /\ t \in walk.visited /\ walk'.frames = Dealt(t) /\ (Clean' <=> Clean)
      /\ walk' \in Walks
  BY SkipDoes DEF HierarchyTypeOK, Expanded
<1>2. /\ DOMAIN walk'.frames = DOMAIN walk.frames
      /\ \A i \in DOMAIN walk.frames :
           /\ walk'.frames[i].of = walk.frames[i].of
           /\ walk'.frames[i].depth = walk.frames[i].depth
           /\ Pending(walk'.frames[i]) \subseteq Pending(walk.frames[i])
           /\ \A x \in Pending(walk.frames[i]) : x = t \/ x \in Pending(walk'.frames[i])
  BY <1>1, AfterDealt
<1>3. walk.kind # "none"
  BY <1>1 DEF WalkInv, NoWalk, Walking
<1>4. CASE ~Clean
  BY <1>1, <1>3, <1>4 DEF WalkInv, SameQuestion
<1>5. CASE Clean
  <2>1. walk'.frames \in Seq(Frames) /\ walk.frames \in Seq(Frames) /\ walk.frames # <<>>
    BY <1>1 DEF Walks, Walking
  <2>2. walk'.frames # <<>> /\ Head(walk'.frames).depth = Head(walk.frames).depth
    <3>1. 1 \in DOMAIN walk.frames /\ Head(walk.frames) = walk.frames[1]
      BY <2>1
    <3>2. walk'.frames # <<>> /\ Head(walk'.frames) = walk'.frames[1]
      BY <1>2, <2>1, <3>1
    <3>3. QED
      BY <1>2, <3>1, <3>2
  <2>3. NothingAdded => NothingAdded'
    BY <1>1, <1>2, DeclarationsStand DEF NothingAdded, SameQuestion, SameProgress
  <2>4. NothingLost => NothingLost'
    BY <1>1, <1>2 DEF NothingLost, Owes, SameQuestion, SameProgress
  <2>5. Chain => Chain'
    BY <1>1 DEF Chain, SameQuestion, SameProgress
  <2>6. Levels => Levels'
    BY <1>1, <1>2, <2>2, DeclarationsStand DEF Levels, Level, SameQuestion, SameProgress
  <2>7. QED
    BY <1>1, <1>3, <1>5, <2>2, <2>3, <2>4, <2>5, <2>6 DEF WalkInv, SameQuestion, Walking
<1>6. QED
  BY <1>4, <1>5

(* A type a class under expansion declares is above the start.             *)
LEMMA EnteredIsAbove ==
  ASSUME HierarchyTypeOK, Walking, NothingAdded, NEW t \in Head(walk.frames).targets
  PROVE  /\ t \in Types /\ Head(walk.frames).of \in walk.visited \ walk.next
         /\ t \in supers[Head(walk.frames).of]
         /\ t \in Ancestors(walk.start)
<1>1. /\ walk.start \in Types /\ walk.visited \subseteq Types
      /\ supers \in [Types -> SUBSET Types]
  BY DEF HierarchyTypeOK, Walks
<1>2. 1 \in DOMAIN walk.frames /\ walk.frames[1] = Head(walk.frames)
  BY HeadIsFrame DEF HierarchyTypeOK
<1>3. Head(walk.frames).of \in walk.visited \ walk.next /\ t \in supers[Head(walk.frames).of]
  BY <1>2 DEF NothingAdded, Pending
<1>4. t \in Types
  BY <1>1, <1>3
<1>5. Head(walk.frames).of \in {walk.start} \cup Ancestors(walk.start)
  BY <1>3 DEF NothingAdded
<1>6. QED
  BY <1>1, <1>3, <1>4, <1>5, DeclaredAbove

LEMMA DepthFirstKeeps ==
  ASSUME HierarchyTypeOK, HierarchyAssumption, WalkInv, NEW t \in Types, VisitDepthFirst(t)
  PROVE  WalkInv'
<1> DEFINE d == Head(walk.frames).depth + 1
<1>1. /\ Walking /\ walk \in Walks /\ supers' = supers /\ SameQuestion
      /\ walk.kind = "dfs" /\ t \in Head(walk.frames).targets \ walk.visited
      /\ walk'.next = walk.next /\ walk'.visited = walk.visited \cup {t}
      /\ walk'.found = Collected(t) /\ walk' \in Walks /\ (Clean' => Clean)
      /\ Dealt(t) \in Seq(Frames)
  BY DepthFirstDoes, DealtTyped DEF HierarchyTypeOK, Expanded
<1>2. \/ walk'.frames = <<FrameOf(t, d)>> \o Dealt(t) /\ FrameOf(t, d) \in Frames
      \/ walk'.frames = Dealt(t) /\ (Clean' => supers[t] = {})
  BY DepthFirstDoes, FrameTyped
<1> HIDE DEF d
<1>3. CASE ~Clean'
  BY <1>1, <1>3 DEF WalkInv, SameQuestion
<1>4. CASE Clean'
  <2>1. Clean /\ NothingAdded /\ NothingLost /\ Chain
    BY <1>1, <1>4 DEF WalkInv
  <2>2. /\ DOMAIN Dealt(t) = DOMAIN walk.frames
        /\ \A i \in DOMAIN Dealt(t) :
             /\ Dealt(t)[i].of \in walk.visited
             /\ Pending(Dealt(t)[i]) \subseteq supers[Dealt(t)[i].of]
        /\ \A u, s : Owes(u, s) =>
             s = t \/ \E i \in DOMAIN Dealt(t) : Dealt(t)[i].of = u /\ s \in Pending(Dealt(t)[i])
    <3>1. /\ DOMAIN Dealt(t) = DOMAIN walk.frames
          /\ \A i \in DOMAIN walk.frames :
               /\ Dealt(t)[i].of = walk.frames[i].of
               /\ Pending(Dealt(t)[i]) \subseteq Pending(walk.frames[i])
      BY <1>1, AfterDealt
    <3>2. ASSUME NEW i \in DOMAIN Dealt(t)
          PROVE  /\ Dealt(t)[i].of \in walk.visited
                 /\ Pending(Dealt(t)[i]) \subseteq supers[Dealt(t)[i].of]
      <4>1. /\ walk.frames[i].of \in walk.visited
            /\ Pending(walk.frames[i]) \subseteq supers[walk.frames[i].of]
        BY <2>1, <3>1 DEF NothingAdded
      <4>2. QED
        BY <3>1, <4>1
    <3>3. \A u, s : Owes(u, s) =>
             s = t \/ \E i \in DOMAIN Dealt(t) : Dealt(t)[i].of = u /\ s \in Pending(Dealt(t)[i])
      BY <1>1, <3>1, AfterDealt DEF Owes
    <3>4. QED
      BY <3>1, <3>2, <3>3
  <2>3. FrameOf(t, d).of = t /\ Pending(FrameOf(t, d)) = supers[t]
    BY DEF FrameOf, Pending
  <2>4. \A i \in DOMAIN walk'.frames :
          \/ walk'.frames[i].of = t /\ Pending(walk'.frames[i]) = supers[t]
          \/ \E k \in DOMAIN Dealt(t) : walk'.frames[i] = Dealt(t)[k]
    <3>1. CASE walk'.frames = Dealt(t)
      BY <3>1
    <3>2. CASE walk'.frames = <<FrameOf(t, d)>> \o Dealt(t) /\ FrameOf(t, d) \in Frames
      <4> DEFINE fs == <<FrameOf(t, d)>> \o Dealt(t)
      <4>1. /\ fs[1] = FrameOf(t, d)
            /\ \A i \in DOMAIN fs : i # 1 => i - 1 \in DOMAIN Dealt(t) /\ fs[i] = Dealt(t)[i - 1]
        BY <1>1, <3>2, Pushed
      <4> HIDE DEF fs
      <4>2. walk'.frames = fs
        BY <3>2 DEF fs
      <4>3. QED
        BY <2>3, <4>1, <4>2
    <3>3. QED
      BY <1>2, <3>1, <3>2
  <2>5. /\ \A k \in DOMAIN Dealt(t) : \E i \in DOMAIN walk'.frames :
             walk'.frames[i] = Dealt(t)[k]
        /\ supers[t] # {} => \E i \in DOMAIN walk'.frames :
             walk'.frames[i].of = t /\ Pending(walk'.frames[i]) = supers[t]
    <3>1. CASE walk'.frames = Dealt(t) /\ supers[t] = {}
      BY <3>1
    <3>2. CASE walk'.frames = <<FrameOf(t, d)>> \o Dealt(t) /\ FrameOf(t, d) \in Frames
      <4> DEFINE fs == <<FrameOf(t, d)>> \o Dealt(t)
      <4>1. /\ fs[1] = FrameOf(t, d) /\ 1 \in DOMAIN fs
            /\ \A k \in DOMAIN Dealt(t) : k + 1 \in DOMAIN fs /\ fs[k + 1] = Dealt(t)[k]
        BY <1>1, <3>2, Pushed
      <4> HIDE DEF fs
      <4>2. walk'.frames = fs
        BY <3>2 DEF fs
      <4>3. QED
        BY <2>3, <4>1, <4>2
    <3>3. QED
      BY <1>2, <1>4, <3>1, <3>2
  <2>6. t \in Ancestors(walk.start) /\ t # walk.start
    BY <1>1, <2>1, EnteredIsAbove DEF NothingAdded
  <2>7. NothingAdded'
    <3>1. walk.next = {}
      BY <2>1 DEF Chain
    <3>2. walk'.start \in walk'.visited \ walk'.next /\ walk'.next \subseteq walk'.visited
      BY <1>1, <2>1 DEF NothingAdded, SameQuestion, Chain
    <3>3. walk'.visited \subseteq {walk'.start} \cup Ancestors(walk.start)'
      BY <1>1, <2>1, <2>6, DeclarationsStand DEF NothingAdded, SameQuestion
    <3>4. \A i \in DOMAIN walk'.frames :
            /\ walk'.frames[i].of \in walk'.visited \ walk'.next
            /\ Pending(walk'.frames[i]) \subseteq supers'[walk'.frames[i].of]
      <4>1. ASSUME NEW i \in DOMAIN walk'.frames
            PROVE  /\ walk'.frames[i].of \in walk.visited \cup {t}
                   /\ Pending(walk'.frames[i]) \subseteq supers[walk'.frames[i].of]
        <5>1. CASE walk'.frames[i].of = t /\ Pending(walk'.frames[i]) = supers[t]
          BY <5>1
        <5>2. ASSUME NEW k \in DOMAIN Dealt(t), walk'.frames[i] = Dealt(t)[k]
              PROVE  /\ walk'.frames[i].of \in walk.visited \cup {t}
                     /\ Pending(walk'.frames[i]) \subseteq supers[walk'.frames[i].of]
          BY <2>2, <5>2
        <5>3. QED
          BY <2>4, <5>1, <5>2
      <4>2. QED
        BY <1>1, <3>1, <4>1
    <3>5. QED
      BY <3>2, <3>3, <3>4, <1>1, DeclarationsStand DEF NothingAdded
  <2>8. NothingLost'
    <3>1. ASSUME NEW u \in walk'.visited, NEW s \in supers[u]
          PROVE  s \in walk'.visited \/ Owes(u, s)'
      <4>1. CASE u = t
        BY <2>5, <3>1, <4>1 DEF Owes
      <4>2. CASE u # t
        <5>1. s \in walk.visited \/ Owes(u, s)
          BY <1>1, <2>1, <3>1, <4>2 DEF NothingLost, Chain
        <5>2. CASE s \in walk.visited \/ s = t
          BY <1>1, <5>2
        <5>3. CASE s # t /\ Owes(u, s)
          <6>1. PICK k \in DOMAIN Dealt(t) : Dealt(t)[k].of = u /\ s \in Pending(Dealt(t)[k])
            BY <2>2, <5>3
          <6>2. PICK i \in DOMAIN walk'.frames : walk'.frames[i] = Dealt(t)[k]
            BY <2>5
          <6>3. QED
            BY <6>1, <6>2 DEF Owes
        <5>4. QED
          BY <5>1, <5>2, <5>3
      <4>3. QED
        BY <4>1, <4>2
    <3>2. QED
      BY <1>1, <3>1 DEF NothingLost
  <2>9. Chain'
    BY <1>1, <2>1, <2>6 DEF Chain, SameQuestion, Collected
  <2>10. QED
    BY <1>1, <2>7, <2>8, <2>9 DEF WalkInv, SameQuestion
<1>5. QED
  BY <1>3, <1>4

LEMMA BreadthFirstKeeps ==
  ASSUME HierarchyTypeOK, HierarchyAssumption, WalkInv, NEW t \in Types, VisitBreadthFirst(t)
  PROVE  WalkInv'
<1>1. /\ Walking /\ walk \in Walks /\ supers' = supers /\ SameQuestion
      /\ walk.kind = "bfs" /\ t \in Head(walk.frames).targets \ walk.visited
      /\ walk'.next = walk.next \cup {t} /\ walk'.visited = walk.visited \cup {t}
      /\ walk'.found = Collected(t) /\ walk' \in Walks /\ (Clean' <=> Clean)
      /\ walk'.frames = Dealt(t)
  BY BreadthFirstDoes DEF HierarchyTypeOK, Expanded
<1>2. /\ DOMAIN walk'.frames = DOMAIN walk.frames
      /\ \A i \in DOMAIN walk.frames :
           /\ walk'.frames[i].of = walk.frames[i].of
           /\ walk'.frames[i].depth = walk.frames[i].depth
           /\ Pending(walk'.frames[i]) \subseteq Pending(walk.frames[i])
           /\ \A x \in Pending(walk.frames[i]) : x = t \/ x \in Pending(walk'.frames[i])
  BY <1>1, AfterDealt
<1>3. CASE ~Clean
  BY <1>1, <1>3 DEF WalkInv, SameQuestion
<1>4. CASE Clean
  <2>1. NothingAdded /\ NothingLost /\ Levels
    BY <1>1, <1>4 DEF WalkInv
  <2>2. t \in Ancestors(walk.start) /\ t \in supers[Head(walk.frames).of]
          /\ Head(walk.frames).of \in walk.visited \ walk.next
    BY <1>1, <2>1, EnteredIsAbove
  <2>3. t # walk.start /\ walk'.visited \ walk'.next = walk.visited \ walk.next
    BY <1>1, <2>1 DEF NothingAdded
  <2>4. walk'.frames # <<>> /\ Head(walk'.frames).depth = Head(walk.frames).depth
    <3>1. walk'.frames \in Seq(Frames) /\ walk.frames \in Seq(Frames) /\ walk.frames # <<>>
      BY <1>1 DEF Walks, Walking
    <3>2. 1 \in DOMAIN walk.frames /\ Head(walk.frames) = walk.frames[1]
      BY <3>1
    <3>3. walk'.frames # <<>> /\ Head(walk'.frames) = walk'.frames[1]
      BY <1>2, <3>1, <3>2
    <3>4. QED
      BY <1>2, <3>2, <3>3
  <2>5. NothingAdded'
    <3>1. walk'.start \in walk'.visited \ walk'.next /\ walk'.next \subseteq walk'.visited
      BY <1>1, <2>1, <2>3 DEF NothingAdded, SameQuestion
    <3>2. walk'.visited \subseteq {walk'.start} \cup Ancestors(walk.start)'
      BY <1>1, <2>1, <2>2, DeclarationsStand DEF NothingAdded, SameQuestion
    <3>3. \A i \in DOMAIN walk'.frames :
            /\ walk'.frames[i].of \in walk'.visited \ walk'.next
            /\ Pending(walk'.frames[i]) \subseteq supers'[walk'.frames[i].of]
      BY <1>1, <1>2, <2>1, <2>3 DEF NothingAdded
    <3>4. QED
      BY <1>1, <3>1, <3>2, <3>3, DeclarationsStand DEF NothingAdded
  <2>6. NothingLost'
    <3>1. ASSUME NEW u \in walk.visited \ walk.next, NEW s \in supers[u]
          PROVE  s \in walk'.visited \/ Owes(u, s)'
      BY <1>1, <1>2, <2>1, <3>1 DEF NothingLost, Owes
    <3>2. QED
      BY <1>1, <2>3, <3>1 DEF NothingLost
  <2>7. Levels'
    <3>1. \A i \in DOMAIN walk'.frames : walk'.frames[i].depth = Level'
      BY <1>2, <2>1, <2>4 DEF Levels, Level
    <3>2. /\ walk'.visited \ walk'.next = Reached'[Level'][walk'.start]
          /\ Level' < Cardinality(walk'.visited \ walk'.next)
      BY <1>1, <2>1, <2>3, <2>4, DeclarationsStand DEF Levels, Level, SameQuestion
    <3>3. \A x \in walk'.next : \E u \in walk'.visited \ walk'.next : x \in supers'[u]
      BY <1>1, <2>1, <2>2, <2>3 DEF Levels
    <3>4. walk'.found = {x \in walk'.next : NameOf[x] = walk'.target}
      BY <1>1, <2>1 DEF Levels, Collected, SameQuestion
    <3>5. \A x \in walk'.visited \ walk'.next : x # walk'.start => NameOf[x] # walk'.target
      BY <1>1, <2>1, <2>3 DEF Levels, SameQuestion
    <3>6. QED
      BY <3>1, <3>2, <3>3, <3>4, <3>5 DEF Levels
  <2>8. QED
    BY <1>1, <2>4, <2>5, <2>6, <2>7 DEF WalkInv, SameQuestion, Walking
<1>5. QED
  BY <1>3, <1>4

(* The class that returns has nothing left to enter.                       *)
LEMMA NothingOwed ==
  ASSUME HierarchyTypeOK, Expanded, Head(walk.frames).targets = {}
  PROVE  /\ Walking /\ Pending(Head(walk.frames)) = {}
         /\ \A u, s : Owes(u, s) =>
              \E i \in DOMAIN Tail(walk.frames) :
                Tail(walk.frames)[i].of = u /\ s \in Pending(Tail(walk.frames)[i])
<1>1. Walking /\ Pending(Head(walk.frames)) = {}
  BY DEF Expanded, Pending
<1>2. walk.frames \in Seq(Frames) /\ walk.frames # <<>>
  BY <1>1 DEF Walking, HierarchyTypeOK, Walks
<1>3. ASSUME NEW i \in DOMAIN walk.frames, Pending(walk.frames[i]) # {}
      PROVE  i - 1 \in DOMAIN Tail(walk.frames) /\ walk.frames[i] = Tail(walk.frames)[i - 1]
  BY <1>1, <1>2, <1>3, Popped
<1>4. QED
  BY <1>1, <1>3 DEF Owes

(* A level that is done has entered everything one step farther up.        *)
LEMMA LevelIsComplete ==
  ASSUME HierarchyTypeOK, HierarchyAssumption, Expanded, Head(walk.frames).targets = {},
         LastOfLevel, NothingAdded, NothingLost, Levels
  PROVE  /\ Level \in Nat
         /\ \A u \in walk.visited \ walk.next : supers[u] \subseteq walk.visited
         /\ walk.visited = Reached[Level + 1][walk.start]
         /\ Reached[Level][walk.start] = walk.visited \ walk.next
         /\ Level + 1 \in 1..Cardinality(Types)
<1>1. /\ walk.frames \in Seq(Frames) /\ walk.start \in Types /\ walk.visited \subseteq Types
      /\ supers \in [Types -> SUBSET Types]
  BY DEF HierarchyTypeOK, Walks
<1>2. Level \in Nat
  BY HeadIsFrame DEF Level, Expanded, HierarchyTypeOK, Frames, HierarchyAssumption
<1>3. ASSUME NEW u \in walk.visited \ walk.next, NEW s \in supers[u]
      PROVE  s \in walk.visited
  <2>1. ~Owes(u, s)
    BY <1>1, NothingOwed DEF LastOfLevel
  <2>2. QED
    BY <1>3, <2>1 DEF NothingLost
<1>4. /\ Reached[Level][walk.start] = walk.visited \ walk.next
      /\ Reached[Level + 1][walk.start] =
           {walk.start} \cup UNION {supers[s] : s \in Reached[Level][walk.start]}
  BY <1>1, <1>2, ReachedByLevel DEF Levels
<1>5. Reached[Level][walk.start] \subseteq Reached[Level + 1][walk.start]
  <2>1. Level + 1 \in Nat /\ Level \in 0..(Level + 1)
    BY <1>2
  <2>2. QED
    BY <1>1, <2>1, FartherHasMore
<1>6. walk.visited = Reached[Level + 1][walk.start]
  <2>1. ASSUME NEW t \in walk.visited
        PROVE  t \in Reached[Level + 1][walk.start]
    <3>1. CASE t \in walk.next
      BY <1>4, <3>1 DEF Levels
    <3>2. CASE t \notin walk.next
      BY <1>4, <1>5, <3>2
    <3>3. QED
      BY <3>1, <3>2
  <2>2. ASSUME NEW t \in Reached[Level + 1][walk.start]
        PROVE  t \in walk.visited
    BY <1>3, <1>4 DEF NothingAdded
  <2>3. QED
    BY <2>1, <2>2
<1>7. Level + 1 \in 1..Cardinality(Types)
  <2>1. walk.visited \ walk.next \subseteq Types /\ IsFiniteSet(Types)
    BY <1>1 DEF HierarchyAssumption
  <2>2. /\ Cardinality(walk.visited \ walk.next) <= Cardinality(Types)
        /\ Cardinality(Types) \in Nat /\ Cardinality(walk.visited \ walk.next) \in Nat
    BY <2>1, FS_Subset, FS_CardinalityType
  <2>3. QED
    BY <1>2, <2>2 DEF Levels
<1>8. QED
  BY <1>2, <1>3, <1>4, <1>6, <1>7

(* The nearest matches are those of the first level that has one.          *)
LEMMA FirstLevelIsNearest ==
  ASSUME supers \in [Types -> SUBSET Types], NEW t \in Types, NEW n,
         NEW d \in Nat, d + 1 \in 1..Cardinality(Types), Cardinality(Types) \in Nat,
         NEW found, found # {},
         found = Matches(t, n) \cap Reached[d + 1][t],
         Matches(t, n) \cap Reached[d][t] = {}
  PROVE  found = Nearest(t, n)
<1>1. (d + 1) - 1 = d
  OBVIOUS
<1>2. found \subseteq Nearest(t, n)
  BY <1>1 DEF Nearest
<1>3. ASSUME NEW s \in Nearest(t, n)
      PROVE  s \in found
  <2>1. PICK e \in 1..Cardinality(Types) :
          s \in Reached[e][t] /\ Matches(t, n) \cap Reached[e - 1][t] = {}
    BY DEF Nearest
  <2>2. s \in Matches(t, n)
    BY DEF Nearest
  <2>3. e <= d + 1
    <3>1. SUFFICES ASSUME d + 1 <= e - 1
                   PROVE  FALSE
      OBVIOUS
    <3>2. e - 1 \in Nat /\ d + 1 \in 0..(e - 1)
      BY <3>1
    <3>3. Reached[d + 1][t] \subseteq Reached[e - 1][t]
      BY <3>2, FartherHasMore
    <3>4. QED
      BY <2>1, <3>3
  <2>4. Reached[e][t] \subseteq Reached[d + 1][t]
    <3>1. d + 1 \in Nat /\ e \in 0..(d + 1)
      BY <2>3
    <3>2. QED
      BY <3>1, FartherHasMore
  <2>5. QED
    BY <2>1, <2>2, <2>4
<1>4. QED
  BY <1>2, <1>3

LEMMA ReturnKeeps ==
  ASSUME HierarchyTypeOK, HierarchyAssumption, WalkInv, Return
  PROVE  WalkInv'
<1>1. /\ Walking /\ walk \in Walks /\ supers' = supers /\ SameQuestion /\ walk' \in Walks
      /\ Expanded /\ Head(walk.frames).targets = {}
  BY ReturnDoes DEF HierarchyTypeOK, Expanded
<1>2. Pops \/ Ends \/ Climbing
  BY ReturnDoes
<1>3. walk.kind # "none" /\ (walk.kind # "dfs" => walk.kind = "bfs")
  BY <1>1 DEF WalkInv, NoWalk, Walking, Walks
<1>4. Clean' => Clean
  BY <1>2 DEF Pops, Ends, Climbing
<1>5. CASE ~Clean'
  BY <1>1, <1>3, <1>5 DEF WalkInv, SameQuestion
<1>6. /\ walk.frames \in Seq(Frames) /\ walk.frames # <<>> /\ walk.start \in Types
      /\ walk.visited \subseteq Types /\ supers \in [Types -> SUBSET Types]
  BY <1>1 DEF Walks, Walking, HierarchyTypeOK
<1>7. Clean' => NothingAdded /\ NothingLost /\ (walk.kind = "dfs" => Chain)
                  /\ (walk.kind = "bfs" => Levels)
  BY <1>1, <1>3, <1>4 DEF WalkInv
<1>8. CASE Clean' /\ Pops
  <2>1. \A i \in DOMAIN walk'.frames : i + 1 \in DOMAIN walk.frames
                                        /\ walk'.frames[i] = walk.frames[i + 1]
    BY <1>6, <1>8, Popped DEF Pops
  <2>2. NothingAdded'
    <3>1. \A i \in DOMAIN walk'.frames :
            /\ walk'.frames[i].of \in walk.visited \ walk.next
            /\ Pending(walk'.frames[i]) \subseteq supers[walk'.frames[i].of]
      BY <1>7, <1>8, <2>1 DEF NothingAdded
    <3>2. QED
      BY <1>1, <1>7, <1>8, <3>1, DeclarationsStand
         DEF NothingAdded, SameQuestion, SameProgress, Pops
  <2>3. NothingLost'
    <3>1. \A u, s : Owes(u, s) => Owes(u, s)'
      <4>1. \A u, s : Owes(u, s) =>
              \E i \in DOMAIN walk'.frames :
                walk'.frames[i].of = u /\ s \in Pending(walk'.frames[i])
        BY <1>1, <1>8, NothingOwed DEF Pops
      <4>2. \A u, s : (\E i \in DOMAIN walk'.frames :
                          walk'.frames[i].of = u /\ s \in Pending(walk'.frames[i]))
              => Owes(u, s)'
        BY DEF Owes
      <4>3. QED
        BY <4>1, <4>2
    <3>2. QED
      BY <1>1, <1>7, <1>8, <3>1 DEF NothingLost, SameProgress, Pops
  <2>4. walk.kind = "dfs" => Chain'
    BY <1>1, <1>7, <1>8 DEF Chain, SameQuestion, SameProgress, Pops
  <2>5. walk.kind = "bfs" => Walking' /\ Levels'
    <3>1. SUFFICES ASSUME walk.kind = "bfs"
                   PROVE  Walking' /\ Levels'
      OBVIOUS
    <3>2. Walking'
      BY <1>8, <3>1 DEF Pops, LastOfLevel, Walking
    <3>3. walk'.frames \in Seq(Frames) /\ walk'.frames # <<>>
      BY <1>1, <3>2 DEF Walking, Walks
    <3>4. 1 \in DOMAIN walk'.frames /\ Head(walk'.frames) = walk'.frames[1]
      BY <3>3
    <3>5. \A i \in DOMAIN walk'.frames : walk'.frames[i].depth = Level
      BY <1>7, <1>8, <2>1, <3>1 DEF Levels
    <3>6. Level' = Level
      BY <3>4, <3>5 DEF Level
    <3>7. QED
      BY <1>1, <1>7, <1>8, <3>1, <3>2, <3>5, <3>6, DeclarationsStand
         DEF Levels, SameQuestion, SameProgress, Pops
  <2>6. QED
    BY <1>1, <1>3, <2>2, <2>3, <2>4, <2>5 DEF WalkInv, SameQuestion
<1>9. CASE Clean' /\ (Ends \/ Climbing)
  <2>1. walk.kind = "bfs" /\ LastOfLevel /\ NothingAdded /\ NothingLost /\ Levels
    BY <1>7, <1>9 DEF Ends, Climbing, LastOfLevel
  <2>2. /\ Level \in Nat
        /\ \A u \in walk.visited \ walk.next : supers[u] \subseteq walk.visited
        /\ walk.visited = Reached[Level + 1][walk.start]
        /\ Reached[Level][walk.start] = walk.visited \ walk.next
        /\ Level + 1 \in 1..Cardinality(Types)
    BY <1>1, <2>1, LevelIsComplete
  <2>3. Cardinality(Types) \in Nat
    BY FS_CardinalityType DEF HierarchyAssumption
  <2>4. Matches(walk.start, walk.target) \cap walk.visited = walk.found
    BY <2>1 DEF Levels, NothingAdded, Matches
  <2>5. Matches(walk.start, walk.target) \cap (walk.visited \ walk.next) = {}
    BY <2>1 DEF Levels, Matches
  <2>6. CASE Ends
    <3>1. walk.found = Nearest(walk.start, walk.target)
      <4>1. CASE walk.found # {}
        BY <1>6, <2>2, <2>3, <2>4, <2>5, <4>1, FirstLevelIsNearest
      <4>2. CASE walk.found = {}
        <5>1. walk.next = {}
          BY <1>9, <2>6, <4>2 DEF Ends
        <5>2. supers[walk.start] \subseteq walk.visited /\ Closed(walk.visited)
          BY <2>1, <2>2, <5>1 DEF NothingAdded, Closed
        <5>3. Ancestors(walk.start) \subseteq walk.visited
          BY <1>6, <5>2, DeclaredAbove
        <5>4. Matches(walk.start, walk.target) = {}
          BY <2>4, <4>2, <5>3 DEF Matches
        <5>5. QED
          BY <4>2, <5>4 DEF Nearest
      <4>3. QED
        BY <4>1, <4>2
    <3>2. walk'.found = Nearest(walk.start, walk.target)'
      BY <1>1, <2>6, <3>1, DeclarationsStand DEF Ends, SameQuestion
    <3>3. ~Walking'
      BY <2>6 DEF Ends, Walking
    <3>4. QED
      BY <1>1, <2>1, <3>2, <3>3 DEF WalkInv, SameQuestion
  <2>7. CASE Climbing
    <3> DEFINE d == Level + 1
    <3>1. /\ walk'.next = {} /\ walk'.visited = walk.visited /\ walk'.found = {}
          /\ walk'.frames # <<>> /\ walk.found = {}
          /\ \A t \in walk.next : \E i \in DOMAIN walk'.frames : walk'.frames[i] = FrameOf(t, d)
          /\ \A i \in DOMAIN walk'.frames : \E t \in walk.next : walk'.frames[i] = FrameOf(t, d)
      BY <2>7 DEF Climbing, Level
    <3>2. \A t \in Types : /\ FrameOf(t, d).of = t /\ FrameOf(t, d).depth = d
                           /\ Pending(FrameOf(t, d)) = supers[t]
      BY DEF FrameOf, Pending
    <3>3. d \in Nat /\ walk.next \subseteq walk.visited
      BY <2>1, <2>2 DEF NothingAdded
    <3> HIDE DEF d
    <3>4. ASSUME NEW i \in DOMAIN walk'.frames
          PROVE  /\ walk'.frames[i].of \in walk.visited /\ walk'.frames[i].depth = d
                 /\ Pending(walk'.frames[i]) \subseteq supers[walk'.frames[i].of]
      BY <1>6, <3>1, <3>2, <3>3
    <3>5. NothingAdded'
      BY <1>1, <2>1, <3>1, <3>4, DeclarationsStand DEF NothingAdded, SameQuestion
    <3>6. NothingLost'
      <4>1. ASSUME NEW u \in walk.visited, NEW s \in supers[u]
            PROVE  s \in walk.visited \/ Owes(u, s)'
        <5>1. CASE u \in walk.next
          <6>1. PICK i \in DOMAIN walk'.frames : walk'.frames[i] = FrameOf(u, d)
            BY <3>1, <5>1
          <6>2. QED
            BY <1>6, <3>2, <4>1, <6>1 DEF Owes
        <5>2. CASE u \notin walk.next
          BY <2>2, <4>1, <5>2
        <5>3. QED
          BY <5>1, <5>2
      <4>2. QED
        BY <1>1, <3>1, <4>1 DEF NothingLost
    <3>7. Level' = d
      <4>1. walk'.frames \in Seq(Frames) /\ walk'.frames # <<>>
        BY <1>1, <3>1 DEF Walks
      <4>2. 1 \in DOMAIN walk'.frames /\ Head(walk'.frames) = walk'.frames[1]
        BY <4>1
      <4>3. QED
        BY <3>4, <4>2 DEF Level
    <3>8. Levels'
      <4>1. walk'.visited \ walk'.next = Reached'[d][walk'.start]
        BY <1>1, <2>2, <3>1, DeclarationsStand DEF d, SameQuestion
      <4>2. d < Cardinality(walk'.visited \ walk'.next)
        <5>1. PICK t \in walk.next : TRUE
          BY <2>7 DEF Climbing
        <5>2. IsFiniteSet(walk.visited)
          BY <1>6, FS_Subset DEF HierarchyAssumption
        <5>3. /\ walk.visited \ walk.next \subseteq walk.visited \ {t}
              /\ IsFiniteSet(walk.visited \ {t}) /\ t \in walk.visited
          BY <3>3, <5>2, FS_Subset
        <5>4. /\ Cardinality(walk.visited \ walk.next) <= Cardinality(walk.visited \ {t})
              /\ Cardinality(walk.visited \ {t}) = Cardinality(walk.visited) - 1
              /\ Cardinality(walk.visited) \in Nat
              /\ Cardinality(walk.visited \ walk.next) \in Nat
          BY <5>2, <5>3, FS_Subset, FS_CardinalityType, FS_RemoveElement
        <5>5. Level < Cardinality(walk.visited \ walk.next)
          BY <2>1 DEF Levels
        <5>6. QED
          BY <2>2, <3>1, <5>4, <5>5 DEF d
      <4>3. \A t \in walk'.visited : t # walk'.start => NameOf[t] # walk'.target
        BY <1>1, <2>1, <3>1 DEF SameQuestion, Levels
      <4>4. QED
        BY <1>1, <3>1, <3>4, <3>7, <4>1, <4>2, <4>3 DEF Levels, SameQuestion
    <3>9. Walking'
      BY <3>1 DEF Walking
    <3>10. QED
      BY <1>1, <2>1, <3>5, <3>6, <3>8, <3>9 DEF WalkInv, SameQuestion
  <2>8. QED
    BY <1>9, <2>6, <2>7
<1>10. QED
  BY <1>2, <1>5, <1>8, <1>9

LEMMA WalkStepKeeps ==
  ASSUME HierarchyTypeOK, HierarchyAssumption, WalkInv, WalkStep
  PROVE  /\ HierarchyTypeOK' /\ WalkInv'
         /\ Walking /\ supers' = supers /\ cold' \subseteq cold /\ SameQuestion
         /\ Clean' => Clean
<1>1. /\ walk \in Walks /\ cold \subseteq Types /\ supers \in [Types -> SUBSET Types]
      /\ walk.kind = "dfs" =>
           \A i \in DOMAIN walk.frames : walk.frames[i].depth = Len(walk.frames) - i
  BY DEF HierarchyTypeOK
<1>2. walk.frames \in Seq(Frames)
  BY <1>1 DEF Walks
<1>3. ASSUME supers' = supers, cold' \subseteq cold, walk' \in Walks,
             walk'.kind = "dfs" =>
               \A i \in DOMAIN walk'.frames : walk'.frames[i].depth = Len(walk'.frames) - i
      PROVE  HierarchyTypeOK'
  BY <1>1, <1>3 DEF HierarchyTypeOK
<1>4. ASSUME NEW t \in Types, Resolve(t)
      PROVE  /\ HierarchyTypeOK' /\ WalkInv'
             /\ Walking /\ supers' = supers /\ cold' \subseteq cold /\ SameQuestion
             /\ Clean' => Clean
  <2>1. /\ Walking /\ supers' = supers /\ cold' \subseteq cold /\ walk' \in Walks
        /\ SameQuestion /\ t \in Head(walk.frames).unresolved /\ (Clean' => Clean)
    BY <1>4, ResolveDoes
  <2>2. PICK T \in SUBSET Types : Resolved(t, T)
    BY <1>4, ResolveDoes
  <2>3. /\ DOMAIN walk'.frames = DOMAIN walk.frames
        /\ \A i \in DOMAIN walk.frames : walk'.frames[i].depth = walk.frames[i].depth
    BY <1>1, <2>1, <2>2, AfterResolved
  <2>4. walk'.frames \in Seq(Frames)
    BY <2>1 DEF Walks
  <2>5. Len(walk'.frames) = Len(walk.frames)
    BY <1>2, <2>3, <2>4
  <2>6. HierarchyTypeOK'
    BY <1>1, <1>3, <2>1, <2>3, <2>5 DEF SameQuestion
  <2>7. QED
    BY <1>4, <2>1, <2>6, ResolveKeeps
<1>5. ASSUME NEW t \in Types, SkipVisited(t)
      PROVE  /\ HierarchyTypeOK' /\ WalkInv'
             /\ Walking /\ supers' = supers /\ cold' \subseteq cold /\ SameQuestion
             /\ Clean' => Clean
  <2>1. /\ Walking /\ supers' = supers /\ cold' \subseteq cold /\ walk' \in Walks
        /\ SameQuestion /\ walk'.frames = Dealt(t) /\ (Clean' => Clean)
    BY <1>5, SkipDoes DEF Expanded
  <2>2. /\ DOMAIN walk'.frames = DOMAIN walk.frames /\ Len(walk'.frames) = Len(walk.frames)
        /\ \A i \in DOMAIN walk.frames : walk'.frames[i].depth = walk.frames[i].depth
    BY <1>1, <2>1, AfterDealt, DealtTyped
  <2>3. HierarchyTypeOK'
    BY <1>1, <1>3, <2>1, <2>2 DEF SameQuestion
  <2>4. QED
    BY <1>5, <2>1, <2>3, SkipKeeps
<1>6. ASSUME NEW t \in Types, VisitDepthFirst(t)
      PROVE  /\ HierarchyTypeOK' /\ WalkInv'
             /\ Walking /\ supers' = supers /\ cold' \subseteq cold /\ SameQuestion
             /\ Clean' => Clean
  <2> DEFINE d == Head(walk.frames).depth + 1
             fs == <<FrameOf(t, d)>> \o Dealt(t)
  <2>1. /\ Walking /\ supers' = supers /\ cold' \subseteq cold /\ walk' \in Walks
        /\ SameQuestion /\ walk.kind = "dfs" /\ (Clean' => Clean)
        /\ (walk'.frames = fs /\ d \in 0..MaxDepth) \/ walk'.frames = Dealt(t)
    BY <1>6, DepthFirstDoes DEF Expanded
  <2>2. /\ DOMAIN Dealt(t) = DOMAIN walk.frames /\ Len(Dealt(t)) = Len(walk.frames)
        /\ Dealt(t) \in Seq(Frames)
        /\ \A i \in DOMAIN Dealt(t) : Dealt(t)[i].depth = Len(Dealt(t)) - i
    BY <1>1, <2>1, AfterDealt, DealtTyped
  <2>3. CASE walk'.frames = Dealt(t)
    BY <1>3, <1>6, <2>1, <2>2, <2>3, DepthFirstKeeps
  <2>4. CASE walk'.frames = fs /\ d \in 0..MaxDepth
    <3>1. FrameOf(t, d) \in Frames /\ FrameOf(t, d).depth = d
      BY <2>4, FrameTyped DEF FrameOf
    <3>2. d = Len(walk.frames)
      <4>1. 1 \in DOMAIN walk.frames /\ walk.frames[1] = Head(walk.frames)
        BY <1>1, <2>1, HeadIsFrame
      <4>2. Head(walk.frames).depth = Len(walk.frames) - 1
        BY <1>1, <2>1, <4>1
      <4>3. QED
        BY <1>2, <4>2
    <3>3. /\ Len(fs) = Len(Dealt(t)) + 1 /\ fs[1] = FrameOf(t, d)
          /\ \A i \in DOMAIN fs : i # 1 => i - 1 \in DOMAIN Dealt(t) /\ fs[i] = Dealt(t)[i - 1]
          /\ DOMAIN fs \subseteq Nat
      BY <2>2, <3>1, Pushed
    <3> HIDE DEF fs, d
    <3>4. ASSUME NEW i \in DOMAIN fs
          PROVE  fs[i].depth = Len(fs) - i
      <4>1. CASE i = 1
        BY <1>2, <2>2, <3>1, <3>2, <3>3, <4>1
      <4>2. CASE i # 1
        <5>1. fs[i].depth = Len(Dealt(t)) - (i - 1)
          BY <2>2, <3>3, <4>2
        <5>2. i \in Nat /\ Len(Dealt(t)) \in Nat
          BY <2>2, <3>3
        <5>3. QED
          BY <3>3, <5>1, <5>2
      <4>3. QED
        BY <4>1, <4>2
    <3>5. HierarchyTypeOK'
      BY <1>3, <2>1, <2>4, <3>4
    <3>6. QED
      BY <1>6, <2>1, <3>5, DepthFirstKeeps
  <2>5. QED
    BY <2>1, <2>3, <2>4
<1>7. ASSUME NEW t \in Types, VisitBreadthFirst(t)
      PROVE  /\ HierarchyTypeOK' /\ WalkInv'
             /\ Walking /\ supers' = supers /\ cold' \subseteq cold /\ SameQuestion
             /\ Clean' => Clean
  <2>1. /\ Walking /\ supers' = supers /\ cold' \subseteq cold /\ walk' \in Walks
        /\ SameQuestion /\ walk.kind = "bfs" /\ (Clean' => Clean)
    BY <1>7, BreadthFirstDoes DEF Expanded
  <2>2. HierarchyTypeOK'
    BY <1>3, <2>1 DEF SameQuestion
  <2>3. QED
    BY <1>7, <2>1, <2>2, BreadthFirstKeeps
<1>8. ASSUME Return
      PROVE  /\ HierarchyTypeOK' /\ WalkInv'
             /\ Walking /\ supers' = supers /\ cold' \subseteq cold /\ SameQuestion
             /\ Clean' => Clean
  <2>1. /\ Walking /\ supers' = supers /\ cold' \subseteq cold /\ walk' \in Walks
        /\ SameQuestion /\ (Pops \/ Ends \/ Climbing) /\ (Clean' => Clean)
    BY <1>8, ReturnDoes DEF Expanded, Pops, Ends, Climbing
  <2>2. CASE Pops
    <3>1. /\ walk'.frames = Tail(walk.frames) /\ Len(walk'.frames) = Len(walk.frames) - 1
          /\ \A i \in DOMAIN walk'.frames : i + 1 \in DOMAIN walk.frames
               /\ walk'.frames[i] = walk.frames[i + 1]
      BY <1>2, <2>1, <2>2, Popped DEF Pops, Walking
    <3>2. walk'.frames \in Seq(Frames)
      BY <2>1 DEF Walks
    <3>3. \A i \in DOMAIN walk'.frames : i \in Nat
      BY <3>2
    <3>4. ASSUME walk.kind = "dfs", NEW i \in DOMAIN walk'.frames
          PROVE  walk'.frames[i].depth = Len(walk'.frames) - i
      <4>1. walk'.frames[i].depth = Len(walk.frames) - (i + 1)
        BY <1>1, <3>1, <3>4
      <4>2. i \in Nat /\ Len(walk.frames) \in Nat
        BY <1>2, <3>3
      <4>3. QED
        BY <3>1, <4>1, <4>2
    <3>5. HierarchyTypeOK'
      BY <1>3, <2>1, <3>4 DEF SameQuestion
    <3>6. QED
      BY <1>8, <2>1, <3>5, ReturnKeeps
  <2>3. CASE Ends \/ Climbing
    <3>1. walk'.kind = "bfs"
      BY <2>1, <2>3 DEF Ends, Climbing, LastOfLevel, SameQuestion
    <3>2. HierarchyTypeOK'
      BY <1>3, <2>1, <3>1
    <3>3. QED
      BY <1>8, <2>1, <3>2, ReturnKeeps
  <2>4. QED
    BY <2>1, <2>2, <2>3
<1>9. ASSUME NoFileData
      PROVE  /\ HierarchyTypeOK' /\ WalkInv'
             /\ Walking /\ supers' = supers /\ cold' \subseteq cold /\ SameQuestion
             /\ Clean' => Clean
  <2>1. /\ Walking /\ supers' = supers /\ cold' = cold /\ walk' \in Walks
        /\ SameQuestion /\ ~Clean'
        /\ DOMAIN walk'.frames = DOMAIN walk.frames /\ Len(walk'.frames) = Len(walk.frames)
        /\ \A i \in DOMAIN walk.frames : walk'.frames[i].depth = walk.frames[i].depth
    BY <1>9, NoFileDataDoes
  <2>2. HierarchyTypeOK'
    BY <1>1, <1>3, <2>1 DEF SameQuestion
  <2>3. walk.kind # "none"
    BY <2>1 DEF WalkInv, NoWalk, Walking
  <2>4. WalkInv'
    BY <2>1, <2>3 DEF WalkInv, SameQuestion
  <2>5. QED
    BY <2>1, <2>2, <2>4
<1>10. QED
  BY <1>4, <1>5, <1>6, <1>7, <1>8, <1>9 DEF WalkStep

(* A finished walk has found what the reference says.                      *)
LEMMA InvariantIsExact ==
  ASSUME HierarchyTypeOK, WalkInv
  PROVE  WalkIsExact
<1> SUFFICES ASSUME Finished, Clean
             PROVE  walk.found = IF walk.kind = "dfs" THEN Matches(walk.start, walk.target)
                                 ELSE Nearest(walk.start, walk.target)
  BY DEF WalkIsExact, Clean
<1>1. walk.kind # "none" /\ walk.frames = <<>> /\ walk \in Walks
  BY DEF Finished, HierarchyTypeOK
<1>2. CASE walk.kind = "bfs"
  BY <1>1, <1>2 DEF WalkInv, Walking
<1>3. CASE walk.kind = "dfs"
  <2>1. NothingAdded /\ NothingLost /\ Chain
    BY <1>3 DEF WalkInv
  <2>2. walk.visited \subseteq Types /\ walk.start \in Types
    BY <1>1 DEF Walks
  <2>3. supers[walk.start] \subseteq walk.visited /\ Closed(walk.visited)
    BY <1>1, <2>1 DEF NothingLost, NothingAdded, Chain, Owes, Closed
  <2>4. Ancestors(walk.start) \subseteq walk.visited
    BY <2>2, <2>3, DeclaredAbove DEF HierarchyTypeOK
  <2>5. QED
    BY <1>3, <2>1, <2>4 DEF Chain, NothingAdded, Matches
<1>4. QED
  BY <1>1, <1>2, <1>3 DEF Walks

(* A walk that begins, field by field.                                     *)
Begun(kind, t, n, b, g) ==
  [kind |-> kind, target |-> n, start |-> t, frames |-> <<FrameOf(t, 0)>>, next |-> {},
   visited |-> {t}, found |-> {}, budget |-> b, missed |-> FALSE, guessed |-> g]

FromNamesake(kind, t, n, b, g) == [WalkFrom(kind, t, n, b) EXCEPT !.guessed = g]

LEMMA BeginsAs ==
  ASSUME NEW t \in Types, NEW n \in Names, NEW b \in Nat, NEW kind \in {"dfs", "bfs"},
         NEW g \in BOOLEAN
  PROVE  /\ WalkFrom(kind, t, n, b) = Begun(kind, t, n, b, FALSE)
         /\ FromNamesake(kind, t, n, b, g) = Begun(kind, t, n, b, g)
<1> DEFINE fs == <<FrameOf(t, 0)>>
           With(x) == [kind |-> kind, target |-> n, start |-> t, frames |-> fs, next |-> {},
                       visited |-> {t}, found |-> {}, budget |-> b, missed |-> FALSE,
                       guessed |-> x]
<1>1. \A x : Begun(kind, t, n, b, x) = With(x)
  BY DEF Begun
<1>2. ASSUME NEW w, w = WalkFrom(kind, t, n, b)
      PROVE  w = With(FALSE)
  <2> HIDE DEF fs
  <2>1. w = [NoWalk EXCEPT !.kind = kind, !.target = n, !.start = t, !.frames = fs,
                           !.visited = {t}, !.budget = b]
    BY <1>2 DEF WalkFrom, fs
  <2>2. QED
    BY <2>1 DEF NoWalk
<1>3. ASSUME NEW w, NEW x, w = [With(FALSE) EXCEPT !.guessed = x]
      PROVE  w = With(x)
  <2> HIDE DEF fs
  <2>1. QED
    BY <1>3
<1> HIDE DEF With
<1>4. WalkFrom(kind, t, n, b) = With(FALSE)
  BY <1>2
<1>5. FromNamesake(kind, t, n, b, g) = With(g)
  BY <1>3, <1>4 DEF FromNamesake
<1>6. QED
  BY <1>1, <1>4, <1>5

(* A walk that begins, from wherever, has lost and added nothing.          *)
LEMMA WalkBegins ==
  ASSUME HierarchyTypeOK, HierarchyAssumption, NEW t \in Types, NEW n \in Names, NEW b \in Nat,
         NEW kind \in {"dfs", "bfs"}, NEW g \in BOOLEAN,
         walk' = Begun(kind, t, n, b, g), supers' = supers, cold' = cold
  PROVE  /\ HierarchyTypeOK' /\ WalkInv' /\ walk'.guessed = g
         /\ walk'.kind = kind /\ walk'.start = t /\ walk'.target = n /\ Walking'
<1>1. /\ supers \in [Types -> SUBSET Types] /\ cold \subseteq Types
  BY DEF HierarchyTypeOK
<1>2. FrameOf(t, 0) \in Frames /\ FrameOf(t, 0).of = t /\ FrameOf(t, 0).depth = 0
        /\ Pending(FrameOf(t, 0)) = supers[t]
  <2>1. 0 \in 0..MaxDepth
    BY DEF HierarchyAssumption
  <2>2. QED
    BY <2>1, FrameTyped DEF FrameOf, Pending
<1> DEFINE fs == <<FrameOf(t, 0)>>
<1>3. /\ fs \in Seq(Frames) /\ DOMAIN fs = {1} /\ Len(fs) = 1 /\ fs[1] = FrameOf(t, 0)
      /\ fs # <<>> /\ Head(fs) = FrameOf(t, 0)
  BY <1>2
<1> HIDE DEF fs
<1>4. /\ walk'.kind = kind /\ walk'.start = t /\ walk'.target = n /\ walk'.frames = fs
      /\ walk'.next = {} /\ walk'.visited = {t} /\ walk'.found = {} /\ walk'.budget = b
  BY DEF Begun, fs
<1>5. walk' \in Walks /\ walk'.guessed = g
  <2>1. g = TRUE \/ g = FALSE
    BY Zenon
  <2>2. CASE g = TRUE
    BY <1>3, <2>2 DEF Walks, Begun, fs
  <2>3. CASE g = FALSE
    BY <1>3, <2>3 DEF Walks, Begun, fs
  <2>4. QED
    BY <2>1, <2>2, <2>3
<1>6. HierarchyTypeOK'
  <2>1. \A i \in DOMAIN walk'.frames : walk'.frames[i].depth = Len(walk'.frames) - i
    <3>1. Len(fs) - 1 = 0
      BY <1>3
    <3>2. \A i \in DOMAIN fs : i = 1 /\ fs[i].depth = 0
      BY <1>2, <1>3
    <3>3. QED
      BY <1>4, <3>1, <3>2
  <2>2. supers' \in [Types -> SUBSET Types] /\ cold' \subseteq Types
    BY <1>1
  <2>3. QED
    BY <1>5, <2>1, <2>2 DEF HierarchyTypeOK
<1>7. Walking'
  BY <1>3, <1>4 DEF Walking
<1>8. NothingAdded'
  BY <1>2, <1>3, <1>4 DEF NothingAdded
<1>9. NothingLost'
  BY <1>2, <1>3, <1>4 DEF NothingLost, Owes
<1>10. Chain'
  BY <1>4 DEF Chain
<1>11. Levels'
  <2>1. Level' = 0 /\ Level' \in Nat
    BY <1>2, <1>3, <1>4 DEF Level
  <2>2. Cardinality({t}) = 1
    BY FS_Singleton
  <2>3. Reached'[0][t] = {t}
    BY <1>1, ReachedByLevel, DeclarationsStand
  <2>4. walk'.visited \ walk'.next = {t}
    BY <1>4
  <2>5. QED
    BY <1>2, <1>3, <1>4, <2>1, <2>2, <2>3, <2>4 DEF Levels
<1>12. WalkInv'
  BY <1>4, <1>7, <1>8, <1>9, <1>10, <1>11 DEF WalkInv
<1>13. QED
  BY <1>4, <1>5, <1>6, <1>7, <1>12

LEMMA NoWalkIsNone ==
  ASSUME NEW t \in Types, HierarchyAssumption
  PROVE  /\ NoWalk \in Walks /\ NoWalk.frames = <<>> /\ NoWalk.kind = "none"
<1>1. /\ (CHOOSE n \in Names : TRUE) \in Names /\ (CHOOSE u \in Types : TRUE) \in Types
  BY DEF HierarchyAssumption
<1>2. <<>> \in Seq(Frames)
  OBVIOUS
<1>3. QED
  BY <1>1, <1>2 DEF NoWalk, Walks

-----------------------------------------------------------------------------
(* The candidates of a search.                                             *)

(* What a finished walk says of the two classes it is about.               *)
LEMMA WalkAnswers ==
  ASSUME HierarchyTypeOK, WalkInv, Finished, walk.kind = "dfs",
         NameOf[walk.start] # walk.target
  PROVE  ~Blind => (Agreement = "Inherited" <=> Descends(walk.start, walk.target))
<1> SUFFICES ASSUME ~Blind
             PROVE  Agreement = "Inherited" <=> Descends(walk.start, walk.target)
  OBVIOUS
<1>1. walk.found = Matches(walk.start, walk.target)
  BY InvariantIsExact DEF WalkIsExact, Blind
<1>2. Agreement = "Inherited" <=> walk.found # {}
  BY DEF Agreement
<1>3. walk.found # {} <=> Descends(walk.start, walk.target)
  BY <1>1 DEF Matches, Descends
<1>4. QED
  BY <1>2, <1>3

(* No step changes the declarations or the query.                          *)
LEMMA QuestionStands ==
  ASSUME supers' = supers, query' = query
  PROVE  /\ QueryName' = QueryName /\ LooksBack' = LooksBack
         /\ \A t, n : Related(t, n)' = Related(t, n) /\ Descends(t, n)' = Descends(t, n)
BY DeclarationsStand DEF QueryName, LooksBack, Related

(* What the verdicts on the candidates owe: of what is kept and what is    *)
(* rejected the parts of the invariant that are about one candidate.       *)
KeptRightly(v) ==
  /\ v.source = "CstResolved" /\ ~v.blind => Related(v.site.type, QueryName)
  /\ /\ LooksBack /\ v.site.kind = "declaration" /\ ~v.blind
     /\ NameOf[v.site.type] # QueryName
     /\ Descends(v.site.type, QueryName) \/ Descends(query.class, NameOf[v.site.type])
     => \E o \in proven_overrides : o.site = v.site

RejectedRightly(v) == ~v.shape /\ ~v.blind => ~Related(v.site.type, QueryName)

LEMMA EachRightly ==
  VerdictsByName /\ OverridesAreProven <=>
    (\A v \in kept : KeptRightly(v)) /\ (\A v \in rejected : RejectedRightly(v))
BY DEF VerdictsByName, OverridesAreProven, KeptRightly, RejectedRightly

LEMMA StillRightly ==
  ASSUME supers' = supers, query' = query, proven_overrides \subseteq proven_overrides'
  PROVE  /\ \A v : KeptRightly(v) => KeptRightly(v)'
         /\ \A v : RejectedRightly(v) => RejectedRightly(v)'
BY QuestionStands DEF KeptRightly, RejectedRightly

(* The types of what verification keeps, apart from those of the walks.    *)
ListsTyped ==
  /\ kept \subseteq [site : Sites, blind : BOOLEAN, source : {"CstResolved", "NameScan"}]
  /\ rejected \subseteq [site : Sites, blind : BOOLEAN, shape : BOOLEAN]
  /\ proven_overrides \subseteq Verdicts
  /\ \A v \in kept, w \in rejected : v.site = w.site => w.shape
  /\ \A o \in proven_overrides : \E v \in kept : v.site = o.site

LEMMA KeepingTyped ==
  ASSUME ReferencesTypeOK, NEW s \in Sites, NEW source \in {"CstResolved", "NameScan"},
         NEW blind \in BOOLEAN, Kept(s, source, blind), rejected' = rejected,
         \/ proven_overrides' = proven_overrides
         \/ proven_overrides' = proven_overrides \cup {[site |-> s, blind |-> blind]},
         \A v \in rejected : v.site # s
  PROVE  ListsTyped'
<1> DEFINE v == [site |-> s, source |-> source, blind |-> blind]
<1>1. /\ v \in [site : Sites, blind : BOOLEAN, source : {"CstResolved", "NameScan"}]
      /\ v.site = s /\ kept' = kept \cup {v}
  BY DEF Kept
<1>2. [site |-> s, blind |-> blind] \in Verdicts /\ [site |-> s, blind |-> blind].site = s
  BY DEF Verdicts
<1> HIDE DEF v
<1>3. QED
  BY <1>1, <1>2 DEF ReferencesTypeOK, ListsTyped

LEMMA RejectingTyped ==
  ASSUME ReferencesTypeOK, NEW s \in Sites, NEW blind \in BOOLEAN, NEW shape \in BOOLEAN,
         Rejected(s, blind, shape), UNCHANGED <<kept, proven_overrides>>,
         \A v \in kept : v.site # s
  PROVE  ListsTyped'
<1> DEFINE v == [site |-> s, blind |-> blind, shape |-> shape]
<1>1. /\ v \in [site : Sites, blind : BOOLEAN, shape : BOOLEAN]
      /\ v.site = s /\ rejected' = rejected \cup {v}
  BY DEF Rejected
<1> HIDE DEF v
<1>2. QED
  BY <1>1 DEF ReferencesTypeOK, ListsTyped

(* A candidate that is not decided yet is in neither list.                 *)
LEMMA UndecidedIsNew ==
  ASSUME NEW s \in Sites, Undecided(s)
  PROVE  /\ \A v \in kept \cup rejected : v.site # s
         /\ query.request # "extension" /\ outcome = "none" /\ candidate.at = "none"
BY DEF Undecided

LEMMA WalkStands ==
  ASSUME UNCHANGED <<walk, supers>>, WalkInv
  PROVE  WalkInv'
<1>1. /\ Clean' = Clean /\ Walking' = Walking /\ Chain' = Chain /\ Level' = Level
      /\ \A t, s : Owes(t, s)' = Owes(t, s)
  BY DEF Clean, Walking, Chain, Level, Owes
<1>2. NothingAdded => NothingAdded'
  BY DeclarationsStand DEF NothingAdded
<1>3. NothingLost => NothingLost'
  BY <1>1 DEF NothingLost
<1>4. Levels => Levels'
  BY <1>1, DeclarationsStand DEF Levels
<1>5. Nearest(walk.start, walk.target)' = Nearest(walk.start, walk.target)
  BY DeclarationsStand
<1>6. QED
  BY <1>1, <1>2, <1>3, <1>4, <1>5 DEF WalkInv

LEMMA DecidedAtOnce ==
  ASSUME ReferencesInv, NEW s \in Sites,
         KeepUnverified(s) \/ RejectByShape(s) \/ KeepExact(s)
  PROVE  ReferencesInv'
<1>1. /\ Undecided(s) /\ UNCHANGED <<hierarchyVars, query, candidate, forward,
                                      proven_overrides, outcome>>
      /\ io_budget' \in 0..IoBudget
  <2>1. io_budget \in 0..IoBudget /\ IoBudget \in Nat
    BY ReferencesAssumption DEF ReferencesInv, ReferencesTypeOK, ReferencesAssumption
  <2>2. \A spent \in 0..2 : spent <= io_budget => io_budget - spent \in 0..IoBudget
    BY <2>1
  <2>3. CASE KeepUnverified(s)
    <3>1. PICK spent \in 0..2 : spent <= io_budget /\ io_budget' = io_budget - spent
      BY <2>3 DEF KeepUnverified
    <3>2. QED
      BY <2>2, <2>3, <3>1 DEF KeepUnverified
  <2>4. QED
    BY <2>1, <2>3 DEF RejectByShape, KeepExact
<1>2. /\ \A v \in kept \cup rejected : v.site # s
      /\ query.request # "extension" /\ outcome = "none" /\ candidate.at = "none"
  BY <1>1, UndecidedIsNew
<1>3. ReferencesTypeOK /\ supers' = supers
  BY <1>1 DEF ReferencesInv, hierarchyVars
<1>4. ListsTyped' /\ (\A v \in kept' : KeptRightly(v)') /\ (\A v \in rejected' : RejectedRightly(v)')
  <2>1. (\A v \in kept : KeptRightly(v)') /\ (\A v \in rejected : RejectedRightly(v)')
    BY <1>1, <1>3, EachRightly, StillRightly DEF ReferencesInv
  <2>2. CASE KeepUnverified(s)
    <3>1. Kept(s, "NameScan", TRUE) /\ rejected' = rejected
      BY <2>2 DEF KeepUnverified
    <3>2. KeptRightly([site |-> s, source |-> "NameScan", blind |-> TRUE])'
      BY DEF KeptRightly
    <3>3. ListsTyped'
      BY <1>1, <1>2, <1>3, <3>1, KeepingTyped
    <3>4. QED
      BY <2>1, <3>1, <3>2, <3>3 DEF Kept
  <2>3. CASE RejectByShape(s)
    <3>1. Rejected(s, FALSE, TRUE) /\ kept' = kept
      BY <2>3 DEF RejectByShape
    <3>2. RejectedRightly([site |-> s, blind |-> FALSE, shape |-> TRUE])'
      BY DEF RejectedRightly
    <3>3. ListsTyped'
      BY <1>1, <1>2, <1>3, <3>1, RejectingTyped
    <3>4. QED
      BY <2>1, <3>1, <3>2, <3>3 DEF Rejected
  <2>4. CASE KeepExact(s)
    <3>1. Kept(s, "CstResolved", FALSE) /\ rejected' = rejected /\ NameOf[s.type] = QueryName
      BY <2>4 DEF KeepExact
    <3>2. KeptRightly([site |-> s, source |-> "CstResolved", blind |-> FALSE])'
      BY <1>1, <1>3, <3>1, QuestionStands DEF KeptRightly, Related
    <3>3. ListsTyped'
      BY <1>1, <1>2, <1>3, <3>1, KeepingTyped
    <3>4. QED
      BY <2>1, <3>1, <3>2, <3>3 DEF Kept
  <2>5. QED
    BY <2>2, <2>3, <2>4
<1>5. HierarchyTypeOK' /\ WalkInv'
  <2>1. walk' = walk /\ supers' = supers /\ cold' = cold
    BY <1>1 DEF hierarchyVars
  <2>2. HierarchyTypeOK'
    BY <1>3, <2>1 DEF HierarchyTypeOK, ReferencesTypeOK
  <2>3. WalkInv'
    BY <2>1, WalkStands DEF ReferencesInv
  <2>4. QED
    BY <2>2, <2>3
<1>6. ReferencesTypeOK'
  BY <1>1, <1>3, <1>4, <1>5 DEF ReferencesTypeOK, ListsTyped
<1>7. VerifyInv'
  BY <1>1, <1>2 DEF ReferencesInv, VerifyInv, hierarchyVars, Walking, Clean
<1>8. VerdictsByName' /\ OverridesAreProven'
  BY <1>4, EachRightly DEF VerdictsByName, OverridesAreProven, KeptRightly, RejectedRightly
<1>9. EditsWhatIsFree'
  BY <1>1, <1>2 DEF EditsWhatIsFree
<1>10. QED
  BY <1>5, <1>6, <1>7, <1>8, <1>9 DEF ReferencesInv

(* The parts of the types that no list is about.                           *)
LEMMA TypedInParts ==
  ReferencesTypeOK <=>
    /\ HierarchyTypeOK /\ ListsTyped
    /\ query \in [request : Requests, class : Types, role : {"Declaration", "Reference"}]
    /\ io_budget \in 0..IoBudget
    /\ candidate \in [at : {"none", "forward", "reverse"}, site : Sites]
    /\ forward \in [agreement : Agreements, blind : BOOLEAN]
    /\ outcome \in {"none", "listed", "edited", "refused"}
BY DEF ReferencesTypeOK, ListsTyped

LEMMA BudgetsTyped ==
  ASSUME HierarchyAssumption
  PROVE  WalkBudget \in Nat /\ PromotionBudget \in Nat
BY FS_CardinalityType DEF HierarchyAssumption, WalkBudget

(* Nothing is decided by the steps that only begin a walk or go on with it.*)
LEMMA ListsStand ==
  ASSUME ReferencesInv, supers' = supers,
         UNCHANGED <<query, kept, rejected, proven_overrides, outcome>>
  PROVE  ListsTyped' /\ VerdictsByName' /\ OverridesAreProven' /\ EditsWhatIsFree'
<1>1. ListsTyped'
  BY DEF ReferencesInv, ReferencesTypeOK, ListsTyped
<1>2. (\A v \in kept : KeptRightly(v)) /\ (\A v \in rejected : RejectedRightly(v))
  BY EachRightly DEF ReferencesInv
<1>3. (\A v \in kept' : KeptRightly(v)') /\ (\A v \in rejected' : RejectedRightly(v)')
  BY <1>2, StillRightly
<1>4. VerdictsByName' /\ OverridesAreProven'
  BY <1>3 DEF VerdictsByName, OverridesAreProven, KeptRightly, RejectedRightly
<1>5. EditsWhatIsFree'
  BY DEF ReferencesInv, EditsWhatIsFree
<1>6. QED
  BY <1>1, <1>4, <1>5

LEMMA ForwardBegins ==
  ASSUME ReferencesInv, NEW s \in Sites, NEW reads \in BOOLEAN, BeginForward(s, reads)
  PROVE  ReferencesInv'
<1>1. /\ Undecided(s) /\ NameOf[s.type] # QueryName
      /\ supers' = supers /\ cold' = cold
      /\ UNCHANGED <<query, forward, kept, rejected, proven_overrides, outcome>>
      /\ candidate' = [at |-> "forward", site |-> s]
  BY DEF BeginForward
<1>2. io_budget' \in 0..IoBudget
  BY ReferencesAssumption
     DEF BeginForward, IoLeft, ReferencesInv, ReferencesTypeOK, ReferencesAssumption
<1>3. s.type \in Types /\ QueryName \in Names
  BY HierarchyAssumption DEF Sites, QueryName, ReferencesInv, ReferencesTypeOK,
     HierarchyAssumption
<1>4. /\ HierarchyTypeOK' /\ WalkInv'
      /\ walk'.kind = "dfs" /\ walk'.target = QueryName /\ (Clean' => walk'.start = s.type)
  <2>1. PICK t \in DeclarationsOf(s) :
          walk' = [WalkFrom("dfs", t, QueryName, WalkBudget) EXCEPT !.guessed = (t # s.type)]
    BY DEF BeginForward
  <2>2. PICK g \in BOOLEAN : g <=> (t # s.type)
    OBVIOUS
  <2>3. g = (t # s.type)
    BY <2>2, Zenon
  <2>4. t \in Types /\ WalkBudget \in Nat
    BY <1>3, HierarchyAssumption, BudgetsTyped DEF DeclarationsOf
  <2>5. walk' = Begun("dfs", t, QueryName, WalkBudget, g)
    <3>1. walk' = FromNamesake("dfs", t, QueryName, WalkBudget, g)
      BY ONLY <2>1, <2>3, Zenon DEF FromNamesake
    <3>2. "dfs" \in {"dfs", "bfs"} /\ g \in BOOLEAN
      OBVIOUS
    <3>3. QED
      BY ONLY <1>3, <2>4, <3>1, <3>2, BeginsAs, Zenon
  <2>6. /\ HierarchyTypeOK' /\ WalkInv' /\ walk'.guessed = g
        /\ walk'.kind = "dfs" /\ walk'.start = t /\ walk'.target = QueryName
    BY <1>1, <1>3, <2>4, <2>5, HierarchyAssumption, WalkBegins
       DEF ReferencesInv, ReferencesTypeOK
  <2>7. QED
    BY <2>2, <2>6 DEF Clean
<1>5. /\ \A v \in kept \cup rejected : v.site # s
      /\ query.request # "extension" /\ outcome = "none" /\ candidate.at = "none"
  BY <1>1, UndecidedIsNew
<1>6. ListsTyped' /\ VerdictsByName' /\ OverridesAreProven' /\ EditsWhatIsFree'
  BY <1>1, ListsStand
<1>7. VerifyInv'
  BY <1>1, <1>4, <1>5, QuestionStands DEF VerifyInv
<1>8. ReferencesTypeOK'
  BY <1>1, <1>2, <1>4, <1>6 DEF ReferencesInv, ReferencesTypeOK, ListsTyped
<1>9. QED
  BY <1>4, <1>6, <1>7, <1>8 DEF ReferencesInv

LEMMA ReverseBegins ==
  ASSUME ReferencesInv, BeginReverse
  PROVE  ReferencesInv'
<1>1. /\ candidate.at = "forward" /\ Finished /\ candidate.site.kind = "declaration"
      /\ LooksBack
      /\ supers' = supers /\ cold' = cold
      /\ UNCHANGED <<query, kept, rejected, proven_overrides, outcome>>
      /\ forward' = [agreement |-> Agreement, blind |-> Blind]
      /\ candidate' = [candidate EXCEPT !.at = "reverse"]
      /\ walk' = WalkFrom("dfs", query.class, NameOf[candidate.site.type], WalkBudget)
  BY DEF BeginReverse
<1>2. io_budget' \in 0..IoBudget
  BY ReferencesAssumption
     DEF BeginReverse, ReferencesInv, ReferencesTypeOK, ReferencesAssumption
<1>3. /\ query.class \in Types /\ candidate.site \in Sites
      /\ candidate.site.type \in Types /\ NameOf[candidate.site.type] \in Names
  BY HierarchyAssumption DEF Sites, ReferencesInv, ReferencesTypeOK, HierarchyAssumption
<1>4. /\ HierarchyTypeOK' /\ WalkInv'
      /\ walk'.kind = "dfs" /\ walk'.start = query.class
      /\ walk'.target = NameOf[candidate.site.type]
  <2>1. WalkBudget \in Nat
    BY HierarchyAssumption, BudgetsTyped
  <2>2. walk' = Begun("dfs", query.class, NameOf[candidate.site.type], WalkBudget, FALSE)
    BY <1>1, <1>3, <2>1, BeginsAs
  <2>3. QED
    <3>1. HierarchyTypeOK /\ FALSE \in BOOLEAN /\ "dfs" \in {"dfs", "bfs"}
      BY DEF ReferencesInv, ReferencesTypeOK
    <3>2. supers' = supers /\ cold' = cold
      BY <1>1
    <3>3. QED
      BY ONLY <1>3, <2>1, <2>2, <3>1, <3>2, HierarchyAssumption, WalkBegins, Zenon
<1>5. /\ outcome = "none" /\ walk.kind = "dfs" /\ query.request # "extension"
      /\ NameOf[candidate.site.type] # QueryName
      /\ \A v \in kept \cup rejected : v.site # candidate.site
      /\ (~Blind => walk.start = candidate.site.type) /\ walk.target = QueryName
  BY <1>1 DEF ReferencesInv, VerifyInv, Blind, Clean
<1>6. ~Blind => (Agreement = "Inherited" <=> Descends(candidate.site.type, QueryName))
  BY <1>1, <1>5, WalkAnswers DEF ReferencesInv, ReferencesTypeOK
<1>7. Agreement \in Agreements /\ Blind \in BOOLEAN
  BY DEF Agreement, Agreements, Blind
<1>8. /\ candidate'.at = "reverse" /\ candidate'.site = candidate.site
      /\ candidate' \in [at : {"none", "forward", "reverse"}, site : Sites]
      /\ forward'.agreement = Agreement /\ forward'.blind = Blind
      /\ forward' \in [agreement : Agreements, blind : BOOLEAN]
  BY <1>1, <1>7 DEF ReferencesInv, ReferencesTypeOK
<1>9. ListsTyped' /\ VerdictsByName' /\ OverridesAreProven' /\ EditsWhatIsFree'
  BY <1>1, ListsStand
<1>10. Forward(candidate'.site.type, forward'.agreement, forward'.blind)
  BY <1>5, <1>6, <1>8 DEF Forward
<1>11. Forward(candidate.site.type, forward.agreement, forward.blind)'
  BY <1>1, <1>10, QuestionStands DEF Forward
<1>12. VerifyInv'
  BY <1>1, <1>4, <1>5, <1>8, <1>11, QuestionStands DEF VerifyInv
<1>13. ReferencesTypeOK'
  BY <1>1, <1>2, <1>4, <1>8, <1>9 DEF ReferencesInv, ReferencesTypeOK, ListsTyped
<1>14. QED
  BY <1>4, <1>9, <1>12, <1>13 DEF ReferencesInv

(* The walk of a decided candidate is put away.                            *)
LEMMA PutAway ==
  ASSUME ReferencesInv, supers' = supers, cold' = cold, UNCHANGED <<query, io_budget, outcome>>,
         candidate' = NoCandidate, walk' = NoWalk, forward' \in {forward, NotAsked},
         ListsTyped', candidate.at # "none",
         \A v \in kept' : KeptRightly(v)', \A v \in rejected' : RejectedRightly(v)'
  PROVE  ReferencesInv'
<1>1. query.class \in Types
  BY DEF ReferencesInv, ReferencesTypeOK
<1>2. NoWalk \in Walks /\ NoWalk.frames = <<>> /\ NoWalk.kind = "none"
  BY <1>1, HierarchyAssumption, NoWalkIsNone
<1>3. HierarchyTypeOK'
  BY <1>2 DEF HierarchyTypeOK, ReferencesInv, ReferencesTypeOK
<1>4. WalkInv'
  BY <1>2 DEF WalkInv, NoWalk
<1>5. NoCandidate.at = "none"
        /\ NoCandidate \in [at : {"none", "forward", "reverse"}, site : Sites]
  <2>1. [kind |-> "call", type |-> query.class] \in Sites
    BY <1>1 DEF Sites
  <2>2. (CHOOSE s \in Sites : TRUE) \in Sites
    BY <2>1
  <2>3. QED
    BY <2>2 DEF NoCandidate
<1>6. forward' \in [agreement : Agreements, blind : BOOLEAN]
  <2>1. NotAsked \in [agreement : Agreements, blind : BOOLEAN]
    BY DEF NotAsked, Agreements
  <2>2. QED
    BY <2>1 DEF ReferencesInv, ReferencesTypeOK
<1>7. VerifyInv'
  BY <1>2, <1>5 DEF VerifyInv, Walking
<1>8. VerdictsByName' /\ OverridesAreProven'
  BY DEF VerdictsByName, OverridesAreProven, KeptRightly, RejectedRightly
<1>9. outcome = "none"
  BY DEF ReferencesInv, VerifyInv
<1>10. EditsWhatIsFree'
  BY <1>9 DEF EditsWhatIsFree
<1>11. ReferencesTypeOK'
  BY <1>3, <1>5, <1>6 DEF ReferencesInv, ReferencesTypeOK, ListsTyped
<1>12. QED
  BY <1>4, <1>7, <1>8, <1>10, <1>11 DEF ReferencesInv

LEMMA CallDecided ==
  ASSUME ReferencesInv, DecideCall
  PROVE  ReferencesInv'
<1>0. PICK s \in Sites, b \in BOOLEAN : s = candidate.site /\ b = Blind
  BY DEF ReferencesInv, ReferencesTypeOK, Blind
<1>1. /\ candidate.at = "forward" /\ Finished /\ s.kind = "call"
      /\ candidate' = NoCandidate /\ walk' = NoWalk /\ supers' = supers /\ cold' = cold
      /\ UNCHANGED <<query, io_budget, forward, proven_overrides, outcome>>
      /\ \/ Agreement = "Inherited" /\ Kept(s, "CstResolved", b) /\ UNCHANGED rejected
         \/ Agreement = "Unrelated" /\ Rejected(s, b, FALSE) /\ UNCHANGED kept
  BY <1>0 DEF DecideCall
<1>2. /\ walk.kind = "dfs" /\ NameOf[s.type] # QueryName
      /\ \A v \in kept \cup rejected : v.site # s
      /\ (~b => walk.start = s.type) /\ walk.target = QueryName
  BY <1>0, <1>1 DEF ReferencesInv, VerifyInv, Blind, Clean
<1>3. ~b => (Agreement = "Inherited" <=> Descends(s.type, QueryName))
  BY <1>0, <1>1, <1>2, WalkAnswers DEF ReferencesInv, ReferencesTypeOK
<1>4. ReferencesTypeOK
  BY DEF ReferencesInv
<1>5. (\A v \in kept : KeptRightly(v)') /\ (\A v \in rejected : RejectedRightly(v)')
  BY <1>1, EachRightly, StillRightly DEF ReferencesInv
<1>6. CASE Agreement = "Inherited" /\ Kept(s, "CstResolved", b) /\ UNCHANGED rejected
  <2>1. ListsTyped'
    BY <1>1, <1>2, <1>4, <1>6, KeepingTyped
  <2>2. KeptRightly([site |-> s, source |-> "CstResolved", blind |-> b])'
    BY <1>1, <1>2, <1>3, <1>6, QuestionStands DEF KeptRightly, Related
  <2>3. \A v \in kept' : KeptRightly(v)'
    BY <1>5, <1>6, <2>2 DEF Kept
  <2>4. QED
    BY <1>1, <1>5, <1>6, <2>1, <2>3, PutAway
<1>7. CASE Agreement = "Unrelated" /\ Rejected(s, b, FALSE) /\ UNCHANGED kept
  <2>1. ListsTyped'
    BY <1>1, <1>2, <1>4, <1>7, RejectingTyped
  <2>2. RejectedRightly([site |-> s, blind |-> b, shape |-> FALSE])'
    BY <1>1, <1>2, <1>3, <1>7, QuestionStands DEF RejectedRightly, Related
  <2>3. \A v \in rejected' : RejectedRightly(v)'
    BY <1>5, <1>7, <2>2 DEF Rejected
  <2>4. QED
    BY <1>1, <1>5, <1>7, <2>1, <2>3, PutAway
<1>8. QED
  BY <1>1, <1>6, <1>7

LEMMA DeclarationDecided ==
  ASSUME ReferencesInv, DecideDeclaration
  PROVE  ReferencesInv'
<1>0. PICK s \in Sites, b \in BOOLEAN :
        s = candidate.site /\ b = Blind
  BY DEF ReferencesInv, ReferencesTypeOK, Blind
<1>1. Finished /\ s.kind = "declaration" /\ candidate.at \in {"forward", "reverse"}
        /\ ReferencesTypeOK
  BY <1>0 DEF DecideDeclaration, ReferencesInv
<1>2. /\ walk.kind = "dfs" /\ NameOf[s.type] # QueryName
      /\ \A v \in kept \cup rejected : v.site # s
  BY <1>0, <1>1 DEF ReferencesInv, VerifyInv

(* Whatever was asked is answered rightly, or the verdict is marked blind. *)
<1>3. ASSUME NEW agreement, NEW reverse, NEW blind \in BOOLEAN,
             Decide(agreement, reverse, blind),
             ~blind => (agreement = "Inherited" <=> Descends(s.type, QueryName)),
             ~blind /\ LooksBack =>
               (reverse = "Inherited" <=> Descends(query.class, NameOf[s.type]))
      PROVE  ReferencesInv'
  <2>1. PICK source \in {"CstResolved", "NameScan"} :
          source = IF agreement = "Inherited" THEN "CstResolved" ELSE "NameScan"
    OBVIOUS
  <2>2. PICK i \in BOOLEAN : i <=> "Inherited" \in {agreement, reverse}
    OBVIOUS
  <2>3. /\ Kept(s, source, blind)
        /\ proven_overrides' =
             proven_overrides \cup (IF i THEN {[site |-> s, blind |-> blind]} ELSE {})
        /\ candidate' = NoCandidate /\ walk' = NoWalk /\ forward' = NotAsked
        /\ supers' = supers /\ cold' = cold
        /\ UNCHANGED <<query, io_budget, rejected, outcome>>
    BY <1>0, <1>3, <2>1, <2>2 DEF Decide
  <2>4. ListsTyped'
    BY <1>1, <1>2, <2>3, KeepingTyped
  <2>5. (\A v \in kept : KeptRightly(v)') /\ (\A v \in rejected : RejectedRightly(v)')
    BY <2>3, EachRightly, StillRightly DEF ReferencesInv
  <2>6. KeptRightly([site |-> s, source |-> source, blind |-> blind])'
    <3> DEFINE v == [site |-> s, source |-> source, blind |-> blind]
    <3>1. v.site = s /\ v.source = source /\ v.blind = blind
      OBVIOUS
    <3>2. source = "CstResolved" /\ ~blind => Related(s.type, QueryName)
      BY <1>3, <2>1 DEF Related
    <3>3. i => \E o \in proven_overrides' : o.site = s
      <4>1. [site |-> s, blind |-> blind].site = s
        OBVIOUS
      <4>2. i => [site |-> s, blind |-> blind] \in proven_overrides'
        BY <2>3
      <4>3. QED
        BY <4>1, <4>2
    <3>4. /\ LooksBack /\ ~blind
          /\ Descends(s.type, QueryName) \/ Descends(query.class, NameOf[s.type])
          => i
      BY <1>3, <2>2
    <3>5. /\ query' = query /\ supers' = supers
      BY <2>3
    <3> HIDE DEF v
    <3>6. QED
      BY <3>1, <3>2, <3>3, <3>4, <3>5, QuestionStands DEF KeptRightly, v
  <2>7. (\A v \in kept' : KeptRightly(v)') /\ (\A v \in rejected' : RejectedRightly(v)')
    BY <2>3, <2>5, <2>6 DEF Kept
  <2>8. QED
    BY <1>1, <2>3, <2>4, <2>7, PutAway
<1>4. CASE candidate.at = "reverse" /\ Decide(forward.agreement, Agreement, forward.blind \/ Blind)
  <2>1. /\ walk.start = query.class /\ walk.target = NameOf[s.type]
        /\ Forward(s.type, forward.agreement, forward.blind)
    BY <1>0, <1>4 DEF ReferencesInv, VerifyInv
  <2>2. ~b => (Agreement = "Inherited" <=> Descends(query.class, NameOf[s.type]))
    BY <1>0, <1>1, <1>2, <2>1, WalkAnswers DEF QueryName, ReferencesTypeOK, ReferencesInv
  <2>3. PICK c \in BOOLEAN : c <=> forward.blind \/ b
    OBVIOUS
  <2>4. forward.blind \in BOOLEAN
    BY <1>1 DEF ReferencesTypeOK
  <2>5. c = (forward.blind \/ Blind)
    BY <1>0, <2>3, <2>4, Zenon
  <2>6. Decide(forward.agreement, Agreement, c)
    BY <1>4, <2>5, Zenon
  <2>7. ~c => (forward.agreement = "Inherited" <=> Descends(s.type, QueryName))
    BY <2>1, <2>3 DEF Forward
  <2>8. ~c => (Agreement = "Inherited" <=> Descends(query.class, NameOf[s.type]))
    BY <2>2, <2>3
  <2>9. QED
    BY <1>3, <2>6, <2>7, <2>8
<1>5. CASE candidate.at = "forward" /\ LooksBack /\ io_budget = 0
             /\ Decide(Agreement, "Unresolvable", TRUE)
  BY <1>3, <1>5
<1>6. CASE candidate.at = "forward" /\ ~LooksBack /\ Decide(Agreement, "Unresolvable", Blind)
  <2>1. (~b => walk.start = s.type) /\ walk.target = QueryName
    BY <1>0, <1>6 DEF ReferencesInv, VerifyInv, Blind, Clean
  <2>2. ~b => (Agreement = "Inherited" <=> Descends(s.type, QueryName))
    BY <1>0, <1>1, <1>2, <2>1, WalkAnswers DEF ReferencesTypeOK, ReferencesInv
  <2>3. Decide(Agreement, "Unresolvable", b)
    BY <1>0, <1>6
  <2>4. QED
    BY <1>3, <1>6, <2>2, <2>3
<1>7. QED
  BY <1>4, <1>5, <1>6 DEF DecideDeclaration

LEMMA Answered ==
  ASSUME ReferencesInv, Answer
  PROVE  ReferencesInv'
<1>1. /\ query.request # "extension" /\ outcome = "none" /\ candidate.at = "none"
      /\ walk' = walk /\ supers' = supers /\ cold' = cold
      /\ UNCHANGED <<query, io_budget, candidate, forward, kept, rejected, proven_overrides>>
      /\ outcome' = IF query.request = "references" THEN "listed"
                    ELSE IF proven_overrides # {} THEN "refused" ELSE "edited"
  BY DEF Answer, hierarchyVars
<1>2. (\A v \in kept : KeptRightly(v)) /\ (\A v \in rejected : RejectedRightly(v))
  BY EachRightly DEF ReferencesInv
<1>3. (\A v \in kept' : KeptRightly(v)') /\ (\A v \in rejected' : RejectedRightly(v)')
  BY <1>1, <1>2, StillRightly
<1>4. VerdictsByName' /\ OverridesAreProven'
  BY <1>3 DEF VerdictsByName, OverridesAreProven, KeptRightly, RejectedRightly
<1>5. EditsWhatIsFree'
  BY <1>1, ReferencesAssumption
     DEF ReferencesInv, ReferencesTypeOK, EditsWhatIsFree, ReferencesAssumption
<1>6. VerifyInv'
  BY <1>1 DEF ReferencesInv, VerifyInv, Walking
<1>7. WalkInv'
  BY <1>1, WalkStands DEF ReferencesInv
<1>8. HierarchyTypeOK'
  BY <1>1 DEF ReferencesInv, ReferencesTypeOK, HierarchyTypeOK
<1>9. ReferencesTypeOK'
  BY <1>1, <1>8 DEF ReferencesInv, ReferencesTypeOK
<1>10. QED
  BY <1>4, <1>5, <1>6, <1>7, <1>9 DEF ReferencesInv

LEMMA ExtensionLookedUp ==
  ASSUME ReferencesInv, NEW n \in Names, LookUpExtension(n)
  PROVE  ReferencesInv'
<1>1. /\ query.request = "extension" /\ supers' = supers /\ cold' = cold /\ UNCHANGED verifyVars
      /\ walk' = WalkFrom("bfs", query.class, n, PromotionBudget)
  BY DEF LookUpExtension
<1>2. query.class \in Types /\ HierarchyTypeOK
  BY DEF ReferencesInv, ReferencesTypeOK
<1>3. HierarchyTypeOK' /\ WalkInv'
  <2>1. PromotionBudget \in Nat
    BY HierarchyAssumption, BudgetsTyped
  <2>2. walk' = Begun("bfs", query.class, n, PromotionBudget, FALSE)
    BY <1>1, <1>2, <2>1, BeginsAs
  <2>3. QED
    BY <1>1, <1>2, <2>1, <2>2, HierarchyAssumption, WalkBegins
<1>4. ListsTyped' /\ VerdictsByName' /\ OverridesAreProven' /\ EditsWhatIsFree'
  BY <1>1, ListsStand DEF verifyVars
<1>5. VerifyInv'
  BY <1>1 DEF ReferencesInv, VerifyInv, verifyVars
<1>6. ReferencesTypeOK'
  BY <1>1, <1>3, <1>4 DEF ReferencesInv, ReferencesTypeOK, ListsTyped, verifyVars
<1>7. QED
  BY <1>3, <1>4, <1>5, <1>6 DEF ReferencesInv

LEMMA WalkGoesOn ==
  ASSUME ReferencesInv, WalkStep, UNCHANGED verifyVars
  PROVE  ReferencesInv'
<1>1. /\ HierarchyTypeOK' /\ WalkInv' /\ Walking /\ supers' = supers /\ SameQuestion
      /\ cold' \subseteq cold /\ (Clean' => Clean)
  BY HierarchyAssumption, WalkStepKeeps DEF ReferencesInv, ReferencesTypeOK
<1>2. ListsTyped' /\ VerdictsByName' /\ OverridesAreProven' /\ EditsWhatIsFree'
  BY <1>1, ListsStand DEF verifyVars
<1>3. VerifyInv'
  <2>1. Forward(candidate.site.type, forward.agreement, forward.blind)
          => Forward(candidate.site.type, forward.agreement, forward.blind)'
    BY <1>1, QuestionStands DEF Forward, verifyVars
  <2>2. QED
    BY <1>1, <2>1, QuestionStands DEF ReferencesInv, VerifyInv, verifyVars, SameQuestion
<1>4. ReferencesTypeOK'
  BY <1>1, <1>2 DEF ReferencesInv, ReferencesTypeOK, ListsTyped, verifyVars
<1>5. QED
  BY <1>1, <1>2, <1>3, <1>4 DEF ReferencesInv

LEMMA ReferencesStart ==
  ASSUME ReferencesInit
  PROVE  ReferencesInv
<1>1. /\ supers \in [Types -> SUBSET Types] /\ cold \in SUBSET Types /\ walk = NoWalk
      /\ query \in [request : Requests, class : Types, role : {"Declaration", "Reference"}]
      /\ io_budget = IoBudget /\ candidate = NoCandidate /\ forward = NotAsked
      /\ kept = {} /\ rejected = {} /\ proven_overrides = {} /\ outcome = "none"
  BY DEF ReferencesInit, HierarchyInit
<1>2. query.class \in Types
  BY <1>1
<1>3. NoWalk \in Walks /\ NoWalk.frames = <<>> /\ NoWalk.kind = "none"
  BY <1>2, HierarchyAssumption, NoWalkIsNone
<1>4. HierarchyTypeOK
  BY <1>1, <1>3 DEF HierarchyTypeOK
<1>5. NoCandidate.at = "none"
        /\ NoCandidate \in [at : {"none", "forward", "reverse"}, site : Sites]
  <2>1. [kind |-> "call", type |-> query.class] \in Sites
    BY <1>2 DEF Sites
  <2>2. (CHOOSE s \in Sites : TRUE) \in Sites
    BY <2>1
  <2>3. QED
    BY <2>2 DEF NoCandidate
<1>6. NotAsked \in [agreement : Agreements, blind : BOOLEAN]
  BY DEF NotAsked, Agreements
<1>7. IoBudget \in 0..IoBudget
  BY ReferencesAssumption DEF ReferencesAssumption
<1>8. ReferencesTypeOK
  BY <1>1, <1>4, <1>5, <1>6, <1>7 DEF ReferencesTypeOK
<1>9. WalkInv
  BY <1>1, <1>3 DEF WalkInv
<1>10. VerifyInv
  BY <1>1, <1>3, <1>5 DEF VerifyInv, Walking
<1>11. VerdictsByName /\ OverridesAreProven /\ EditsWhatIsFree
  BY <1>1 DEF VerdictsByName, OverridesAreProven, EditsWhatIsFree
<1>12. QED
  BY <1>8, <1>9, <1>10, <1>11 DEF ReferencesInv

LEMMA ReferencesKept ==
  ASSUME ReferencesInv, [ReferencesNext]_referencesVars
  PROVE  ReferencesInv'
<1>1. CASE Verify
  BY <1>1, DecidedAtOnce, ForwardBegins, ReverseBegins, CallDecided, DeclarationDecided,
     Answered, ExtensionLookedUp DEF Verify
<1>2. CASE WalkStep /\ UNCHANGED verifyVars
  BY <1>2, WalkGoesOn
<1>3. CASE UNCHANGED referencesVars
  <2>1. UNCHANGED <<hierarchyVars, verifyVars>> /\ supers' = supers /\ walk' = walk
          /\ cold' = cold
    BY <1>3 DEF referencesVars, hierarchyVars
  <2>2. ListsTyped' /\ VerdictsByName' /\ OverridesAreProven' /\ EditsWhatIsFree'
    BY <2>1, ListsStand DEF verifyVars
  <2>3. WalkInv'
    BY <2>1, WalkStands DEF ReferencesInv
  <2>4. HierarchyTypeOK'
    BY <2>1 DEF ReferencesInv, ReferencesTypeOK, HierarchyTypeOK
  <2>5. ReferencesTypeOK'
    BY <2>1, <2>2, <2>4 DEF ReferencesInv, ReferencesTypeOK, ListsTyped, verifyVars
  <2>6. Forward(candidate.site.type, forward.agreement, forward.blind)
          => Forward(candidate.site.type, forward.agreement, forward.blind)'
    BY <2>1, QuestionStands DEF Forward, verifyVars
  <2>7. VerifyInv'
    BY <2>1, <2>6, QuestionStands DEF ReferencesInv, VerifyInv, verifyVars, Walking, Clean
  <2>8. QED
    BY <2>2, <2>3, <2>5, <2>7 DEF ReferencesInv
<1>4. QED
  BY <1>1, <1>2, <1>3 DEF ReferencesNext

LEMMA ReferencesInvariant == ReferencesSpec => []ReferencesInv
<1>1. QED
  BY ReferencesStart, ReferencesKept, PTL DEF ReferencesSpec

(* What the walks and the lists hold is of the kind the code gives it, and *)
(* a candidate is kept or dropped, not both (references_verify.rs).        *)
THEOREM ReferencesTyped == ReferencesSpec => []ReferencesTypeOK
<1>1. ReferencesInv => ReferencesTypeOK
  BY DEF ReferencesInv
<1>2. QED
  BY <1>1, ReferencesInvariant, PTL

(* Both walks of resolver/hierarchy.rs find what they look for: depth      *)
(* first every ancestor of that name, breadth first the nearest ones, for  *)
(* every graph of supertypes, cyclic or not, and every order of expansion. *)
THEOREM WalksAreExact == ReferencesSpec => []WalkIsExact
<1>1. ReferencesInv => WalkIsExact
  BY InvariantIsExact DEF ReferencesInv, ReferencesTypeOK
<1>2. QED
  BY <1>1, ReferencesInvariant, PTL

(* What references_verify.rs keeps as verified is a use of the member, if  *)
(* its class shares its simple name with no other, and what it drops for   *)
(* its receiver is none, whoever shares names; of walks that started at    *)
(* the receiver's own class, missed no supertype and took none for         *)
(* another.                                                                *)
THEOREM VerdictsAreAlwaysRight == ReferencesSpec => []VerdictsAreRight
<1>1. ASSUME ReferencesInv
      PROVE  VerdictsAreRight
  <2>1. VerdictsByName /\ query.class \in Types /\ NameOf[query.class] = QueryName
    BY <1>1 DEF ReferencesInv, ReferencesTypeOK, QueryName
  <2>2. \A t : UsesTheMember(t) => Related(t, QueryName)
    BY <2>1 DEF UsesTheMember, Related, Descends
  <2>3. \A t \in Types : NameIsItsOwn /\ Related(t, QueryName) => UsesTheMember(t)
    BY <2>1 DEF NameIsItsOwn, UsesTheMember, Related, Descends, Ancestors
  <2>4. \A v \in kept : v.site.type \in Types
    BY <1>1 DEF ReferencesInv, ReferencesTypeOK, Sites
  <2>5. QED
    BY <2>1, <2>2, <2>3, <2>4 DEF VerdictsByName, VerdictsAreRight
<1>2. QED
  BY <1>1, ReferencesInvariant, PTL

(* A rename from a declaration that goes through has seen no override, in  *)
(* either direction (rename.rs:144-149).                                   *)
THEOREM OverridesAlwaysStopARename == ReferencesSpec => []OverridesStopARename
<1>1. ReferencesInv => OverridesStopARename
  BY DEF ReferencesInv, EditsWhatIsFree, OverridesAreProven, OverridesStopARename, LooksBack
<1>2. QED
  BY <1>1, ReferencesInvariant, PTL

=============================================================================

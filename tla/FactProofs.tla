------------------------------ MODULE FactProofs ------------------------------
(***************************************************************************)
(* What is guaranteed of facts, however many are declared and in whatever  *)
(* order: which of them are current, which contradict each other, how they *)
(* rank, which of them a pack says, which of them an overview keeps, what  *)
(* a transcript asserts of them, which of its decisions break a rule, and  *)
(* which of its facts a gist has room for.                                 *)
(***************************************************************************)
EXTENDS Supersession, FieldConflicts, Rank, Overview, Packer, Gist, PositionLemmas,
        FiniteSetTheorems, SequenceTheorems, TLAPS

-----------------------------------------------------------------------------
(***************************************************************************)
(* Which facts are current.                                                *)
(*                                                                         *)
(* The fold of Supersession computes the connected families, for every     *)
(* set of facts, every set of edges and every order of both loops.         *)
(* Connectedness is stated by cuts, so no proof here follows a path: a set *)
(* is closed under the parent pointers exactly when it cuts no edge that   *)
(* was united (path halving and linking keep this), and two roots are      *)
(* always told apart by a closed set.                                      *)
(***************************************************************************)
Closed(S, parent) == \A f \in Fact : f \in S <=> parent[f] \in S
Same(parent, x, y) == \A S \in SUBSET Fact : Closed(S, parent) => (x \in S <=> y \in S)
Apart(parent) ==
    \A r, t \in Fact :
        parent[r] = r /\ parent[t] = t /\ r # t =>
            \E S \in SUBSET Fact : Closed(S, parent) /\ r \in S /\ t \notin S

\* the forest after the unions of some edges
Forest(parent, edges) ==
    /\ \A f \in Fact : parent[f] <= f
    /\ \A S \in SUBSET Fact : Closed(S, parent) <=> Cut(S, edges)
    /\ Apart(parent)

-----------------------------------------------------------------------------
Halved(after, parent, edges, x) ==
    /\ after \in [Fact -> Fact]
    /\ Forest(after, edges)
    /\ \A S \in SUBSET Fact : Closed(S, after) <=> Closed(S, parent)
    /\ \A r \in Fact : after[r] = r <=> parent[r] = r
    /\ Same(after, after[x], x)
    /\ after[x] <= x

\* Path halving changes neither the roots nor the closed sets.
LEMMA HalvingKeepsForest ==
    ASSUME NEW parent \in [Fact -> Fact], NEW edges, Forest(parent, edges),
           NEW x \in Fact, parent[x] # x
    PROVE  Halved([parent EXCEPT ![x] = parent[parent[x]]], parent, edges, x)
<1> DEFINE after == [parent EXCEPT ![x] = parent[parent[x]]]
<1>1. /\ after \in [Fact -> Fact]
      /\ \A f \in Fact : after[f] = IF f = x THEN parent[parent[x]] ELSE parent[f]
  OBVIOUS
<1>2. /\ x \in Nat /\ parent[x] \in Nat /\ parent[parent[x]] \in Nat
      /\ parent[x] < x /\ parent[parent[x]] <= parent[x]
  <2>1. parent[x] \in Fact /\ parent[parent[x]] \in Fact
    OBVIOUS
  <2>2. parent[x] <= x /\ parent[parent[x]] <= parent[x]
    BY <2>1, Zenon DEF Forest
  <2>3. x \in Nat /\ parent[x] \in Nat /\ parent[parent[x]] \in Nat
    BY <2>1, FactAssumption
  <2> QED BY <2>2, <2>3
<1>3. \A r \in Fact : after[r] = r <=> parent[r] = r
  <2>1. parent[parent[x]] # x
    BY <1>2
  <2> QED BY <1>1, <2>1
<1>4. \A f \in Fact : after[f] <= f
  <2>1. parent[parent[x]] <= x
    BY <1>2
  <2>2. \A f \in Fact : parent[f] <= f
    BY Zenon DEF Forest
  <2> QED BY <1>1, <2>1, <2>2
<1>5. ASSUME NEW S \in SUBSET Fact PROVE Closed(S, after) <=> Closed(S, parent)
  <2>1. ASSUME Closed(S, parent) PROVE Closed(S, after)
    BY <1>1, <2>1 DEF Closed
  <2>2. ASSUME Closed(S, after) PROVE Closed(S, parent)
    <3>1. x \in S <=> parent[parent[x]] \in S
      BY <1>1, <2>2 DEF Closed
    <3>2. parent[x] \in S <=> parent[parent[x]] \in S
      BY <1>1, <1>2, <2>2 DEF Closed
    <3> QED BY <1>1, <2>2, <3>1, <3>2 DEF Closed
  <2> QED BY <2>1, <2>2
<1>6. Apart(after)
  <2> SUFFICES ASSUME NEW r \in Fact, NEW t \in Fact,
                      after[r] = r, after[t] = t, r # t
               PROVE  \E S \in SUBSET Fact : Closed(S, after) /\ r \in S /\ t \notin S
    BY DEF Apart
  <2>1. PICK S \in SUBSET Fact : Closed(S, parent) /\ r \in S /\ t \notin S
    BY <1>3 DEF Forest, Apart
  <2> QED BY <1>5, <2>1
<1>7. Same(after, after[x], x)
  BY <1>1, Zenon DEF Same, Closed
<1>8. \A S \in SUBSET Fact : Closed(S, after) <=> Cut(S, edges)
  BY <1>5, Zenon DEF Forest
<1>9. after[x] <= x
  BY <1>4
<1> HIDE DEF after
<1>10. Halved(after, parent, edges, x)
  BY <1>1, <1>3, <1>4, <1>5, <1>6, <1>7, <1>8, <1>9, Zenon DEF Forest, Halved
<1> QED BY <1>10 DEF after

United(after, parent, a, b) ==
    /\ after \in [Fact -> Fact]
    /\ \A f \in Fact : after[f] <= f
    /\ Apart(after)
    /\ \A S \in SUBSET Fact :
          Closed(S, after) <=> (Closed(S, parent) /\ (a \in S <=> b \in S))

\* Hanging one root under a smaller one unites the two trees and no others.
LEMMA HangingUnites ==
    ASSUME NEW parent \in [Fact -> Fact], \A f \in Fact : parent[f] <= f, Apart(parent),
           NEW lo \in Fact, NEW hi \in Fact, lo < hi,
           parent[lo] = lo, parent[hi] = hi
    PROVE  United([parent EXCEPT ![hi] = lo], parent, lo, hi)
<1> DEFINE after == [parent EXCEPT ![hi] = lo]
<1>1. /\ after \in [Fact -> Fact]
      /\ \A f \in Fact : after[f] = IF f = hi THEN lo ELSE parent[f]
  OBVIOUS
<1>2. \A f \in Fact : after[f] <= f
  BY <1>1, FactAssumption
<1>3. ASSUME NEW S \in SUBSET Fact
      PROVE  Closed(S, after) <=> (Closed(S, parent) /\ (lo \in S <=> hi \in S))
  BY <1>1 DEF Closed
<1>4. ASSUME NEW r \in Fact, NEW t \in Fact, parent[r] = r, parent[t] = t, r # t
      PROVE  \E S \in SUBSET Fact : Closed(S, parent) /\ r \in S /\ t \notin S
  BY <1>4, Zenon DEF Apart
<1>5. ASSUME NEW r \in Fact, NEW t \in Fact, after[r] = r, after[t] = t, r # t
      PROVE  \E S \in SUBSET Fact : Closed(S, after) /\ r \in S /\ t \notin S
  <2>1. parent[r] = r /\ parent[t] = t /\ r # hi /\ t # hi
    BY <1>1, <1>5, FactAssumption
  <2>2. PICK A \in SUBSET Fact : Closed(A, parent) /\ r \in A /\ t \notin A
    BY <1>4, <1>5, <2>1
  <2>3. PICK B \in SUBSET Fact : Closed(B, parent) /\ r \in B /\ hi \notin B
    BY <1>4, <1>5, <2>1
  <2>4. CASE r = lo
    <3>1. PICK C \in SUBSET Fact : Closed(C, parent) /\ hi \in C /\ t \notin C
      BY <1>4, <1>5, <2>1
    <3>2. Closed(A \cup C, parent)
      BY <2>2, <3>1 DEF Closed
    <3>3. Closed(A \cup C, after) /\ r \in A \cup C /\ t \notin A \cup C
      BY <1>3, <2>2, <2>4, <3>1, <3>2
    <3> QED BY <3>3
  <2>5. CASE r # lo
    <3>1. PICK C \in SUBSET Fact : Closed(C, parent) /\ r \in C /\ lo \notin C
      BY <1>4, <2>1, <2>5
    <3> DEFINE D == A \cap B \cap C
    <3>2. D \in SUBSET Fact /\ r \in D /\ t \notin D /\ lo \notin D /\ hi \notin D
      BY <2>2, <2>3, <3>1
    <3>3. Closed(D, parent)
      BY <2>2, <2>3, <3>1 DEF Closed
    <3>4. Closed(D, after)
      BY <1>3, <3>2, <3>3
    <3> QED BY <3>2, <3>4
  <2> QED BY <2>4, <2>5
<1> HIDE DEF after
<1>6. United(after, parent, lo, hi)
  BY <1>1, <1>2, <1>3, <1>5, Zenon DEF Apart, United
<1> QED BY <1>6 DEF after

\* Uniting the roots of an edge's ends makes the forest of one edge more.
LEMMA LinkingKeepsForest ==
    ASSUME NEW parent \in [Fact -> Fact], NEW edges, NEW e \in Edge,
           Forest(parent, edges),
           NEW a \in Fact, NEW b \in Fact, parent[a] = a, parent[b] = b,
           Same(parent, a, e.base), Same(parent, b, e.head)
    PROVE  /\ Link(parent, a, b) \in [Fact -> Fact]
           /\ Forest(Link(parent, a, b), edges \cup {e})
<1> DEFINE after == Link(parent, a, b)
<1>0. (\A f \in Fact : parent[f] <= f) /\ Apart(parent)
  BY Zenon DEF Forest
<1>1. United(after, parent, a, b)
  <2>1. CASE a < b
    <3>1. United([parent EXCEPT ![b] = a], parent, a, b)
      BY <1>0, <2>1, HangingUnites
    <3> QED BY <2>1, <3>1 DEF Link
  <2>2. CASE b < a
    <3>1. United([parent EXCEPT ![a] = b], parent, b, a)
      BY <1>0, <2>2, HangingUnites
    <3>2. after = [parent EXCEPT ![a] = b]
      BY <2>2, FactAssumption DEF Link
    <3> HIDE DEF after
    <3> QED BY <3>1, <3>2, Zenon DEF United
  <2>3. CASE a = b
    <3>1. after = parent
      BY <2>3, FactAssumption DEF Link
    <3> HIDE DEF after
    <3> QED BY <1>0, <2>3, <3>1, Zenon DEF United
  <2> QED BY <2>1, <2>2, <2>3, FactAssumption
<1> HIDE DEF after
<1>2. ASSUME NEW S \in SUBSET Fact
      PROVE  Closed(S, after) <=> Cut(S, edges \cup {e})
  <2>1. Closed(S, parent) => /\ a \in S <=> e.base \in S
                             /\ b \in S <=> e.head \in S
    BY Zenon DEF Same
  <2>2. Closed(S, parent) <=> Cut(S, edges)
    BY Zenon DEF Forest
  <2>3. Cut(S, edges \cup {e}) <=> Cut(S, edges) /\ (e.base \in S <=> e.head \in S)
    BY DEF Cut
  <2> QED BY <1>1, <2>1, <2>2, <2>3, Zenon DEF United
<1> QED BY <1>1, <1>2, Zenon DEF Forest, United, after

\* Without an edge every fact is a tree of its own.
LEMMA FirstForest ==
    Forest([f \in Fact |-> f], {})
<1> DEFINE parent == [f \in Fact |-> f]
<1>1. \A S \in SUBSET Fact : Closed(S, parent) /\ Cut(S, {})
  BY DEF Closed, Cut
<1>2. Apart(parent)
  <2> SUFFICES ASSUME NEW r \in Fact, NEW t \in Fact, r # t
               PROVE  \E S \in SUBSET Fact : Closed(S, parent) /\ r \in S /\ t \notin S
    BY DEF Apart
  <2> QED BY <1>1, {r} \in SUBSET Fact
<1>3. \A f \in Fact : parent[f] <= f
  BY FactAssumption
<1> QED BY <1>1, <1>2, <1>3 DEF Forest

-----------------------------------------------------------------------------
(***************************************************************************)
(* Facts filed under their roots.                                          *)
(***************************************************************************)
Filed(parent, edges, left, families) ==
    /\ left \subseteq Touched(edges)
    /\ \A r \in Fact : \A m \in families[r] :
          /\ m \in Touched(edges) /\ m \notin left
          /\ parent[r] = r /\ r <= m /\ Same(parent, r, m)
    /\ \A m \in Touched(edges) \ left : \E r \in Fact : m \in families[r]

\* Once all are filed, the files are the lineages.
LEMMA FilesAreLineages ==
    ASSUME NEW parent \in [Fact -> Fact], NEW edges \in SUBSET Edge,
           NEW families \in [Fact -> SUBSET Fact],
           Forest(parent, edges), Filed(parent, edges, {}, families)
    PROVE  {families[r] : r \in Fact} \ {{}} = Lineages(edges)
<1>1. ASSUME NEW r \in Fact, NEW m \in families[r]
      PROVE  families[r] = Lineage(edges, m)
  <2>1. ASSUME NEW y \in families[r] PROVE y \in Lineage(edges, m)
    <3>1. ASSUME NEW S \in SUBSET Fact, Cut(S, edges) PROVE m \in S <=> y \in S
      <4>1. Closed(S, parent)
        BY <3>1, Zenon DEF Forest
      <4>2. (r \in S <=> m \in S) /\ (r \in S <=> y \in S)
        BY <4>1, Zenon DEF Filed, Same
      <4> QED BY <4>2
    <3>2. y \in Touched(edges)
      BY Zenon DEF Filed
    <3> QED BY <3>1, <3>2, Zenon DEF Lineage
  <2>2. ASSUME NEW y \in Lineage(edges, m) PROVE y \in families[r]
    <3>1. y \in Touched(edges) \ {}
      BY DEF Lineage
    <3>2. PICK t \in Fact : y \in families[t]
      BY <3>1, Zenon DEF Filed
    <3>3. ASSUME t # r PROVE FALSE
      <4>1. parent[r] = r /\ parent[t] = t
        BY <3>2, Zenon DEF Filed
      <4>2. PICK S \in SUBSET Fact : Closed(S, parent) /\ r \in S /\ t \notin S
        BY <3>3, <4>1, Zenon DEF Forest, Apart
      <4>3. m \in S /\ y \notin S
        BY <3>2, <4>2, Zenon DEF Filed, Same
      <4>4. Cut(S, edges)
        BY <4>2, Zenon DEF Forest
      <4> QED BY <4>3, <4>4, Zenon DEF Lineage
    <3> QED BY <3>2, <3>3
  <2> QED BY <2>1, <2>2
<1>2. ASSUME NEW r \in Fact, families[r] # {} PROVE families[r] \in Lineages(edges)
  <2>1. PICK m \in families[r] : TRUE
    BY <1>2
  <2>2. m \in Touched(edges)
    BY <2>1, Zenon DEF Filed
  <2> QED BY <1>1, <2>1, <2>2, Zenon DEF Lineages
<1>3. ASSUME NEW f \in Touched(edges)
      PROVE  \E r \in Fact : families[r] = Lineage(edges, f) /\ families[r] # {}
  <2>1. PICK r \in Fact : f \in families[r]
    BY f \in Touched(edges) \ {}, Zenon DEF Filed
  <2> QED BY <1>1, <2>1
<1>4. Lineages(edges) \subseteq {families[r] : r \in Fact} \ {{}}
  BY <1>3 DEF Lineages
<1> QED BY <1>2, <1>4

\* ... and each is filed under its least fact.
LEMMA FiledUnderLeastFact ==
    ASSUME NEW parent \in [Fact -> Fact], NEW edges \in SUBSET Edge,
           NEW families \in [Fact -> SUBSET Fact],
           Forest(parent, edges), Filed(parent, edges, {}, families),
           NEW r \in Fact, families[r] # {}
    PROVE  r \in families[r] /\ \A f \in families[r] : r <= f
<1>1. PICK m \in families[r] : TRUE
  OBVIOUS
<1>2. m \in Touched(edges) /\ parent[r] = r /\ Same(parent, r, m)
  BY <1>1, Zenon DEF Filed
<1>3. r \in Touched(edges)
  <2> SUFFICES ASSUME r \notin Touched(edges) PROVE FALSE
    OBVIOUS
  <2>1. Cut({r}, edges)
    BY DEF Cut, Touched, Bases, Heads, Edge, Row
  <2>2. Closed({r}, parent)
    BY <2>1, {r} \in SUBSET Fact, Zenon DEF Forest
  <2>3. m \in {r}
    BY <1>2, <2>2, {r} \in SUBSET Fact DEF Same
  <2> QED BY <1>2, <2>3
<1>4. PICK t \in Fact : r \in families[t]
  BY <1>3, r \in Touched(edges) \ {}, Zenon DEF Filed
<1>5. parent[t] = t /\ Same(parent, t, r)
  BY <1>4, Zenon DEF Filed
<1>6. t = r
  <2> SUFFICES ASSUME t # r PROVE FALSE
    OBVIOUS
  <2>1. PICK S \in SUBSET Fact : Closed(S, parent) /\ t \in S /\ r \notin S
    BY <1>2, <1>5, Zenon DEF Forest, Apart
  <2> QED BY <1>5, <2>1, Zenon DEF Same
<1>7. \A f \in families[r] : r <= f
  BY Zenon DEF Filed
<1> QED BY <1>4, <1>6, <1>7

-----------------------------------------------------------------------------
(***************************************************************************)
(* The type invariant.                                                     *)
(***************************************************************************)
LEMMA TypeOKInit == Init => TypeOK
  BY DEF Init, TypeOK, Finding, At, Idle, NoRewrite

LEMMA EdgeFacts ==
    ASSUME NEW e \in Edge
    PROVE  e.base \in Fact /\ e.head \in Fact /\ e.base \in Nat /\ e.head \in Nat
  BY FactAssumption DEF Edge, Row

LEMMA TypeOKNext == TypeOK /\ [Next]_vars => TypeOK'
<1> SUFFICES ASSUME TypeOK, [Next]_vars PROVE TypeOK'
  OBVIOUS
<1> DEFINE FoldOK == /\ fold \in {Idle} \cup FoldType
                     /\ Finding => fold.x \in Fact
                     /\ At("find_head") \/ At("find_member") => fold.mark \in Fact
<1>0. FoldOK /\ (UNCHANGED fold => FoldOK')
  BY DEF TypeOK, Finding, At
<1>1. ASSUME NEW e \in Row, OpenEvents(e) PROVE TypeOK'
  BY <1>0, <1>1 DEF OpenEvents, TypeOK
<1>2. CASE WriteEvents
  BY <1>0, <1>2 DEF WriteEvents, TypeOK, NoRewrite
<1>3. ASSUME UNCHANGED File, FoldOK' PROVE TypeOK'
  BY <1>3 DEF File, TypeOK
<1>4. CASE Load
  <2>1. ASSUME NEW evs \in SUBSET Row
        PROVE  Edges(evs) \in SUBSET Edge /\ Touched(Edges(evs)) \in SUBSET Fact
    BY DEF Edges, Edge, Row, Touched, Bases, Heads
  <2>2. rows \in SUBSET Row /\ declared \in SUBSET Row
    BY DEF TypeOK
  <2>3. FoldOK'
    BY <1>4, <2>1, <2>2 DEF Load, FoldType, Finding, At
  <2> QED BY <1>3, <1>4, <2>3 DEF Load
<1>5. ASSUME fold # Idle PROVE fold \in FoldType
  BY <1>5 DEF TypeOK
<1>6. ASSUME NEW e \in Edge, NextEdge(e) PROVE TypeOK'
  <2>1. fold \in FoldType
    BY <1>5, <1>6 DEF NextEdge, At, Idle
  <2>2. FoldOK'
    BY <1>6, <2>1, EdgeFacts DEF NextEdge, FoldType, Finding, At
  <2> QED BY <1>3, <1>6, <2>2 DEF NextEdge
<1>7. ASSUME NEW e \in Edge, BaseFound(e) PROVE TypeOK'
  <2>1. fold \in FoldType
    BY <1>5, <1>7 DEF BaseFound, At, Idle
  <2>2. FoldOK'
    BY <1>0, <1>7, <2>1, EdgeFacts DEF BaseFound, FoldType, Finding, At
  <2> QED BY <1>3, <1>7, <2>2 DEF BaseFound
<1>8. CASE Halve
  <2>1. fold \in FoldType /\ fold.x \in Fact
    BY <1>0, <1>5, <1>8 DEF Halve, Finding, At, Idle
  <2>2. /\ fold.parent[fold.parent[fold.x]] \in Fact
        /\ fold.parent[fold.parent[fold.x]] \in Nat
    BY <2>1, FactAssumption DEF FoldType
  <2>3. FoldOK'
    BY <1>0, <1>8, <2>1, <2>2 DEF Halve, FoldType, Finding, At
  <2> QED BY <1>3, <1>8, <2>3 DEF Halve
<1>9. CASE HeadFound
  <2>1. fold \in FoldType
    BY <1>5, <1>9 DEF HeadFound, At, Idle
  <2>2. fold.x \in Fact
    BY <1>0, <1>9 DEF HeadFound, Finding, At
  <2>3. Link(fold.parent, fold.mark, fold.x) \in [Fact -> Fact]
    BY <1>0, <1>9, <2>1, <2>2 DEF Link, FoldType, HeadFound, At
  <2>4. FoldOK'
    BY <1>9, <2>1, <2>3 DEF HeadFound, FoldType, Finding, At
  <2> QED BY <1>3, <1>9, <2>4 DEF HeadFound
<1>10. ASSUME NEW f \in Fact, Collect(f) PROVE TypeOK'
  <2>1. fold \in FoldType
    BY <1>5, <1>10 DEF Collect, At, Idle
  <2>2. f \in Nat
    BY FactAssumption
  <2>3. FoldOK'
    BY <1>10, <2>1, <2>2 DEF Collect, FoldType, Finding, At
  <2> QED BY <1>3, <1>10, <2>3 DEF Collect
<1>11. CASE MemberFound
  <2>1. fold \in FoldType
    BY <1>5, <1>11 DEF MemberFound, At, Idle
  <2>2. fold.x \in Fact /\ fold.mark \in Fact
    BY <1>0, <1>11 DEF MemberFound, Finding, At
  <2>3. FoldOK'
    BY <1>11, <2>1, <2>2 DEF MemberFound, FoldType, Finding, At
  <2> QED BY <1>3, <1>11, <2>3 DEF MemberFound
<1>12. CASE Classify
  <2>1. fold \in FoldType
    BY <1>5, <1>12 DEF Classify, At, Idle
  <2>2. Families \in SUBSET SUBSET Fact
    BY <2>1 DEF Families, FoldType
  <2>3. \A m \in SUBSET Fact : Conflict(fold.edges, m) \in ConflictType
    BY DEF Conflict, ConflictType
  <2>4. {Conflict(fold.edges, m) : m \in {n \in Families : Forked(fold.edges, n)}}
          \in SUBSET ConflictType
    BY <2>2, <2>3
  <2>5. FoldOK'
    BY <1>12, <2>1, <2>4 DEF Classify, FoldType, Finding, At
  <2> QED BY <1>3, <1>12, <2>5 DEF Classify
<1>13. CASE Answer
  <2>1. FoldOK'
    BY <1>13 DEF Answer, Finding, At, Idle
  <2> QED BY <1>3, <1>13, <2>1 DEF Answer
<1>14. CASE UNCHANGED vars
  BY <1>3, <1>0, <1>14 DEF vars, File
<1> QED BY <1>1, <1>2, <1>4, <1>6, <1>7, <1>8, <1>9, <1>10, <1>11, <1>12, <1>13, <1>14
        DEF Next, FoldStep

\* The type invariant holds: no fact supersedes itself in what is folded and
\* find walks over facts only (edges_from_events, build_graph).
THEOREM TypeCorrect == Spec => []TypeOK
  BY TypeOKInit, TypeOKNext, PTL DEF Spec

-----------------------------------------------------------------------------
(***************************************************************************)
(* The inductive invariant of the fold: the forest stands for the edges    *)
(* that are neither to do nor in hand, find's cursor has not left the tree *)
(* it started in, and what is filed is filed under its root.               *)
(***************************************************************************)
Running == fold # Idle /\ ~At("done")
FoldInv ==
    LET parent == fold.parent IN
    /\ fold.todo \subseteq fold.edges /\ fold.now \subseteq fold.edges
    /\ fold.now \cap fold.todo = {}
    /\ Forest(parent, fold.edges \ (fold.todo \cup fold.now))
    /\ At("next") \/ At("find_member") => fold.now = {}
    /\ At("find_base") =>
          \E e \in fold.edges : fold.now = {e} /\ Same(parent, fold.x, e.base)
    /\ At("find_head") =>
          \E e \in fold.edges :
             /\ fold.now = {e} /\ Same(parent, fold.mark, e.base)
             /\ Same(parent, fold.x, e.head)
             /\ parent[fold.mark] = fold.mark
    /\ At("find_member") =>
          /\ fold.todo = {} /\ fold.mark \in fold.left
          /\ Same(parent, fold.x, fold.mark) /\ fold.x <= fold.mark
    /\ fold.todo \cup fold.now # {} =>
          fold.left = Touched(fold.edges) /\ fold.families = [f \in Fact |-> {}]
    /\ Filed(parent, fold.edges, fold.left, fold.families)
Inv == TypeOK /\ (Running => FoldInv) /\ ConflictsAreForks /\ FiledUnderLeast

LEMMA InvInit == Init => Inv
  BY TypeOKInit DEF Init, Inv, Running, ConflictsAreForks, FiledUnderLeast, At, Idle

LEMMA EmptyFiles ==
    ASSUME NEW parent, NEW edges
    PROVE  Filed(parent, edges, Touched(edges), [f \in Fact |-> {}])
  BY DEF Filed

\* Closing the same sets, the same facts are together.
LEMMA SameSame ==
    ASSUME NEW p, NEW q, \A S \in SUBSET Fact : Closed(S, p) <=> Closed(S, q),
           NEW x, NEW y
    PROVE  Same(p, x, y) <=> Same(q, x, y)
  BY Zenon DEF Same

LEMMA LoadStarts ==
    ASSUME TypeOK, Load
    PROVE  FoldInv' /\ Running'
<1> DEFINE parent == [f \in Fact |-> f]
           none == [f \in Fact |-> {}]
           edges == Edges(rows)
<1>1. /\ fold'.pc = "next" /\ fold'.edges = edges /\ fold'.todo = edges /\ fold'.now = {}
      /\ fold'.parent = parent /\ fold'.left = Touched(edges) /\ fold'.families = none
  BY DEF Load
<1>2. Forest(parent, edges \ (edges \cup {}))
  <2>1. edges \ (edges \cup {}) = {}
    OBVIOUS
  <2> QED BY <2>1, FirstForest
<1>3. Filed(parent, edges, Touched(edges), none)
  BY EmptyFiles
<1> HIDE DEF parent, none, edges
<1>4. FoldInv'
  BY <1>1, <1>2, <1>3 DEF FoldInv, At, none
<1> QED BY <1>1, <1>4 DEF Running, At, Idle

LEMMA NextEdgeStep ==
    ASSUME TypeOK, FoldInv, NEW e \in Edge, NextEdge(e)
    PROVE  FoldInv'
<1>1. fold \in FoldType /\ fold.pc = "next" /\ e \in fold.todo /\ fold.now = {}
  BY DEF TypeOK, NextEdge, At, Idle, FoldInv
<1>2. /\ fold'.pc = "find_base" /\ fold'.edges = fold.edges /\ fold'.parent = fold.parent
      /\ fold'.todo = fold.todo \ {e} /\ fold'.now = {e} /\ fold'.x = e.base
      /\ fold'.left = fold.left /\ fold'.families = fold.families
  BY <1>1 DEF NextEdge, FoldType
<1>3. fold.edges \ (fold'.todo \cup fold'.now) = fold.edges \ (fold.todo \cup fold.now)
  BY <1>1, <1>2
<1>4. Same(fold.parent, e.base, e.base)
  BY DEF Same
<1>5. /\ fold.todo \subseteq fold.edges /\ fold.todo \cup fold.now # {}
      /\ Forest(fold.parent, fold.edges \ (fold.todo \cup fold.now))
      /\ fold.left = Touched(fold.edges) /\ fold.families = [f \in Fact |-> {}]
      /\ Filed(fold.parent, fold.edges, fold.left, fold.families)
  BY <1>1 DEF FoldInv
<1> QED BY <1>1, <1>2, <1>3, <1>4, <1>5 DEF FoldInv, At

LEMMA HalveStep ==
    ASSUME TypeOK, FoldInv, Halve
    PROVE  FoldInv'
<1> DEFINE p == fold.parent
           q == fold'.parent
           x == fold.x
           done == fold.edges \ (fold.todo \cup fold.now)
<1>1. fold \in FoldType /\ x \in Fact /\ p[x] # x
  BY DEF TypeOK, Halve, Finding, At, Idle, IsRoot
<1>2. /\ fold'.pc = fold.pc /\ fold'.edges = fold.edges /\ fold'.todo = fold.todo
      /\ fold'.now = fold.now /\ fold'.left = fold.left /\ fold'.mark = fold.mark
      /\ fold'.families = fold.families
      /\ q = [p EXCEPT ![x] = p[p[x]]] /\ fold'.x = p[p[x]]
      /\ fold.pc # "next" /\ p \in [Fact -> Fact]
  BY <1>1 DEF Halve, FoldType, Finding, At
<1>3. Forest(p, done)
  BY DEF FoldInv
<1> HIDE DEF p, q, done, x
<1>4. /\ q \in [Fact -> Fact]
      /\ Forest(q, done)
      /\ \A S \in SUBSET Fact : Closed(S, q) <=> Closed(S, p)
      /\ \A r \in Fact : q[r] = r <=> p[r] = r
      /\ Same(q, q[x], x)
      /\ q[x] <= x
  <2>1. Halved([p EXCEPT ![x] = p[p[x]]], p, done, x)
    BY <1>1, <1>2, <1>3, HalvingKeepsForest
  <2>2. Halved(q, p, done, x)
    BY <1>2, <2>1
  <2> QED BY <2>2, Zenon DEF Halved
<1>5. \A y, z : Same(q, y, z) <=> Same(p, y, z)
  BY <1>4, SameSame
<1>6. q[x] = fold'.x /\ fold'.x \in Fact
  BY <1>1, <1>2
<1>7. \A z : Same(p, x, z) => Same(q, fold'.x, z)
  BY <1>4, <1>5, <1>6, Zenon DEF Same
<1>8. At("find_base")' =>
          \E e \in fold.edges : fold.now = {e} /\ Same(q, fold'.x, e.base)
  BY <1>2, <1>7 DEF FoldInv, At, p, x
<1>9. At("find_head")' =>
          \E e \in fold.edges :
             /\ fold.now = {e} /\ Same(q, fold'.mark, e.base)
             /\ Same(q, fold'.x, e.head)
             /\ q[fold'.mark] = fold'.mark
  <2> SUFFICES ASSUME fold.pc = "find_head"
               PROVE  \E e \in fold.edges :
                         /\ fold.now = {e} /\ Same(q, fold.mark, e.base)
                         /\ Same(q, fold'.x, e.head) /\ q[fold.mark] = fold.mark
    BY <1>2 DEF At
  <2>1. fold.mark \in Fact
    BY DEF TypeOK, At
  <2>2. PICK e \in fold.edges :
             /\ fold.now = {e} /\ Same(p, fold.mark, e.base)
             /\ Same(p, x, e.head) /\ p[fold.mark] = fold.mark
    BY DEF FoldInv, At, p, x
  <2> QED BY <1>4, <1>5, <1>7, <2>1, <2>2
<1>10. At("find_member")' =>
          /\ fold.todo = {} /\ fold.mark \in fold.left
          /\ Same(q, fold'.x, fold'.mark) /\ fold'.x <= fold'.mark
  <2> SUFFICES ASSUME fold.pc = "find_member"
               PROVE  /\ fold.todo = {} /\ fold.mark \in fold.left
                      /\ Same(q, fold'.x, fold.mark) /\ fold'.x <= fold.mark
    BY <1>2 DEF At
  <2>1. /\ fold.todo = {} /\ fold.mark \in fold.left
        /\ Same(p, x, fold.mark) /\ x <= fold.mark
    BY DEF FoldInv, At, p, x
  <2>2. fold'.x \in Nat /\ x \in Nat /\ fold.mark \in Nat
    BY <1>1, <1>6, FactAssumption DEF FoldType
  <2> QED BY <1>4, <1>6, <1>7, <2>1, <2>2
<1>11. Filed(q, fold.edges, fold.left, fold.families)
  <2>1. Filed(p, fold.edges, fold.left, fold.families)
    BY DEF FoldInv, p
  <2> QED BY <1>4, <1>5, <2>1, Zenon DEF Filed
<1>12. /\ fold.todo \subseteq fold.edges /\ fold.now \subseteq fold.edges
       /\ fold.now \cap fold.todo = {}
       /\ fold.pc = "find_member" => fold.now = {}
       /\ fold.todo \cup fold.now # {} =>
             fold.left = Touched(fold.edges) /\ fold.families = [f \in Fact |-> {}]
  BY DEF FoldInv, At
<1>13. Forest(q, fold.edges \ (fold.todo \cup fold.now))
  BY <1>4 DEF done
<1> QED BY <1>2, <1>8, <1>9, <1>10, <1>11, <1>12, <1>13 DEF FoldInv, At, q

LEMMA BaseFoundStep ==
    ASSUME TypeOK, FoldInv, NEW e \in Edge, BaseFound(e)
    PROVE  FoldInv'
<1>1. fold \in FoldType /\ fold.pc = "find_base" /\ e \in fold.now /\ fold.x \in Fact
  BY DEF TypeOK, BaseFound, At, Idle, Finding
<1>2. /\ fold'.pc = "find_head" /\ fold'.edges = fold.edges /\ fold'.todo = fold.todo
      /\ fold'.now = fold.now /\ fold'.left = fold.left /\ fold'.mark = fold.x
      /\ fold'.families = fold.families /\ fold'.parent = fold.parent
      /\ fold'.x = e.head /\ fold.parent[fold.x] = fold.x
  BY <1>1 DEF BaseFound, FoldType, IsRoot
<1>3. e \in fold.edges /\ fold.now = {e} /\ Same(fold.parent, fold.x, e.base)
  <2>1. PICK d \in fold.edges : fold.now = {d} /\ Same(fold.parent, fold.x, d.base)
    BY <1>1 DEF FoldInv, At
  <2> QED BY <1>1, <2>1
<1>4. Same(fold.parent, e.head, e.head)
  BY DEF Same
<1> QED BY <1>1, <1>2, <1>3, <1>4 DEF FoldInv, At

LEMMA HeadFoundStep ==
    ASSUME TypeOK, FoldInv, HeadFound
    PROVE  FoldInv'
<1> DEFINE after == Link(fold.parent, fold.mark, fold.x)
<1>1. /\ fold \in FoldType /\ fold.pc = "find_head" /\ fold.x \in Fact
      /\ fold.mark \in Fact /\ fold.parent[fold.x] = fold.x
  BY DEF TypeOK, HeadFound, At, Idle, Finding, IsRoot
<1>2. /\ fold'.pc = "next" /\ fold'.edges = fold.edges /\ fold'.todo = fold.todo
      /\ fold'.now = {} /\ fold'.left = fold.left
      /\ fold'.families = fold.families /\ fold'.parent = after
  BY <1>1 DEF HeadFound, FoldType
<1>3. PICK e \in fold.edges :
         /\ fold.now = {e} /\ Same(fold.parent, fold.mark, e.base)
         /\ Same(fold.parent, fold.x, e.head)
         /\ fold.parent[fold.mark] = fold.mark
  BY <1>1 DEF FoldInv, At
<1>4. e \in Edge /\ fold.parent \in [Fact -> Fact]
  BY <1>1 DEF FoldType
<1>5. Forest(after, (fold.edges \ (fold.todo \cup fold.now)) \cup {e})
  BY <1>1, <1>3, <1>4, LinkingKeepsForest DEF FoldInv
<1>6. e \notin fold.todo
  BY <1>3 DEF FoldInv
<1>7. (fold.edges \ (fold.todo \cup fold.now)) \cup {e} = fold.edges \ (fold.todo \cup {})
  BY <1>3, <1>6
<1>8. fold.left = Touched(fold.edges) /\ fold.families = [f \in Fact |-> {}]
  BY <1>3 DEF FoldInv
<1> HIDE DEF after
<1>9. Filed(after, fold.edges, fold.left, fold.families)
  BY <1>8, EmptyFiles
<1>10. fold.todo \subseteq fold.edges
  BY DEF FoldInv
<1>11. Forest(after, fold.edges \ (fold.todo \cup {}))
  BY <1>5, <1>7, Zenon
<1> QED BY <1>2, <1>8, <1>9, <1>10, <1>11 DEF FoldInv, At

LEMMA CollectStep ==
    ASSUME TypeOK, FoldInv, NEW f \in Fact, Collect(f)
    PROVE  FoldInv'
<1>1. fold \in FoldType /\ fold.pc = "next" /\ fold.todo = {} /\ f \in fold.left
      /\ fold.now = {}
  BY DEF TypeOK, Collect, At, Idle, FoldInv
<1>2. /\ fold'.pc = "find_member" /\ fold'.edges = fold.edges /\ fold'.todo = fold.todo
      /\ fold'.now = fold.now /\ fold'.left = fold.left /\ fold'.mark = f /\ fold'.x = f
      /\ fold'.families = fold.families /\ fold'.parent = fold.parent
  BY <1>1 DEF Collect, FoldType
<1>3. Same(fold.parent, f, f) /\ f <= f
  BY FactAssumption DEF Same
<1> QED BY <1>1, <1>2, <1>3 DEF FoldInv, At

LEMMA MemberFoundStep ==
    ASSUME TypeOK, FoldInv, MemberFound
    PROVE  FoldInv'
<1> DEFINE left == fold.left \ {fold.mark}
           families == [fold.families EXCEPT ![fold.x] = @ \cup {fold.mark}]
<1>1. /\ fold \in FoldType /\ fold.pc = "find_member" /\ fold.x \in Fact
      /\ fold.mark \in Fact /\ fold.parent[fold.x] = fold.x
      /\ fold.todo = {} /\ fold.now = {} /\ fold.mark \in fold.left
      /\ Same(fold.parent, fold.x, fold.mark) /\ fold.x <= fold.mark
      /\ Filed(fold.parent, fold.edges, fold.left, fold.families)
  BY DEF TypeOK, MemberFound, At, Idle, Finding, IsRoot, FoldInv
<1>2. /\ fold'.pc = "next" /\ fold'.edges = fold.edges /\ fold'.todo = fold.todo
      /\ fold'.now = fold.now /\ fold'.left = left
      /\ fold'.families = families /\ fold'.parent = fold.parent
  BY <1>1 DEF MemberFound, FoldType
<1>3. \A r \in Fact : families[r] = IF r = fold.x THEN fold.families[r] \cup {fold.mark}
                                    ELSE fold.families[r]
  BY <1>1 DEF FoldType
<1> HIDE DEF left, families
<1>4. Filed(fold.parent, fold.edges, left, families)
  <2>1. left \subseteq Touched(fold.edges)
    BY <1>1 DEF Filed, left
  <2>2. ASSUME NEW r \in Fact, NEW m \in families[r]
        PROVE  /\ m \in Touched(fold.edges) /\ m \notin left
               /\ fold.parent[r] = r /\ r <= m /\ Same(fold.parent, r, m)
    <3>1. CASE m \in fold.families[r]
      BY <1>1, <3>1 DEF Filed, left
    <3>2. CASE m \notin fold.families[r]
      <4>1. r = fold.x /\ m = fold.mark
        BY <1>3, <3>2
      <4> QED BY <1>1, <4>1 DEF Filed, left
    <3> QED BY <3>1, <3>2
  <2>3. ASSUME NEW m \in Touched(fold.edges) \ left PROVE \E r \in Fact : m \in families[r]
    <3>1. CASE m = fold.mark
      BY <1>1, <1>3, <3>1
    <3>2. CASE m # fold.mark
      <4>1. PICK r \in Fact : m \in fold.families[r]
        BY <1>1, <3>2 DEF Filed, left
      <4> QED BY <1>3, <4>1
    <3> QED BY <3>1, <3>2
  <2> QED BY <2>1, <2>2, <2>3, Zenon DEF Filed
<1>5. Forest(fold.parent, fold.edges \ (fold.todo \cup fold.now))
  BY DEF FoldInv
<1> QED BY <1>1, <1>2, <1>4, <1>5 DEF FoldInv, At

LEMMA ClassifyStep ==
    ASSUME TypeOK, FoldInv, Classify
    PROVE  (ConflictsAreForks /\ FiledUnderLeast)'
<1>1. fold \in FoldType /\ fold.pc = "next" /\ fold.todo = {} /\ fold.left = {}
      /\ fold.now = {}
  BY DEF TypeOK, Classify, At, Idle, FoldInv
<1>2. /\ fold'.pc = "done" /\ fold'.edges = fold.edges
      /\ fold'.families = fold.families
      /\ fold'.conflicts = {Conflict(fold.edges, m) :
                              m \in {n \in Families : Forked(fold.edges, n)}}
  BY <1>1 DEF Classify, FoldType
<1>3. /\ fold.parent \in [Fact -> Fact] /\ fold.edges \in SUBSET Edge
      /\ fold.families \in [Fact -> SUBSET Fact]
  BY <1>1 DEF FoldType
<1>4. Forest(fold.parent, fold.edges)
  <2>1. fold.edges \ (fold.todo \cup fold.now) = fold.edges
    BY <1>1
  <2>2. Forest(fold.parent, fold.edges \ (fold.todo \cup fold.now))
    BY DEF FoldInv
  <2> QED BY <2>1, <2>2, Zenon
<1>5. Filed(fold.parent, fold.edges, {}, fold.families)
  BY <1>1 DEF FoldInv
<1>6. Families = Lineages(fold.edges)
  BY <1>3, <1>4, <1>5, FilesAreLineages DEF Families
<1>7. ConflictsAreForks'
  BY <1>2, <1>6 DEF ConflictsAreForks, Conflicts
<1>8. FiledUnderLeast'
  BY <1>2, <1>3, <1>4, <1>5, FiledUnderLeastFact DEF FiledUnderLeast
<1> QED BY <1>7, <1>8

LEMMA InvNext == Inv /\ [Next]_vars => Inv'
<1> SUFFICES ASSUME Inv, [Next]_vars PROVE Inv'
  OBVIOUS
<1>1. TypeOK /\ TypeOK'
  BY TypeOKNext DEF Inv
<1> DEFINE Rest == (Running => FoldInv) /\ ConflictsAreForks /\ FiledUnderLeast
<1>2. ASSUME Rest' PROVE Inv'
  BY <1>1, <1>2 DEF Inv
<1>3. ASSUME UNCHANGED fold PROVE Inv'
  BY <1>1, <1>3 DEF Inv, Running, FoldInv, ConflictsAreForks, FiledUnderLeast, At
<1>4. ASSUME FoldInv', ~At("done")' PROVE Inv'
  BY <1>1, <1>4 DEF Inv, ConflictsAreForks, FiledUnderLeast
<1>5. ASSUME NEW e \in Row, OpenEvents(e) PROVE Inv'
  BY <1>3, <1>5 DEF OpenEvents
<1>6. CASE WriteEvents
  BY <1>3, <1>6 DEF WriteEvents
<1>7. CASE Load
  BY <1>1, <1>4, <1>7, LoadStarts DEF Running
<1>8. ASSUME Running PROVE FoldInv
  BY <1>8 DEF Inv
<1>9. ASSUME NEW e \in Edge, NextEdge(e) PROVE Inv'
  <2>1. Running /\ ~At("done")'
    BY <1>1, <1>9 DEF NextEdge, Running, At, Idle, TypeOK, FoldType
  <2> QED BY <1>1, <1>4, <1>8, <1>9, <2>1, NextEdgeStep
<1>10. ASSUME NEW e \in Edge, BaseFound(e) PROVE Inv'
  <2>1. Running /\ ~At("done")'
    BY <1>1, <1>10 DEF BaseFound, Running, At, Idle, TypeOK, FoldType
  <2> QED BY <1>1, <1>4, <1>8, <1>10, <2>1, BaseFoundStep
<1>11. CASE Halve
  <2>1. Running /\ ~At("done")'
    BY <1>1, <1>11 DEF Halve, Finding, Running, At, Idle, TypeOK, FoldType
  <2> QED BY <1>1, <1>4, <1>8, <1>11, <2>1, HalveStep
<1>12. CASE HeadFound
  <2>1. Running /\ ~At("done")'
    BY <1>1, <1>12 DEF HeadFound, Running, At, Idle, TypeOK, FoldType
  <2> QED BY <1>1, <1>4, <1>8, <1>12, <2>1, HeadFoundStep
<1>13. ASSUME NEW f \in Fact, Collect(f) PROVE Inv'
  <2>1. Running /\ ~At("done")'
    BY <1>1, <1>13 DEF Collect, Running, At, Idle, TypeOK, FoldType
  <2> QED BY <1>1, <1>4, <1>8, <1>13, <2>1, CollectStep
<1>14. CASE MemberFound
  <2>1. Running /\ ~At("done")'
    BY <1>1, <1>14 DEF MemberFound, Running, At, Idle, TypeOK, FoldType
  <2> QED BY <1>1, <1>4, <1>8, <1>14, <2>1, MemberFoundStep
<1>15. CASE Classify
  <2>1. Running /\ At("done")'
    <3>0. fold.pc = "next"
      BY <1>15 DEF Classify, At
    <3>1. fold \in FoldType /\ Running
      BY <1>1, <3>0 DEF At, Idle, TypeOK, Running
    <3>2. fold'.pc = "done"
      BY <1>15, <3>1 DEF Classify, FoldType
    <3> QED BY <3>1, <3>2 DEF At
  <2>2. (ConflictsAreForks /\ FiledUnderLeast)'
    BY <1>1, <1>8, <1>15, <2>1, ClassifyStep
  <2> QED BY <1>2, <2>1, <2>2 DEF Running
<1>16. CASE Answer
  <2>1. fold' = Idle
    BY <1>16 DEF Answer
  <2>2. ~At("done")' /\ ~Running'
    BY <2>1 DEF At, Running, Idle
  <2> QED BY <1>2, <2>2 DEF ConflictsAreForks, FiledUnderLeast
<1>17. CASE UNCHANGED vars
  BY <1>3, <1>17 DEF vars
<1> QED BY <1>5, <1>6, <1>7, <1>9, <1>10, <1>11, <1>12, <1>13, <1>14, <1>15, <1>16, <1>17
        DEF Next, FoldStep

\* The fold reports exactly the forked lineages of the edges it was given, for
\* any facts and edges and in any order (build_graph).
THEOREM ForksAreReported == Spec => []ConflictsAreForks
<1>1. Inv => ConflictsAreForks
  BY DEF Inv
<1> QED BY <1>1, InvInit, InvNext, PTL DEF Spec

\* A family is filed under its least fact (build_graph, "min id").
THEOREM LeastFactNamesFamily == Spec => []FiledUnderLeast
<1>1. Inv => FiledUnderLeast
  BY DEF Inv
<1> QED BY <1>1, InvInit, InvNext, PTL DEF Spec

\* The fold as a whole: typed, the forked lineages and no others, each filed
\* under its least fact (build_graph).
THEOREM FamiliesStayRight == Spec => []FamiliesAreRight
<1>1. TypeOK /\ ConflictsAreForks /\ FiledUnderLeast => FamiliesAreRight
  BY DEF FamiliesAreRight
<1> QED BY <1>1, TypeCorrect, ForksAreReported, LeastFactNamesFamily, PTL

-----------------------------------------------------------------------------
(***************************************************************************)
(* What is folded is what was declared, as long as no query reads the file *)
(* while a checkpoint rewrites it: outside a rewrite the file holds every  *)
(* declaration, and no query is in progress during one.                    *)
(***************************************************************************)
ReadsWhole ==
    ~Overlap =>
      /\ rewrite = NoRewrite => rows = declared
      /\ fold # Idle => rewrite = NoRewrite /\ fold.edges = fold.known \cap Edge

LEMMA ReadsWholeInit == Init => ReadsWhole
  BY DEF Init, ReadsWhole

\* A step of the fold itself changes neither its edges nor what it knew.
LEMMA StepsKeepWhatWasRead ==
    ASSUME TypeOK, FoldStep
    PROVE  /\ UNCHANGED File
           /\ fold # Idle
           /\ fold'.edges = fold.edges /\ fold'.known = fold.known
<1>1. UNCHANGED File
  BY Zenon DEF FoldStep, NextEdge, BaseFound, Halve, HeadFound, Collect, MemberFound, Classify
<1>0. fold # Idle
  <2>1. At("next") \/ Finding
    BY Zenon DEF FoldStep, NextEdge, BaseFound, Halve, HeadFound, Collect, MemberFound,
                 Classify, Finding
  <2> QED BY <2>1 DEF Finding, At, Idle
<1>2. fold \in FoldType
  BY <1>0 DEF TypeOK
<1>3. fold'.edges = fold.edges /\ fold'.known = fold.known
  BY <1>2 DEF FoldStep, NextEdge, BaseFound, Halve, HeadFound, Collect, MemberFound,
              Classify, FoldType
<1> QED BY <1>0, <1>1, <1>3

LEMMA ReadsWholeNext == TypeOK /\ ReadsWhole /\ [Next]_vars => ReadsWhole'
<1> SUFFICES ASSUME TypeOK, ReadsWhole, [Next]_vars, ~Overlap
             PROVE  /\ rewrite' = NoRewrite => rows' = declared'
                    /\ fold' # Idle =>
                          rewrite' = NoRewrite /\ fold'.edges = fold'.known \cap Edge
  BY DEF ReadsWhole
<1>1. ASSUME NEW e \in Row, OpenEvents(e)
      PROVE  rewrite' # NoRewrite /\ fold' = Idle
  BY <1>1 DEF OpenEvents, NoRewrite
<1>2. ASSUME WriteEvents
      PROVE  rows' = declared' /\ fold' = Idle
  BY <1>2 DEF WriteEvents, ReadsWhole
<1>3. ASSUME Load
      PROVE  /\ rewrite' = NoRewrite /\ rows' = declared'
             /\ fold'.edges = fold'.known \cap Edge
  <2>1. rewrite = NoRewrite /\ rows = declared /\ rows \subseteq Row
    BY <1>3 DEF Load, ReadsWhole, TypeOK
  <2>2. Edges(rows) = declared \cap Edge
    BY <2>1 DEF Edges, Edge
  <2> QED BY <1>3, <2>1, <2>2 DEF Load, File
<1>4. CASE FoldStep
  BY <1>4, StepsKeepWhatWasRead DEF ReadsWhole, File
<1>5. CASE Answer
  BY <1>5 DEF Answer, ReadsWhole, File
<1>6. CASE UNCHANGED vars
  BY <1>6 DEF ReadsWhole, vars
<1> QED BY <1>1, <1>2, <1>3, <1>4, <1>5, <1>6 DEF Next

\* A query reports the forks of everything that checkpoints had declared when
\* it began, if the two do not overlap (load_supersession, build_graph).
THEOREM ForksStaySurfaced == Spec => [](~Overlap => ForksSurface)
<1>1. ReadsWhole /\ ConflictsAreForks => (~Overlap => ForksSurface)
  BY DEF ReadsWhole, ConflictsAreForks, ForksSurface, At, Idle
<1>2. Spec => []ReadsWhole
  BY ReadsWholeInit, ReadsWholeNext, TypeCorrect, PTL DEF Spec
<1> QED BY <1>1, <1>2, ForksAreReported, PTL

-----------------------------------------------------------------------------
(***************************************************************************)
(* Which fields contradict each other.                                     *)
(***************************************************************************)
ConflictTypeOK == index \in Seq(RuleField)

LEMMA PlacesAreNumbers ==
    ASSUME ConflictTypeOK
    PROVE  /\ DOMAIN index \subseteq Nat
           /\ \A i \in DOMAIN index : index[i] \in RuleField
           /\ \A kind : Of(kind) \subseteq DOMAIN index
           /\ \A f \in Indexed(DOMAIN index) : \E i \in Of(f.kind) : index[i] = f
<1>1. Len(index) \in Nat /\ DOMAIN index = 1..Len(index)
  BY DEF ConflictTypeOK
<1>2. \A i \in DOMAIN index : index[i] \in RuleField
  BY DEF ConflictTypeOK
<1> QED BY <1>1, <1>2 DEF Of, Indexed

\* A value given to a name is given first at some place, and stands there.
LEMMA ValuesStandSomewhere ==
    ASSUME ConflictTypeOK, NEW kind, NEW i \in Of(kind)
    PROVE  \E j \in Of(kind) : /\ index[j].name = index[i].name /\ index[j].value = index[i].value
                               /\ FirstOf(Of(kind), j)
<1> DEFINE S == {j \in Of(kind) : index[j].name = index[i].name /\ index[j].value = index[i].value}
<1>1. S \in SUBSET Nat /\ S # {}
  BY PlacesAreNumbers
<1>2. PICK j \in S : \A k \in S : j <= k
  BY <1>1, LeastNatural
<1>3. \A k \in Of(kind) : k < j /\ index[k].name = index[j].name => index[k].value # index[j].value
  BY <1>1, <1>2, PlacesAreNumbers
<1> QED BY <1>2, <1>3 DEF FirstOf

\* Two different places make a pair, one way round or the other.
LEMMA TwoPlacesPair ==
    ASSUME ConflictTypeOK, NEW I \in SUBSET DOMAIN index, NEW i \in I, NEW j \in I, i # j
    PROVE  <<i, j>> \in PairsOf(I) \/ <<j, i>> \in PairsOf(I)
<1>1. i \in Nat /\ j \in Nat
  BY PlacesAreNumbers
<1>2. i < j \/ j < i
  BY <1>1
<1> QED BY <1>2 DEF PairsOf

LEMMA PairsWarn ==
    ASSUME NEW kind, NEW I, NEW P \in SUBSET PairsOf(I), NEW w \in Warnings(kind, P)
    PROVE  \E p \in P : /\ p[1] \in I /\ p[2] \in I /\ p[1] < p[2]
                        /\ w = Warning(kind, index[p[1]], index[p[2]])
                        /\ w.kind = kind /\ w.one = index[p[1]] /\ w.other = index[p[2]]
<1>1. PICK p \in P : w = Warning(kind, index[p[1]], index[p[2]])
  BY DEF Warnings
<1>2. p \in I \X I /\ p[1] < p[2]
  BY DEF PairsOf
<1> QED BY <1>1, <1>2 DEF Warning

LEMMA PairIsWarned ==
    ASSUME NEW kind, NEW P, NEW i, NEW j, <<i, j>> \in P
    PROVE  LET w == Warning(kind, index[i], index[j]) IN
           w \in Warnings(kind, P) /\ w.kind = kind /\ w.one = index[i] /\ w.other = index[j]
  BY DEF Warnings, Warning

\* Fields that disagree on a value are told apart by the first places of the two.
LEMMA ValuesAreReported ==
    ASSUME ConflictTypeOK, NEW kind \in {"type", "pii"},
           NEW i \in Of(kind), NEW j \in Of(kind),
           index[i].name = index[j].name, index[i].value # index[j].value
    PROVE  \E w \in ValueWarnings(kind) :
              /\ w.kind = kind /\ w.one.name = index[i].name
              /\ Said(w) = {index[i].value, index[j].value}
<1>1. PICK a \in Of(kind) : /\ index[a].name = index[i].name /\ index[a].value = index[i].value
                            /\ FirstOf(Of(kind), a)
  BY ValuesStandSomewhere
<1>2. PICK b \in Of(kind) : /\ index[b].name = index[j].name /\ index[b].value = index[j].value
                            /\ FirstOf(Of(kind), b)
  BY ValuesStandSomewhere
<1>3. <<a, b>> \in PairsOf(Of(kind)) \/ <<b, a>> \in PairsOf(Of(kind))
  BY <1>1, <1>2, TwoPlacesPair, PlacesAreNumbers
<1> DEFINE P == {p \in PairsOf(Of(kind)) : /\ index[p[1]].name = index[p[2]].name
                                           /\ Stands(Of(kind), p[1]) /\ FirstOf(Of(kind), p[2])}
<1>4. <<a, b>> \in P \/ <<b, a>> \in P
  BY <1>1, <1>2, <1>3 DEF Stands
<1>5. ValueWarnings(kind) = Warnings(kind, P)
  BY DEF ValueWarnings
<1> HIDE DEF P
<1>6. CASE <<a, b>> \in P
  BY <1>1, <1>2, <1>5, <1>6, PairIsWarned DEF Said
<1>7. CASE <<b, a>> \in P
  BY <1>1, <1>2, <1>5, <1>7, PairIsWarned DEF Said
<1> QED BY <1>4, <1>6, <1>7

\* Any two retention fields that differ are a pair.
LEMMA RetentionsAreReported ==
    ASSUME ConflictTypeOK, NEW i \in Of("retention"), NEW j \in Of("retention"),
           RetentionsDiffer(index[i], index[j])
    PROVE  \E w \in RetentionWarnings :
              /\ w.kind = "retention" /\ w.one.name \in {index[i].name, index[j].name}
              /\ Said(w) = {index[i].value, index[j].value}
              /\ {w.one, w.other} = {index[i], index[j]}
<1> DEFINE P == {p \in ComparedPairs(Of("retention")) : RetentionsDiffer(index[p[1]], index[p[2]])}
<1>1. i # j
  BY DEF RetentionsDiffer
<1>2. <<i, j>> \in PairsOf(Of("retention")) \/ <<j, i>> \in PairsOf(Of("retention"))
  BY <1>1, TwoPlacesPair, PlacesAreNumbers
<1>3. RetentionsDiffer(index[j], index[i])
  BY DEF RetentionsDiffer
<1>4. <<i, j>> \in P \/ <<j, i>> \in P
  BY <1>2, <1>3 DEF ComparedPairs
<1>5. RetentionWarnings = Warnings("retention", P)
  BY DEF RetentionWarnings
<1> HIDE DEF P
<1>6. CASE <<i, j>> \in P
  BY <1>5, <1>6, PairIsWarned DEF Said
<1>7. CASE <<j, i>> \in P
  BY <1>5, <1>7, PairIsWarned DEF Said
<1> QED BY <1>4, <1>6, <1>7

LEMMA GuardsAreReported ==
    ASSUME ConflictTypeOK, NEW i \in Of("guard"), NEW j \in Of("guard"),
           SameKeyOfEntity(index[i], index[j]), Opposite(index[i].value, index[j].value)
    PROVE  \E w \in GuardWarnings :
              /\ w.kind = "guard" /\ w.one.name = index[i].name
              /\ Said(w) = {index[i].value, index[j].value}
<1> DEFINE P == {p \in PairsOf(Of("guard")) :
                    /\ SameKeyOfEntity(index[p[1]], index[p[2]])
                    /\ Opposite(index[p[1]].value, index[p[2]].value)}
<1>1. index[i] \in RuleField /\ index[j] \in RuleField
  BY PlacesAreNumbers
<1>2. index[j].value # index[i].value /\ Opposite(index[j].value, index[i].value)
  BY <1>1, OppositesAreMutual
<1>3. <<i, j>> \in PairsOf(Of("guard")) \/ <<j, i>> \in PairsOf(Of("guard"))
  BY <1>2, TwoPlacesPair, PlacesAreNumbers
<1>4. <<i, j>> \in P \/ <<j, i>> \in P
  BY <1>2, <1>3 DEF SameKeyOfEntity
<1>5. GuardWarnings = Warnings("guard", P)
  BY DEF GuardWarnings
<1> HIDE DEF P
<1>6. CASE <<i, j>> \in P
  BY <1>5, <1>6, PairIsWarned DEF Said
<1>7. CASE <<j, i>> \in P
  BY <1>5, <1>7, PairIsWarned DEF Said, SameKeyOfEntity
<1> QED BY <1>4, <1>6, <1>7

LEMMA DisagreementsReach == ConflictTypeOK => EveryDisagreementReported /\ EveryRetentionPairNamed
<1> SUFFICES ASSUME ConflictTypeOK,
                    NEW f \in Indexed(DOMAIN index), NEW g \in Indexed(DOMAIN index),
                    Disagree(f, g)
             PROVE  /\ \E w \in DetectConflicts : /\ w.kind = f.kind /\ w.one.name \in {f.name, g.name}
                                                  /\ Said(w) = {f.value, g.value}
                    /\ f.kind = "retention" => \E w \in RetentionWarnings : {w.one, w.other} = {f, g}
  BY DEF EveryDisagreementReported, EveryRetentionPairNamed
<1>1. f.kind = g.kind /\ f.kind \in {"retention", "type", "pii", "guard"}
  BY DEF Disagree
<1>2. PICK i \in Of(f.kind) : index[i] = f
  BY PlacesAreNumbers
<1>3. PICK j \in Of(f.kind) : index[j] = g
  BY <1>1, PlacesAreNumbers
<1>4. CASE f.kind = "retention"
  <2>1. RetentionsDiffer(f, g)
    BY <1>4 DEF Disagree
  <2>2. PICK w \in RetentionWarnings :
              /\ w.kind = "retention" /\ w.one.name \in {f.name, g.name}
              /\ Said(w) = {f.value, g.value} /\ {w.one, w.other} = {f, g}
    BY <1>2, <1>3, <1>4, <2>1, RetentionsAreReported
  <2> QED BY <1>4, <2>2 DEF DetectConflicts
<1>5. CASE f.kind = "guard"
  <2>1. SameKeyOfEntity(f, g) /\ Opposite(f.value, g.value)
    BY <1>5 DEF Disagree, SameKeyOfEntity
  <2>2. PICK w \in GuardWarnings : /\ w.kind = "guard" /\ w.one.name = f.name
                                   /\ Said(w) = {f.value, g.value}
    BY <1>2, <1>3, <1>5, <2>1, GuardsAreReported
  <2> QED BY <1>5, <2>2 DEF DetectConflicts
<1>6. CASE f.kind \in {"type", "pii"}
  <2>1. f.name = g.name /\ f.value # g.value
    BY <1>6 DEF Disagree
  <2>2. index[i].name = index[j].name /\ index[i].value # index[j].value
    BY <1>2, <1>3, <2>1
  <2>3. \E w \in ValueWarnings(f.kind) : /\ w.kind = f.kind /\ w.one.name = index[i].name
                                         /\ Said(w) = {index[i].value, index[j].value}
    BY <1>6, <2>2, ValuesAreReported
  <2>4. PICK w \in ValueWarnings(f.kind) : /\ w.kind = f.kind /\ w.one.name = f.name
                                           /\ Said(w) = {f.value, g.value}
    BY <1>2, <1>3, <2>3
  <2>5. w \in DetectConflicts
    BY <1>6, <2>4 DEF DetectConflicts
  <2> QED BY <1>6, <2>4, <2>5
<1> QED BY <1>1, <1>4, <1>5, <1>6

\* What a warning of each check is about.
LEMMA WarningsMean ==
    ASSUME ConflictTypeOK
    PROVE  /\ \A w \in RetentionWarnings : w.kind = "retention" /\ Disagree(w.one, w.other)
           /\ \A w \in GuardWarnings : w.kind = "guard" /\ Disagree(w.one, w.other)
           /\ \A w \in NullWarnings :
                 w.kind = "null" /\ w.one.entity = w.other.entity /\ w.one.name = w.other.name
           /\ \A w \in VersionWarnings : w.kind = "version" /\ w.one.version # w.other.version
           /\ \A kind \in {"type", "pii"} : \A w \in ValueWarnings(kind) :
                 w.kind = kind /\ Disagree(w.one, w.other)
<1>1. ASSUME NEW w \in RetentionWarnings PROVE w.kind = "retention" /\ Disagree(w.one, w.other)
  <2> DEFINE P == {p \in ComparedPairs(Of("retention")) : RetentionsDiffer(index[p[1]], index[p[2]])}
  <2>1. P \in SUBSET PairsOf(Of("retention")) /\ w \in Warnings("retention", P)
    BY DEF RetentionWarnings, ComparedPairs
  <2> HIDE DEF P
  <2>2. PICK p \in P : /\ p[1] \in Of("retention") /\ p[2] \in Of("retention") /\ p[1] < p[2]
                      /\ w = Warning("retention", index[p[1]], index[p[2]])
                      /\ w.kind = "retention" /\ w.one = index[p[1]] /\ w.other = index[p[2]]
    BY <2>1, PairsWarn
  <2>3. index[p[1]].kind = "retention" /\ index[p[2]].kind = "retention"
    BY <2>2 DEF Of
  <2> QED BY <2>2, <2>3 DEF P, Disagree
<1>2. ASSUME NEW w \in GuardWarnings PROVE w.kind = "guard" /\ Disagree(w.one, w.other)
  <2> DEFINE P == {p \in PairsOf(Of("guard")) : /\ SameKeyOfEntity(index[p[1]], index[p[2]])
                                                /\ Opposite(index[p[1]].value, index[p[2]].value)}
  <2>1. P \in SUBSET PairsOf(Of("guard")) /\ w \in Warnings("guard", P)
    BY DEF GuardWarnings
  <2> HIDE DEF P
  <2>2. PICK p \in P : /\ p[1] \in Of("guard") /\ p[2] \in Of("guard") /\ p[1] < p[2]
                      /\ w = Warning("guard", index[p[1]], index[p[2]])
                      /\ w.kind = "guard" /\ w.one = index[p[1]] /\ w.other = index[p[2]]
    BY <2>1, PairsWarn
  <2>3. index[p[1]].kind = "guard" /\ index[p[2]].kind = "guard"
    BY <2>2 DEF Of
  <2> QED BY <2>2, <2>3 DEF P, Disagree, SameKeyOfEntity
<1>3. ASSUME NEW w \in NullWarnings
      PROVE  w.kind = "null" /\ w.one.entity = w.other.entity /\ w.one.name = w.other.name
  BY DEF NullWarnings, Warning, PolicyOf
<1>4. ASSUME NEW w \in VersionWarnings PROVE w.kind = "version" /\ w.one.version # w.other.version
  <2> DEFINE P == {p \in PairsOf(Versioned) :
                     /\ SamePlace(index[p[1]], index[p[2]])
                     /\ index[p[1]].version # index[p[2]].version
                     /\ StandsForVersion(p[1]) /\ StandsForVersion(p[2])
                     /\ Statement(index[p[1]]) # Statement(index[p[2]])}
  <2>1. P \in SUBSET PairsOf(Versioned) /\ w \in Warnings("version", P)
    BY DEF VersionWarnings
  <2> HIDE DEF P
  <2>2. PICK p \in P : /\ p[1] \in Versioned /\ p[2] \in Versioned /\ p[1] < p[2]
                      /\ w = Warning("version", index[p[1]], index[p[2]])
                      /\ w.kind = "version" /\ w.one = index[p[1]] /\ w.other = index[p[2]]
    BY <2>1, PairsWarn
  <2> QED BY <2>2 DEF P
<1>5. ASSUME NEW kind \in {"type", "pii"}, NEW w \in ValueWarnings(kind)
      PROVE  w.kind = kind /\ Disagree(w.one, w.other)
  <2> DEFINE P == {p \in PairsOf(Of(kind)) : /\ index[p[1]].name = index[p[2]].name
                                             /\ Stands(Of(kind), p[1]) /\ FirstOf(Of(kind), p[2])}
  <2>1. P \in SUBSET PairsOf(Of(kind)) /\ w \in Warnings(kind, P)
    BY DEF ValueWarnings
  <2> HIDE DEF P
  <2>2. PICK p \in P : /\ p[1] \in Of(kind) /\ p[2] \in Of(kind) /\ p[1] < p[2]
                      /\ w = Warning(kind, index[p[1]], index[p[2]])
                      /\ w.kind = kind /\ w.one = index[p[1]] /\ w.other = index[p[2]]
    BY <2>1, PairsWarn
  <2>3. index[p[1]].name = index[p[2]].name /\ index[p[1]].value # index[p[2]].value
    BY <2>2 DEF P, FirstOf
  <2>4. index[p[1]].kind = kind /\ index[p[2]].kind = kind
    BY <2>2 DEF Of
  <2> QED BY <2>2, <2>3, <2>4 DEF Disagree
<1> QED BY <1>1, <1>2, <1>3, <1>4, <1>5

LEMMA NothingElseReported == ConflictTypeOK => NoConflictWithoutDisagreement
<1> SUFFICES ASSUME ConflictTypeOK, NEW w \in DetectConflicts
             PROVE  /\ w.kind = "null" => w.one.entity = w.other.entity /\ w.one.name = w.other.name
                    /\ w.kind = "version" => w.one.version # w.other.version
                    /\ w.kind \notin {"null", "version"} => Disagree(w.one, w.other)
  BY DEF NoConflictWithoutDisagreement
<1> QED BY WarningsMean DEF DetectConflicts

\* The places a warning of values is about are the first of their values.
LEMMA ValuesAreTheFirst ==
    ASSUME ConflictTypeOK, NEW kind, NEW w \in ValueWarnings(kind)
    PROVE  \E i \in Of(kind), j \in Of(kind) :
              /\ i < j /\ w = Warning(kind, index[i], index[j])
              /\ w.kind = kind /\ w.one = index[i] /\ w.other = index[j]
              /\ index[i].name = index[j].name
              /\ FirstOf(Of(kind), i) /\ FirstOf(Of(kind), j)
<1> DEFINE P == {p \in PairsOf(Of(kind)) : /\ index[p[1]].name = index[p[2]].name
                                           /\ Stands(Of(kind), p[1]) /\ FirstOf(Of(kind), p[2])}
<1>1. P \in SUBSET PairsOf(Of(kind)) /\ w \in Warnings(kind, P)
  BY DEF ValueWarnings
<1> HIDE DEF P
<1>2. PICK p \in P : /\ p[1] \in Of(kind) /\ p[2] \in Of(kind) /\ p[1] < p[2]
                      /\ w = Warning(kind, index[p[1]], index[p[2]])
                      /\ w.kind = kind /\ w.one = index[p[1]] /\ w.other = index[p[2]]
  BY <1>1, PairsWarn
<1> QED BY <1>2 DEF P, Stands

LEMMA FirstIsOne ==
    ASSUME ConflictTypeOK, NEW kind, NEW i \in Of(kind), NEW j \in Of(kind),
           FirstOf(Of(kind), i), FirstOf(Of(kind), j),
           index[i].name = index[j].name, index[i].value = index[j].value
    PROVE  i = j
<1>1. i \in Nat /\ j \in Nat
  BY PlacesAreNumbers
<1>2. ~(i < j) /\ ~(j < i)
  BY DEF FirstOf
<1> QED BY <1>1, <1>2

LEMMA ReportedOnce == ConflictTypeOK => ValuesReportedOnce
<1> SUFFICES ASSUME ConflictTypeOK,
                    NEW v \in ValueWarnings("type") \cup ValueWarnings("pii"),
                    NEW w \in ValueWarnings("type") \cup ValueWarnings("pii"),
                    v.kind = w.kind, v.one.name = w.one.name, Said(v) = Said(w)
             PROVE  v = w
  BY DEF ValuesReportedOnce
<1>1. PICK kind \in {"type", "pii"} : v \in ValueWarnings(kind) /\ w \in ValueWarnings(kind)
  BY WarningsMean
<1>2. PICK i \in Of(kind), j \in Of(kind) :
          /\ i < j /\ v = Warning(kind, index[i], index[j])
          /\ v.one = index[i] /\ v.other = index[j] /\ index[i].name = index[j].name
          /\ FirstOf(Of(kind), i) /\ FirstOf(Of(kind), j)
  BY <1>1, ValuesAreTheFirst
<1>3. PICK k \in Of(kind), l \in Of(kind) :
          /\ k < l /\ w = Warning(kind, index[k], index[l])
          /\ w.one = index[k] /\ w.other = index[l] /\ index[k].name = index[l].name
          /\ FirstOf(Of(kind), k) /\ FirstOf(Of(kind), l)
  BY <1>1, ValuesAreTheFirst
<1>4. {index[i].value, index[j].value} = {index[k].value, index[l].value}
  BY <1>2, <1>3 DEF Said
<1>5. i \in Nat /\ j \in Nat /\ k \in Nat /\ l \in Nat
  BY PlacesAreNumbers
<1>6. CASE index[i].value = index[k].value
  <2>1. index[j].value = index[l].value
    BY <1>4, <1>6
  <2>2. i = k /\ j = l
    BY <1>2, <1>3, <1>6, <2>1, FirstIsOne
  <2> QED BY <1>2, <1>3, <2>2
<1>7. CASE index[i].value # index[k].value
  <2>1. index[i].value = index[l].value /\ index[j].value = index[k].value
    BY <1>4, <1>7
  <2>2. i = l /\ j = k
    BY <1>2, <1>3, <2>1, FirstIsOne
  <2> QED BY <1>2, <1>3, <1>5, <2>2
<1> QED BY <1>6, <1>7

LEMMA VersionsSpeakOnce == ConflictTypeOK => OneValuePerVersion
<1> SUFFICES ASSUME ConflictTypeOK, NEW v \in VersionWarnings, NEW w \in VersionWarnings,
                    NEW f \in {v.one, v.other}, NEW g \in {w.one, w.other},
                    SamePlace(f, g), f.version = g.version
             PROVE  Statement(f) = Statement(g)
  BY DEF OneValuePerVersion
<1>1. ASSUME NEW u \in VersionWarnings, NEW h \in {u.one, u.other}
      PROVE  \E i \in Versioned : h = index[i] /\ FirstInVersion(i)
  <2> DEFINE P == {p \in PairsOf(Versioned) :
                     /\ SamePlace(index[p[1]], index[p[2]])
                     /\ index[p[1]].version # index[p[2]].version
                     /\ StandsForVersion(p[1]) /\ StandsForVersion(p[2])
                     /\ Statement(index[p[1]]) # Statement(index[p[2]])}
  <2>1. P \in SUBSET PairsOf(Versioned) /\ u \in Warnings("version", P)
    BY DEF VersionWarnings
  <2> HIDE DEF P
  <2>2. PICK p \in P : /\ p[1] \in Versioned /\ p[2] \in Versioned /\ p[1] < p[2]
                      /\ u = Warning("version", index[p[1]], index[p[2]])
                      /\ u.kind = "version" /\ u.one = index[p[1]] /\ u.other = index[p[2]]
    BY <2>1, PairsWarn
  <2> QED BY <2>2 DEF P, StandsForVersion
<1>2. PICK i \in Versioned : f = index[i] /\ FirstInVersion(i)
  BY <1>1
<1>3. PICK j \in Versioned : g = index[j] /\ FirstInVersion(j)
  BY <1>1
<1>4. i \in Nat /\ j \in Nat
  BY PlacesAreNumbers DEF Versioned
<1>5. SamePlace(g, f)
  BY DEF SamePlace
<1>6. ~(i < j) /\ ~(j < i)
  BY <1>2, <1>3, <1>5 DEF FirstInVersion
<1>7. i = j
  BY <1>4, <1>6
<1> QED BY <1>2, <1>3, <1>7

\* Whatever fields a corpus has and in whatever order they are read, the checks
\* of conflict.py name every disagreement they are for, each pair of values
\* once, and nothing else.
THEOREM DisagreementsStayReported == ConflictSpec => []DisagreementsAreReported
<1>1. ConflictInit => ConflictTypeOK
  BY DEF ConflictInit, ConflictTypeOK
<1>2. ConflictTypeOK /\ [ConflictNext]_index => ConflictTypeOK'
  BY DEF ConflictTypeOK, ConflictNext, AddField
<1>3. ConflictTypeOK => DisagreementsAreReported
  BY DisagreementsReach, NothingElseReported, ReportedOnce, VersionsSpeakOnce
     DEF DisagreementsAreReported
<1> QED BY <1>1, <1>2, <1>3, PTL DEF ConflictSpec

-----------------------------------------------------------------------------
(***************************************************************************)
(* How facts rank.                                                         *)
(***************************************************************************)
RankTypeOK == events \in Seq(RowKind)

LEMMA FirstIs ==
    ASSUME NEW I \in SUBSET Nat, NEW i \in I, \A j \in I : i <= j
    PROVE  First(I) = i
<1>1. First(I) \in I /\ \A j \in I : First(I) <= j
  BY DEF First
<1>2. First(I) \in Nat /\ i \in Nat /\ First(I) <= i /\ i <= First(I)
  BY <1>1
<1> QED BY <1>2

LEMMA LatestIs ==
    ASSUME NEW I \in SUBSET Nat, NEW i \in I, \A j \in I : j <= i
    PROVE  Latest(I) = i
<1>1. Latest(I) \in I /\ \A j \in I : j <= Latest(I)
  BY DEF Latest
<1>2. Latest(I) \in Nat /\ i \in Nat /\ Latest(I) <= i /\ i <= Latest(I)
  BY <1>1
<1> QED BY <1>2

LEMMA KeptIsFinite ==
    ASSUME NEW evs \in Seq(RowKind)
    PROVE  /\ Kept(evs) \subseteq 1..Len(evs) /\ Kept(evs) \subseteq Nat /\ IsFiniteSet(Kept(evs))
           /\ \A ev, f : RowsOf(evs, ev, f) \subseteq Kept(evs) /\ IsFiniteSet(RowsOf(evs, ev, f))
<1>1. Len(evs) \in Nat /\ Kept(evs) \subseteq 1..Len(evs)
  BY DEF Kept
<1>2. IsFiniteSet(1..Len(evs))
  BY <1>1, FS_Interval
<1>3. IsFiniteSet(Kept(evs))
  BY <1>1, <1>2, FS_Subset
<1>4. \A ev, f : RowsOf(evs, ev, f) \subseteq Kept(evs)
  BY DEF RowsOf
<1> QED BY <1>1, <1>3, <1>4, FS_Subset

LEMMA ImagesAreFinite ==
    ASSUME NEW g, IsFiniteSet(DOMAIN g), g = [i \in DOMAIN g |-> g[i]]
    PROVE  /\ IsFiniteSet({g[i] : i \in DOMAIN g})
           /\ Cardinality({g[i] : i \in DOMAIN g}) \in Nat
<1>1. g \in Surjection(DOMAIN g, {g[i] : i \in DOMAIN g})
  BY DEF Surjection
<1>2. IsFiniteSet({g[i] : i \in DOMAIN g})
  BY <1>1, FS_Surjection
<1> QED BY <1>2, FS_CardinalityType

LEMMA WeightIsInteger ==
    ASSUME NEW evs \in Seq(RowKind), NEW f
    PROVE  Weight(evs, f) \in Int /\ FloorOf(evs, f) \in Int
<1>1. \A x \in Int : \A lo, hi \in Int : Clamp(x, lo, hi) \in Int
  BY DEF Clamp
<1>2. ASSUME NEW type PROVE CountedIncidents(evs, f, type) \in Nat
  <2> DEFINE S == {j \in RowsOf(evs, "incident", f) :
                     evs[j].type = type
                       /\ \A k \in RowsOf(evs, "incident", f) : k < j => evs[k].id # evs[j].id}
         g == [i \in S |-> evs[i].id]
  <2>1. IsFiniteSet(S)
    BY KeptIsFinite, FS_Subset
  <2> HIDE DEF S
  <2>2. Cardinality({g[i] : i \in DOMAIN g}) \in Nat
    BY <2>1, ImagesAreFinite
  <2>3. {g[i] : i \in DOMAIN g} = {evs[i].id : i \in S}
    OBVIOUS
  <2> QED BY <2>2, <2>3 DEF S, CountedIncidents
<1>3. Delta(evs, f) \in Int
  <2> DEFINE n(type) == CountedIncidents(evs, f, type)
             sum == 50 * (n("saved") + n("missed")) - 100 * (n("corrected") + n("stale"))
                      - 150 * n("wrong") - 50 * n("conflicting") - 25 * n("native")
  <2>1. Delta(evs, f) = Clamp(sum, -200, 100)
    BY DEF Delta
  <2>2. \A type : n(type) \in Nat
    BY <1>2
  <2>3. /\ n("saved") \in Nat /\ n("missed") \in Nat /\ n("corrected") \in Nat /\ n("stale") \in Nat
        /\ n("wrong") \in Nat /\ n("conflicting") \in Nat /\ n("native") \in Nat
    BY <2>2
  <2> HIDE DEF n
  <2>4. /\ 50 * (n("saved") + n("missed")) \in Int /\ 100 * (n("corrected") + n("stale")) \in Int
        /\ 150 * n("wrong") \in Int /\ 50 * n("conflicting") \in Int /\ 25 * n("native") \in Int
    <3>1. \A x, y \in Nat : 50 * (x + y) \in Int /\ 100 * (x + y) \in Int
      OBVIOUS
    <3>2. \A x \in Nat : 150 * x \in Int /\ 50 * x \in Int /\ 25 * x \in Int
      OBVIOUS
    <3> QED BY <2>3, <3>1, <3>2, Zenon
  <2>5. sum \in Int
    <3>1. \A v, w, x, y, z \in Int : v - w - x - y - z \in Int
      OBVIOUS
    <3> QED BY <2>4, <3>1
  <2>6. -200 \in Int /\ 100 \in Int
    OBVIOUS
  <2> HIDE DEF sum
  <2> QED BY <1>1, <2>1, <2>5, <2>6
<1>4. Boost(evs, f) \in Int
  <2> DEFINE S == RowsOf(evs, "fact_asserted", f)
             g == [i \in S |-> evs[i].session]
  <2>1. IsFiniteSet(S)
    BY KeptIsFinite
  <2> HIDE DEF S
  <2>2. Cardinality({g[i] : i \in DOMAIN g}) \in Nat
    BY <2>1, ImagesAreFinite
  <2>3. {g[i] : i \in DOMAIN g} = {evs[i].session : i \in S}
    OBVIOUS
  <2> DEFINE n == Cardinality({evs[i].session : i \in S})
  <2>4. n \in Nat
    BY <2>2, <2>3
  <2>5. Boost(evs, f) = Clamp(20 * (n - 1), 0, 100)
    BY DEF S, Boost
  <2> HIDE DEF n
  <2>6. 20 * (n - 1) \in Int /\ 0 \in Int /\ 100 \in Int
    BY <2>4
  <2> QED BY <1>1, <2>5, <2>6
<1>5. ASSUME NEW r PROVE PriorFor(r) \in Int
  <2> DEFINE p == IF r.kind \in DOMAIN KindPrior THEN KindPrior[r.kind] ELSE 100
             m == IF r.basis = "inferred" THEN 50 ELSE 100
  <2>1. p \in Int
    BY DEF KindPrior
  <2>2. m \in Int /\ MarkerMult(r.marker) \in Int /\ LiteralMult(r.lit) \in Int
    BY DEF MarkerMult, LiteralMult
  <2> HIDE DEF p, m
  <2>3. (p * m * MarkerMult(r.marker)) \div 10000 \in Int /\ (p * LiteralMult(r.lit)) \div 100 \in Int
    BY <2>1, <2>2
  <2> QED BY <2>1, <2>3 DEF PriorFor, p, m
<1> QED BY <1>3, <1>4, <1>5 DEF Weight, FloorOf

ShareOf(b, n) == (2 * 10000 * b + n) \div (2 * n)

LEMMA SharesOfSpan ==
    \A b, n \in Nat : n # 0 /\ b <= n => ShareOf(b, n) \in Nat /\ ShareOf(b, n) <= 10000
  BY DEF ShareOf

LEMMA RecencyIsSmall ==
    ASSUME NEW evs \in Seq(RowKind), NEW f \in Ranked(evs)
    PROVE  Recency(evs, f) \in Nat /\ Recency(evs, f) <= 10000
<1> DEFINE R == RowsOf(evs, "fact_asserted", f)
           last == Latest(R)
           B == {i \in Kept(evs) : i < last}
           span == Cardinality(Kept(evs)) - 1
<1>1. R # {} /\ R \in SUBSET (1..Len(evs)) /\ Len(evs) \in Nat
  BY KeptIsFinite DEF Ranked, RowsOf
<1>2. PICK m \in R : \A j \in R : j <= m
  BY <1>1, GreatestPosition
<1>3. last = m /\ last \in Kept(evs)
  BY <1>1, <1>2, LatestIs DEF RowsOf
<1>4. last \in Nat
  BY <1>3, KeptIsFinite
<1>5. /\ IsFiniteSet(Kept(evs) \ {last})
      /\ Cardinality(Kept(evs) \ {last}) = Cardinality(Kept(evs)) - 1
  BY <1>3, KeptIsFinite, FS_RemoveElement
<1>6. B \subseteq Kept(evs) \ {last}
  BY <1>4
<1>7. Cardinality(B) \in Nat /\ Cardinality(B) <= span /\ span \in Nat
  BY <1>5, <1>6, FS_Subset, FS_CardinalityType
<1> DEFINE before == Cardinality(B)
<1>8. Recency(evs, f) = IF span = 0 THEN 0 ELSE ShareOf(before, span)
  BY DEF Recency, ShareOf
<1>9. before \in Nat /\ before <= span /\ span \in Nat
  BY <1>7
<1> HIDE DEF before, span
<1>10. span # 0 => ShareOf(before, span) \in Nat /\ ShareOf(before, span) <= 10000
  BY <1>9, SharesOfSpan
<1>11. CASE span = 0
  BY <1>8, <1>11
<1>12. CASE span # 0
  BY <1>8, <1>10, <1>12
<1> QED BY <1>11, <1>12

LEMMA RecencyBreaksTies == RankTypeOK => RecencyOnlyBreaksTies
<1> SUFFICES ASSUME RankTypeOK,
                    NEW f \in DOMAIN FoldEvents(events), NEW g \in DOMAIN FoldEvents(events),
                    Standing(events, f) > Standing(events, g)
             PROVE  FoldEvents(events)[f] >= FoldEvents(events)[g]
  BY DEF RecencyOnlyBreaksTies
<1>1. f \in Ranked(events) /\ g \in Ranked(events) /\ events \in Seq(RowKind)
  BY DEF FoldEvents, RankTypeOK
<1>2. FoldEvents(events)[f] = Score(events, f) /\ FoldEvents(events)[g] = Score(events, g)
  BY <1>1 DEF FoldEvents
<1>3. ASSUME NEW h \in Ranked(events)
      PROVE  /\ Standing(events, h) \in Int /\ Score(events, h) \in Int
             /\ Score(events, h) >= 10000 * Standing(events, h)
             /\ Score(events, h) <= 10000 * Standing(events, h) + 10000
  <2>1. /\ Weight(events, h) \in Int /\ FloorOf(events, h) \in Int 
        /\ Recency(events, h) \in Nat /\ Recency(events, h) <= 10000
    BY <1>1, WeightIsInteger, RecencyIsSmall
  <2> DEFINE w == Weight(events, h)  l == FloorOf(events, h)  e == Recency(events, h)
  <2>2. /\ Score(events, h) = IF 10000 * w + e < 10000 * l THEN 10000 * l ELSE 10000 * w + e
        /\ Standing(events, h) = IF w < l THEN l ELSE w
    BY DEF Score, Standing
  <2> HIDE DEF w, l, e
  <2>3. w \in Int /\ l \in Int /\ e \in Nat /\ e <= 10000
    BY <2>1 DEF w, l, e
  <2> QED BY <2>2, <2>3
<1> QED BY <1>1, <1>2, <1>3

\* The rows of s come first in t, and every other row of t is one of them again.
Echoes(s, t) ==
    /\ DOMAIN s \subseteq DOMAIN t
    /\ \A i \in DOMAIN s : t[i] = s[i]
    /\ \A j \in DOMAIN t \ DOMAIN s : \E k \in DOMAIN s : k < j /\ t[j] = s[k]

LEMMA EchoedRows ==
    ASSUME NEW s \in Seq(RowKind), NEW t \in Seq(RowKind), Echoes(s, t), NEW ev, NEW f
    PROVE  /\ RowsOf(s, ev, f) \subseteq RowsOf(t, ev, f)
           /\ \A i \in RowsOf(s, ev, f) : t[i] = s[i]
           /\ \A j \in RowsOf(t, ev, f) \ RowsOf(s, ev, f) :
                \E k \in RowsOf(s, ev, f) : k < j /\ t[j] = s[k]
<1>1. ASSUME NEW i \in RowsOf(s, ev, f) PROVE i \in RowsOf(t, ev, f) /\ t[i] = s[i]
  BY DEF RowsOf, Kept, Echoes
<1>2. ASSUME NEW j \in RowsOf(t, ev, f) \ RowsOf(s, ev, f)
      PROVE  \E k \in RowsOf(s, ev, f) : k < j /\ t[j] = s[k]
  <2>1. j \in DOMAIN t /\ ~t[j].foreign /\ t[j].ev = ev /\ t[j].fact = f
    BY DEF RowsOf, Kept
  <2>2. j \notin DOMAIN s
    BY <2>1 DEF RowsOf, Kept, Echoes
  <2>3. PICK k \in DOMAIN s : k < j /\ t[j] = s[k]
    BY <2>1, <2>2 DEF Echoes
  <2>4. k \in RowsOf(s, ev, f)
    BY <2>1, <2>3 DEF RowsOf, Kept
  <2> QED BY <2>3, <2>4
<1> QED BY <1>1, <1>2

LEMMA EchoesWeighNothing ==
    ASSUME NEW s \in Seq(RowKind), NEW t \in Seq(RowKind), Echoes(s, t), NEW f \in Ranked(s)
    PROVE  Standing(t, f) = Standing(s, f)
<1> DEFINE R(evs) == RowsOf(evs, "fact_asserted", f)
<1>1. R(s) # {} /\ R(s) \in SUBSET Nat /\ R(t) \in SUBSET Nat
  BY KeptIsFinite DEF Ranked, RowsOf
<1>2. PICK i \in R(s) : \A j \in R(s) : i <= j
  BY <1>1, LeastNatural
<1>3. First(R(s)) = i
  BY <1>1, <1>2, FirstIs
<1>4. i \in R(t) /\ t[i] = s[i] /\ \A j \in R(t) : i <= j
  <2>1. i \in R(t) /\ t[i] = s[i] /\ i \in Nat
    BY <1>1, <1>2, EchoedRows
  <2>2. ASSUME NEW j \in R(t), j \notin R(s) PROVE i <= j
    <3>1. PICK k \in R(s) : k < j
      BY <2>2, EchoedRows
    <3>2. i <= k /\ i \in Nat /\ k \in Nat /\ j \in Nat
      BY <1>1, <1>2
    <3> QED BY <3>1, <3>2
  <2> QED BY <1>2, <2>1, <2>2
<1>5. First(R(t)) = i
  BY <1>1, <1>4, FirstIs
<1>6. {t[k].session : k \in R(t)} = {s[k].session : k \in R(s)}
  <2>1. \A j \in R(t) : \E k \in R(s) : t[j] = s[k]
    BY EchoedRows
  <2>2. \A k \in R(s) : k \in R(t) /\ t[k] = s[k]
    BY EchoedRows
  <2> HIDE DEF R
  <2> QED BY <2>1, <2>2
<1>7. Boost(t, f) = Boost(s, f)
  BY <1>6 DEF Boost
<1>8. ASSUME NEW type PROVE CountedIncidents(t, f, type) = CountedIncidents(s, f, type)
  <2> DEFINE I(evs) == RowsOf(evs, "incident", f)
             O(evs) == {j \in I(evs) : evs[j].type = type
                                         /\ \A k \in I(evs) : k < j => evs[k].id # evs[j].id}
  <2>1. \A k \in I(s) : k \in I(t) /\ t[k] = s[k]
    BY EchoedRows
  <2>2. \A j \in I(t) \ I(s) : \E k \in I(s) : k < j /\ t[j] = s[k]
    BY EchoedRows
  <2>3. I(s) \subseteq Nat /\ I(t) \subseteq Nat
    BY KeptIsFinite
  <2> HIDE DEF I
  <2>4. ASSUME NEW j \in O(t) PROVE j \in O(s)
    <3>1. j \in I(s)
      BY <2>1, <2>2
    <3> QED BY <2>1, <3>1
  <2>5. ASSUME NEW j \in O(s) PROVE j \in O(t)
    <3>1. j \in I(t) /\ t[j] = s[j]
      BY <2>1
    <3>2. ASSUME NEW k \in I(t), k < j PROVE t[k].id # t[j].id
      <4>1. CASE k \in I(s)
        BY <2>1, <3>1, <3>2, <4>1
      <4>2. CASE k \notin I(s)
        <5>1. PICK l \in I(s) : l < k /\ t[k] = s[l]
          BY <2>2, <4>2
        <5>2. l < j
          BY <2>3, <3>2, <5>1
        <5> QED BY <3>1, <5>1, <5>2
      <4> QED BY <4>1, <4>2
    <3> QED BY <3>1, <3>2
  <2>6. O(t) = O(s)
    BY <2>4, <2>5
  <2>7. \A j \in O(s) : t[j] = s[j]
    BY <2>1
  <2> HIDE DEF O
  <2>8. {t[j].id : j \in O(t)} = {s[j].id : j \in O(s)}
    BY <2>6, <2>7
  <2> QED BY <2>8 DEF CountedIncidents, O, I
<1>9. Delta(t, f) = Delta(s, f)
  BY <1>8 DEF Delta
<1>10. RowsOf(t, "fact_superseded", f) # {} <=> RowsOf(s, "fact_superseded", f) # {}
  BY EchoedRows
<1>11. Weight(t, f) = Weight(s, f) /\ FloorOf(t, f) = FloorOf(s, f)
  BY <1>3, <1>4, <1>5, <1>7, <1>9, <1>10 DEF Weight, FloorOf
<1> QED BY <1>11 DEF Standing

LEMMA ReplaysAreNeutral == RankTypeOK => ReplayIsNeutral
<1> SUFFICES ASSUME RankTypeOK, NEW i \in DOMAIN events, NEW f \in Ranked(events)
             PROVE  Standing(events \o SubSeq(events, i, Len(events)), f) = Standing(events, f)
  BY DEF ReplayIsNeutral
<1> DEFINE n == Len(events)
           back == SubSeq(events, i, n)
           t == events \o back
<1>1. events \in Seq(RowKind) /\ n \in Nat /\ i \in 1..n /\ DOMAIN events = 1..n
  BY DEF RankTypeOK
<1>2. back \in Seq(RowKind) /\ Len(back) = n - i + 1 /\ \A k \in 1..(n - i + 1) : back[k] = events[i + k - 1]
  BY <1>1
<1>3. t \in Seq(RowKind) /\ Len(t) = n + Len(back) /\ DOMAIN t = 1..(n + Len(back))
  BY <1>1, <1>2
<1>4. \A k \in 1..n : t[k] = events[k]
  BY <1>1, <1>2
<1>5. \A k \in 1..Len(back) : t[n + k] = back[k]
  BY <1>1, <1>2
<1>6. ASSUME NEW j \in DOMAIN t \ DOMAIN events
      PROVE  \E k \in DOMAIN events : k < j /\ t[j] = events[k]
  <2>1. j - n \in 1..Len(back) /\ n + (j - n) = j
    BY <1>1, <1>2, <1>3
  <2>2. t[j] = back[j - n] /\ back[j - n] = events[i + (j - n) - 1]
    BY <1>2, <1>5, <2>1
  <2>3. i + (j - n) - 1 \in 1..n /\ i + (j - n) - 1 < j
    BY <1>1, <1>2, <2>1
  <2> QED BY <1>1, <2>2, <2>3
<1>7. Echoes(events, t)
  BY <1>1, <1>3, <1>4, <1>6 DEF Echoes
<1> QED BY <1>1, <1>3, <1>7, EchoesWeighNothing

\* g takes the rows of s that count to those of t, in order and one to one.
Carries(g, s, t) ==
    /\ g \in [Kept(s) -> Kept(t)]
    /\ \A j \in Kept(t) : \E i \in Kept(s) : g[i] = j
    /\ \A i, j \in Kept(s) : i < j <=> g[i] < g[j]
    /\ \A i \in Kept(s) : t[g[i]] = s[i]

LEMMA CarriedRows ==
    ASSUME NEW s \in Seq(RowKind), NEW t \in Seq(RowKind), NEW g, Carries(g, s, t), NEW ev, NEW f
    PROVE  /\ \A i \in RowsOf(s, ev, f) : g[i] \in RowsOf(t, ev, f) /\ t[g[i]] = s[i]
           /\ \A j \in RowsOf(t, ev, f) : \E i \in RowsOf(s, ev, f) : g[i] = j /\ s[i] = t[j]
<1>1. ASSUME NEW i \in RowsOf(s, ev, f) PROVE g[i] \in RowsOf(t, ev, f) /\ t[g[i]] = s[i]
  <2>1. i \in Kept(s) /\ s[i].ev = ev /\ s[i].fact = f
    BY DEF RowsOf
  <2>2. g[i] \in Kept(t) /\ t[g[i]] = s[i]
    BY <2>1 DEF Carries
  <2> QED BY <2>1, <2>2 DEF RowsOf
<1>2. ASSUME NEW j \in RowsOf(t, ev, f) PROVE \E i \in RowsOf(s, ev, f) : g[i] = j /\ s[i] = t[j]
  <2>1. j \in Kept(t) /\ t[j].ev = ev /\ t[j].fact = f
    BY DEF RowsOf
  <2>2. PICK i \in Kept(s) : g[i] = j
    BY <2>1 DEF Carries
  <2>3. s[i] = t[j]
    BY <2>2 DEF Carries
  <2>4. i \in RowsOf(s, ev, f)
    BY <2>1, <2>3 DEF RowsOf
  <2> QED BY <2>2, <2>3, <2>4
<1> QED BY <1>1, <1>2

LEMMA CarriedOrder ==
    ASSUME NEW s \in Seq(RowKind), NEW t \in Seq(RowKind), NEW g, Carries(g, s, t),
           NEW i \in Kept(s), NEW j \in Kept(s)
    PROVE  /\ i < j <=> g[i] < g[j]
           /\ i <= j <=> g[i] <= g[j]
           /\ g[i] = g[j] => i = j
<1>1. i \in Nat /\ j \in Nat /\ g[i] \in Nat /\ g[j] \in Nat
  BY KeptIsFinite DEF Carries
<1>2. (i < j <=> g[i] < g[j]) /\ (j < i <=> g[j] < g[i])
  BY DEF Carries
<1> QED BY <1>1, <1>2

\* What a fact is worth is carried along.
LEMMA CarriedWeight ==
    ASSUME NEW s \in Seq(RowKind), NEW t \in Seq(RowKind), NEW g, Carries(g, s, t), NEW f \in Ranked(s)
    PROVE  Weight(t, f) = Weight(s, f) /\ FloorOf(t, f) = FloorOf(s, f)
<1> DEFINE R(evs) == RowsOf(evs, "fact_asserted", f)
<1>1. R(s) # {} /\ R(s) \in SUBSET Kept(s) /\ R(t) \in SUBSET Kept(t)
  BY DEF Ranked, RowsOf
<1>2. Kept(s) \in SUBSET Nat /\ Kept(t) \in SUBSET Nat
  BY KeptIsFinite
<1>3. PICK i \in R(s) : \A j \in R(s) : i <= j
  BY <1>1, <1>2, LeastNatural
<1>4. First(R(s)) = i
  BY <1>1, <1>2, <1>3, FirstIs
<1>5. g[i] \in R(t) /\ t[g[i]] = s[i]
  BY CarriedRows
<1>6. ASSUME NEW j \in R(t) PROVE g[i] <= j
  <2>1. PICK k \in R(s) : g[k] = j
    BY CarriedRows
  <2> QED BY <1>1, <1>3, <2>1, CarriedOrder
<1>7. First(R(t)) = g[i]
  BY <1>1, <1>2, <1>5, <1>6, FirstIs
<1>8. {t[k].session : k \in R(t)} = {s[k].session : k \in R(s)}
  <2>1. \A j \in R(t) : \E k \in R(s) : t[j] = s[k]
    BY CarriedRows
  <2>2. \A k \in R(s) : \E j \in R(t) : t[j] = s[k]
    BY CarriedRows
  <2> HIDE DEF R
  <2> QED BY <2>1, <2>2
<1>9. Boost(t, f) = Boost(s, f)
  BY <1>8 DEF Boost
<1>10. ASSUME NEW type PROVE CountedIncidents(t, f, type) = CountedIncidents(s, f, type)
  <2> DEFINE I(evs) == RowsOf(evs, "incident", f)
             O(evs) == {j \in I(evs) : evs[j].type = type
                                         /\ \A k \in I(evs) : k < j => evs[k].id # evs[j].id}
  <2>1. \A k \in I(s) : g[k] \in I(t) /\ t[g[k]] = s[k]
    BY CarriedRows
  <2>2. \A j \in I(t) : \E k \in I(s) : g[k] = j /\ s[k] = t[j]
    BY CarriedRows
  <2>3. I(s) \subseteq Kept(s)
    BY DEF RowsOf
  <2>4. \A j, k \in I(s) : j < k <=> g[j] < g[k]
    BY <2>3, CarriedOrder
  <2> HIDE DEF I
  <2>5. ASSUME NEW j \in O(s) PROVE g[j] \in O(t) /\ t[g[j]] = s[j]
    <3>1. g[j] \in I(t) /\ t[g[j]] = s[j]
      BY <2>1
    <3>2. ASSUME NEW k \in I(t), k < g[j] PROVE t[k].id # t[g[j]].id
      <4>1. PICK l \in I(s) : g[l] = k /\ s[l] = t[k]
        BY <2>2
      <4>2. l < j
        BY <2>4, <3>2, <4>1
      <4> QED BY <3>1, <4>1, <4>2
    <3> QED BY <3>1, <3>2
  <2>6. ASSUME NEW j \in O(t) PROVE \E k \in O(s) : s[k] = t[j]
    <3>1. PICK k \in I(s) : g[k] = j /\ s[k] = t[j]
      BY <2>2
    <3>2. ASSUME NEW l \in I(s), l < k PROVE s[l].id # s[k].id
      <4>1. g[l] \in I(t) /\ t[g[l]] = s[l] /\ g[l] < j
        BY <2>1, <2>4, <3>1, <3>2
      <4> QED BY <3>1, <4>1
    <3> QED BY <3>1, <3>2
  <2>7. \A j \in O(s) : \E k \in O(t) : t[k] = s[j]
    BY <2>5
  <2> HIDE DEF O
  <2>8. {t[j].id : j \in O(t)} = {s[j].id : j \in O(s)}
    BY <2>6, <2>7
  <2> QED BY <2>8 DEF CountedIncidents, O, I
<1>11. Delta(t, f) = Delta(s, f)
  BY <1>10 DEF Delta
<1>12. RowsOf(t, "fact_superseded", f) # {} <=> RowsOf(s, "fact_superseded", f) # {}
  BY CarriedRows
<1> QED BY <1>4, <1>5, <1>7, <1>9, <1>11, <1>12 DEF Weight, FloorOf

LEMMA CarriedRecency ==
    ASSUME NEW s \in Seq(RowKind), NEW t \in Seq(RowKind), NEW g, Carries(g, s, t), NEW f \in Ranked(s)
    PROVE  Recency(t, f) = Recency(s, f)
<1> DEFINE R(evs) == RowsOf(evs, "fact_asserted", f)
           Behind(evs, m) == {i \in Kept(evs) : i < m}
<1>1. R(s) # {} /\ R(s) \in SUBSET Kept(s) /\ R(t) \in SUBSET Kept(t)
  BY DEF Ranked, RowsOf
<1>2. /\ Kept(s) \in SUBSET (1..Len(s)) /\ Len(s) \in Nat
      /\ Kept(s) \in SUBSET Nat /\ Kept(t) \in SUBSET Nat
      /\ IsFiniteSet(Kept(s)) /\ IsFiniteSet(Kept(t))
  BY KeptIsFinite
<1>3. PICK i \in R(s) : \A j \in R(s) : j <= i
  BY <1>1, <1>2, GreatestPosition
<1>4. Latest(R(s)) = i
  BY <1>1, <1>2, <1>3, LatestIs
<1>5. g[i] \in R(t)
  BY CarriedRows
<1>6. ASSUME NEW j \in R(t) PROVE j <= g[i]
  <2>1. PICK k \in R(s) : g[k] = j
    BY CarriedRows
  <2> QED BY <1>1, <1>3, <2>1, CarriedOrder
<1>7. Latest(R(t)) = g[i]
  BY <1>1, <1>2, <1>5, <1>6, LatestIs
<1>8. Cardinality(Kept(t)) = Cardinality(Kept(s))
  <2>1. g \in Bijection(Kept(s), Kept(t))
    BY CarriedOrder DEF Carries, Bijection, Injection, Surjection, IsInjective
  <2> QED BY <1>2, <2>1, FS_Bijection DEF ExistsBijection
<1>9. Cardinality(Behind(t, g[i])) = Cardinality(Behind(s, i))
  <2> DEFINE h == [k \in Behind(s, i) |-> g[k]]
  <2>1. i \in Kept(s)
    BY <1>1
  <2>2. \A k \in Behind(s, i) : g[k] \in Behind(t, g[i])
    BY <2>1, CarriedOrder DEF Carries
  <2>3. ASSUME NEW j \in Behind(t, g[i]) PROVE \E k \in Behind(s, i) : g[k] = j
    <3>1. PICK k \in Kept(s) : g[k] = j
      BY DEF Carries
    <3>2. k < i
      BY <2>1, <3>1, CarriedOrder
    <3> QED BY <3>1, <3>2
  <2>4. \A j, k \in Behind(s, i) : g[j] = g[k] => j = k
    BY CarriedOrder
  <2>5. IsFiniteSet(Behind(s, i))
    BY <1>2, FS_Subset
  <2> HIDE DEF Behind
  <2>6. h \in Bijection(Behind(s, i), Behind(t, g[i]))
    BY <2>2, <2>3, <2>4 DEF Bijection, Injection, Surjection, IsInjective
  <2> HIDE DEF h
  <2> QED BY <2>5, <2>6, FS_Bijection DEF ExistsBijection
<1>10. \A evs : Recency(evs, f) =
          IF Cardinality(Kept(evs)) - 1 = 0 THEN 0
          ELSE ShareOf(Cardinality(Behind(evs, Latest(R(evs)))), Cardinality(Kept(evs)) - 1)
  BY DEF Recency, ShareOf
<1> HIDE DEF R, Behind
<1> QED BY <1>4, <1>7, <1>8, <1>9, <1>10

\* Two logs with the same rows that count have the same ranks.
LEMMA CarriedRanks ==
    ASSUME NEW s \in Seq(RowKind), NEW t \in Seq(RowKind), NEW g, Carries(g, s, t)
    PROVE  FoldEvents(t) = FoldEvents(s)
<1>1. Ranked(t) = Ranked(s)
  <2>1. \A f : f \in Ranked(s) <=> RowsOf(s, "fact_asserted", f) # {}
    BY DEF Ranked, RowsOf
  <2>2. \A f : f \in Ranked(t) <=> RowsOf(t, "fact_asserted", f) # {}
    BY DEF Ranked, RowsOf
  <2>3. \A f : RowsOf(s, "fact_asserted", f) # {} <=> RowsOf(t, "fact_asserted", f) # {}
    BY CarriedRows
  <2> QED BY <2>1, <2>2, <2>3
<1>2. ASSUME NEW f \in Ranked(s) PROVE Score(t, f) = Score(s, f)
  BY CarriedWeight, CarriedRecency DEF Score
<1> QED BY <1>1, <1>2 DEF FoldEvents

\* A concatenation, place by place.
LEMMA JoinedPlaces ==
    ASSUME NEW S, NEW u \in Seq(S), NEW v \in Seq(S), NEW w, w = u \o v
    PROVE  /\ w \in Seq(S) /\ Len(w) = Len(u) + Len(v)
           /\ DOMAIN w = 1..(Len(u) + Len(v))
           /\ \A k \in 1..Len(u) : w[k] = u[k]
           /\ \A k \in 1..Len(v) : w[Len(u) + k] = v[k]
  OBVIOUS

LEMMA ForeignRowsAreInert == RankTypeOK => ForeignRowsInert
<1> SUFFICES ASSUME RankTypeOK, NEW d \in DOMAIN events, events[d].foreign
             PROVE  FoldEvents(SubSeq(events, 1, d - 1) \o SubSeq(events, d + 1, Len(events)))
                      = FoldEvents(events)
  BY DEF ForeignRowsInert
<1>0. ASSUME NEW k \in Kept(events) PROVE k \in 1..Len(events) /\ ~events[k].foreign /\ k # d
  BY DEF Kept, RankTypeOK
<1> DEFINE n == Len(events)
           a == SubSeq(events, 1, d - 1)
           b == SubSeq(events, d + 1, n)
           t == a \o b
           g == [k \in Kept(events) |-> IF k < d THEN k ELSE k - 1]
<1>1. events \in Seq(RowKind) /\ n \in Nat /\ d \in 1..n /\ DOMAIN events = 1..n
  BY DEF RankTypeOK
<1>2. a \in Seq(RowKind) /\ Len(a) = d - 1 /\ \A k \in 1..(d - 1) : a[k] = events[k]
  BY <1>1
<1>3. b \in Seq(RowKind) /\ Len(b) = n - d /\ \A k \in 1..(n - d) : b[k] = events[d + k]
  BY <1>1
<1> HIDE DEF a, b
<1>4. t = a \o b
  OBVIOUS
<1> HIDE DEF t
<1>5. /\ t \in Seq(RowKind) /\ Len(t) = Len(a) + Len(b) /\ DOMAIN t = 1..(Len(a) + Len(b))
      /\ \A k \in 1..Len(a) : t[k] = a[k]
      /\ \A k \in 1..Len(b) : t[Len(a) + k] = b[k]
  <2>1. a \in Seq(RowKind) /\ b \in Seq(RowKind)
    BY <1>2, <1>3
  <2> QED BY ONLY <2>1, <1>4, JoinedPlaces
<1>6. t \in Seq(RowKind) /\ Len(t) = n - 1 /\ DOMAIN t = 1..(n - 1)
  <2>1. Len(a) + Len(b) = n - 1
    BY <1>1, <1>2, <1>3
  <2> QED BY <1>5, <2>1
<1>7. \A k \in 1..(d - 1) : t[k] = events[k]
  BY <1>1, <1>2, <1>5
<1>8. ASSUME NEW k \in d..(n - 1) PROVE t[k] = events[k + 1]
  <2>1. PICK j \in 1..(n - d) : Len(a) + j = k /\ d + j = k + 1
    <3>1. k - (d - 1) \in 1..(n - d) /\ Len(a) + (k - (d - 1)) = k /\ d + (k - (d - 1)) = k + 1
      BY <1>1, <1>2
    <3> QED BY ONLY <3>1
  <2>2. t[Len(a) + j] = b[j] /\ b[j] = events[d + j]
    <3>1. j \in 1..Len(b)
      BY <1>3
    <3> QED BY <1>3, <1>5, <3>1
  <2> QED BY <2>1, <2>2
<1>9. \A k \in Kept(events) : k \in 1..n /\ ~events[k].foreign /\ k # d
  BY <1>0
<1>10. ASSUME NEW k \in Kept(events) PROVE g[k] \in Kept(t) /\ t[g[k]] = events[k]
  <2>1. k \in 1..n /\ k # d /\ ~events[k].foreign
    BY <1>9
  <2>2. CASE k < d
    <3>1. g[k] = k /\ k \in 1..(d - 1) /\ k \in 1..(n - 1)
      BY <1>1, <2>1, <2>2
    <3>2. t[k] = events[k]
      BY <1>7, <3>1
    <3> QED BY <1>6, <2>1, <3>1, <3>2 DEF Kept
  <2>3. CASE ~(k < d)
    <3>1. g[k] = k - 1 /\ k - 1 \in d..(n - 1) /\ k - 1 \in 1..(n - 1) /\ (k - 1) + 1 = k
      BY <1>1, <2>1, <2>3
    <3>2. t[k - 1] = events[k]
      BY <1>8, <3>1
    <3> QED BY <1>6, <2>1, <3>1, <3>2 DEF Kept
  <2> QED BY <2>2, <2>3
<1>11. ASSUME NEW j \in Kept(t) PROVE \E k \in Kept(events) : g[k] = j
  <2>1. j \in 1..(n - 1)
    BY <1>6 DEF Kept
  <2>2. CASE j < d
    <3>1. t[j] = events[j] /\ j \in 1..n
      BY <1>1, <1>7, <2>1, <2>2
    <3>2. j \in Kept(events)
      BY <1>1, <3>1 DEF Kept
    <3> QED BY <2>2, <3>2
  <2>3. CASE ~(j < d)
    <3>1. t[j] = events[j + 1] /\ j + 1 \in 1..n /\ ~(j + 1 < d) /\ (j + 1) - 1 = j
      BY <1>1, <1>8, <2>1, <2>3
    <3>2. j + 1 \in Kept(events)
      BY <1>1, <3>1 DEF Kept
    <3> QED BY <3>1, <3>2
  <2> QED BY <2>2, <2>3
<1>12. \A j, k \in Kept(events) : j < k <=> g[j] < g[k]
  BY <1>1, <1>9
<1>13. g \in [Kept(events) -> Kept(t)]
  BY <1>10
<1> HIDE DEF g
<1>14. Carries(g, events, t)
  BY <1>10, <1>11, <1>12, <1>13 DEF Carries
<1>15. FoldEvents(t) = FoldEvents(events)
  BY <1>1, <1>6, <1>14, CarriedRanks
<1> QED BY <1>15 DEF t, a, b

\* For any rows that are logged, in whatever order: recency only breaks ties,
\* rows emitted again move nothing else, and foreign rows nothing at all.
THEOREM RanksStayStable == RankSpec => []RankIsReplayStable
<1>1. RankInit => RankTypeOK
  BY DEF RankInit, RankTypeOK
<1>2. RankTypeOK /\ [RankNext]_events => RankTypeOK'
  BY DEF RankTypeOK, RankNext, Emit
<1>3. RankTypeOK => RankIsReplayStable
  BY RecencyBreaksTies, ReplaysAreNeutral, ForeignRowsAreInert DEF RankIsReplayStable
<1> QED BY <1>1, <1>2, <1>3, PTL DEF RankSpec

-----------------------------------------------------------------------------
(***************************************************************************)
(* What an overview keeps.                                                 *)
(*                                                                         *)
(* The lines of the constraints are listed by rank, so they are sorted,    *)
(* and a cut of their end takes the least severe; the two cuts in numbers  *)
(* give the size that is left.                                             *)
(***************************************************************************)
OverviewTypeOK == l2 \in Seq(L2Section) /\ alerts \in Nat

LEMMA LinesAreFinite ==
    ASSUME NEW n \in Nat, NEW f \in [1..n -> SUBSET Nat], \A i \in 1..n : IsFiniteSet(f[i]),
           NEW S, \A x \in S : \E i \in 1..n : x \in {i} \X f[i]
    PROVE  IsFiniteSet(S)
<1> DEFINE g == [i \in 1..n |-> {i} \X f[i]]
           L == {g[i] : i \in 1..n}
<1>1. IsFiniteSet(1..n)
  BY FS_Interval
<1>2. g \in Surjection(1..n, L)
  BY DEF Surjection
<1>3. IsFiniteSet(L)
  BY <1>1, <1>2, FS_Surjection
<1>4. ASSUME NEW i \in 1..n PROVE IsFiniteSet(g[i])
  <2>1. IsFiniteSet({i})
    BY FS_Singleton
  <2> QED BY <2>1, FS_Product
<1>5. IsFiniteSet(UNION L)
  BY <1>3, <1>4, FS_UNION
<1>6. S \in SUBSET UNION L
  OBVIOUS
<1> QED BY <1>5, <1>6, FS_Subset

LEMMA OverviewLines ==
    ASSUME OverviewTypeOK
    PROVE  /\ IsFiniteSet(Marks) /\ Marks \subseteq Nat \X Nat
           /\ \A m \in Marks : Severity(m) \in 0..3
           /\ IsFiniteSet(PatternLines)
<1>1. Len(l2) \in Nat /\ DOMAIN l2 = 1..Len(l2)
  BY DEF OverviewTypeOK
<1>2. \A i \in 1..Len(l2) : l2[i] \in L2Section
  BY DEF OverviewTypeOK
<1>3. ASSUME NEW i \in 1..Len(l2)
      PROVE  /\ l2[i].marks \in Seq(0..3) /\ Len(l2[i].marks) \in Nat
             /\ DOMAIN l2[i].marks = 1..Len(l2[i].marks) /\ l2[i].patterns \in Nat
  BY <1>2, SectionAssumption
<1> DEFINE f == [i \in 1..Len(l2) |-> DOMAIN l2[i].marks]
           g == [i \in 1..Len(l2) |-> 1..l2[i].patterns]
<1>4. \A n \in Nat : 1..n \in SUBSET Nat /\ IsFiniteSet(1..n)
  BY FS_Interval
<1>5. f \in [1..Len(l2) -> SUBSET Nat] /\ \A i \in 1..Len(l2) : IsFiniteSet(f[i])
  <2>1. ASSUME NEW i \in 1..Len(l2) PROVE f[i] \in SUBSET Nat /\ IsFiniteSet(f[i])
    <3>1. f[i] = 1..Len(l2[i].marks) /\ Len(l2[i].marks) \in Nat
      BY <1>3
    <3> HIDE DEF f, g
    <3> QED BY <3>1, <1>4
  <2> QED BY <2>1
<1>6. g \in [1..Len(l2) -> SUBSET Nat] /\ \A i \in 1..Len(l2) : IsFiniteSet(g[i])
  <2>1. ASSUME NEW i \in 1..Len(l2) PROVE g[i] \in SUBSET Nat /\ IsFiniteSet(g[i])
    <3>1. g[i] = 1..l2[i].patterns /\ l2[i].patterns \in Nat
      BY <1>3
    <3> HIDE DEF f, g
    <3> QED BY <3>1, <1>4
  <2> QED BY <2>1
<1>7. ASSUME NEW m \in Marks PROVE \E i \in 1..Len(l2) : m \in {i} \X f[i]
  <2>1. PICK i \in DOMAIN l2 : m \in {i} \X DOMAIN l2[i].marks
    BY DEF Marks
  <2> QED BY <1>1, <2>1
<1>8. ASSUME NEW m \in PatternLines PROVE \E i \in 1..Len(l2) : m \in {i} \X g[i]
  <2>1. PICK i \in DOMAIN l2 : m \in {i} \X (1..l2[i].patterns)
    BY DEF PatternLines
  <2>2. i \in 1..Len(l2) /\ g[i] = 1..l2[i].patterns
    BY <1>1
  <2> HIDE DEF g
  <2>3. m \in {i} \X g[i]
    BY ONLY <2>1, <2>2, Zenon
  <2> QED BY <2>2, <2>3
<1> HIDE DEF f, g
<1>9. IsFiniteSet(Marks)
  BY <1>1, <1>5, <1>7, LinesAreFinite
<1>10. IsFiniteSet(PatternLines)
  BY <1>1, <1>6, <1>8, LinesAreFinite
<1>11. ASSUME NEW m \in Marks PROVE m \in Nat \X Nat /\ Severity(m) \in 0..3
  <2>1. PICK i \in DOMAIN l2 : m \in {i} \X DOMAIN l2[i].marks
    BY DEF Marks
  <2>2. m[1] = i /\ m[2] \in 1..Len(l2[i].marks) /\ m \in Nat \X Nat
    BY <1>1, <1>3, <2>1
  <2> QED BY <1>1, <1>3, <2>1, <2>2 DEF Severity
<1> QED BY <1>9, <1>10, <1>11

\* Every constraint has its line, the severest first.
LEMMA RulesAreSorted ==
    ASSUME OverviewTypeOK
    PROVE  /\ RuleLines \in Seq(0..9) /\ Len(RuleLines) \in Nat
           /\ DOMAIN RuleLines = 1..Len(RuleLines)
           /\ \A i, j \in DOMAIN RuleLines : i < j => RuleLines[i] <= RuleLines[j]
<1> DEFINE n == Cardinality(Marks)
           before == [m \in Marks |-> Severer(m)]
           LineAt(r) == CHOOSE m \in Marks : Cardinality(Severer(m)) = r - 1
<1>1. IsFiniteSet(Marks) /\ Marks \subseteq Nat \X Nat /\ n \in Nat
  BY OverviewLines, FS_CardinalityType
<1>2. \A m \in Marks : Severity(m) \in 0..3
  BY OverviewLines
<1>3. \A m \in Marks : m[1] \in Nat /\ m[2] \in Nat /\ m = <<m[1], m[2]>>
  BY <1>1
<1>4. before \in [Marks -> SUBSET Marks] /\ \A m \in Marks : before[m] = Severer(m)
  BY DEF Severer
<1>5. \A x, y \in Marks : x \in before[y] <=> BySeverity(x, y)
  BY <1>4 DEF Severer
<1>6. \A x \in Marks : x \notin before[x]
  BY <1>2, <1>3, <1>5 DEF BySeverity, FoundBefore
<1>7. \A x, y \in Marks : x \in before[y] => before[x] \subseteq before[y]
  <2>1. ASSUME NEW x \in Marks, NEW y \in Marks, NEW z \in Marks,
               BySeverity(x, y), BySeverity(z, x)
        PROVE  BySeverity(z, y)
    BY <1>2, <1>3, <2>1 DEF BySeverity, FoundBefore
  <2> QED BY <1>4, <1>5, <2>1
<1>8. ASSUME NEW x \in Marks, NEW y \in Marks, x # y PROVE x \in before[y] \/ y \in before[x]
  <2>1. x[1] # y[1] \/ x[2] # y[2]
    BY <1>3, <1>8
  <2>2. BySeverity(x, y) \/ BySeverity(y, x)
    BY <1>2, <1>3, <2>1 DEF BySeverity, FoundBefore
  <2> QED BY <1>5, <2>2
<1> HIDE DEF before, n
<1>9. /\ \A x, y \in Marks : x \in before[y] <=> Cardinality(before[x]) < Cardinality(before[y])
      /\ \A i \in 1..Cardinality(Marks) : \E x \in Marks : Cardinality(before[x]) = i - 1
  BY <1>1, <1>4, <1>6, <1>7, <1>8, RanksAreTaken
<1>10. ASSUME NEW r \in 1..n PROVE LineAt(r) \in Marks /\ Cardinality(Severer(LineAt(r))) = r - 1
  BY <1>4, <1>9 DEF n
<1>11. RuleLines = [r \in 1..(n + 1) |-> IF r > n THEN Density ELSE Severity(LineAt(r))]
  BY DEF RuleLines, n
<1> HIDE DEF LineAt
<1>12. \A r \in 1..(n + 1) : RuleLines[r] = IF r > n THEN 9 ELSE Severity(LineAt(r))
  BY <1>11 DEF Density
<1>13. \A r \in 1..n : r \in 1..(n + 1) /\ ~(r > n)
  BY <1>1
<1>14. RuleLines \in Seq(0..9) /\ Len(RuleLines) = n + 1 /\ DOMAIN RuleLines = 1..(n + 1)
  <2>1. \A r \in 1..(n + 1) : RuleLines[r] \in 0..9
    <3> SUFFICES ASSUME NEW r \in 1..(n + 1) PROVE RuleLines[r] \in 0..9
      OBVIOUS
    <3>1. CASE r > n
      BY <1>12, <3>1
    <3>2. CASE ~(r > n)
      <4>1. r \in 1..n
        BY <1>1, <3>2
      <4>2. Severity(LineAt(r)) \in 0..3
        BY <1>2, <1>10, <4>1
      <4> QED BY <1>12, <3>2, <4>2
    <3> QED BY <3>1, <3>2
  <2>2. RuleLines \in [1..(n + 1) -> 0..9]
    BY <1>11, <2>1
  <2> QED BY <1>1, <2>2
<1>15. ASSUME NEW i \in 1..(n + 1), NEW j \in 1..(n + 1), i < j PROVE RuleLines[i] <= RuleLines[j]
  <2>1. CASE j > n
    <3>1. RuleLines[j] = 9 /\ RuleLines[i] \in 0..9
      BY <1>12, <1>14, <2>1
    <3> QED BY <3>1
  <2>2. CASE ~(j > n)
    <3>1. i \in 1..n /\ j \in 1..n
      BY <1>1, <1>15, <2>2
    <3>2. Cardinality(before[LineAt(i)]) = i - 1 /\ Cardinality(before[LineAt(j)]) = j - 1
      BY <1>4, <1>10, <3>1
    <3>3. LineAt(i) \in before[LineAt(j)]
      BY <1>9, <1>10, <1>15, <3>1, <3>2
    <3>4. BySeverity(LineAt(i), LineAt(j))
      BY <1>5, <1>10, <3>1, <3>3
    <3>5. Severity(LineAt(i)) <= Severity(LineAt(j))
      BY <1>2, <1>10, <3>1, <3>4 DEF BySeverity
    <3>6. RuleLines[i] = Severity(LineAt(i)) /\ RuleLines[j] = Severity(LineAt(j))
      BY <1>12, <1>13, <3>1
    <3> QED BY <3>5, <3>6
  <2> QED BY <2>1, <2>2
<1> QED BY <1>1, <1>14, <1>15

\* What the two cuts leave, in numbers.
LEMMA TrimCounts ==
    ASSUME OverviewTypeOK
    PROVE  LET c == Len(RuleLines)
               d == Least(Excess(Whole), c)
               e == IF Size(Whole) - d > L3Budget THEN Size(Whole) - d - L3Budget ELSE 0
           IN /\ Trimmed.constraints = SubSeq(RuleLines, 1, c - d)
              /\ Len(Trimmed.constraints) = c - d /\ c \in Nat /\ d \in 0..c
              /\ Trimmed.patterns = Patterns - Least(e, Patterns) /\ Patterns \in Nat
              /\ Size(Whole) \in Nat
              /\ Size(Trimmed) = Size(Whole) - d - Least(e, Patterns)
              /\ Trimmed.alerts = Alerts /\ Trimmed.entities = Len(l2)
<1> DEFINE c == Len(RuleLines)
           d == Least(Excess(Whole), c)
           cut == CutConstraints(Whole)
<1>1. RuleLines \in Seq(0..9) /\ c \in Nat
  BY RulesAreSorted
<1>2. Patterns \in Nat
  <2>1. IsFiniteSet(PatternLines)
    BY OverviewLines
  <2> QED BY <2>1, FS_CardinalityType DEF Patterns
<1>3. TopologyLines \in Nat
  <2>1. {Role(n) : n \in Entities} \in SUBSET {"hub", "bridge", "leaf"}
    BY DEF Role
  <2>2. IsFiniteSet({"hub", "bridge", "leaf"})
    <3>1. IsFiniteSet({})
      BY FS_EmptySet
    <3>2. IsFiniteSet({} \cup {"hub"})
      BY <3>1, FS_AddElement
    <3>3. IsFiniteSet(({} \cup {"hub"}) \cup {"bridge"})
      BY <3>2, FS_AddElement
    <3>4. IsFiniteSet((({} \cup {"hub"}) \cup {"bridge"}) \cup {"leaf"})
      BY <3>3, FS_AddElement
    <3>5. (({} \cup {"hub"}) \cup {"bridge"}) \cup {"leaf"} = {"hub", "bridge", "leaf"}
      OBVIOUS
    <3> QED BY <3>4, <3>5
  <2>3. Cardinality({Role(n) : n \in Entities}) \in Nat
    BY <2>1, <2>2, FS_Subset, FS_CardinalityType
  <2> QED BY <2>3 DEF TopologyLines
<1>4. Alerts \in Nat /\ Len(l2) \in Nat
  BY DEF Alerts, OverviewTypeOK
<1> DEFINE T == TopologyLines
<1>5. Size(Whole) = 5 + Len(l2) + T + Patterns + c + Alerts
  BY DEF Size, Whole
<1>6. Size(Whole) \in Nat
  BY <1>1, <1>2, <1>3, <1>4, <1>5
<1>7. d \in 0..c
  BY <1>1, <1>6, OverviewBounds DEF Least, Excess
<1>8. /\ cut.constraints = SubSeq(RuleLines, 1, c - d)
      /\ cut.patterns = Patterns /\ cut.entities = Len(l2)
      /\ cut.topology = T /\ cut.alerts = Alerts
  BY DEF CutConstraints, Whole
<1>9. Len(cut.constraints) = c - d
  <2>1. c - d \in Nat /\ c - d <= Len(RuleLines)
    BY <1>1, <1>7
  <2> QED BY <1>1, <1>8, <2>1, FrontIsKept
<1> HIDE DEF c, d, T, cut
<1>10. Size(cut) = Size(Whole) - d
  <2>1. Size(cut) = 5 + Len(l2) + T + Patterns + (c - d) + Alerts
    BY <1>8, <1>9 DEF Size
  <2>2. T \in Nat
    BY <1>3 DEF T
  <2> QED BY <1>1, <1>2, <1>4, <1>5, <1>7, <2>1, <2>2
<1> DEFINE e == Excess(cut)
<1>11. e = IF Size(Whole) - d > L3Budget THEN Size(Whole) - d - L3Budget ELSE 0
  BY <1>10 DEF Excess
<1>12. /\ Trimmed.constraints = cut.constraints /\ Trimmed.patterns = Patterns - Least(e, Patterns)
       /\ Trimmed.entities = Len(l2) /\ Trimmed.topology = T /\ Trimmed.alerts = Alerts
  <2>1. Trimmed = [cut EXCEPT !.patterns = @ - Least(Excess(cut), @)]
    BY DEF Trimmed, CutPatterns, cut
  <2>2. DOMAIN cut = {"entities", "topology", "patterns", "constraints", "alerts"}
    BY DEF cut, CutConstraints, Whole
  <2> QED BY <1>8, <2>1, <2>2
<1>13. e \in Nat
  BY <1>1, <1>6, <1>7, <1>11, OverviewBounds
<1>14. Least(e, Patterns) \in 0..Patterns
  BY <1>2, <1>13 DEF Least
<1>15. Size(Trimmed) = Size(Whole) - d - Least(e, Patterns)
  <2>1. Size(Trimmed) = 5 + Len(l2) + T + (Patterns - Least(e, Patterns)) + (c - d) + Alerts
    BY <1>8, <1>9, <1>12 DEF Size
  <2>2. T \in Nat
    BY <1>3 DEF T
  <2> HIDE DEF e
  <2> QED BY <1>1, <1>2, <1>4, <1>5, <1>7, <1>14, <2>1, <2>2
<1> QED BY <1>1, <1>2, <1>6, <1>7, <1>8, <1>9, <1>11, <1>12, <1>15 DEF c, d

LEMMA TrimIsRight == OverviewTypeOK => TrimTakesTheLeast
<1> SUFFICES ASSUME OverviewTypeOK PROVE TrimTakesTheLeast
  OBVIOUS
<1> DEFINE c == Len(RuleLines)
           d == Least(Excess(Whole), c)
           e == IF Size(Whole) - d > L3Budget THEN Size(Whole) - d - L3Budget ELSE 0
<1>1. /\ Trimmed.constraints = SubSeq(RuleLines, 1, c - d)
      /\ Len(Trimmed.constraints) = c - d /\ c \in Nat /\ d \in 0..c
      /\ Trimmed.patterns = Patterns - Least(e, Patterns) /\ Patterns \in Nat
      /\ Size(Whole) \in Nat
      /\ Size(Trimmed) = Size(Whole) - d - Least(e, Patterns)
      /\ Trimmed.alerts = Alerts /\ Trimmed.entities = Len(l2)
  BY TrimCounts
<1>2. /\ RuleLines \in Seq(0..9) /\ DOMAIN RuleLines = 1..c
      /\ \A i, j \in DOMAIN RuleLines : i < j => RuleLines[i] <= RuleLines[j]
  BY RulesAreSorted
<1>3. L3Budget \in Nat
  BY OverviewBounds
<1>4. d = IF Size(Whole) > L3Budget
          THEN IF Size(Whole) - L3Budget < c THEN Size(Whole) - L3Budget ELSE c
          ELSE IF 0 < c THEN 0 ELSE c
  BY DEF Least, Excess
<1> DEFINE left == Trimmed.constraints
<1>5. left \in Seq(0..9) /\ DOMAIN left = 1..(c - d) /\ \A i \in 1..(c - d) : left[i] = RuleLines[i]
  <2>1. c - d \in Nat /\ c - d <= c
    BY <1>1
  <2> QED BY <1>1, <1>2, <2>1, FrontIsKept
<1>6. c - d = 0 => left = <<>>
  BY <1>1, <1>5
<1> HIDE DEF c, left
<1>7. WarningsSurviveTheTrim
  BY <1>1 DEF WarningsSurviveTheTrim
<1>8. ASSUME NEW i \in DOMAIN left, NEW j \in (Len(left) + 1)..Len(RuleLines)
      PROVE  left[i] <= RuleLines[j]
  <2>1. i \in 1..(c - d) /\ j \in (c - d + 1)..c
    BY <1>1, <1>5 DEF c, left
  <2>2. i \in 1..c /\ j \in 1..c /\ i < j
    BY <1>1, <2>1
  <2> QED BY <1>2, <1>5, <2>1, <2>2
<1>9. Trimmed.patterns < Patterns => left = <<>>
  <2>1. Trimmed.patterns < Patterns => e > 0
    BY <1>1, <1>3 DEF Least
  <2>2. e > 0 => d = c
    BY <1>1, <1>3, <1>4
  <2> QED BY <1>1, <1>6, <2>1, <2>2
<1>10. SeverestStayLongest
  BY <1>2, <1>8, <1>9 DEF SeverestStayLongest, left
<1>11. TrimReachesItsBudget
  <2>1. Size(Trimmed) <= L3Budget \/ (d = c /\ Trimmed.patterns = 0)
    BY <1>1, <1>3, <1>4 DEF Least
  <2>2. CASE Size(Trimmed) <= L3Budget
    <3>1. Size(Trimmed) \in Int
      BY <1>1, <1>3 DEF Least
    <3>2. Marked(Trimmed) <= L3Budget + 2
      BY <1>3, <2>2, <3>1 DEF Marked
    <3> QED BY <3>2 DEF TrimReachesItsBudget
  <2>3. CASE d = c /\ Trimmed.patterns = 0
    BY <1>1, <1>6, <2>3 DEF TrimReachesItsBudget, left
  <2> QED BY <2>1, <2>2, <2>3
<1> QED BY <1>7, <1>10, <1>11 DEF TrimTakesTheLeast

\* Whatever a document holds and however small the budget: the trim keeps the
\* warnings, then the severest rules, and cuts as much as it must.
THEOREM TrimsTakeTheLeast == OverviewSpec => []TrimTakesTheLeast
<1>1. OverviewInit => OverviewTypeOK
  BY DEF OverviewInit, OverviewTypeOK
<1>2. OverviewTypeOK /\ [OverviewNext]_overviewVars => OverviewTypeOK'
  BY DEF OverviewTypeOK, OverviewNext, AddSection, AddAlert, overviewVars
<1> QED BY <1>1, <1>2, TrimIsRight, PTL DEF OverviewSpec

-----------------------------------------------------------------------------
(***************************************************************************)
(* What a pack says.                                                       *)
(*                                                                         *)
(* What a parser read infers no link, and merging keeps it so: then every  *)
(* inferred link is one the mirroring added, where no relation faced the   *)
(* other, so it stands once, beside the relation it came with.  Relations  *)
(* are only ever added, so what faces another goes on doing so.            *)
(***************************************************************************)
LEMMA GreatestOfFinite ==
    ASSUME NEW T \in SUBSET Nat, IsFiniteSet(T), T # {}
    PROVE  \E x \in T : \A y \in T : y <= x
<1> DEFINE n == Cardinality(T)
           below == [x \in T |-> {y \in T : y < x}]
<1>1. n \in Nat /\ n # 0
  BY FS_CardinalityType, FS_EmptySet
<1>2. below \in [T -> SUBSET T] /\ (\A x, y \in T : y \in below[x] <=> y < x)
      /\ \A x \in T : below[x] \subseteq T
  OBVIOUS
<1> HIDE DEF below
<1>3. /\ \A x \in T : x \notin below[x]
      /\ \A x, y \in T : x \in below[y] => below[x] \subseteq below[y]
      /\ \A x, y \in T : x # y => x \in below[y] \/ y \in below[x]
  <2>1. \A x \in T : x \notin below[x]
    BY <1>2
  <2>2. \A x, y \in T : x \in below[y] => below[x] \subseteq below[y]
    <3> SUFFICES ASSUME NEW x \in T, NEW y \in T, x \in below[y], NEW z \in below[x]
                 PROVE z \in below[y]
      OBVIOUS
    <3>1. x \in Int /\ y \in Int /\ z \in T /\ z \in Int
      BY <1>2
    <3>2. z < x /\ x < y
      BY <1>2, <3>1
    <3>3. z < y
      BY ONLY <3>1, <3>2
    <3> QED BY <1>2, <3>1, <3>3
  <2>3. \A x, y \in T : x # y => x \in below[y] \/ y \in below[x]
    BY <1>2
  <2> QED BY <2>1, <2>2, <2>3
<1>4. /\ \A x \in T : Cardinality(below[x]) \in 0..Cardinality(T) - 1
      /\ \A x, y \in T : x \in below[y] <=> Cardinality(below[x]) < Cardinality(below[y])
      /\ \A i \in 1..Cardinality(T) : \E x \in T : Cardinality(below[x]) = i - 1
  BY <1>2, <1>3, RanksAreTaken
<1>5. PICK x \in T : Cardinality(below[x]) = n - 1
  BY <1>1, <1>4
<1>6. ASSUME NEW y \in T PROVE y <= x
  <2>1. ~(Cardinality(below[x]) < Cardinality(below[y]))
    BY <1>1, <1>4, <1>5
  <2>2. ~(x < y)
    BY <1>2, <1>4, <2>1
  <2> QED BY <2>2
<1> QED BY <1>6

\* A total order of a finite set lists it.
LEMMA ListingOrders ==
    ASSUME NEW S, IsFiniteSet(S), NEW before \in [S -> SUBSET S],
           \A x \in S : x \notin before[x],
           \A x, y \in S : x \in before[y] => before[x] \subseteq before[y],
           \A x, y \in S : x # y => x \in before[y] \/ y \in before[x]
    PROVE  LET f == Listing(before) IN
           /\ f \in Seq(S) /\ DOMAIN f = 1..Len(f) /\ Len(f) \in Nat
           /\ \A x \in S : \E i \in DOMAIN f : f[i] = x
           /\ \A i, j \in DOMAIN f : i < j => f[i] \in before[f[j]]
<1> DEFINE f == Listing(before)
<1>1. /\ \A x \in S : Cardinality(before[x]) \in 0..Cardinality(S) - 1
      /\ \A x, y \in S : x \in before[y] <=> Cardinality(before[x]) < Cardinality(before[y])
      /\ \A i \in 1..Cardinality(S) : \E x \in S : Cardinality(before[x]) = i - 1
  BY RanksAreTaken
<1>2. f = [r \in 1..Cardinality(S) |-> CHOOSE x \in S : Cardinality(before[x]) = r - 1]
  BY DEF Listing
<1> HIDE DEF f
<1>3. /\ f \in [1..Cardinality(S) -> S]
      /\ \A i \in 1..Cardinality(S) : Cardinality(before[f[i]]) = i - 1
  BY <1>1, <1>2
<1>4. /\ f \in Seq(S) /\ Len(f) = Cardinality(S) /\ DOMAIN f = 1..Len(f) /\ Len(f) \in Nat
      /\ \A x \in S : \E i \in DOMAIN f : f[i] = x
      /\ \A i, j \in DOMAIN f : i < j => f[i] \in before[f[j]]
  BY <1>1, <1>3, RankingLists
<1> QED BY <1>4 DEF f

LEMMA PlacesAreListed ==
    ASSUME NEW S \in SUBSET Nat, IsFiniteSet(S)
    PROVE  LET f == InPlace(S) IN
           /\ f \in Seq(S) /\ DOMAIN f = 1..Len(f) /\ Len(f) \in Nat
           /\ \A x \in S : \E i \in DOMAIN f : f[i] = x
           /\ \A i, j \in DOMAIN f : i < j => f[i] < f[j]
<1> DEFINE before == [p \in S |-> {q \in S : q < p}]
           f == InPlace(S)
<1>1. before \in [S -> SUBSET S] /\ (\A x, y \in S : y \in before[x] <=> y < x)
      /\ \A x \in S : before[x] \subseteq S
  OBVIOUS
<1>2. f = Listing(before)
  BY DEF InPlace
<1> HIDE DEF f, before
<1>3. /\ \A x \in S : x \notin before[x]
      /\ \A x, y \in S : x \in before[y] => before[x] \subseteq before[y]
      /\ \A x, y \in S : x # y => x \in before[y] \/ y \in before[x]
  <2>1. \A x \in S : x \notin before[x]
    BY <1>1
  <2>2. \A x, y \in S : x \in before[y] => before[x] \subseteq before[y]
    <3> SUFFICES ASSUME NEW x \in S, NEW y \in S, x \in before[y], NEW z \in before[x]
                 PROVE z \in before[y]
      OBVIOUS
    <3>1. x \in Int /\ y \in Int /\ z \in S /\ z \in Int
      BY <1>1
    <3>2. z < x /\ x < y
      BY <1>1, <3>1
    <3>3. z < y
      BY ONLY <3>1, <3>2
    <3> QED BY <1>1, <3>1, <3>3
  <2>3. \A x, y \in S : x # y => x \in before[y] \/ y \in before[x]
    BY <1>1
  <2> QED BY <2>1, <2>2, <2>3
<1>4. /\ f \in Seq(S) /\ DOMAIN f = 1..Len(f) /\ Len(f) \in Nat
      /\ \A x \in S : \E i \in DOMAIN f : f[i] = x
      /\ \A i, j \in DOMAIN f : i < j => f[i] \in before[f[j]]
  <2>1. before \in [S -> SUBSET S]
    BY <1>1
  <2>2. /\ Listing(before) \in Seq(S) /\ DOMAIN Listing(before) = 1..Len(Listing(before))
        /\ Len(Listing(before)) \in Nat
        /\ \A x \in S : \E i \in DOMAIN Listing(before) : Listing(before)[i] = x
        /\ \A i, j \in DOMAIN Listing(before) :
              i < j => Listing(before)[i] \in before[Listing(before)[j]]
    BY <1>3, <2>1, ListingOrders, Zenon
  <2> QED BY <1>2, <2>2
<1>5. ASSUME NEW i \in DOMAIN f, NEW j \in DOMAIN f, i < j PROVE f[i] < f[j]
  <2>1. f[i] \in S /\ f[j] \in S
    BY <1>4
  <2> QED BY <1>1, <1>4, <1>5, <2>1
<1> QED BY <1>4, <1>5 DEF f

(***************************************************************************)
(* Merging: what is merged was stated, and names are told apart.           *)
(***************************************************************************)
NoInferredLinks(e) == \A p \in DOMAIN e.fields : NoInferredLink(e.fields[p])

LEMMA PlacesAreFields ==
    ASSUME NEW list \in Seq(IREntity), NEW group \in SUBSET DOMAIN list,
           \A i \in DOMAIN list : NoInferredLinks(list[i])
    PROVE  LET places == PlacesOf(list, group) IN
           /\ IsFiniteSet(places)
           /\ \A a \in places : /\ FieldAt(list, a) \in IRField /\ NoInferredLink(FieldAt(list, a))
                                /\ a \in Nat \X Nat
<1> DEFINE places == PlacesOf(list, group)
           n == Len(list)
           f == [i \in 1..n |-> DOMAIN list[i].fields]
<1>1. n \in Nat /\ DOMAIN list = 1..n
  OBVIOUS
<1>2. ASSUME NEW i \in 1..n
      PROVE  /\ list[i].fields \in Seq(IRField) /\ Len(list[i].fields) \in Nat
             /\ DOMAIN list[i].fields = 1..Len(list[i].fields)
  <2>1. list[i] \in IREntity
    BY <1>1, ElementOfSeq
  <2>2. list[i].fields \in Seq(IRField)
    BY <2>1 DEF IREntity
  <2> QED BY <2>2
<1>3. f \in [1..n -> SUBSET Nat] /\ \A i \in 1..n : f[i] = DOMAIN list[i].fields
  <2>1. \A i \in 1..n : DOMAIN list[i].fields \in SUBSET Nat
    BY <1>2
  <2> QED BY <2>1
<1> HIDE DEF f
<1>4. ASSUME NEW i \in 1..n PROVE IsFiniteSet(f[i])
  <2>1. PICK m \in Int : f[i] = 1..m
    BY <1>2, <1>3
  <2>2. IsFiniteSet(1..m)
    BY FS_Interval
  <2> QED BY <2>1, <2>2
<1>5. ASSUME NEW a \in places
      PROVE  \E i \in group : \E p \in DOMAIN list[i].fields : a = <<i, p>>
  BY DEF PlacesOf
<1>6. ASSUME NEW a \in places
      PROVE  /\ FieldAt(list, a) \in IRField /\ NoInferredLink(FieldAt(list, a))
             /\ a \in Nat \X Nat /\ \E i \in 1..n : a \in {i} \X f[i]
  <2>0. PICK i \in group : \E p \in DOMAIN list[i].fields : a = <<i, p>>
    BY <1>5
  <2>1. PICK p \in DOMAIN list[i].fields : a = <<i, p>>
    BY <2>0
  <2>2. i \in 1..n /\ p \in f[i] /\ p \in Nat /\ i \in Nat
    BY <1>1, <1>2, <1>3, <2>1
  <2>3. FieldAt(list, a) = list[i].fields[p]
    BY <2>1 DEF FieldAt
  <2>4. list[i].fields[p] \in IRField
    BY <1>2, <2>1, <2>2
  <2>5. NoInferredLink(list[i].fields[p])
    BY <1>1, <2>1, <2>2 DEF NoInferredLinks
  <2>6. a \in {i} \X f[i]
    BY <2>1, <2>2
  <2> HIDE DEF f, places
  <2> QED BY <2>1, <2>2, <2>3, <2>4, <2>5, <2>6
<1> HIDE DEF f, places
<1>7. IsFiniteSet(places)
  BY <1>1, <1>3, <1>4, <1>6, LinesAreFinite
<1> QED BY <1>6, <1>7 DEF places

LEMMA MergedFieldsAreStated ==
    ASSUME NEW list, NEW places, IsFiniteSet(places),
           \A a \in places : /\ FieldAt(list, a) \in IRField /\ NoInferredLink(FieldAt(list, a))
                             /\ a \in Nat \X Nat
    PROVE  LET s == MergeFields(list, places) IN
           s \in Seq(IRField) /\ \A r \in DOMAIN s : NoInferredLink(s[r])
<1> DEFINE firsts == FirstStatements(list, places)
           before == [a \in firsts |-> {b \in firsts : PlacedBefore(b, a)}]
           order == Listing(before)
<1>1. firsts \subseteq places /\ IsFiniteSet(firsts)
  <2>1. firsts \subseteq places
    BY DEF FirstStatements
  <2> HIDE DEF firsts
  <2> QED BY <2>1, FS_Subset
<1> HIDE DEF firsts
<1>2. \A a \in firsts : a[1] \in Nat /\ a[2] \in Nat /\ a = <<a[1], a[2]>>
  BY <1>1
<1>3. before \in [firsts -> SUBSET firsts] /\ \A a, b \in firsts : b \in before[a] <=> PlacedBefore(b, a)
  OBVIOUS
<1>4. /\ \A a \in firsts : a \notin before[a]
      /\ \A a, b \in firsts : a \in before[b] => before[a] \subseteq before[b]
      /\ \A a, b \in firsts : a # b => a \in before[b] \/ b \in before[a]
  <2>1. \A a \in firsts : ~PlacedBefore(a, a)
    BY <1>2 DEF PlacedBefore
  <2>2. \A a, b, c \in firsts : PlacedBefore(c, a) /\ PlacedBefore(a, b) => PlacedBefore(c, b)
    BY <1>2 DEF PlacedBefore
  <2>3. \A a, b \in firsts : a # b => PlacedBefore(a, b) \/ PlacedBefore(b, a)
    <3> SUFFICES ASSUME NEW a \in firsts, NEW b \in firsts, ~PlacedBefore(a, b), ~PlacedBefore(b, a)
                 PROVE a = b
      OBVIOUS
    <3>1. a[1] = b[1] /\ a[2] = b[2]
      BY <1>2 DEF PlacedBefore
    <3> QED BY <1>2, <3>1
  <2> HIDE DEF before
  <2> QED BY <1>3, <2>1, <2>2, <2>3
<1> HIDE DEF before
<1>5. order \in Seq(firsts) /\ DOMAIN order = 1..Len(order) /\ Len(order) \in Nat
  BY <1>1, <1>3, <1>4, ListingOrders
<1>6. ASSUME NEW a \in places PROVE Highest(list, places, a) \in Nat
  <2> DEFINE same == {c \in places : Restates(list, a, c)}
             sal == [b \in same |-> FieldAt(list, b).salience]
             T == {FieldAt(list, b).salience : b \in same}
  <2>1. IsFiniteSet(same)
    BY FS_Subset
  <2>2. a \in same
    BY DEF Restates
  <2>3. \A b \in same : FieldAt(list, b).salience \in Nat
    BY DEF IRField
  <2> HIDE DEF same
  <2>4. sal \in Surjection(same, T)
    BY DEF Surjection
  <2>5. IsFiniteSet(T)
    <3> HIDE DEF sal, T
    <3> QED BY <2>1, <2>4, FS_Surjection
  <2>6. T \in SUBSET Nat /\ T # {}
    BY <2>2, <2>3
  <2>7. PICK x \in T : \A y \in T : y <= x
    <3> HIDE DEF T
    <3> QED BY <2>5, <2>6, GreatestOfFinite
  <2>8. \A b \in places : Restates(list, a, b) => FieldAt(list, b).salience <= x
    BY <2>7 DEF same
  <2>9. Highest(list, places, a) = CHOOSE s \in T : \A b \in places : Restates(list, a, b) => FieldAt(list, b).salience <= s
    BY DEF Highest, same
  <2> HIDE DEF T
  <2>10. Highest(list, places, a) \in T
    BY <2>7, <2>8, <2>9
  <2> QED BY <2>6, <2>10
<1> DEFINE s == [r \in DOMAIN order |->
                   [FieldAt(list, order[r]) EXCEPT !.salience = Highest(list, places, order[r])]]
<1>7. MergeFields(list, places) = s
  BY DEF MergeFields, firsts, before
<1> HIDE DEF order
<1>8. ASSUME NEW r \in DOMAIN order PROVE s[r] \in IRField /\ NoInferredLink(s[r])
  <2>1. order[r] \in places
    BY <1>1, <1>5
  <2>2. /\ FieldAt(list, order[r]) \in IRField /\ NoInferredLink(FieldAt(list, order[r]))
        /\ Highest(list, places, order[r]) \in Nat
    BY <1>6, <2>1
  <2>3. s[r] = [FieldAt(list, order[r]) EXCEPT !.salience = Highest(list, places, order[r])]
    OBVIOUS
  <2>4. s[r] \in IRField /\ s[r].inferred = FieldAt(list, order[r]).inferred
        /\ s[r].key = FieldAt(list, order[r]).key
    BY <2>2, <2>3 DEF IRField
  <2> QED BY <2>2, <2>4 DEF NoInferredLink
<1>9. s \in Seq(IRField) /\ DOMAIN s = DOMAIN order
  BY <1>5, <1>8
<1> HIDE DEF s
<1> QED BY <1>7, <1>8, <1>9
LEMMA GroupsAreStated ==
    ASSUME NEW list \in Seq(IREntity), \A i \in DOMAIN list : NoInferredLinks(list[i]),
           NEW k \in DOMAIN list
    PROVE  LET e == MergeGroup(list, list[k].name) IN
           e \in IREntity /\ e.name = list[k].name /\ NoInferredLinks(e)
<1> DEFINE name == list[k].name
           group == {i \in DOMAIN list : list[i].name = name}
           e == MergeGroup(list, name)
<1>1. \A i \in DOMAIN list : list[i] \in IREntity
  BY ElementOfSeq
<1>2. name \in Word /\ k \in group /\ group \in SUBSET DOMAIN list
  BY <1>1 DEF IREntity
<1>3. CASE Cardinality(group) = 1
  <2>1. e = list[CHOOSE i \in group : TRUE]
    BY <1>3 DEF MergeGroup
  <2>2. (CHOOSE i \in group : TRUE) \in group
    BY <1>2
  <2>3. PICK g \in group : e = list[g]
    BY <2>1, <2>2
  <2>4. g \in DOMAIN list /\ list[g].name = name
    OBVIOUS
  <2> HIDE DEF e, group, name
  <2>5. e \in IREntity /\ e.name = name /\ NoInferredLinks(e)
    BY <1>1, <2>3, <2>4
  <2> QED BY <2>5 DEF e, name
<1>4. CASE Cardinality(group) # 1
  <2> DEFINE places == PlacesOf(list, group)
             s == MergeFields(list, places)
  <2>1. e = [name |-> name, rels |-> {}, fields |-> s]
    BY <1>4 DEF MergeGroup
  <2> HIDE DEF group
  <2>2. /\ IsFiniteSet(places)
        /\ \A a \in places : /\ FieldAt(list, a) \in IRField /\ NoInferredLink(FieldAt(list, a))
                             /\ a \in Nat \X Nat
    BY <1>2, PlacesAreFields
  <2> HIDE DEF places
  <2>3. s \in Seq(IRField) /\ \A r \in DOMAIN s : NoInferredLink(s[r])
    BY <2>2, MergedFieldsAreStated
  <2> HIDE DEF s, e, name
  <2>4. e \in IREntity /\ e.name = name /\ e.fields = s
    BY <1>2, <2>1, <2>3 DEF IREntity
  <2> QED BY <2>3, <2>4 DEF NoInferredLinks, name, e
<1> QED BY <1>3, <1>4

NamesApart(list) == \A i, j \in DOMAIN list : list[i].name = list[j].name => i = j
LEMMA MergedIsStated ==
    ASSUME NEW list \in Seq(IREntity), \A i \in DOMAIN list : NoInferredLinks(list[i])
    PROVE  LET new == MergeAll(list) IN
           /\ new \in Seq(IREntity) /\ NamesApart(new)
           /\ \A i \in DOMAIN new : NoInferredLinks(new[i])
<1> DEFINE firsts == FirstOfName(list)
           order == InPlace(firsts)
           new == MergeAll(list)
<1>1. firsts \subseteq DOMAIN list /\ Len(list) \in Nat /\ DOMAIN list = 1..Len(list)
  BY DEF FirstOfName
<1>2. IsFiniteSet(firsts)
  <2>1. IsFiniteSet(1..Len(list))
    BY <1>1, FS_Interval
  <2> QED BY <1>1, <2>1, FS_Subset
<1>3. ASSUME NEW i \in firsts, NEW j \in firsts, list[i].name = list[j].name PROVE i = j
  <2>1. i \in DOMAIN list /\ j \in DOMAIN list /\ i <= j /\ j <= i
    BY <1>3 DEF FirstOfName
  <2>2. i \in Int /\ j \in Int
    BY <1>1, <2>1
  <2> QED BY <2>1, <2>2
<1>4. new = [r \in DOMAIN order |-> MergeGroup(list, list[order[r]].name)]
  BY DEF MergeAll
<1> HIDE DEF firsts, new
<1>5. firsts \in SUBSET Nat
  BY <1>1
<1>6. /\ order \in Seq(firsts) /\ DOMAIN order = 1..Len(order) /\ Len(order) \in Nat
      /\ \A i, j \in DOMAIN order : i < j => order[i] < order[j]
  BY <1>2, <1>5, PlacesAreListed
<1> HIDE DEF order
<1>7. \A r \in DOMAIN order : order[r] \in firsts
  BY <1>6, ElementOfSeq
<1>8. ASSUME NEW r \in DOMAIN order
      PROVE  new[r] \in IREntity /\ new[r].name = list[order[r]].name /\ NoInferredLinks(new[r])
  <2>1. order[r] \in DOMAIN list
    BY <1>1, <1>7
  <2>2. new[r] = MergeGroup(list, list[order[r]].name)
    BY <1>4
  <2> QED BY <2>1, <2>2, GroupsAreStated
<1>9. new \in Seq(IREntity) /\ DOMAIN new = DOMAIN order
  BY <1>4, <1>6, <1>8
<1>10. ASSUME NEW i \in DOMAIN new, NEW j \in DOMAIN new, new[i].name = new[j].name PROVE i = j
  <2>1. order[i] = order[j] /\ order[i] \in Int /\ i \in Int /\ j \in Int
    <3>1. order[i] \in firsts /\ order[j] \in firsts
      BY <1>7, <1>9
    <3>2. list[order[i]].name = list[order[j]].name
      BY <1>8, <1>9, <1>10
    <3>3. order[i] = order[j]
      BY <1>3, <3>1, <3>2
    <3>4. order[i] \in Int
      <4>1. order[i] \in Nat
        BY <1>5, <3>1, Zenon
      <4> QED BY <4>1
    <3>5. i \in Int /\ j \in Int
      BY <1>6, <1>9
    <3> QED BY <3>3, <3>4, <3>5
  <2>2. ~(i < j) /\ ~(j < i)
    BY <1>6, <1>9, <2>1
  <2> QED BY <2>1, <2>2
<1> QED BY <1>8, <1>9, <1>10 DEF NamesApart, new

(***************************************************************************)
(* Mirroring: what a mirrored relation adds.                               *)
(***************************************************************************)
Faced(list, from, r) ==
    r.type \in Links => \A j \in DOMAIN list : r.to = list[j].name =>
        \E s \in list[j].rels : s.type = Mirror(r.type) /\ s.to = from
InverseAt(e, p, type, from) ==
    e.fields[p].inferred /\ e.fields[p].key = type /\ e.fields[p].value = from
LinksOnce(e) ==
    \A type \in Links : \A from \in Word : \A p, q \in DOMAIN e.fields :
        InverseAt(e, p, type, from) /\ InverseAt(e, q, type, from) => p = q
LinksRelated(e) ==
    \A type \in Links : \A from \in Word : \A p \in DOMAIN e.fields :
        InverseAt(e, p, type, from) => \E s \in e.rels : s.type = type /\ s.to = from

LEMMA InferenceAddsOne ==
    ASSUME NEW e \in IREntity, LinksOnce(e), LinksRelated(e), NEW type \in Links,
           NEW from \in Word, NEW via \in Word,
           ~\E s \in e.rels : s.type = type /\ s.to = from
    PROVE  LET new == WithInverse(e, type, from, via) IN
           /\ new \in IREntity /\ new.name = e.name /\ e.rels \subseteq new.rels
           /\ LinksOnce(new) /\ LinksRelated(new)
           /\ \E s \in new.rels : s.type = type /\ s.to = from
<1> DEFINE rel == [type |-> type, to |-> from, via |-> via]
           field == InferredField(type, from)
           new == [e EXCEPT !.rels = @ \cup {rel}, !.fields = Append(@, field)]
           n == Len(e.fields)
<1>0. type \in Word
  BY LinksAreWords
<1>1. rel \in IRRelationship /\ rel.type = type /\ rel.to = from
  BY <1>0 DEF IRRelationship
<1>2. /\ field \in IRField /\ field.inferred /\ field.key = type /\ field.value = from
  <2>1. field = [key |-> type, value |-> from, inferred |-> TRUE, prot |-> FALSE, raw |-> FALSE,
                 salience |-> 10]
    BY DEF InferredField
  <2> HIDE DEF field
  <2>2. field.inferred /\ field.key = type /\ field.value = from
    BY <2>1
  <2>3. field \in IRField
    BY <1>0, <2>1 DEF IRField
  <2> QED BY <2>2, <2>3
<1>3. e.fields \in Seq(IRField) /\ e.rels \in SUBSET IRRelationship /\ n \in Nat /\ DOMAIN e.fields = 1..n
  BY DEF IREntity
<1> HIDE DEF rel, field
<1>4. new.name = e.name /\ new.rels = e.rels \cup {rel} /\ new.fields = Append(e.fields, field)
  BY DEF IREntity
<1>5. /\ Append(e.fields, field) \in Seq(IRField) /\ DOMAIN Append(e.fields, field) = 1..(n + 1)
      /\ Append(e.fields, field)[n + 1] = field
      /\ \A p \in 1..n : Append(e.fields, field)[p] = e.fields[p]
  BY <1>2, <1>3
<1>6. new \in IREntity
  <2>1. new.rels \in SUBSET IRRelationship /\ new.fields \in Seq(IRField)
    BY <1>1, <1>3, <1>4, <1>5
  <2>2. new.name \in Word
    BY <1>4 DEF IREntity
  <2>3. new = [name |-> new.name, fields |-> new.fields, rels |-> new.rels]
    <3>1. e = [name |-> e.name, fields |-> e.fields, rels |-> e.rels]
      BY DEF IREntity
    <3> DEFINE a == Append(e.fields, field)  b == e.rels \cup {rel}
    <3>2. new = [e EXCEPT !.rels = b, !.fields = a]
      OBVIOUS
    <3>3. new.rels = b /\ new.fields = a
      BY <1>4
    <3> HIDE DEF new, a, b
    <3>4. new = [name |-> e.name, fields |-> a, rels |-> b]
      BY <3>1, <3>2
    <3> QED BY <1>4, <3>3, <3>4
  <2> HIDE DEF new
  <2> QED BY <2>1, <2>2, <2>3 DEF IREntity
<1> HIDE DEF new, n
<1>7. /\ DOMAIN new.fields = 1..(n + 1) /\ new.fields[n + 1] = field
      /\ \A p \in 1..n : new.fields[p] = e.fields[p]
  BY <1>4, <1>5
<1>8. ASSUME NEW t \in Links, NEW f \in Word, NEW p \in 1..(n + 1), InverseAt(new, p, t, f)
      PROVE  \/ p \in 1..n /\ InverseAt(e, p, t, f)
             \/ p = n + 1 /\ t = type /\ f = from
  <2>1. CASE p \in 1..n
    BY <1>7, <1>8, <2>1 DEF InverseAt
  <2>2. CASE p = n + 1
    <3>1. new.fields[p] = field
      BY <1>7, <2>2
    <3> QED BY <1>2, <1>8, <2>2, <3>1 DEF InverseAt
  <2> QED BY <1>3, <2>1, <2>2
<1>9. \A p \in 1..n : ~InverseAt(e, p, type, from)
  BY <1>3 DEF LinksRelated
<1>10. LinksOnce(new)
  <2> SUFFICES ASSUME NEW t \in Links, NEW f \in Word, NEW p \in 1..(n + 1), NEW q \in 1..(n + 1),
                      InverseAt(new, p, t, f), InverseAt(new, q, t, f)
               PROVE  p = q
    BY <1>7 DEF LinksOnce
  <2>1. CASE p \in 1..n /\ InverseAt(e, p, t, f)
    <3>1. ~(t = type /\ f = from)
      BY <1>9, <2>1
    <3>2. q \in 1..n /\ InverseAt(e, q, t, f)
      BY <1>8, <3>1
    <3> QED BY <1>3, <2>1, <3>2 DEF LinksOnce
  <2>2. CASE p = n + 1 /\ t = type /\ f = from
    <3>1. ~(q \in 1..n /\ InverseAt(e, q, t, f))
      BY <1>9, <2>2
    <3>2. q = n + 1
      BY <1>8, <3>1
    <3> QED BY <2>2, <3>2
  <2> QED BY <1>8, <2>1, <2>2
<1>11. LinksRelated(new)
  <2> SUFFICES ASSUME NEW t \in Links, NEW f \in Word, NEW p \in 1..(n + 1), InverseAt(new, p, t, f)
               PROVE  \E s \in new.rels : s.type = t /\ s.to = f
    BY <1>7 DEF LinksRelated
  <2>1. CASE p \in 1..n /\ InverseAt(e, p, t, f)
    <3>1. \E s \in e.rels : s.type = t /\ s.to = f
      BY <1>3, <2>1 DEF LinksRelated
    <3> QED BY <1>4, <3>1
  <2>2. CASE t = type /\ f = from
    BY <1>1, <1>4, <2>2
  <2> QED BY <1>8, <2>1, <2>2
<1>12. \E s \in new.rels : s.type = type /\ s.to = from
  BY <1>1, <1>4
<1> QED BY <1>4, <1>6, <1>10, <1>11, <1>12 DEF new, rel, field, WithInverse

LEMMA BothAreSaid ==
    ASSUME NEW T, NEW s \in Seq(T), NEW t \in Seq(T)
    PROVE  s \o t \in Seq(T) /\ ToSet(s \o t) = ToSet(s) \cup ToSet(t)
<1> DEFINE u == s \o t
<1>1. /\ u \in Seq(T) /\ Len(u) = Len(s) + Len(t) /\ DOMAIN u = 1..(Len(s) + Len(t))
      /\ Len(s) \in Nat /\ Len(t) \in Nat /\ DOMAIN s = 1..Len(s) /\ DOMAIN t = 1..Len(t)
      /\ \A i \in 1..(Len(s) + Len(t)) : u[i] = IF i <= Len(s) THEN s[i] ELSE t[i - Len(s)]
  OBVIOUS
<1> HIDE DEF u
<1>2. ASSUME NEW x \in ToSet(u) PROVE x \in ToSet(s) \cup ToSet(t)
  <2>1. PICK i \in 1..(Len(s) + Len(t)) : x = u[i]
    BY <1>1 DEF ToSet
  <2>2. CASE i <= Len(s)
    <3>1. x = s[i] /\ i \in 1..Len(s)
      BY <1>1, <2>1, <2>2
    <3> QED BY <1>1, <3>1 DEF ToSet
  <2>3. CASE ~(i <= Len(s))
    <3>1. x = t[i - Len(s)] /\ i - Len(s) \in 1..Len(t)
      BY <1>1, <2>1, <2>3
    <3> QED BY <1>1, <3>1 DEF ToSet
  <2> QED BY <2>2, <2>3
<1>3. ASSUME NEW x \in ToSet(s) PROVE x \in ToSet(u)
  <2>1. PICK i \in 1..Len(s) : x = s[i]
    BY <1>1 DEF ToSet
  <2>2. x = u[i] /\ i \in 1..(Len(s) + Len(t))
    BY <1>1, <2>1
  <2> QED BY <1>1, <2>2 DEF ToSet
<1>4. ASSUME NEW x \in ToSet(t) PROVE x \in ToSet(u)
  <2>1. PICK i \in 1..Len(t) : x = t[i]
    BY <1>1 DEF ToSet
  <2>2. i + Len(s) \in 1..(Len(s) + Len(t)) /\ ~(i + Len(s) <= Len(s)) /\ (i + Len(s)) - Len(s) = i
    BY <1>1
  <2>3. x = u[i + Len(s)]
    BY <1>1, <2>1, <2>2
  <2> QED BY <1>1, <2>2, <2>3 DEF ToSet
<1> QED BY <1>1, <1>2, <1>3, <1>4 DEF u

LEMMA MirrorKeeps ==
    ASSUME NEW list \in Seq(IREntity), NamesApart(list),
           \A i \in DOMAIN list : LinksOnce(list[i]) /\ LinksRelated(list[i]),
           NEW from \in Word, NEW r \in IRRelationship
    PROVE  LET new == MirrorOne(list, from, r) IN
           /\ new \in Seq(IREntity) /\ DOMAIN new = DOMAIN list /\ Len(new) = Len(list)
           /\ \A i \in DOMAIN list : /\ new[i].name = list[i].name /\ list[i].rels \subseteq new[i].rels
                                     /\ LinksOnce(new[i]) /\ LinksRelated(new[i])
           /\ Faced(new, from, r)
<1> DEFINE new == MirrorOne(list, from, r)
           type == Mirror(r.type)
           grown(e) == WithInverse(e, type, from, r.via)
<1>1. DOMAIN list = 1..Len(list) /\ Len(list) \in Nat /\ \A i \in DOMAIN list : list[i] \in IREntity
  BY ElementOfSeq
<1>2. CASE r.type \notin Links \/ ~Missing(list, from, r)
  <2>1. new = list
    BY <1>2 DEF MirrorOne
  <2>2. Faced(list, from, r)
    <3> SUFFICES ASSUME r.type \in Links, NEW j \in DOMAIN list, r.to = list[j].name
                 PROVE  \E s \in list[j].rels : s.type = type /\ s.to = from
      BY DEF Faced
    <3>1. Related(list, r.to, type, from)
      BY <1>2 DEF Missing
    <3>2. PICK i \in DOMAIN list : list[i].name = r.to /\ \E s \in list[i].rels : s.type = type /\ s.to = from
      BY <3>1 DEF Related
    <3>3. i = j
      BY <3>2 DEF NamesApart
    <3> QED BY <3>2, <3>3
  <2> HIDE DEF new
  <2>3. /\ new \in Seq(IREntity) /\ DOMAIN new = DOMAIN list /\ Len(new) = Len(list)
        /\ \A i \in DOMAIN list : /\ new[i].name = list[i].name /\ list[i].rels \subseteq new[i].rels
                                  /\ LinksOnce(new[i]) /\ LinksRelated(new[i])
        /\ Faced(new, from, r)
    BY <2>1, <2>2
  <2> QED BY <2>3 DEF new
<1>3. CASE r.type \in Links /\ Missing(list, from, r)
  <2>1. new = [i \in DOMAIN list |-> IF list[i].name # r.to THEN list[i] ELSE grown(list[i])]
    BY <1>3 DEF MirrorOne
  <2>2. type \in Links /\ r.via \in Word
    BY DEF Mirror, Links, IRRelationship
  <2> HIDE DEF new, type
  <2>3. ASSUME NEW i \in DOMAIN list, list[i].name = r.to
        PROVE  /\ grown(list[i]) \in IREntity /\ grown(list[i]).name = list[i].name
               /\ list[i].rels \subseteq grown(list[i]).rels
               /\ LinksOnce(grown(list[i])) /\ LinksRelated(grown(list[i]))
               /\ \E s \in grown(list[i]).rels : s.type = type /\ s.to = from
    <3>1. ~\E s \in list[i].rels : s.type = type /\ s.to = from
      BY <1>3, <2>3 DEF Missing, Related, type
    <3>2. list[i] \in IREntity /\ LinksOnce(list[i]) /\ LinksRelated(list[i])
      BY <1>1
    <3> QED BY <2>2, <3>1, <3>2, InferenceAddsOne
  <2> HIDE DEF grown
  <2>4. ASSUME NEW i \in DOMAIN list
        PROVE  /\ new[i] \in IREntity
               /\ new[i].name = list[i].name /\ list[i].rels \subseteq new[i].rels
               /\ LinksOnce(new[i]) /\ LinksRelated(new[i])
               /\ r.to = list[i].name => \E s \in new[i].rels : s.type = type /\ s.to = from
    <3>1. CASE list[i].name # r.to
      <4>1. new[i] = list[i]
        BY <2>1, <3>1
      <4> QED BY <1>1, <3>1, <4>1
    <3>2. CASE list[i].name = r.to
      <4>1. new[i] = grown(list[i])
        BY <2>1, <3>2
      <4> QED BY <2>3, <3>2, <4>1
    <3> QED BY <3>1, <3>2
  <2>5. new \in Seq(IREntity) /\ DOMAIN new = DOMAIN list /\ Len(new) = Len(list)
    <3>1. DOMAIN new = 1..Len(list)
      BY <1>1, <2>1
    <3>2. new = [i \in 1..Len(list) |-> new[i]]
      BY <1>1, <2>1
    <3>3. \A i \in 1..Len(list) : new[i] \in IREntity
      BY <1>1, <2>4
    <3> QED BY <1>1, <3>1, <3>2, <3>3
  <2>6. Faced(new, from, r)
    <3> SUFFICES ASSUME NEW j \in DOMAIN new, r.to = new[j].name
                 PROVE  \E s \in new[j].rels : s.type = type /\ s.to = from
      BY DEF Faced, type
    <3> QED BY <2>4, <2>5
  <2> QED BY <2>4, <2>5, <2>6 DEF new
<1> QED BY <1>2, <1>3

\* A template weighs fields and leaves what they say.
LEMMA WeighedSaysTheSame ==
    ASSUME NEW e \in IREntity
    PROVE  LET new == [e EXCEPT !.fields = [j \in DOMAIN e.fields |-> Weighed(e.fields[j])]] IN
           /\ new \in IREntity /\ new.name = e.name /\ new.rels = e.rels
           /\ (LinksOnce(e) => LinksOnce(new)) /\ (LinksRelated(e) => LinksRelated(new))
<1> DEFINE fs == [j \in DOMAIN e.fields |-> Weighed(e.fields[j])]
           new == [e EXCEPT !.fields = fs]
<1>1. /\ e.fields \in Seq(IRField) /\ Len(e.fields) \in Nat /\ DOMAIN e.fields = 1..Len(e.fields)
      /\ e.name \in Word /\ e.rels \in SUBSET IRRelationship
      /\ e = [name |-> e.name, fields |-> e.fields, rels |-> e.rels]
  BY DEF IREntity
<1>2. ASSUME NEW f \in IRField
      PROVE  /\ Weighed(f) \in IRField /\ Weighed(f).key = f.key /\ Weighed(f).value = f.value
             /\ Weighed(f).inferred = f.inferred
  <2>1. CASE f.key \in DOMAIN Weights
    <3> DEFINE w == (f.salience * Weights[f.key]) \div 10
    <3>1. w \in Nat
      <4>1. f.salience \in Nat /\ Weights[f.key] \in Nat
        BY <2>1, WeightAssumption DEF IRField
      <4>2. \A a, b \in Nat : a * b \in Nat
        OBVIOUS
      <4>3. \A a \in Nat : a \div 10 \in Nat
        OBVIOUS
      <4> QED BY <4>1, <4>2, <4>3
    <3>2. Weighed(f) = [f EXCEPT !.salience = w]
      BY <2>1 DEF Weighed
    <3> HIDE DEF w
    <3> QED BY <3>1, <3>2 DEF IRField
  <2>2. CASE f.key \notin DOMAIN Weights
    BY <2>2 DEF Weighed
  <2> QED BY <2>1, <2>2
<1>3. \A j \in DOMAIN e.fields : e.fields[j] \in IRField
  BY <1>1, ElementOfSeq
<1>4. fs \in Seq(IRField) /\ DOMAIN fs = DOMAIN e.fields
      /\ \A j \in DOMAIN e.fields : fs[j] = Weighed(e.fields[j])
  <2>1. \A j \in 1..Len(e.fields) : Weighed(e.fields[j]) \in IRField
    BY <1>1, <1>2, <1>3
  <2> QED BY <1>1, <2>1
<1> HIDE DEF fs
<1>5. new = [name |-> e.name, fields |-> fs, rels |-> e.rels]
  BY <1>1
<1> HIDE DEF new
<1>6. new \in IREntity /\ new.name = e.name /\ new.rels = e.rels /\ new.fields = fs
  BY <1>1, <1>4, <1>5 DEF IREntity
<1>7. ASSUME NEW p \in DOMAIN e.fields, NEW type, NEW from
      PROVE  InverseAt(new, p, type, from) <=> InverseAt(e, p, type, from)
  <2>1. /\ fs[p].key = e.fields[p].key /\ fs[p].value = e.fields[p].value
        /\ fs[p].inferred = e.fields[p].inferred
    BY <1>2, <1>3, <1>4
  <2> QED BY <1>6, <2>1 DEF InverseAt
<1>8. ASSUME LinksOnce(e) PROVE LinksOnce(new)
  BY <1>4, <1>6, <1>7, <1>8 DEF LinksOnce
<1>9. ASSUME LinksRelated(e) PROVE LinksRelated(new)
  BY <1>4, <1>6, <1>7, <1>9 DEF LinksRelated
<1> QED BY <1>6, <1>8, <1>9 DEF new, fs

(***************************************************************************)
(* Writing: which fields have a line.                                      *)
(***************************************************************************)
Line == [key : Word, value : Word, how : {"full", "short", "raw"}, inferred : BOOLEAN]
Says(e, S, said) ==
    /\ \A l \in ToSet(said) : \E p \in S : l.key = e.fields[p].key /\ l.inferred = e.fields[p].inferred
    /\ \A p \in S : \E l \in ToSet(said) : l.key = e.fields[p].key

LEMMA LinesSay ==
    ASSUME NEW e \in IREntity, NEW S \in SUBSET DOMAIN e.fields, NEW order \in Seq(S),
           \A p \in S : \E i \in DOMAIN order : order[i] = p,
           NEW how \in [DOMAIN e.fields -> {"full", "short", "raw"}]
    PROVE  Lines(e, order, how) \in Seq(Line) /\ Says(e, S, Lines(e, order, how))
<1> DEFINE s == Lines(e, order, how)
<1>1. e.fields \in Seq(IRField) /\ \A p \in DOMAIN e.fields : e.fields[p] \in IRField
  <2>1. e.fields \in Seq(IRField)
    BY DEF IREntity
  <2> QED BY <2>1, ElementOfSeq
<1>2. DOMAIN order = 1..Len(order) /\ Len(order) \in Nat /\ \A r \in DOMAIN order : order[r] \in S
  BY ElementOfSeq
<1>3. s = [r \in DOMAIN order |-> Saying(e.fields[order[r]], how[order[r]])]
  BY DEF Lines
<1> HIDE DEF s
<1>4. ASSUME NEW r \in DOMAIN order
      PROVE  /\ s[r] \in Line /\ s[r].key = e.fields[order[r]].key
             /\ s[r].inferred = e.fields[order[r]].inferred
  <2>1. order[r] \in DOMAIN e.fields
    BY <1>2
  <2>2. e.fields[order[r]] \in IRField /\ how[order[r]] \in {"full", "short", "raw"}
    BY <1>1, <2>1
  <2>3. s[r] = Saying(e.fields[order[r]], how[order[r]])
    BY <1>3
  <2> QED BY <2>2, <2>3 DEF Saying, Line, IRField
<1>5. s \in Seq(Line) /\ DOMAIN s = DOMAIN order
  BY <1>2, <1>3, <1>4
<1>6. ToSet(s) = {s[r] : r \in DOMAIN order}
  BY <1>5 DEF ToSet
<1>7. Says(e, S, s)
  <2>1. ASSUME NEW l \in ToSet(s)
        PROVE  \E p \in S : l.key = e.fields[p].key /\ l.inferred = e.fields[p].inferred
    <3>1. PICK r \in DOMAIN order : l = s[r]
      BY <1>6
    <3> QED BY <1>2, <1>4, <3>1
  <2>2. ASSUME NEW p \in S PROVE \E l \in ToSet(s) : l.key = e.fields[p].key
    <3>1. PICK r \in DOMAIN order : order[r] = p
      OBVIOUS
    <3> QED BY <1>4, <1>6, <3>1
  <2> QED BY <2>1, <2>2 DEF Says
<1> QED BY <1>5, <1>7 DEF s

LEMMA FieldsAreListed ==
    ASSUME NEW e \in IREntity, NEW S \in SUBSET DOMAIN e.fields
    PROVE  /\ InPlace(S) \in Seq(S) /\ \A p \in S : \E i \in DOMAIN InPlace(S) : InPlace(S)[i] = p
           /\ BySalienceDown(e, S) \in Seq(S)
           /\ \A p \in S : \E i \in DOMAIN BySalienceDown(e, S) : BySalienceDown(e, S)[i] = p
<1> DEFINE before == [p \in S |->
                        {q \in S : \/ e.fields[q].salience > e.fields[p].salience
                                   \/ e.fields[q].salience = e.fields[p].salience /\ q < p}]
<1>1. e.fields \in Seq(IRField) /\ DOMAIN e.fields = 1..Len(e.fields) /\ Len(e.fields) \in Nat
  BY DEF IREntity
<1>2. S \in SUBSET Nat /\ IsFiniteSet(S)
  <2>1. IsFiniteSet(1..Len(e.fields))
    BY <1>1, FS_Interval
  <2> QED BY <1>1, <2>1, FS_Subset
<1>3. \A p \in S : e.fields[p].salience \in Int /\ p \in Int
  <2>1. \A p \in DOMAIN e.fields : e.fields[p] \in IRField
    BY <1>1, ElementOfSeq
  <2> QED BY <1>2, <2>1 DEF IRField
<1>4. InPlace(S) \in Seq(S) /\ \A p \in S : \E i \in DOMAIN InPlace(S) : InPlace(S)[i] = p
  BY <1>2, PlacesAreListed
<1>5. before \in [S -> SUBSET S] /\ (\A p \in S : before[p] \subseteq S)
      /\ \A p, q \in S : q \in before[p] <=> \/ e.fields[q].salience > e.fields[p].salience
                                             \/ e.fields[q].salience = e.fields[p].salience /\ q < p
  OBVIOUS
<1>6. BySalienceDown(e, S) = Listing(before)
  BY DEF BySalienceDown
<1> HIDE DEF before
<1>7. \A p \in S : p \notin before[p]
  BY <1>3, <1>5
<1>8. \A p, q \in S : p \in before[q] => before[p] \subseteq before[q]
  <2> SUFFICES ASSUME NEW p \in S, NEW q \in S, p \in before[q], NEW r \in before[p]
               PROVE  r \in before[q]
    OBVIOUS
  <2>1. r \in S
    BY <1>5
  <2> DEFINE a == e.fields[p].salience  b == e.fields[q].salience  c == e.fields[r].salience
  <2>2. a \in Int /\ b \in Int /\ c \in Int /\ p \in Int /\ q \in Int /\ r \in Int
    BY <1>3, <2>1
  <2>3. (a > b \/ (a = b /\ p < q)) /\ (c > a \/ (c = a /\ r < p))
    BY <1>5, <2>1
  <2> HIDE DEF a, b, c
  <2>4. c > b \/ (c = b /\ r < q)
    BY ONLY <2>2, <2>3
  <2> QED BY <1>5, <2>1, <2>4 DEF b, c
<1>9. \A p, q \in S : p # q => p \in before[q] \/ q \in before[p]
  BY <1>3, <1>5
<1>10. /\ Listing(before) \in Seq(S)
       /\ \A p \in S : \E i \in DOMAIN Listing(before) : Listing(before)[i] = p
  <2>1. before \in [S -> SUBSET S]
    BY <1>5
  <2> QED BY <1>2, <1>7, <1>8, <1>9, <2>1, ListingOrders, Zenon
<1> QED BY <1>4, <1>6, <1>10

\* The first pass says what it shows, and adding lines takes none away.
LEMMA SectionSays ==
    ASSUME NEW e \in IREntity, NEW opt
    PROVE  LET s == SectionOf(e, opt) IN
           s \in [name : Word, said : Seq(Line)] /\ Says(e, Shown(e, opt), s.said)
<1> DEFINE S == Shown(e, opt)
           how == [p \in DOMAIN e.fields |->
                     IF ActionOf(e, e.fields[p], opt.preset) = "abbreviate" THEN "short" ELSE "full"]
           said == Lines(e, BySalienceDown(e, S), how)
<1>1. S \in SUBSET DOMAIN e.fields /\ e.name \in Word
  BY DEF Shown, IREntity
<1>2. how \in [DOMAIN e.fields -> {"full", "short", "raw"}]
  OBVIOUS
<1>3. SectionOf(e, opt) = [name |-> e.name, said |-> said]
  BY DEF SectionOf
<1> HIDE DEF S, how
<1>4. said \in Seq(Line) /\ Says(e, S, said)
  BY <1>1, <1>2, FieldsAreListed, LinesSay
<1> HIDE DEF said
<1> QED BY <1>1, <1>3, <1>4 DEF S

LEMMA AddedLines ==
    ASSUME NEW e \in IREntity, NEW S \in SUBSET DOMAIN e.fields,
           NEW how \in {"full", "raw"}, NEW section \in [name : Word, said : Seq(Line)]
    PROVE  LET more == Lines(e, InPlace(S), Plainly(e, how))
               new == Adding(section, more)
           IN /\ new \in [name : Word, said : Seq(Line)] /\ Says(e, S, more)
              /\ ToSet(new.said) = ToSet(section.said) \cup ToSet(more)
<1> DEFINE more == Lines(e, InPlace(S), Plainly(e, how))
           said == section.said
           new == [section EXCEPT !.said = @ \o more]
<1>1. Plainly(e, how) \in [DOMAIN e.fields -> {"full", "short", "raw"}]
  BY DEF Plainly
<1>2. more \in Seq(Line) /\ Says(e, S, more)
  BY <1>1, FieldsAreListed, LinesSay
<1> HIDE DEF more
<1>3. said \in Seq(Line) /\ section.name \in Word
      /\ section = [name |-> section.name, said |-> said]
  OBVIOUS
<1> HIDE DEF said
<1>4. said \o more \in Seq(Line) /\ ToSet(said \o more) = ToSet(said) \cup ToSet(more)
  BY <1>2, <1>3, BothAreSaid
<1> DEFINE both == said \o more
<1>5. new.said = both /\ new = [name |-> section.name, said |-> both]
  <2>1. new = [section EXCEPT !.said = both]
    BY DEF said
  <2> HIDE DEF new, both
  <2> QED BY <1>3, <2>1
<1> QED BY <1>2, <1>3, <1>4, <1>5 DEF said, more, Adding

(***************************************************************************)
(* The inductive invariant.                                                *)
(***************************************************************************)
Packings == [stage : {"read", "mirror", "resolved", "valid", "written", "hydrated", "expanded"},
             strict : BOOLEAN, read : SUBSET CorpusFile, from : Seq(IREntity),
             preset : DOMAIN Presets, at : Nat, left : SUBSET IRRelationship]
PackTypeOK == packing \in Packings /\ corpus \in Seq(IREntity)

ReadInv ==
    /\ ExcludedStaysOut
    /\ Stage("read") => /\ \A i \in DOMAIN corpus : NoInferredLinks(corpus[i])
                        /\ packing.at = 0 /\ packing.left = {}
\* of the relations stated, those of the entities before the one in hand and
\* those of its own that are not left have their inverse
FacedSoFar ==
    \A i \in 1..packing.at : \A r \in packing.from[i].rels :
        (i = packing.at /\ r \in packing.left) \/ Faced(corpus, corpus[i].name, r)
MirrorInv ==
    ~Stage("read") =>
        /\ NamesApart(corpus) /\ DOMAIN packing.from = DOMAIN corpus
        /\ \A i \in DOMAIN corpus : /\ packing.from[i].rels \subseteq corpus[i].rels
                                    /\ LinksOnce(corpus[i]) /\ LinksRelated(corpus[i])
        /\ packing.at \in 0..Len(corpus)
        /\ packing.at = 0 => packing.left = {}
        /\ FacedSoFar
        /\ Resolved => packing.at = Len(corpus) /\ packing.left = {}
DocumentInv ==
    Written =>
        /\ DOMAIN document = DOMAIN corpus
        /\ \A i \in DOMAIN corpus : document[i] \in [name : Word, said : Seq(Line)]
        /\ StrictSaysOnlyTheStated /\ ProtectedFieldsStay /\ HydrationReturnsTheDropped
PackInv == PackTypeOK /\ ReadInv /\ MirrorInv /\ DocumentInv

LEMMA CorpusIsListed ==
    ASSUME PackTypeOK
    PROVE  /\ Len(corpus) \in Nat /\ DOMAIN corpus = 1..Len(corpus)
           /\ \A i \in DOMAIN corpus : corpus[i] \in IREntity
  BY ElementOfSeq DEF PackTypeOK

LEMMA PackInitially == PackInit => PackInv
<1> SUFFICES ASSUME PackInit PROVE PackInv
  OBVIOUS
<1>1. Stage("read") /\ packing.at = 0 /\ packing.left = {} /\ packing.read = {} /\ corpus = <<>>
  BY DEF PackInit, Stage
<1>2. packing \in Packings
  <2> DEFINE P == DOMAIN Presets
  <2>1. packing \in [stage : {"read"}, strict : BOOLEAN, read : {{}}, from : {<<>>},
                     preset : P, at : {0}, left : {{}}]
    BY DEF PackInit
  <2> HIDE DEF P
  <2>2. <<>> \in Seq(IREntity)
    OBVIOUS
  <2>3. packing = [stage |-> packing.stage, strict |-> packing.strict, read |-> packing.read,
                   from |-> packing.from, preset |-> packing.preset, at |-> packing.at,
                   left |-> packing.left]
    BY <2>1
  <2>4. /\ packing.stage = "read" /\ packing.strict \in BOOLEAN /\ packing.read = {}
        /\ packing.from = <<>> /\ packing.preset \in P /\ packing.at = 0 /\ packing.left = {}
    BY <2>1
  <2>5. packing \in [stage : {"read", "mirror", "resolved", "valid", "written", "hydrated", "expanded"},
                     strict : BOOLEAN, read : SUBSET CorpusFile, from : Seq(IREntity),
                     preset : P, at : Nat, left : SUBSET IRRelationship]
    <3> DEFINE T == {"read", "mirror", "resolved", "valid", "written", "hydrated", "expanded"}
               R == SUBSET CorpusFile
               F == Seq(IREntity)
               L == SUBSET IRRelationship
    <3>1. /\ packing.stage \in T /\ packing.read \in R /\ packing.from \in F /\ packing.at \in Nat
          /\ packing.left \in L
      BY <2>2, <2>4
    <3> HIDE DEF T, R, F, L
    <3>2. packing \in [stage : T, strict : BOOLEAN, read : R, from : F, preset : P, at : Nat, left : L]
      BY <2>3, <2>4, <3>1
    <3> QED BY <3>2 DEF T, R, F, L
  <2> QED BY <2>5 DEF Packings, P
<1>3. PackTypeOK /\ ReadInv
  BY <1>1, <1>2 DEF PackTypeOK, ReadInv, ExcludedStaysOut
<1>4. packing.stage = "read"
  BY <1>1 DEF Stage
<1> QED BY <1>1, <1>3, <1>4 DEF PackInv, MirrorInv, DocumentInv, Written, Stage

\* While files are read, nothing is inferred.
LEMMA ReadKeeps ==
    ASSUME PackInv, NEW f \in CorpusFile, ReadFile(f) PROVE PackInv'
<1>1. /\ packing.stage = "read" /\ packing' = [packing EXCEPT !.read = @ \cup {f}]
      /\ corpus' = corpus \o Contents(f) /\ Discovered(f)
  BY DEF ReadFile, Stage
<1>2. packing \in Packings
  BY DEF PackInv, PackTypeOK
<1>3. packing' \in Packings /\ packing'.stage = "read" /\ packing'.read = packing.read \cup {f}
      /\ packing'.at = packing.at /\ packing'.left = packing.left
  BY <1>1, <1>2 DEF Packings
<1> DEFINE old == corpus  more == Contents(f)  new == old \o more
<1>4. old \in Seq(IREntity) /\ more \in Seq(IREntity)
  BY SourceAssumption DEF PackInv, PackTypeOK
<1>5. (\A i \in DOMAIN old : NoInferredLinks(old[i])) /\ \A i \in DOMAIN more : NoInferredLinks(more[i])
  BY <1>1, SourceAssumption DEF PackInv, ReadInv, Stage, NoInferredLinks
<1>6. corpus' = new
  BY <1>1
<1> HIDE DEF old, more
<1>7. new \in Seq(IREntity) /\ \A i \in DOMAIN new : NoInferredLinks(new[i])
  <2>1. /\ new \in Seq(IREntity) /\ DOMAIN new = 1..(Len(old) + Len(more)) /\ Len(old) \in Nat /\ Len(more) \in Nat
        /\ DOMAIN old = 1..Len(old) /\ DOMAIN more = 1..Len(more)
        /\ \A i \in 1..(Len(old) + Len(more)) : new[i] = IF i <= Len(old) THEN old[i] ELSE more[i - Len(old)]
    BY <1>4
  <2> HIDE DEF new
  <2>2. ASSUME NEW i \in 1..(Len(old) + Len(more)) PROVE NoInferredLinks(new[i])
    <3>1. CASE i <= Len(old)
      <4>1. i \in DOMAIN old /\ new[i] = old[i]
        BY <2>1, <3>1
      <4> QED BY <1>5, <4>1
    <3>2. CASE ~(i <= Len(old))
      <4>1. i - Len(old) \in DOMAIN more /\ new[i] = more[i - Len(old)]
        BY <2>1, <3>2
      <4> QED BY <1>5, <4>1
    <3> QED BY <3>1, <3>2
  <2> QED BY <2>1, <2>2
<1> HIDE DEF new
<1>8. PackTypeOK'
  BY <1>3, <1>6, <1>7 DEF PackTypeOK
<1>9. ReadInv'
  <2>1. ExcludedStaysOut'
    BY <1>1, <1>3 DEF PackInv, ReadInv, ExcludedStaysOut, Discovered
  <2>2. packing.at = 0 /\ packing.left = {}
    BY <1>1 DEF PackInv, ReadInv, Stage
  <2> QED BY <1>3, <1>6, <1>7, <2>1, <2>2 DEF ReadInv
<1>10. MirrorInv' /\ DocumentInv'
  BY <1>3 DEF MirrorInv, DocumentInv, Written, Stage
<1> QED BY <1>8, <1>9, <1>10 DEF PackInv

LEMMA MergeKeeps ==
    ASSUME PackInv, ResolveCorpus PROVE PackInv'
<1> DEFINE new == MergeAll(corpus)
<1>1. /\ packing.stage = "read" /\ packing' = [packing EXCEPT !.stage = "mirror", !.from = new]
      /\ corpus' = new
  BY DEF ResolveCorpus, Stage
<1>2. corpus \in Seq(IREntity) /\ \A i \in DOMAIN corpus : NoInferredLinks(corpus[i])
  BY <1>1 DEF PackInv, PackTypeOK, ReadInv, Stage
<1>3. /\ new \in Seq(IREntity) /\ NamesApart(new)
      /\ \A i \in DOMAIN new : NoInferredLinks(new[i])
  BY <1>2, MergedIsStated
<1> HIDE DEF new
<1>4. packing \in Packings /\ packing.at = 0 /\ packing.left = {}
  BY <1>1 DEF PackInv, PackTypeOK, ReadInv, Stage
<1>5. /\ packing' \in Packings /\ packing'.stage = "mirror" /\ packing'.from = new
      /\ packing'.at = 0 /\ packing'.left = {} /\ packing'.read = packing.read
  BY <1>1, <1>3, <1>4 DEF Packings
<1>6. PackTypeOK' /\ ReadInv' /\ DocumentInv'
  BY <1>1, <1>3, <1>5 DEF PackInv, PackTypeOK, ReadInv, ExcludedStaysOut, DocumentInv, Written, Stage
<1>7. ASSUME NEW i \in DOMAIN new PROVE LinksOnce(new[i]) /\ LinksRelated(new[i])
  BY <1>3 DEF LinksOnce, LinksRelated, InverseAt, NoInferredLinks, NoInferredLink
<1>8. FacedSoFar'
  BY <1>5 DEF FacedSoFar
<1>9. Len(new) \in Nat
  BY <1>3
<1>10. MirrorInv'
  BY <1>1, <1>3, <1>5, <1>7, <1>8, <1>9 DEF MirrorInv, Resolved, Stage
<1> QED BY <1>6, <1>10 DEF PackInv

LEMMA NextEntityKeeps ==
    ASSUME PackInv, NextEntity PROVE PackInv'
<1> DEFINE n == packing.at + 1
<1>1. /\ packing.stage = "mirror" /\ packing.left = {} /\ packing.at < Len(corpus)
      /\ packing' = [packing EXCEPT !.at = n, !.left = corpus[n].rels] /\ corpus' = corpus
  BY DEF NextEntity, Stage
<1>2. packing \in Packings /\ packing.at \in Nat
  BY DEF PackInv, PackTypeOK, Packings
<1>3. Len(corpus) \in Nat /\ n \in 1..Len(corpus) /\ n \in DOMAIN corpus /\ corpus[n] \in IREntity
  BY <1>1, <1>2, CorpusIsListed DEF PackInv
<1>4. corpus[n].rels \in SUBSET IRRelationship
  BY <1>3 DEF IREntity
<1> DEFINE rels == corpus[n].rels
<1> HIDE DEF n, rels
<1>5. /\ packing' \in Packings /\ packing'.stage = "mirror" /\ packing'.from = packing.from
      /\ packing'.at = n /\ packing'.left = corpus[n].rels /\ packing'.read = packing.read
  <2>1. packing' = [packing EXCEPT !.at = n, !.left = rels]
    BY <1>1 DEF rels
  <2>2. n \in Nat /\ rels \in SUBSET IRRelationship
    BY <1>3, <1>4 DEF rels
  <2>3. /\ packing' \in Packings /\ packing'.stage = "mirror" /\ packing'.from = packing.from
        /\ packing'.at = n /\ packing'.left = rels /\ packing'.read = packing.read
    BY <1>1, <1>2, <2>1, <2>2 DEF Packings
  <2> QED BY <2>3 DEF rels
<1>6. PackTypeOK' /\ ReadInv' /\ DocumentInv'
  BY <1>1, <1>5 DEF PackInv, PackTypeOK, ReadInv, ExcludedStaysOut, DocumentInv, Written, Stage
<1>7. MirrorInv
  BY DEF PackInv
<1>8. FacedSoFar'
  <2> SUFFICES ASSUME NEW i \in 1..n, NEW r \in packing.from[i].rels, ~(i = n /\ r \in corpus[n].rels)
               PROVE  Faced(corpus, corpus[i].name, r)
    BY <1>1, <1>5 DEF FacedSoFar
  <2>1. i # n
    <3>1. packing.from[n].rels \subseteq corpus[n].rels
      BY <1>1, <1>3, <1>7 DEF MirrorInv, Stage
    <3> QED BY <3>1
  <2>2. i \in 1..packing.at
    BY <1>2, <2>1 DEF n
  <2> QED BY <1>1, <1>7, <2>2 DEF MirrorInv, FacedSoFar, Stage
<1>9. n # 0 /\ n \in 0..Len(corpus)
  BY <1>3
<1>10. MirrorInv'
  BY <1>1, <1>5, <1>7, <1>8, <1>9 DEF MirrorInv, Resolved, Stage
<1> QED BY <1>6, <1>10 DEF PackInv

LEMMA InferenceKeeps ==
    ASSUME PackInv, NEW r \in packing.left, InferInverse(r) PROVE PackInv'
<1> DEFINE n == packing.at
           from == corpus[n].name
           new == MirrorOne(corpus, from, r)
<1>1. /\ packing.stage = "mirror" /\ packing' = [packing EXCEPT !.left = @ \ {r}] /\ corpus' = new
  BY DEF InferInverse, Stage
<1>2. packing \in Packings /\ corpus \in Seq(IREntity) /\ n \in Nat /\ r \in IRRelationship
  BY DEF PackInv, PackTypeOK, Packings
<1>3. MirrorInv /\ ~Stage("read")
  BY <1>1 DEF PackInv, Stage
<1>4. n \in DOMAIN corpus /\ DOMAIN corpus = 1..Len(corpus) /\ Len(corpus) \in Nat /\ from \in Word
  <2>1. Len(corpus) \in Nat /\ DOMAIN corpus = 1..Len(corpus) /\ \A i \in DOMAIN corpus : corpus[i] \in IREntity
    BY CorpusIsListed DEF PackInv
  <2>2. n # 0 /\ n \in 0..Len(corpus)
    BY <1>3 DEF MirrorInv
  <2>3. n \in DOMAIN corpus
    BY <2>1, <2>2
  <2> QED BY <2>1, <2>3 DEF IREntity
<1>5. NamesApart(corpus) /\ \A i \in DOMAIN corpus : LinksOnce(corpus[i]) /\ LinksRelated(corpus[i])
  BY <1>3 DEF MirrorInv
<1> HIDE DEF from, new, n
<1>6. /\ new \in Seq(IREntity) /\ DOMAIN new = DOMAIN corpus /\ Len(new) = Len(corpus)
      /\ \A i \in DOMAIN corpus : /\ new[i].name = corpus[i].name /\ corpus[i].rels \subseteq new[i].rels
                                  /\ LinksOnce(new[i]) /\ LinksRelated(new[i])
      /\ Faced(new, from, r)
  BY <1>2, <1>4, <1>5, MirrorKeeps DEF new
<1>7. /\ packing' \in Packings /\ packing'.stage = "mirror" /\ packing'.from = packing.from
      /\ packing'.at = n /\ packing'.left = packing.left \ {r} /\ packing'.read = packing.read
  BY <1>1, <1>2 DEF Packings, n
<1>8. PackTypeOK' /\ ReadInv' /\ DocumentInv'
  BY <1>1, <1>6, <1>7 DEF PackInv, PackTypeOK, ReadInv, ExcludedStaysOut, DocumentInv, Written, Stage
<1>9. NamesApart(new)
  BY <1>5, <1>6 DEF NamesApart
<1>10. ASSUME NEW name, NEW q, Faced(corpus, name, q) PROVE Faced(new, name, q)
  <2> SUFFICES ASSUME q.type \in Links, NEW j \in DOMAIN new, q.to = new[j].name
               PROVE  \E s \in new[j].rels : s.type = Mirror(q.type) /\ s.to = name
    BY DEF Faced
  <2>1. j \in DOMAIN corpus /\ q.to = corpus[j].name /\ corpus[j].rels \subseteq new[j].rels
    BY <1>6
  <2>2. \E s \in corpus[j].rels : s.type = Mirror(q.type) /\ s.to = name
    BY <1>10, <2>1 DEF Faced
  <2> QED BY <2>1, <2>2
<1>11. FacedSoFar'
  <2> SUFFICES ASSUME NEW i \in 1..n, NEW q \in packing.from[i].rels, ~(i = n /\ q \in packing.left \ {r})
               PROVE  Faced(new, new[i].name, q)
    BY <1>1, <1>7 DEF FacedSoFar
  <2>1. i \in DOMAIN corpus /\ new[i].name = corpus[i].name
    BY <1>4, <1>6
  <2>2. CASE i = n /\ q = r
    BY <1>6, <2>1, <2>2 DEF from
  <2>3. CASE ~(i = n /\ q \in packing.left)
    <3>1. Faced(corpus, corpus[i].name, q)
      BY <1>3, <2>3 DEF MirrorInv, FacedSoFar, n
    <3> QED BY <1>10, <2>1, <3>1
  <2> QED BY <2>2, <2>3
<1>12. \A i \in DOMAIN corpus : packing.from[i].rels \subseteq new[i].rels
  BY <1>3, <1>6 DEF MirrorInv
<1>13. DOMAIN packing.from = DOMAIN corpus /\ n \in 0..Len(corpus) /\ n # 0
  BY <1>3, <1>4 DEF MirrorInv, n
<1>14. MirrorInv'
  BY <1>1, <1>6, <1>7, <1>9, <1>11, <1>12, <1>13 DEF MirrorInv, Resolved, Stage
<1> QED BY <1>8, <1>14 DEF PackInv

LEMMA ResolvingKeeps ==
    ASSUME PackInv, ResolvingEnds PROVE PackInv'
<1>1. /\ packing.stage = "mirror" /\ packing' = [packing EXCEPT !.stage = "resolved"]
      /\ packing.left = {} /\ packing.at = Len(corpus) /\ corpus' = corpus
  BY DEF ResolvingEnds, Stage, Advance
<1>2. packing \in Packings
  BY DEF PackInv, PackTypeOK
<1>3. /\ packing' \in Packings /\ packing'.stage = "resolved" /\ packing'.from = packing.from
      /\ packing'.at = packing.at /\ packing'.left = packing.left /\ packing'.read = packing.read
  BY <1>1, <1>2 DEF Packings
<1>4. PackTypeOK' /\ ReadInv' /\ DocumentInv'
  BY <1>1, <1>3 DEF PackInv, PackTypeOK, ReadInv, ExcludedStaysOut, DocumentInv, Written, Stage
<1>5. MirrorInv /\ ~Stage("read")
  BY <1>1 DEF PackInv, Stage
<1>6. FacedSoFar'
  BY <1>1, <1>3, <1>5 DEF MirrorInv, FacedSoFar
<1>7. MirrorInv'
  BY <1>1, <1>3, <1>5, <1>6 DEF MirrorInv
<1> QED BY <1>4, <1>7 DEF PackInv

LEMMA TemplateKeeps ==
    ASSUME PackInv, ApplyTemplate PROVE PackInv'
<1>1. /\ packing.stage = "resolved" /\ packing' = [packing EXCEPT !.stage = "valid"]
      /\ corpus' = [i \in DOMAIN corpus |->
             IF Expected(corpus[i].name) = {} THEN corpus[i]
             ELSE [corpus[i] EXCEPT !.fields = [j \in DOMAIN corpus[i].fields |->
                     Weighed(corpus[i].fields[j])]]]
  BY DEF ApplyTemplate, Stage, Advance
<1>2. packing \in Packings
  BY DEF PackInv, PackTypeOK
<1>3. /\ packing' \in Packings /\ packing'.stage = "valid" /\ packing'.from = packing.from
      /\ packing'.at = packing.at /\ packing'.left = packing.left /\ packing'.read = packing.read
  BY <1>1, <1>2 DEF Packings
<1>4. MirrorInv /\ ~Stage("read") /\ Resolved
  BY <1>1 DEF PackInv, Stage, Resolved
<1>5. Len(corpus) \in Nat /\ DOMAIN corpus = 1..Len(corpus) /\ \A i \in DOMAIN corpus : corpus[i] \in IREntity
  BY CorpusIsListed DEF PackInv
<1>6. ASSUME NEW i \in DOMAIN corpus
      PROVE  /\ corpus'[i] \in IREntity /\ corpus'[i].name = corpus[i].name /\ corpus'[i].rels = corpus[i].rels
             /\ LinksOnce(corpus[i])' /\ LinksRelated(corpus[i])'
  <2> DEFINE e == corpus[i]
             weighed == [e EXCEPT !.fields = [j \in DOMAIN e.fields |-> Weighed(e.fields[j])]]
             new == corpus'[i]
  <2>1. e \in IREntity /\ LinksOnce(e) /\ LinksRelated(e)
    BY <1>4, <1>5 DEF MirrorInv
  <2>2. new = e \/ new = weighed
    BY <1>1
  <2> HIDE DEF new, e
  <2>3. /\ weighed \in IREntity /\ weighed.name = e.name /\ weighed.rels = e.rels
        /\ LinksOnce(weighed) /\ LinksRelated(weighed)
    BY <2>1, WeighedSaysTheSame
  <2> HIDE DEF weighed
  <2>4. new \in IREntity /\ new.name = e.name /\ new.rels = e.rels /\ LinksOnce(new) /\ LinksRelated(new)
    BY <2>1, <2>2, <2>3
  <2> QED BY <2>4 DEF new, e, LinksOnce, LinksRelated, InverseAt
<1>7. corpus' \in Seq(IREntity) /\ DOMAIN corpus' = DOMAIN corpus /\ Len(corpus') = Len(corpus)
  <2> DEFINE new == corpus'  n == Len(corpus)
  <2>1. DOMAIN new = 1..n /\ new = [i \in 1..n |-> new[i]] /\ n \in Nat
    BY <1>1, <1>5
  <2>2. \A i \in 1..n : new[i] \in IREntity
    BY <1>5, <1>6
  <2> HIDE DEF new, n
  <2>3. new \in Seq(IREntity) /\ DOMAIN new = 1..n /\ Len(new) = n
    BY <2>1, <2>2
  <2> QED BY <1>5, <2>3 DEF new, n
<1>8. PackTypeOK' /\ ReadInv' /\ DocumentInv'
  BY <1>3, <1>7 DEF PackInv, PackTypeOK, ReadInv, ExcludedStaysOut, DocumentInv, Written, Stage
<1>9. ASSUME NEW name, NEW q, Faced(corpus, name, q) PROVE Faced(corpus', name, q)
  <2> SUFFICES ASSUME q.type \in Links, NEW j \in DOMAIN corpus', q.to = corpus'[j].name
               PROVE  \E s \in corpus'[j].rels : s.type = Mirror(q.type) /\ s.to = name
    BY DEF Faced
  <2>1. j \in DOMAIN corpus /\ q.to = corpus[j].name /\ corpus'[j].rels = corpus[j].rels
    BY <1>6, <1>7
  <2> QED BY <1>9, <2>1 DEF Faced
<1>10. FacedSoFar'
  <2> SUFFICES ASSUME NEW i \in 1..packing.at, NEW r \in packing.from[i].rels,
                      ~(i = packing.at /\ r \in packing.left)
               PROVE  Faced(corpus', corpus'[i].name, r)
    BY <1>3 DEF FacedSoFar, Faced
  <2>1. Faced(corpus, corpus[i].name, r)
    BY <1>4 DEF MirrorInv, FacedSoFar
  <2>2. i \in DOMAIN corpus
    BY <1>4, <1>5 DEF MirrorInv
  <2> QED BY <1>6, <1>9, <2>1, <2>2
<1>11. NamesApart(corpus)'
  BY <1>4, <1>6, <1>7 DEF MirrorInv, NamesApart
<1>12. MirrorInv'
  BY <1>3, <1>4, <1>6, <1>7, <1>10, <1>11 DEF MirrorInv
<1> QED BY <1>8, <1>12 DEF PackInv

\* A step of writing leaves what it writes from.
LEMMA WritingLeaves ==
    ASSUME PackInv, NEW s \in {"written", "hydrated", "expanded"}, Resolved,
           Advance(s), corpus' = corpus
    PROVE  /\ PackTypeOK' /\ ReadInv' /\ MirrorInv'
           /\ packing'.stage = s /\ packing'.strict = packing.strict
<1>1. packing \in Packings
  BY DEF PackInv, PackTypeOK
<1>2. /\ packing' \in Packings /\ packing'.stage = s /\ packing'.from = packing.from
      /\ packing'.at = packing.at /\ packing'.left = packing.left /\ packing'.read = packing.read
      /\ packing'.strict = packing.strict
  BY <1>1 DEF Packings, Advance
<1>3. PackTypeOK' /\ ReadInv'
  BY <1>2 DEF PackInv, PackTypeOK, ReadInv, ExcludedStaysOut, Stage
<1>4. MirrorInv /\ ~Stage("read")
  BY DEF PackInv, Resolved
<1>5. FacedSoFar'
  BY <1>2, <1>4 DEF MirrorInv, FacedSoFar
<1>6. MirrorInv'
  BY <1>2, <1>4, <1>5 DEF MirrorInv
<1> QED BY <1>2, <1>3, <1>6

\* A protected field whose key has no other field is shown.
LEMMA ProtectedIsShown ==
    ASSUME PackTypeOK, NEW i \in DOMAIN corpus, NEW f \in ToSet(corpus[i].fields),
           f.prot, ~f.inferred, FieldsAt(i, f.key) = {f}
    PROVE  \E p \in Shown(corpus[i], packing) : corpus[i].fields[p] = f
<1> DEFINE e == corpus[i]
           fs == e.fields
           same == {p \in DOMAIN fs : fs[p].key = f.key}
<1>1. fs \in Seq(IRField) /\ Len(fs) \in Nat /\ DOMAIN fs = 1..Len(fs)
  <2>1. e \in IREntity
    BY CorpusIsListed
  <2> QED BY <2>1 DEF IREntity
<1>2. PICK p \in DOMAIN fs : fs[p] = f
  BY DEF ToSet
<1>3. ASSUME NEW q \in same PROVE fs[q] = f
  <2>1. fs[q] \in FieldsAt(i, f.key)
    BY DEF FieldsAt, ToSet
  <2> QED BY <2>1
<1>4. same \in SUBSET (1..Len(fs)) /\ p \in same
  BY <1>1, <1>2
<1>5. PICK g \in same : \A q \in same : q <= g
  BY <1>1, <1>4, GreatestPosition
<1> DEFINE last == CHOOSE k \in same : \A q \in same : q <= k
<1>6. last \in same
  BY <1>5
<1>7. ActionOf(e, f, packing.preset) = "include"
  <2>1. CASE packing.preset = "none"
    BY <2>1 DEF ActionOf
  <2>2. CASE packing.preset # "none"
    <3>1. ActionOf(e, f, packing.preset) = Decision(fs[last], packing.preset)
      BY <2>2 DEF ActionOf
    <3>2. fs[last] = f
      BY <1>3, <1>6
    <3> HIDE DEF last
    <3>3. Decision(f, packing.preset) = "include"
      BY DEF Decision, MustPreserve
    <3> QED BY <3>1, <3>2, <3>3
  <2> QED BY <2>1, <2>2
<1> HIDE DEF last, same
<1>8. p \in Shown(e, packing)
  BY <1>2, <1>7 DEF Shown, Hidden
<1> QED BY <1>2, <1>8

LEMMA WriteKeeps ==
    ASSUME PackInv, Write PROVE PackInv'
<1>1. /\ Resolved /\ Advance("written") /\ corpus' = corpus
      /\ document' = [i \in DOMAIN corpus |-> SectionOf(corpus[i], packing)]
  BY DEF Write, Stage, Resolved
<1>2. PackTypeOK' /\ ReadInv' /\ MirrorInv' /\ packing'.stage = "written" /\ packing'.strict = packing.strict
  BY <1>1, WritingLeaves
<1>3. PackTypeOK /\ \A i \in DOMAIN corpus : corpus[i] \in IREntity
  BY CorpusIsListed DEF PackInv
<1>4. ASSUME NEW i \in DOMAIN corpus
      PROVE  /\ document'[i] \in [name : Word, said : Seq(Line)]
             /\ Says(corpus[i], Shown(corpus[i], packing), document'[i].said)
  <2>1. document'[i] = SectionOf(corpus[i], packing)
    BY <1>1
  <2> QED BY <1>3, <2>1, SectionSays
<1>5. StrictSaysOnlyTheStated'
  <2> SUFFICES ASSUME packing.strict, NEW i \in DOMAIN corpus, NEW l \in ToSet(document'[i].said)
               PROVE  ~l.inferred
    BY <1>1, <1>2 DEF StrictSaysOnlyTheStated, ToSet
  <2>1. PICK p \in Shown(corpus[i], packing) : l.inferred = corpus[i].fields[p].inferred
    BY <1>4 DEF Says
  <2> QED BY <2>1 DEF Shown, Hidden
<1>6. ProtectedFieldsStay'
  <2> SUFFICES ASSUME NEW i \in DOMAIN corpus, NEW f \in ToSet(corpus[i].fields),
                      f.prot, ~f.inferred, FieldsAt(i, f.key) = {f}
               PROVE  f.key \in {l.key : l \in ToSet(document'[i].said)}
    BY <1>1 DEF ProtectedFieldsStay, FieldsAt, ToSet
  <2>1. PICK p \in Shown(corpus[i], packing) : corpus[i].fields[p] = f
    BY <1>3, ProtectedIsShown
  <2>2. \E l \in ToSet(document'[i].said) : l.key = f.key
    BY <1>4, <2>1 DEF Says
  <2> QED BY <2>2
<1>7. HydrationReturnsTheDropped'
  BY <1>2 DEF HydrationReturnsTheDropped, Stage
<1>8. DocumentInv'
  BY <1>1, <1>4, <1>5, <1>6, <1>7 DEF DocumentInv
<1> QED BY <1>2, <1>8 DEF PackInv

\* What a pass adds is of fields that are not hidden.
LEMMA AddingKeeps ==
    ASSUME PackInv, Written, NEW s \in {"hydrated", "expanded"}, NEW how \in {"full", "raw"},
           Advance(s), corpus' = corpus,
           NEW added, \A i \in DOMAIN corpus : added[i] \in SUBSET DOMAIN corpus[i].fields,
           \A i \in DOMAIN corpus : \A p \in added[i] : ~Hidden(corpus[i].fields[p], packing.strict),
           document' = [i \in DOMAIN document |->
                          Adding(document[i], Lines(corpus[i], InPlace(added[i]), Plainly(corpus[i], how)))]
    PROVE  /\ PackTypeOK' /\ ReadInv' /\ MirrorInv'
           /\ packing'.stage = s /\ packing'.strict = packing.strict
           /\ DOMAIN document' = DOMAIN corpus
           /\ \A i \in DOMAIN corpus : document'[i] \in [name : Word, said : Seq(Line)]
           /\ StrictSaysOnlyTheStated' /\ ProtectedFieldsStay'
           /\ \A i \in DOMAIN corpus :
                 /\ ToSet(document[i].said) \subseteq ToSet(document'[i].said)
                 /\ \A p \in added[i] : corpus[i].fields[p].key \in {l.key : l \in ToSet(document'[i].said)}
<1>1. PackTypeOK' /\ ReadInv' /\ MirrorInv' /\ packing'.stage = s /\ packing'.strict = packing.strict
  <2>1. Resolved
    BY DEF Written, Resolved, Stage
  <2> QED BY <2>1, WritingLeaves
<1>2. \A i \in DOMAIN corpus : corpus[i] \in IREntity
  BY CorpusIsListed DEF PackInv
<1>3. /\ DOMAIN document = DOMAIN corpus
      /\ \A i \in DOMAIN corpus : document[i] \in [name : Word, said : Seq(Line)]
      /\ StrictSaysOnlyTheStated /\ ProtectedFieldsStay
  BY DEF PackInv, DocumentInv
<1> DEFINE more(i) == Lines(corpus[i], InPlace(added[i]), Plainly(corpus[i], how))
<1>4. ASSUME NEW i \in DOMAIN corpus
      PROVE  /\ document'[i] \in [name : Word, said : Seq(Line)]
             /\ Says(corpus[i], added[i], more(i))
             /\ ToSet(document'[i].said) = ToSet(document[i].said) \cup ToSet(more(i))
  <2>1. document'[i] = Adding(document[i], more(i))
    BY <1>3
  <2>2. corpus[i] \in IREntity /\ added[i] \in SUBSET DOMAIN corpus[i].fields
        /\ document[i] \in [name : Word, said : Seq(Line)]
    BY <1>2, <1>3
  <2>3. /\ Adding(document[i], more(i)) \in [name : Word, said : Seq(Line)]
        /\ Says(corpus[i], added[i], more(i))
        /\ ToSet(Adding(document[i], more(i)).said) = ToSet(document[i].said) \cup ToSet(more(i))
    BY <2>2, AddedLines
  <2> HIDE DEF more
  <2> QED BY <2>1, <2>3
<1> HIDE DEF more
<1>5. DOMAIN document' = DOMAIN corpus
  BY <1>3
<1>6. StrictSaysOnlyTheStated'
  <2> SUFFICES ASSUME packing.strict, NEW i \in DOMAIN corpus, NEW l \in ToSet(document'[i].said)
               PROVE  ~l.inferred
    BY <1>1, <1>5 DEF StrictSaysOnlyTheStated
  <2>1. CASE l \in ToSet(document[i].said)
    BY <1>3, <2>1 DEF StrictSaysOnlyTheStated
  <2>2. CASE l \in ToSet(more(i))
    <3>1. PICK p \in added[i] : l.inferred = corpus[i].fields[p].inferred
      <4>1. Says(corpus[i], added[i], more(i))
        BY <1>4
      <4> QED BY <2>2, <4>1 DEF Says
    <3> QED BY <3>1 DEF Hidden
  <2> QED BY <1>4, <2>1, <2>2
<1>7. ProtectedFieldsStay'
  <2> SUFFICES ASSUME NEW i \in DOMAIN corpus, NEW f \in ToSet(corpus[i].fields),
                      f.prot, ~f.inferred, FieldsAt(i, f.key) = {f}
               PROVE  f.key \in {l.key : l \in ToSet(document'[i].said)}
    BY <1>5 DEF ProtectedFieldsStay, FieldsAt
  <2>1. f.key \in {l.key : l \in ToSet(document[i].said)}
    BY <1>3 DEF ProtectedFieldsStay
  <2> QED BY <1>4, <2>1
<1>8. ASSUME NEW i \in DOMAIN corpus
      PROVE  /\ ToSet(document[i].said) \subseteq ToSet(document'[i].said)
             /\ \A p \in added[i] : corpus[i].fields[p].key \in {l.key : l \in ToSet(document'[i].said)}
  <2>1. ToSet(document[i].said) \subseteq ToSet(document'[i].said)
    BY <1>4
  <2>2. ASSUME NEW p \in added[i]
        PROVE  \E l \in ToSet(document'[i].said) : l.key = corpus[i].fields[p].key
    <3>1. PICK l \in ToSet(more(i)) : l.key = corpus[i].fields[p].key
      BY <1>4 DEF Says
    <3> QED BY <1>4, <3>1
  <2> QED BY <2>1, <2>2
<1> QED BY <1>1, <1>4, <1>5, <1>6, <1>7, <1>8

LEMMA HydrateKeeps ==
    ASSUME PackInv, Hydrate PROVE PackInv'
<1> DEFINE added == [i \in DOMAIN corpus |-> LeftOut(corpus[i], document[i], packing)]
<1>1. /\ Written /\ Advance("hydrated") /\ corpus' = corpus
      /\ document' = [i \in DOMAIN document |-> HydratedSection(corpus[i], document[i], packing)]
  BY DEF Hydrate, Stage, Written
<1>2. DOMAIN document = DOMAIN corpus
  BY <1>1 DEF PackInv, DocumentInv
<1>3. document' = [i \in DOMAIN document |->
                     Adding(document[i], Lines(corpus[i], InPlace(added[i]), Plainly(corpus[i], "full")))]
  BY <1>1, <1>2 DEF HydratedSection
<1>4. ASSUME NEW i \in DOMAIN corpus
      PROVE  /\ added[i] \in SUBSET DOMAIN corpus[i].fields
             /\ \A p \in added[i] : ~Hidden(corpus[i].fields[p], packing.strict)
             /\ \A p \in DOMAIN corpus[i].fields :
                   \/ Hidden(corpus[i].fields[p], packing.strict)
                   \/ p \in added[i]
                   \/ corpus[i].fields[p].key \in {l.key : l \in ToSet(document[i].said)}
  BY DEF LeftOut
<1> HIDE DEF added
<1>5. /\ PackTypeOK' /\ ReadInv' /\ MirrorInv'
      /\ packing'.stage = "hydrated" /\ packing'.strict = packing.strict
      /\ DOMAIN document' = DOMAIN corpus
      /\ \A i \in DOMAIN corpus : document'[i] \in [name : Word, said : Seq(Line)]
      /\ StrictSaysOnlyTheStated' /\ ProtectedFieldsStay'
      /\ \A i \in DOMAIN corpus :
            /\ ToSet(document[i].said) \subseteq ToSet(document'[i].said)
            /\ \A p \in added[i] : corpus[i].fields[p].key \in {l.key : l \in ToSet(document'[i].said)}
  BY <1>1, <1>3, <1>4, AddingKeeps
<1>6. HydrationReturnsTheDropped'
  <2> SUFFICES ASSUME NEW i \in DOMAIN corpus, NEW f \in ToSet(corpus[i].fields),
                      ~Hidden(f, packing.strict)
               PROVE  f.key \in {l.key : l \in ToSet(document'[i].said)}
    BY <1>1, <1>5 DEF HydrationReturnsTheDropped, Hidden
  <2>1. PICK p \in DOMAIN corpus[i].fields : corpus[i].fields[p] = f
    BY DEF ToSet
  <2>2. p \in added[i] \/ f.key \in {l.key : l \in ToSet(document[i].said)}
    BY <1>4, <2>1
  <2> QED BY <1>5, <2>1, <2>2
<1>7. DocumentInv'
  BY <1>1, <1>5, <1>6 DEF DocumentInv
<1> QED BY <1>5, <1>7 DEF PackInv

LEMMA ExpandKeeps ==
    ASSUME PackInv, Expand PROVE PackInv'
<1> DEFINE added == [i \in DOMAIN corpus |->
                       {p \in DOMAIN corpus[i].fields :
                          corpus[i].fields[p].raw /\ ~Hidden(corpus[i].fields[p], packing.strict)}]
<1>1. /\ Written /\ Advance("expanded") /\ corpus' = corpus
      /\ document' = [i \in DOMAIN document |-> ExpandedSection(corpus[i], document[i], packing)]
  BY DEF Expand, Stage, Written
<1>2. DOMAIN document = DOMAIN corpus
  BY <1>1 DEF PackInv, DocumentInv
<1>3. document' = [i \in DOMAIN document |->
                     Adding(document[i], Lines(corpus[i], InPlace(added[i]), Plainly(corpus[i], "raw")))]
  BY <1>1, <1>2 DEF ExpandedSection
<1>4. ASSUME NEW i \in DOMAIN corpus
      PROVE  /\ added[i] \in SUBSET DOMAIN corpus[i].fields
             /\ \A p \in added[i] : ~Hidden(corpus[i].fields[p], packing.strict)
  OBVIOUS
<1> HIDE DEF added
<1>5. /\ PackTypeOK' /\ ReadInv' /\ MirrorInv'
      /\ packing'.stage = "expanded"
      /\ DOMAIN document' = DOMAIN corpus
      /\ \A i \in DOMAIN corpus : document'[i] \in [name : Word, said : Seq(Line)]
      /\ StrictSaysOnlyTheStated' /\ ProtectedFieldsStay'
  BY <1>1, <1>3, <1>4, AddingKeeps
<1>6. HydrationReturnsTheDropped'
  BY <1>5 DEF HydrationReturnsTheDropped, Stage
<1>7. DocumentInv'
  BY <1>1, <1>5, <1>6 DEF DocumentInv
<1> QED BY <1>5, <1>7 DEF PackInv

LEMMA PackStutters ==
    ASSUME PackInv, UNCHANGED packVars PROVE PackInv'
<1>1. packing' = packing /\ corpus' = corpus /\ document' = document
  BY DEF packVars
<1>2. PackTypeOK' /\ ReadInv'
  BY <1>1 DEF PackInv, PackTypeOK, ReadInv, ExcludedStaysOut, Stage
<1>3. MirrorInv'
  BY <1>1 DEF PackInv, MirrorInv, FacedSoFar, Resolved, Stage
<1>4. DocumentInv'
  BY <1>1 DEF PackInv, DocumentInv, Written, StrictSaysOnlyTheStated, ProtectedFieldsStay,
              HydrationReturnsTheDropped, FieldsAt, Stage
<1> QED BY <1>2, <1>3, <1>4 DEF PackInv

LEMMA PackKeeps == PackInv /\ [PackNext]_packVars => PackInv'
<1> SUFFICES ASSUME PackInv, [PackNext]_packVars PROVE PackInv'
  OBVIOUS
<1>1. ASSUME NEW f \in CorpusFile, ReadFile(f) PROVE PackInv'
  BY <1>1, ReadKeeps
<1>2. CASE ResolveCorpus
  BY <1>2, MergeKeeps
<1>3. CASE NextEntity
  BY <1>3, NextEntityKeeps
<1>4. ASSUME NEW r \in packing.left, InferInverse(r) PROVE PackInv'
  BY <1>4, InferenceKeeps
<1>5. CASE ResolvingEnds
  BY <1>5, ResolvingKeeps
<1>6. CASE ApplyTemplate
  BY <1>6, TemplateKeeps
<1>7. CASE Write
  BY <1>7, WriteKeeps
<1>8. CASE Hydrate
  BY <1>8, HydrateKeeps
<1>9. CASE Expand
  BY <1>9, ExpandKeeps
<1>10. CASE UNCHANGED packVars
  BY <1>10, PackStutters
<1> QED BY <1>1, <1>2, <1>3, <1>4, <1>5, <1>6, <1>7, <1>8, <1>9, <1>10 DEF PackNext

LEMMA PackInvSuffices == PackInv => PackKeepsWhatIsStated
<1> SUFFICES ASSUME PackInv PROVE PackKeepsWhatIsStated
  OBVIOUS
<1>1. RelationsReadBothWays
  <2> SUFFICES ASSUME Resolved, NEW i \in DOMAIN corpus, NEW j \in DOMAIN corpus,
                      NEW r \in packing.from[i].rels, r.to = corpus[j].name, r.type \in Links
               PROVE  /\ \E s \in corpus[j].rels : s.type = Mirror(r.type) /\ s.to = corpus[i].name
                      /\ \A p, q \in InverseFields(corpus[j], Mirror(r.type), corpus[i].name) : p = q
    BY DEF RelationsReadBothWays
  <2>1. MirrorInv /\ ~Stage("read")
    BY DEF PackInv, Resolved
  <2>2. i \in 1..packing.at /\ packing.left = {} /\ corpus[i].name \in Word
    BY <2>1, CorpusIsListed DEF MirrorInv, PackInv, IREntity
  <2>3. Faced(corpus, corpus[i].name, r)
    BY <2>1, <2>2 DEF MirrorInv, FacedSoFar
  <2>4. \E s \in corpus[j].rels : s.type = Mirror(r.type) /\ s.to = corpus[i].name
    BY <2>3 DEF Faced
  <2>5. Mirror(r.type) \in Links /\ LinksOnce(corpus[j])
    BY <2>1 DEF Mirror, Links, MirrorInv
  <2>6. \A p, q \in InverseFields(corpus[j], Mirror(r.type), corpus[i].name) : p = q
    BY <2>2, <2>5 DEF LinksOnce, InverseFields, InverseAt
  <2> QED BY <2>4, <2>6
<1>2. StrictSaysOnlyTheStated /\ ProtectedFieldsStay /\ HydrationReturnsTheDropped
  <2>1. CASE Written
    BY <2>1 DEF PackInv, DocumentInv
  <2>2. CASE ~Written
    BY <2>2 DEF StrictSaysOnlyTheStated, ProtectedFieldsStay, HydrationReturnsTheDropped, Written
  <2> QED BY <2>1, <2>2
<1> QED BY <1>1, <1>2 DEF PackKeepsWhatIsStated, PackInv, ReadInv

\* A pack of any corpus, with any template and any preset, keeps and says what
\* its sources say: nothing inferred in a strict one, no protected field and no
\* hydrated key missing, and every relation at both its ends, its inverse once.
THEOREM PacksKeepWhatIsStated == PackSpec => []PackKeepsWhatIsStated
<1> QED BY PackInitially, PackKeeps, PackInvSuffices, PTL DEF PackSpec

-----------------------------------------------------------------------------
(***************************************************************************)
(* What a transcript's ledger keeps.                                       *)
(*                                                                         *)
(* Every operator of the parser adds some names to the ledger and one      *)
(* piece of evidence to each of them, and leaves the rest; that relation   *)
(* composes, so what an entry asserts depends on the entry alone.          *)
(***************************************************************************)
Speakers == {"user", "assistant", "tool"}
LedgerEntity ==
    [name : EntityNames, turn : Nat, role : Speakers \cup {"none"},
     roles : SUBSET ((Speakers \cup {"none"}) \X Nat),
     basis : {"marker_stated", "user_imperative", "literal_extractor", "structural", "inferred"},
     sup : {NoFact} \cup {Means[s].ref : s \in Sentence},
     why : {NoReason} \cup {Means[s].why : s \in Sentence},
     state : {"none", "pending", "done"}]
Ledgers ==
    {led \in Seq(LedgerEntity) :
        /\ \A i, j \in DOMAIN led : led[i].name = led[j].name => i = j
        /\ \A i \in DOMAIN led : led[i].why # NoReason => led[i].sup # NoFact}

\* the named fact has this evidence, and is declared to supersede that one
Shows(led, n, r, k) == \E i \in DOMAIN led : led[i].name = n /\ <<r, k>> \in Evidence(led[i])
Overrides(led, n, f) == f # NoFact /\ \E i \in DOMAIN led : led[i].name = n /\ led[i].sup = f
Reasoned(led, n) == \E i \in DOMAIN led : led[i].name = n /\ led[i].why # NoReason

\* what FirstAssertionStands says of one step
Grows(led, new) ==
    /\ Len(new) >= Len(led)
    /\ \A i \in DOMAIN led :
        /\ new[i].name = led[i].name /\ new[i].turn = led[i].turn
        /\ new[i].role = led[i].role /\ new[i].basis = led[i].basis
        /\ led[i].roles \subseteq new[i].roles
        /\ led[i].sup # NoFact => new[i].sup = led[i].sup
        /\ led[i].why # NoReason => new[i].why = led[i].why

Adds(led, A, role, t, new) ==
    /\ new \in Ledgers
    /\ Grows(led, new)
    /\ \A n : Named(new, n) <=> Named(led, n) \/ n \in A
    /\ \A n, k : \A r \in Speakers :
            Shows(new, n, r, k) <=> Shows(led, n, r, k) \/ (n \in A /\ r = role /\ k = t)
    /\ \A i \in DOMAIN new : i \in DOMAIN led \/ new[i].turn = t
KeepsOverrides(led, new) ==
    /\ \A n, f : Overrides(new, n, f) => Overrides(led, n, f)
    /\ \A n : Reasoned(new, n) => Reasoned(led, n)

Fresh(e, role, t) ==
    /\ e \in LedgerEntity /\ e.role = role /\ e.turn = t /\ e.roles = {}
    /\ e.sup = NoFact /\ e.why = NoReason

LEMMA GrowsOn ==
    ASSUME NEW a \in Ledgers, NEW b \in Ledgers, NEW c \in Ledgers, Grows(a, b), Grows(b, c)
    PROVE  Grows(a, c)
<1>1. /\ DOMAIN a = 1..Len(a) /\ DOMAIN b = 1..Len(b) /\ DOMAIN c = 1..Len(c)
      /\ Len(a) \in Nat /\ Len(b) \in Nat /\ Len(c) \in Nat
  BY DEF Ledgers
<1>2. Len(a) <= Len(b) /\ Len(b) <= Len(c) /\ \A i \in DOMAIN a : i \in DOMAIN b
  BY <1>1 DEF Grows
<1>3. Len(c) >= Len(a)
  BY <1>1, <1>2
<1>4. ASSUME NEW i \in DOMAIN a
      PROVE  /\ c[i].name = a[i].name /\ c[i].turn = a[i].turn
             /\ c[i].role = a[i].role /\ c[i].basis = a[i].basis
             /\ a[i].roles \subseteq c[i].roles
             /\ a[i].sup # NoFact => c[i].sup = a[i].sup
             /\ a[i].why # NoReason => c[i].why = a[i].why
  BY <1>2, Zenon DEF Grows
<1> QED BY <1>3, <1>4, Zenon DEF Grows

\* What is added in two parts is added.
LEMMA AddsCompose ==
    ASSUME NEW a \in Ledgers, NEW A, NEW B, NEW role, NEW t, NEW b, NEW c,
           Adds(a, A, role, t, b), Adds(b, B, role, t, c)
    PROVE  Adds(a, A \cup B, role, t, c)
<1>1. b \in Ledgers /\ c \in Ledgers /\ Grows(a, b) /\ Grows(b, c)
  BY DEF Adds
<1>2. Grows(a, c)
  BY <1>1, GrowsOn
<1>3. \A n : Named(c, n) <=> Named(a, n) \/ n \in A \cup B
  <2>1. TAKE n
  <2>2. Named(b, n) <=> Named(a, n) \/ n \in A
    BY Zenon DEF Adds
  <2>3. Named(c, n) <=> Named(b, n) \/ n \in B
    BY Zenon DEF Adds
  <2> QED BY <2>2, <2>3
<1>4. \A n, k : \A r \in Speakers :
        Shows(b, n, r, k) <=> Shows(a, n, r, k) \/ (n \in A /\ r = role /\ k = t)
  BY Zenon DEF Adds
<1>5. \A n, k : \A r \in Speakers :
        Shows(c, n, r, k) <=> Shows(b, n, r, k) \/ (n \in B /\ r = role /\ k = t)
  BY Zenon DEF Adds
<1>6. \A n, k : \A r \in Speakers :
        Shows(c, n, r, k) <=> Shows(a, n, r, k) \/ (n \in A \cup B /\ r = role /\ k = t)
  <2>1. TAKE n, k
  <2>2. TAKE r \in Speakers
  <2>3. n \in A \cup B <=> n \in A \/ n \in B
    OBVIOUS
  <2> QED BY <1>4, <1>5, <2>3
<1>7. \A i \in DOMAIN c : i \in DOMAIN a \/ c[i].turn = t
  <2>1. \A i \in DOMAIN c : i \in DOMAIN b \/ c[i].turn = t
    BY Zenon DEF Adds
  <2>2. \A i \in DOMAIN b : i \in DOMAIN a \/ b[i].turn = t
    BY Zenon DEF Adds
  <2>3. \A i \in DOMAIN b : c[i].turn = b[i].turn
    BY <1>1 DEF Grows
  <2> QED BY <2>1, <2>2, <2>3, Zenon
<1> QED BY <1>1, <1>2, <1>3, <1>6, <1>7, Zenon DEF Adds

LEMMA AddsNothing ==
    ASSUME NEW a \in Ledgers, NEW role, NEW t
    PROVE  Adds(a, {}, role, t, a)
<1>1. Grows(a, a)
  <2>1. Len(a) \in Nat
    BY DEF Ledgers
  <2> QED BY <2>1 DEF Grows
<1> QED BY <1>1, Zenon DEF Adds

LEMMA PosIs ==
    ASSUME NEW led, NEW n, Named(led, n)
    PROVE  Pos(led, n) \in DOMAIN led /\ led[Pos(led, n)].name = n
  BY DEF Named, Pos

\* A new entity at the end.
LEMMA AppendAdds ==
    ASSUME NEW led \in Ledgers, NEW e \in LedgerEntity, ~Named(led, e.name), NEW role, NEW t,
           Fresh(e, role, t)
    PROVE  /\ Adds(led, {e.name}, role, t, Append(led, e))
           /\ KeepsOverrides(led, Append(led, e))
<1> DEFINE new == Append(led, e)
           m == Len(led)
<1>1. /\ led \in Seq(LedgerEntity) /\ m \in Nat /\ DOMAIN led = 1..m
      /\ new \in Seq(LedgerEntity) /\ Len(new) = m + 1 /\ DOMAIN new = 1..(m + 1)
      /\ new[m + 1] = e /\ \A i \in 1..m : new[i] = led[i]
  BY DEF Ledgers
<1> HIDE DEF new, m
<1>2. /\ \A i \in DOMAIN led : i \in DOMAIN new /\ new[i] = led[i]
      /\ m + 1 \in DOMAIN new
      /\ \A i \in DOMAIN new : i \in DOMAIN led \/ i = m + 1
  BY <1>1
<1>3. \A i \in DOMAIN led : led[i].name # e.name
  BY DEF Named
<1>4. new \in Ledgers
  <2>1. ASSUME NEW i \in DOMAIN new, NEW j \in DOMAIN new, new[i].name = new[j].name
        PROVE  i = j
    <3>1. CASE i \in DOMAIN led /\ j \in DOMAIN led
      BY <1>2, <2>1, <3>1, Zenon DEF Ledgers
    <3>2. CASE i \in DOMAIN led /\ j = m + 1
      BY <1>1, <1>2, <1>3, <2>1, <3>2, Zenon
    <3>3. CASE i = m + 1 /\ j \in DOMAIN led
      BY <1>1, <1>2, <1>3, <2>1, <3>3, Zenon
    <3> QED BY <1>2, <3>1, <3>2, <3>3
  <2>2. \A i \in DOMAIN new : new[i].why # NoReason => new[i].sup # NoFact
    <3>1. e.why = NoReason
      BY DEF Fresh
    <3>2. \A i \in DOMAIN led : led[i].why # NoReason => led[i].sup # NoFact
      BY Zenon DEF Ledgers
    <3> QED BY <1>1, <1>2, <3>1, <3>2, Zenon
  <2> QED BY <1>1, <2>1, <2>2 DEF Ledgers
<1>5. Grows(led, new)
  <2>1. Len(new) >= Len(led)
    BY <1>1 DEF m
  <2> QED BY <1>2, <2>1, Zenon DEF Grows
<1>6. \A n : Named(new, n) <=> Named(led, n) \/ n \in {e.name}
  BY <1>1, <1>2, Zenon DEF Named
<1>7. ASSUME NEW n, NEW k, NEW r \in Speakers
      PROVE  Shows(new, n, r, k) <=> Shows(led, n, r, k) \/ (n \in {e.name} /\ r = role /\ k = t)
  <2>1. <<r, k>> \in Evidence(e) <=> r = role /\ k = t
    BY DEF Evidence, Fresh
  <2> QED BY <1>1, <1>2, <2>1, Zenon DEF Shows
<1>8. KeepsOverrides(led, new)
  <2>1. e.sup = NoFact /\ e.why = NoReason
    BY DEF Fresh
  <2>2. \A n, f : Overrides(new, n, f) => Overrides(led, n, f)
    BY <1>1, <1>2, <2>1, Zenon DEF Overrides
  <2>3. \A n : Reasoned(new, n) => Reasoned(led, n)
    BY <1>1, <1>2, <2>1, Zenon DEF Reasoned
  <2> QED BY <2>2, <2>3, Zenon DEF KeepsOverrides
<1>9. Adds(led, {e.name}, role, t, new)
  <2>1. e.turn = t
    BY DEF Fresh
  <2>2. \A i \in DOMAIN new : i \in DOMAIN led \/ new[i].turn = t
    BY <1>1, <1>2, <2>1, Zenon
  <2> QED BY <1>4, <1>5, <1>6, <1>7, <2>2, Zenon DEF Adds
<1> QED BY <1>8, <1>9 DEF new

\* An entity of the ledger with something added to it.
LEMMA ChangeAdds ==
    ASSUME NEW led \in Ledgers, NEW p \in DOMAIN led, NEW x \in LedgerEntity,
           x.name = led[p].name, x.turn = led[p].turn, x.role = led[p].role,
           x.basis = led[p].basis, led[p].roles \subseteq x.roles,
           led[p].sup # NoFact => x.sup = led[p].sup,
           led[p].why # NoReason => x.why = led[p].why,
           x.why # NoReason => x.sup # NoFact
    PROVE  LET new == [led EXCEPT ![p] = x] IN
           /\ new \in Ledgers /\ Grows(led, new) /\ DOMAIN new = DOMAIN led
           /\ \A n : Reasoned(new, n) => Reasoned(led, n) \/ (n = x.name /\ x.why # NoReason)
           /\ \A n : Named(new, n) <=> Named(led, n)
           /\ \A n, r, k : Shows(new, n, r, k) <=>
                Shows(led, n, r, k) \/ (n = x.name /\ <<r, k>> \in x.roles)
           /\ \A n, f : Overrides(new, n, f) =>
                Overrides(led, n, f) \/ (n = x.name /\ f = x.sup /\ f # NoFact)
<1> DEFINE new == [led EXCEPT ![p] = x]
<1>1. /\ led \in Seq(LedgerEntity) /\ DOMAIN led = 1..Len(led) /\ Len(led) \in Nat
      /\ new \in Seq(LedgerEntity) /\ Len(new) = Len(led) /\ DOMAIN new = DOMAIN led
      /\ new[p] = x /\ \A i \in DOMAIN led : i # p => new[i] = led[i]
  BY DEF Ledgers
<1> HIDE DEF new
<1>2. \A i \in DOMAIN led : new[i].name = led[i].name
  BY <1>1, Zenon
<1>3. new \in Ledgers
  <2>1. \A i \in DOMAIN led : led[i].why # NoReason => led[i].sup # NoFact
    BY Zenon DEF Ledgers
  <2>2. ASSUME NEW i \in DOMAIN new, new[i].why # NoReason PROVE new[i].sup # NoFact
    <3>1. CASE i = p
      BY <1>1, <2>2, <3>1
    <3>2. CASE i # p
      BY <1>1, <2>1, <2>2, <3>2, Zenon
    <3> QED BY <3>1, <3>2
  <2>3. \A i, j \in DOMAIN new : new[i].name = new[j].name => i = j
    <3>1. \A i, j \in DOMAIN led : led[i].name = led[j].name => i = j
      BY Zenon DEF Ledgers
    <3> QED BY <1>1, <1>2, <3>1, Zenon
  <2>4. \A i \in DOMAIN new : new[i].why # NoReason => new[i].sup # NoFact
    BY <2>2
  <2> QED BY <1>1, <2>3, <2>4, Zenon DEF Ledgers
<1>4. Grows(led, new)
  <2>1. Len(new) >= Len(led)
    BY <1>1
  <2>2. ASSUME NEW i \in DOMAIN led
        PROVE  /\ new[i].name = led[i].name /\ new[i].turn = led[i].turn
               /\ new[i].role = led[i].role /\ new[i].basis = led[i].basis
               /\ led[i].roles \subseteq new[i].roles
               /\ led[i].sup # NoFact => new[i].sup = led[i].sup
               /\ led[i].why # NoReason => new[i].why = led[i].why
    <3>1. CASE i = p
      BY <1>1, <3>1
    <3>2. CASE i # p
      BY <1>1, <3>2, Zenon
    <3> QED BY <3>1, <3>2
  <2> QED BY <2>1, <2>2, Zenon DEF Grows
<1>5. \A n : Named(new, n) <=> Named(led, n)
  BY <1>1, <1>2, Zenon DEF Named
<1>6. ASSUME NEW n, NEW r, NEW k
      PROVE  Shows(new, n, r, k) <=>
                Shows(led, n, r, k) \/ (n = x.name /\ <<r, k>> \in x.roles)
  <2>1. \A i \in DOMAIN led : <<r, k>> \in Evidence(new[i]) <=>
            <<r, k>> \in Evidence(led[i]) \/ (i = p /\ <<r, k>> \in x.roles)
    <3>1. TAKE i \in DOMAIN led
    <3>2. CASE i = p
      BY <1>1, <3>2 DEF Evidence
    <3>3. CASE i # p
      BY <1>1, <3>3, Zenon
    <3> QED BY <3>2, <3>3
  <2> QED BY <1>1, <1>2, <2>1, Zenon DEF Shows
<1>7. ASSUME NEW n, NEW f, Overrides(new, n, f)
      PROVE  Overrides(led, n, f) \/ (n = x.name /\ f = x.sup /\ f # NoFact)
  BY <1>1, <1>7, Zenon DEF Overrides
<1>8. ASSUME NEW n, Reasoned(new, n)
      PROVE  Reasoned(led, n) \/ (n = x.name /\ x.why # NoReason)
  BY <1>1, <1>8, Zenon DEF Reasoned
<1> QED BY <1>1, <1>3, <1>4, <1>5, <1>6, <1>7, <1>8, Zenon DEF new

\* The first assertion makes the entity, and a later one is evidence.
LEMMA AddAdds ==
    ASSUME NEW led \in Ledgers, NEW e, NEW role, NEW t, Fresh(e, role, t)
    PROVE  Adds(led, {e.name}, role, t, Add(led, e)) /\ KeepsOverrides(led, Add(led, e))
<1>1. e \in LedgerEntity /\ e.role = role /\ e.turn = t
  BY DEF Fresh
<1>2. CASE ~Named(led, e.name)
  BY <1>1, <1>2, AppendAdds DEF Add
<1>3. CASE Named(led, e.name) /\ e.role = "none"
  <2>1. Add(led, e) = led
    BY <1>3 DEF Add
  <2>2. \A n : Named(led, n) <=> Named(led, n) \/ n \in {e.name}
    BY <1>3
  <2>3. role \notin Speakers
    BY <1>1, <1>3 DEF Speakers
  <2>4. Grows(led, led)
    BY AddsNothing DEF Adds
  <2>5. Adds(led, {e.name}, role, t, led)
    BY <2>2, <2>3, <2>4, Zenon DEF Adds
  <2> QED BY <2>1, <2>5, Zenon DEF KeepsOverrides
<1>4. CASE Named(led, e.name) /\ e.role # "none"
  <2> DEFINE p == Pos(led, e.name)
             x == MergeRole(led[p], e.role, e.turn)
  <2>1. p \in DOMAIN led /\ led[p].name = e.name
    BY <1>4, PosIs
  <2>2. led \in Seq(LedgerEntity) /\ led[p] \in LedgerEntity
    BY <2>1 DEF Ledgers
  <2>3. Add(led, e) = [led EXCEPT ![p] = x]
    BY <1>4, Zenon DEF Add
  <2>4. /\ x \in LedgerEntity /\ x.roles = led[p].roles \cup {<<led[p].role, led[p].turn>>, <<role, t>>}
        /\ x.name = e.name /\ x.turn = led[p].turn /\ x.role = led[p].role
        /\ x.basis = led[p].basis /\ x.sup = led[p].sup /\ x.why = led[p].why
    <3> DEFINE y == led[p]
               more == {<<y.role, y.turn>>, <<role, t>>}
    <3>1. /\ y \in LedgerEntity /\ y.name = e.name
          /\ role \in Speakers \cup {"none"} /\ t \in Nat
      BY <1>1, <2>1, <2>2 DEF LedgerEntity
    <3>2. x = [y EXCEPT !.roles = @ \cup more]
      BY <1>1 DEF MergeRole
    <3> HIDE DEF y, x
    <3>3. more \subseteq (Speakers \cup {"none"}) \X Nat
      BY <3>1 DEF LedgerEntity
    <3> HIDE DEF more
    <3>4. x \in LedgerEntity
      BY <3>1, <3>2, <3>3 DEF LedgerEntity
    <3>5. /\ x.roles = y.roles \cup more /\ x.name = y.name /\ x.turn = y.turn
          /\ x.role = y.role /\ x.basis = y.basis /\ x.sup = y.sup /\ x.why = y.why
      BY <3>1, <3>2 DEF LedgerEntity
    <3> QED BY <3>1, <3>4, <3>5 DEF y, more
  <2> HIDE DEF p, x
  <2> DEFINE new == [led EXCEPT ![p] = x]
  <2>5. /\ new \in Ledgers /\ Grows(led, new) /\ DOMAIN new = DOMAIN led
        /\ \A n : Reasoned(new, n) => Reasoned(led, n) \/ (n = x.name /\ x.why # NoReason)
        /\ \A n : Named(new, n) <=> Named(led, n)
        /\ \A n, r, k : Shows(new, n, r, k) <=>
                Shows(led, n, r, k) \/ (n = x.name /\ <<r, k>> \in x.roles)
        /\ \A n, f : Overrides(new, n, f) =>
                Overrides(led, n, f) \/ (n = x.name /\ f = x.sup /\ f # NoFact)
    <3>1. /\ x.name = led[p].name /\ led[p].roles \subseteq x.roles
          /\ led[p].sup # NoFact => x.sup = led[p].sup
          /\ led[p].why # NoReason => x.why = led[p].why
          /\ x.why # NoReason => x.sup # NoFact
      <4>1. led[p].why # NoReason => led[p].sup # NoFact
        BY <2>1, Zenon DEF Ledgers
      <4> QED BY <2>1, <2>4, <4>1
    <3> QED BY <2>1, <2>4, <3>1, ChangeAdds, Zenon
  <2> HIDE DEF new
  <2>6. \A n : Named(new, n) <=> Named(led, n) \/ n \in {e.name}
    BY <1>4, <2>5
  <2>7. ASSUME NEW n, NEW k, NEW r \in Speakers
        PROVE  Shows(new, n, r, k) <=> Shows(led, n, r, k) \/ (n \in {e.name} /\ r = role /\ k = t)
    <3>1. <<r, k>> \in x.roles <=> <<r, k>> \in Evidence(led[p]) \/ (r = role /\ k = t)
      BY <2>4 DEF Evidence
    <3>2. <<r, k>> \in Evidence(led[p]) => Shows(led, e.name, r, k)
      BY <2>1, Zenon DEF Shows
    <3> QED BY <2>4, <2>5, <3>1, <3>2
  <2>8. KeepsOverrides(led, new)
    <3>1. ASSUME NEW n, NEW f, Overrides(new, n, f) PROVE Overrides(led, n, f)
      <4>1. Overrides(led, n, f) \/ (n = x.name /\ f = x.sup /\ f # NoFact)
        BY <2>5, <3>1
      <4> QED BY <2>1, <2>4, <4>1, Zenon DEF Overrides
    <3>2. ASSUME NEW n, Reasoned(new, n) PROVE Reasoned(led, n)
      <4>1. Reasoned(led, n) \/ (n = x.name /\ x.why # NoReason)
        BY <2>5, <3>2
      <4> QED BY <2>1, <2>4, <4>1, Zenon DEF Reasoned
    <3> QED BY <3>1, <3>2, Zenon DEF KeepsOverrides
  <2>9. Adds(led, {e.name}, role, t, new)
    BY <2>5, <2>6, <2>7, Zenon DEF Adds
  <2> QED BY <2>3, <2>8, <2>9 DEF new
<1> QED BY <1>2, <1>3, <1>4

\* One entity after another.
LEMMA AddAllUnrolls ==
    ASSUME NEW led \in Ledgers, NEW es \in Seq(LedgerEntity),
           \A i \in DOMAIN es : Fresh(es[i], es[i].role, es[i].turn)
    PROVE  \E D \in [0..Len(es) -> Ledgers] :
           /\ AddAll(led, es) = D[Len(es)]
           /\ D[0] = led
           /\ \A i \in 1..Len(es) : D[i] = Add(D[i - 1], es[i])
<1> DEFINE n == Len(es)
           base == led
           step == [p \in Ledgers \X (1..n) |-> Add(p[1], es[p[2]])]
           Solves(f) == f = [i \in 0..n |-> IF i = 0 THEN base ELSE Add(f[i - 1], es[i])]
           D == CHOOSE f : Solves(f)
<1>1. base \in Ledgers /\ n \in Nat
  OBVIOUS
<1>2. step \in [Ledgers \X (1..n) -> Ledgers]
  <2>1. ASSUME NEW a \in Ledgers, NEW i \in 1..n PROVE Add(a, es[i]) \in Ledgers
    <3>1. i \in DOMAIN es
      OBVIOUS
    <3> QED BY <3>1, AddAdds DEF Adds
  <2> QED BY <2>1
<1>3. \A p \in Ledgers \X (1..n) : step[p] = Add(p[1], es[p[2]])
  OBVIOUS
<1>4. AddAll(led, es) = D[n]
  BY Zenon DEF AddAll
<1> HIDE DEF base, step, n, D
<1>5. PICK f \in [0..n -> Ledgers] : Recurs(f, n, base, step)
  BY <1>1, <1>2, RecursionExists
<1>6. \A k \in 1..n : f[k] = Add(f[k - 1], es[k])
  <2> TAKE k \in 1..n
  <2>1. <<f[k - 1], k>> \in Ledgers \X (1..n)
    BY <1>1
  <2> QED BY <1>3, <1>5, <2>1 DEF Recurs
<1>7. Solves(f)
  BY <1>1, <1>5, <1>6 DEF Recurs
<1>8. Solves(D)
  <2> HIDE DEF Solves
  <2> QED BY <1>7 DEF D
<1>9. DOMAIN D = 0..n /\ D[0] = base /\ \A i \in 1..n : D[i] = Add(D[i - 1], es[i])
  BY <1>1, <1>8
<1>10. D \in [0..n -> Ledgers]
  <2> DEFINE S == {i \in 0..n : D[i] \in Ledgers}
  <2>1. S \in SUBSET Nat /\ 0 \in S
    BY <1>1, <1>9
  <2>2. ASSUME NEW k \in S, k < n PROVE k + 1 \in S
    <3>1. k + 1 \in 1..n /\ (k + 1) - 1 = k
      BY <1>1, <2>2
    <3>2. D[k + 1] = Add(D[k], es[k + 1])
      BY <1>9, <3>1
    <3>3. step[<<D[k], k + 1>>] \in Ledgers
      BY <1>2, <3>1
    <3>4. step[<<D[k], k + 1>>] = Add(D[k], es[k + 1])
      BY <1>3, <3>1
    <3> QED BY <1>1, <2>2, <3>2, <3>3, <3>4
  <2> HIDE DEF S
  <2>3. 0..n \subseteq S
    BY <1>1, <2>1, <2>2, UpToInduction
  <2>4. \A i \in 0..n : D[i] \in Ledgers
    BY <2>3 DEF S
  <2>5. D = [i \in 0..n |-> D[i]]
    BY <1>8
  <2> QED BY <2>4, <2>5
<1> QED BY <1>4, <1>9, <1>10 DEF base, n

\* Entities added one after another are all added.
LEMMA AddAllAdds ==
    ASSUME NEW led \in Ledgers, NEW es \in Seq(LedgerEntity), NEW role, NEW t,
           \A i \in DOMAIN es : Fresh(es[i], role, t)
    PROVE  /\ Adds(led, {es[i].name : i \in DOMAIN es}, role, t, AddAll(led, es))
           /\ KeepsOverrides(led, AddAll(led, es))
<1> DEFINE n == Len(es)
           Upto(k) == {es[i].name : i \in 1..k}
<1>1. PICK D \in [0..n -> Ledgers] :
        /\ AddAll(led, es) = D[n]
        /\ D[0] = led
        /\ \A i \in 1..n : D[i] = Add(D[i - 1], es[i])
  <2>1. \A i \in DOMAIN es : Fresh(es[i], es[i].role, es[i].turn)
    BY DEF Fresh
  <2> QED BY <2>1, AddAllUnrolls
<1>2. n \in Nat /\ DOMAIN es = 1..n
  OBVIOUS
<1> HIDE DEF n
<1> DEFINE Done(k) == Adds(led, Upto(k), role, t, D[k]) /\ KeepsOverrides(led, D[k])
           S == {k \in 0..n : Done(k)}
<1>3. 0 \in S
  <2>1. Upto(0) = {}
    OBVIOUS
  <2> HIDE DEF Upto
  <2>2. Adds(led, Upto(0), role, t, D[0]) /\ KeepsOverrides(led, D[0])
    BY <1>1, <2>1, AddsNothing, Zenon DEF KeepsOverrides
  <2> QED BY <1>2, <2>2
<1>4. ASSUME NEW k \in S, k < n PROVE k + 1 \in S
  <2>1. k \in 0..n /\ k + 1 \in 1..n /\ (k + 1) - 1 = k /\ k \in Nat
    BY <1>2, <1>4
  <2>2. D[k] \in Ledgers /\ D[k + 1] = Add(D[k], es[k + 1]) /\ k + 1 \in DOMAIN es
    BY <1>1, <1>2, <2>1
  <2>3. /\ Adds(D[k], {es[k + 1].name}, role, t, D[k + 1])
        /\ KeepsOverrides(D[k], D[k + 1])
    BY <2>2, AddAdds
  <2>4. Upto(k + 1) = Upto(k) \cup {es[k + 1].name}
    BY <2>1
  <2> HIDE DEF Upto
  <2>5. Adds(led, Upto(k), role, t, D[k]) /\ KeepsOverrides(led, D[k]) /\ D[k + 1] \in Ledgers
    BY <2>1, <1>1
  <2>6. Adds(led, Upto(k + 1), role, t, D[k + 1])
    <3>1. Adds(led, Upto(k) \cup {es[k + 1].name}, role, t, D[k + 1])
      BY <2>2, <2>3, <2>5, AddsCompose
    <3> QED BY <2>4, <3>1
  <2>7. KeepsOverrides(led, D[k + 1])
    BY <2>3, <2>5, Zenon DEF KeepsOverrides
  <2> QED BY <2>1, <2>6, <2>7
<1>5. S \in SUBSET Nat
  BY <1>2
<1> HIDE DEF S
<1>6. n \in S
  BY <1>2, <1>3, <1>4, <1>5, UpToInduction
<1>7. Upto(n) = {es[i].name : i \in DOMAIN es}
  BY <1>2
<1> HIDE DEF Upto
<1> QED BY <1>1, <1>6, <1>7, Zenon DEF S

\* What a sentence gives to a pass over the text.
Given(pass, s, role) ==
    {n \in EntityNames :
        \/ pass = "incidents" /\ Is(s, "inc") /\ n = <<"INCIDENT", s>>
        \/ pass = "rules" /\ Is(s, "imp") /\ ~Is(s, "inc") /\ n = <<"CONSTRAINT", s>>
        \/ /\ pass = "literals" /\ ~Is(s, "inc") /\ ~(role = "assistant" /\ Is(s, "sup"))
           /\ \E l \in ToSet(Means[s].lits) : n = <<"LITERAL", l>>}
Passes == {"incidents", "rules", "literals"}
Supplies(es, A, role, t) ==
    /\ es \in Seq(LedgerEntity)
    /\ \A i \in DOMAIN es : Fresh(es[i], role, t)
    /\ {es[i].name : i \in DOMAIN es} = A
LEMMA EntityIsFresh ==
    ASSUME NEW n \in EntityNames, NEW role \in Speakers \cup {"none"}, NEW t \in Nat,
           NEW basis \in {"marker_stated", "user_imperative", "literal_extractor", "structural", "inferred"}
    PROVE  Fresh(Entity(n, role, basis, t), role, t) /\ Entity(n, role, basis, t).name = n
BY DEF Fresh, Entity, LedgerEntity

LEMMA YieldsAreGiven ==
    ASSUME NEW pass \in Passes, NEW s \in Sentence, NEW role \in Speakers, NEW t \in Nat
    PROVE  Supplies(Yields(pass, s, role, t), Given(pass, s, role), role, t)
<1> DEFINE es == Yields(pass, s, role, t)
           lits == Means[s].lits
<1>1. ASSUME NEW n \in EntityNames, NEW basis \in {"marker_stated", "user_imperative"},
             es = <<Entity(n, role, basis, t)>>, Given(pass, s, role) = {n}
      PROVE  Supplies(es, Given(pass, s, role), role, t)
  <2> DEFINE e == Entity(n, role, basis, t)
  <2>1. Fresh(e, role, t) /\ e.name = n
    BY EntityIsFresh
  <2>2. e \in LedgerEntity
    BY <2>1 DEF Fresh
  <2> HIDE DEF e, es
  <2>3. es = <<e>>
    BY <1>1 DEF e
  <2>4. es \in Seq(LedgerEntity) /\ DOMAIN es = {1} /\ es[1] = e
    BY <2>2, <2>3
  <2>5. {es[i].name : i \in DOMAIN es} = {n}
    BY <2>1, <2>4
  <2> QED BY <1>1, <2>1, <2>4, <2>5 DEF Supplies
<1>2. CASE pass = "incidents" /\ Is(s, "inc")
  <2>1. es = <<Entity(<<"INCIDENT", s>>, role, "marker_stated", t)>>
    BY <1>2 DEF Yields
  <2>2. <<"INCIDENT", s>> \in EntityNames
    BY DEF EntityNames
  <2>3. Given(pass, s, role) = {<<"INCIDENT", s>>}
    BY <1>2, <2>2 DEF Given
  <2> QED BY <1>1, <2>1, <2>2, <2>3
<1>3. CASE pass = "rules" /\ Is(s, "imp") /\ ~Is(s, "inc")
  <2>1. es = <<Entity(<<"CONSTRAINT", s>>, role, "user_imperative", t)>>
    BY <1>3 DEF Yields
  <2>2. <<"CONSTRAINT", s>> \in EntityNames
    BY DEF EntityNames
  <2>3. Given(pass, s, role) = {<<"CONSTRAINT", s>>}
    BY <1>3, <2>2 DEF Given
  <2> QED BY <1>1, <2>1, <2>2, <2>3
<1>4. CASE pass = "literals" /\ ~Is(s, "inc") /\ ~(role = "assistant" /\ Is(s, "sup"))
  <2>1. es = [i \in DOMAIN lits |-> Entity(<<"LITERAL", lits[i]>>, role, "literal_extractor", t)]
    BY <1>4 DEF Yields
  <2>2. lits \in Seq(ToSet(lits)) /\ ToSet(lits) = {lits[i] : i \in DOMAIN lits}
    BY MeansAssumption DEF ToSet
  <2>3. \A l \in ToSet(lits) : <<"LITERAL", l>> \in EntityNames
    BY DEF EntityNames, Identifiers
  <2>4. Given(pass, s, role) = {<<"LITERAL", l>> : l \in ToSet(lits)}
    BY <1>4, <2>3 DEF Given
  <2> HIDE DEF lits
  <2>5. /\ DOMAIN lits = 1..Len(lits) /\ Len(lits) \in Nat
        /\ \A i \in DOMAIN lits : lits[i] \in ToSet(lits)
    BY <2>2
  <2>6. ASSUME NEW i \in DOMAIN lits
        PROVE  Fresh(es[i], role, t) /\ es[i].name = <<"LITERAL", lits[i]>>
    BY <2>1, <2>3, <2>5, EntityIsFresh
  <2>7. DOMAIN es = DOMAIN lits /\ \A i \in DOMAIN es : es[i] \in LedgerEntity
    BY <2>1, <2>6 DEF Fresh
  <2>8. es \in Seq(LedgerEntity)
    BY <2>1, <2>5, <2>7
  <2>9. {es[i].name : i \in DOMAIN es} = {<<"LITERAL", l>> : l \in ToSet(lits)}
    <3>1. \A l : l \in ToSet(lits) <=> \E i \in DOMAIN lits : l = lits[i]
      BY <2>2
    <3>2. \A n : n \in {es[i].name : i \in DOMAIN es} <=> \E i \in DOMAIN lits : n = <<"LITERAL", lits[i]>>
      BY <2>6, <2>7, Zenon
    <3>3. \A n : n \in {<<"LITERAL", l>> : l \in ToSet(lits)} <=>
                \E i \in DOMAIN lits : n = <<"LITERAL", lits[i]>>
      BY <3>1, Zenon
    <3> QED BY <3>2, <3>3, Zenon
  <2> QED BY <2>4, <2>6, <2>7, <2>8, <2>9 DEF Supplies
<1>5. CASE ~(pass = "incidents" /\ Is(s, "inc")) /\ ~(pass = "rules" /\ Is(s, "imp") /\ ~Is(s, "inc"))
           /\ ~(pass = "literals" /\ ~Is(s, "inc") /\ ~(role = "assistant" /\ Is(s, "sup")))
  <2>1. es = <<>>
    BY <1>5, Zenon DEF Yields
  <2>2. Given(pass, s, role) = {}
    BY <1>5 DEF Given
  <2>3. es \in Seq(LedgerEntity) /\ DOMAIN es = {}
    BY <2>1
  <2> QED BY <2>2, <2>3 DEF Supplies
<1> QED BY <1>2, <1>3, <1>4, <1>5

\* What a sentence gives to a pass is added.
LEMMA GivesAll ==
    ASSUME NEW led \in Ledgers, NEW pass \in Passes, NEW s \in Sentence, NEW role \in Speakers, NEW t \in Nat
    PROVE  LET new == AddAll(led, Yields(pass, s, role, t)) IN
           Adds(led, Given(pass, s, role), role, t, new) /\ KeepsOverrides(led, new)
<1> DEFINE es == Yields(pass, s, role, t)
<1>1. Supplies(es, Given(pass, s, role), role, t)
  BY YieldsAreGiven
<1> HIDE DEF es
<1>2. /\ es \in Seq(LedgerEntity) /\ \A i \in DOMAIN es : Fresh(es[i], role, t)
      /\ {es[i].name : i \in DOMAIN es} = Given(pass, s, role)
  BY <1>1 DEF Supplies
<1>3. /\ Adds(led, {es[i].name : i \in DOMAIN es}, role, t, AddAll(led, es))
      /\ KeepsOverrides(led, AddAll(led, es))
  BY <1>2, AddAllAdds
<1> QED BY <1>2, <1>3 DEF es

\* A pass takes one sentence after another.
LEMMA ExtractUnrolls ==
    ASSUME NEW led \in Ledgers, NEW txt \in Seq(Sentence), NEW role \in Speakers, NEW t \in Nat,
           NEW pass \in Passes
    PROVE  \E D \in [0..Len(txt) -> Ledgers] :
           /\ Extract(pass, led, txt, role, t) = D[Len(txt)]
           /\ D[0] = led
           /\ \A i \in 1..Len(txt) : D[i] = AddAll(D[i - 1], Yields(pass, txt[i], role, t))
<1> DEFINE n == Len(txt)
           base == led
           step == [p \in Ledgers \X (1..n) |-> AddAll(p[1], Yields(pass, txt[p[2]], role, t))]
           Solves(f) == f = [i \in 0..n |-> IF i = 0 THEN base ELSE AddAll(f[i - 1], Yields(pass, txt[i], role, t))]
           D == CHOOSE f : Solves(f)
<1>1. base \in Ledgers /\ n \in Nat
  OBVIOUS
<1>2. step \in [Ledgers \X (1..n) -> Ledgers]
  <2>1. ASSUME NEW a \in Ledgers, NEW i \in 1..n PROVE AddAll(a, Yields(pass, txt[i], role, t)) \in Ledgers
    <3>1. txt[i] \in Sentence
      OBVIOUS
    <3> QED BY <3>1, GivesAll DEF Adds
  <2> QED BY <2>1
<1>3. \A p \in Ledgers \X (1..n) : step[p] = AddAll(p[1], Yields(pass, txt[p[2]], role, t))
  OBVIOUS
<1>4. Extract(pass, led, txt, role, t) = D[n]
  BY Zenon DEF Extract
<1> HIDE DEF base, step, n, D
<1>5. PICK f \in [0..n -> Ledgers] : Recurs(f, n, base, step)
  BY <1>1, <1>2, RecursionExists
<1>6. \A k \in 1..n : f[k] = AddAll(f[k - 1], Yields(pass, txt[k], role, t))
  <2> TAKE k \in 1..n
  <2>1. <<f[k - 1], k>> \in Ledgers \X (1..n)
    BY <1>1
  <2> QED BY <1>3, <1>5, <2>1 DEF Recurs
<1>7. Solves(f)
  BY <1>1, <1>5, <1>6 DEF Recurs
<1>8. Solves(D)
  <2> HIDE DEF Solves
  <2> QED BY <1>7 DEF D
<1>9. DOMAIN D = 0..n /\ D[0] = base /\ \A i \in 1..n : D[i] = AddAll(D[i - 1], Yields(pass, txt[i], role, t))
  BY <1>1, <1>8
<1>10. D \in [0..n -> Ledgers]
  <2> DEFINE S == {i \in 0..n : D[i] \in Ledgers}
  <2>1. S \in SUBSET Nat /\ 0 \in S
    BY <1>1, <1>9
  <2>2. ASSUME NEW k \in S, k < n PROVE k + 1 \in S
    <3>1. k + 1 \in 1..n /\ (k + 1) - 1 = k
      BY <1>1, <2>2
    <3>2. D[k + 1] = AddAll(D[k], Yields(pass, txt[k + 1], role, t))
      BY <1>9, <3>1
    <3>3. step[<<D[k], k + 1>>] \in Ledgers
      BY <1>2, <3>1
    <3>4. step[<<D[k], k + 1>>] = AddAll(D[k], Yields(pass, txt[k + 1], role, t))
      BY <1>3, <3>1
    <3> QED BY <1>1, <2>2, <3>2, <3>3, <3>4
  <2> HIDE DEF S
  <2>3. 0..n \subseteq S
    BY <1>1, <2>1, <2>2, UpToInduction
  <2>4. \A i \in 0..n : D[i] \in Ledgers
    BY <2>3 DEF S
  <2>5. D = [i \in 0..n |-> D[i]]
    BY <1>8
  <2> QED BY <2>4, <2>5
<1> QED BY <1>4, <1>9, <1>10 DEF base, n

\* What a text gives to a pass is added.
GivenText(pass, txt, role) == UNION {Given(pass, txt[i], role) : i \in DOMAIN txt}
LEMMA ExtractAdds ==
    ASSUME NEW led \in Ledgers, NEW txt \in Seq(Sentence), NEW role \in Speakers, NEW t \in Nat,
           NEW pass \in Passes
    PROVE  LET new == Extract(pass, led, txt, role, t) IN
           Adds(led, GivenText(pass, txt, role), role, t, new) /\ KeepsOverrides(led, new)
<1> DEFINE n == Len(txt)
           Upto(k) == UNION {Given(pass, txt[i], role) : i \in 1..k}
           new == Extract(pass, led, txt, role, t)
<1>1. PICK D \in [0..n -> Ledgers] :
        /\ new = D[n]
        /\ D[0] = led
        /\ \A i \in 1..n : D[i] = AddAll(D[i - 1], Yields(pass, txt[i], role, t))
  BY ExtractUnrolls
<1>2. n \in Nat /\ DOMAIN txt = 1..n /\ \A i \in DOMAIN txt : txt[i] \in Sentence
  OBVIOUS
<1> HIDE DEF n, new
<1> DEFINE Done(k) == Adds(led, Upto(k), role, t, D[k]) /\ KeepsOverrides(led, D[k])
           S == {k \in 0..n : Done(k)}
<1>3. 0 \in S
  <2>1. Upto(0) = {}
    OBVIOUS
  <2> HIDE DEF Upto
  <2>2. Adds(led, Upto(0), role, t, D[0]) /\ KeepsOverrides(led, D[0])
    BY <1>1, <2>1, AddsNothing, Zenon DEF KeepsOverrides
  <2> QED BY <1>2, <2>2
<1>4. ASSUME NEW k \in S, k < n PROVE k + 1 \in S
  <2>1. k \in 0..n /\ k + 1 \in 1..n /\ (k + 1) - 1 = k /\ k \in Nat
    BY <1>2, <1>4
  <2>2. /\ D[k] \in Ledgers /\ D[k + 1] = AddAll(D[k], Yields(pass, txt[k + 1], role, t))
        /\ txt[k + 1] \in Sentence
    BY <1>1, <1>2, <2>1
  <2>3. /\ Adds(D[k], Given(pass, txt[k + 1], role), role, t, D[k + 1])
        /\ KeepsOverrides(D[k], D[k + 1])
    BY <2>2, GivesAll
  <2>4. Upto(k + 1) = Upto(k) \cup Given(pass, txt[k + 1], role)
    BY <2>1
  <2> HIDE DEF Upto
  <2>5. Adds(led, Upto(k), role, t, D[k]) /\ KeepsOverrides(led, D[k]) /\ D[k + 1] \in Ledgers
    BY <2>1, <1>1
  <2>6. Adds(led, Upto(k + 1), role, t, D[k + 1])
    <3>1. Adds(led, Upto(k) \cup Given(pass, txt[k + 1], role), role, t, D[k + 1])
      BY <2>2, <2>3, <2>5, AddsCompose
    <3> QED BY <2>4, <3>1
  <2>7. KeepsOverrides(led, D[k + 1])
    BY <2>3, <2>5, Zenon DEF KeepsOverrides
  <2> QED BY <2>1, <2>6, <2>7
<1>5. S \in SUBSET Nat
  BY <1>2
<1> HIDE DEF S
<1>6. n \in S
  BY <1>2, <1>3, <1>4, <1>5, UpToInduction
<1>7. Upto(n) = GivenText(pass, txt, role)
  BY <1>2 DEF GivenText
<1> HIDE DEF Upto
<1> QED BY <1>1, <1>6, <1>7, Zenon DEF S, new

-----------------------------------------------------------------------------
\* A Supersedes: line adds no entity and no evidence, only what it declares.
LEMMA BindAdds ==
    ASSUME NEW led \in Ledgers, NEW n, n = NoFact \/ Named(led, n), NEW s \in Sentence,
           NEW role, NEW t
    PROVE  /\ Adds(led, {}, role, t, Bind(led, n, s))
           /\ \A m, f : Overrides(Bind(led, n, s), m, f) =>
                Overrides(led, m, f) \/ (n # NoFact /\ m = n /\ f = Means[s].ref)
           /\ \A m : Reasoned(Bind(led, n, s), m) => Reasoned(led, m) \/ Means[s].why # NoReason
<1>1. CASE n = NoFact \/ Means[s].ref = NoFact
  BY <1>1, AddsNothing, Zenon DEF Bind
<1>2. CASE n # NoFact /\ Means[s].ref # NoFact
  <2> DEFINE p == Pos(led, n)
             y == led[p]
             x == Attach(y, s)
  <2>1. p \in DOMAIN led /\ y.name = n
    BY <1>2, PosIs
  <2>2. y \in LedgerEntity
    BY <2>1 DEF Ledgers
  <2>3. Bind(led, n, s) = [led EXCEPT ![p] = x]
    BY <1>2, Zenon DEF Bind
  <2> HIDE DEF y
  <2>4. /\ x \in LedgerEntity /\ x.name = y.name /\ x.turn = y.turn /\ x.role = y.role
        /\ x.basis = y.basis /\ x.roles = y.roles
        /\ x.sup = (IF y.sup = NoFact THEN Means[s].ref ELSE y.sup)
        /\ x.why = (IF y.why = NoReason THEN Means[s].why ELSE y.why)
    BY <2>2 DEF Attach, LedgerEntity
  <2> HIDE DEF p, x
  <2> DEFINE new == [led EXCEPT ![p] = x]
  <2>5. /\ new \in Ledgers /\ Grows(led, new) /\ DOMAIN new = DOMAIN led
        /\ \A m : Reasoned(new, m) => Reasoned(led, m) \/ (m = x.name /\ x.why # NoReason)
        /\ \A m : Named(new, m) <=> Named(led, m)
        /\ \A m, r, k : Shows(new, m, r, k) <=>
                Shows(led, m, r, k) \/ (m = x.name /\ <<r, k>> \in x.roles)
        /\ \A m, f : Overrides(new, m, f) =>
                Overrides(led, m, f) \/ (m = x.name /\ f = x.sup /\ f # NoFact)
    <3>1. /\ x.name = led[p].name /\ led[p].roles \subseteq x.roles
          /\ led[p].sup # NoFact => x.sup = led[p].sup
          /\ led[p].why # NoReason => x.why = led[p].why
          /\ x.turn = led[p].turn /\ x.role = led[p].role /\ x.basis = led[p].basis
          /\ x.why # NoReason => x.sup # NoFact
      BY <1>2, <2>4 DEF y
    <3> QED BY <2>1, <2>4, <3>1, ChangeAdds, Zenon
  <2> HIDE DEF new
  <2>6. \A m, r, k : m = x.name /\ <<r, k>> \in x.roles => Shows(led, m, r, k)
    <3>1. \A r, k : <<r, k>> \in x.roles => <<r, k>> \in Evidence(led[p])
      BY <2>4 DEF Evidence, y
    <3>2. x.name = led[p].name
      BY <2>4 DEF y
    <3> QED BY <2>1, <3>1, <3>2, Zenon DEF Shows
  <2>7. Adds(led, {}, role, t, new)
    <3>1. \A m : Named(new, m) <=> Named(led, m) \/ m \in {}
      BY <2>5
    <3>2. \A m, k : \A r \in Speakers :
            Shows(new, m, r, k) <=> Shows(led, m, r, k) \/ (m \in {} /\ r = role /\ k = t)
      BY <2>5, <2>6, Zenon
    <3> QED BY <2>5, <3>1, <3>2, Zenon DEF Adds
  <2>8. ASSUME NEW m, NEW f, Overrides(new, m, f)
        PROVE  Overrides(led, m, f) \/ (n # NoFact /\ m = n /\ f = Means[s].ref)
    <3>1. CASE m = x.name /\ f = x.sup /\ f # NoFact /\ y.sup # NoFact
      <4>1. led[p].name = m /\ led[p].sup = f
        BY <2>4, <3>1 DEF y
      <4> QED BY <2>1, <3>1, <4>1, Zenon DEF Overrides
    <3>2. CASE m = x.name /\ f = x.sup /\ y.sup = NoFact
      BY <1>2, <2>1, <2>4, <3>2
    <3> QED BY <2>5, <2>8, <3>1, <3>2
  <2>9. \A m : Reasoned(new, m) => Reasoned(led, m) \/ Means[s].why # NoReason
    <3>1. ASSUME NEW m, Reasoned(new, m), Means[s].why = NoReason PROVE Reasoned(led, m)
      <4>1. Reasoned(led, m) \/ (m = x.name /\ x.why # NoReason)
        BY <2>5, <3>1
      <4>2. CASE m = x.name /\ x.why # NoReason
        <5>1. led[p].name = m /\ led[p].why # NoReason
          BY <2>4, <3>1, <4>2 DEF y
        <5> QED BY <2>1, <5>1, Zenon DEF Reasoned
      <4> QED BY <4>1, <4>2
    <3> QED BY <3>1
  <2> QED BY <2>3, <2>7, <2>8, <2>9 DEF new
<1> QED BY <1>1, <1>2

\* What an assistant's sentence adds, and the decision an override would bind to.
Held(s) ==
    {n \in EntityNames :
        /\ ~Is(s, "inc") /\ ~Is(s, "sup")
        /\ \/ Is(s, "con") /\ n = <<"CONSTRAINT", s>>
           \/ ~Is(s, "con") /\ Is(s, "failed") /\ n = <<"FAILED-APPROACH", s>>
           \/ ~Is(s, "con") /\ ~Is(s, "failed") /\ IsDecisionSentence(s) /\ n = <<"DECISION", s>>}
Scans ==
    {a \in [led : Ledgers, last : {NoFact} \cup ({"DECISION"} \X Sentence)] :
        a.last = NoFact \/ Named(a.led, a.last)}
Scanned(a, s, t, b) ==
    /\ b \in Scans
    /\ Adds(a.led, Held(s), "assistant", t, b.led)
    /\ b.last = IF IsDecisionSentence(s) THEN <<"DECISION", s>> ELSE a.last
    /\ \A n, f : Overrides(b.led, n, f) =>
            Overrides(a.led, n, f) \/ (Is(s, "sup") /\ n # NoFact /\ n = a.last /\ f = Means[s].ref)
    /\ \A n : Reasoned(b.led, n) =>
            Reasoned(a.led, n) \/ (Is(s, "sup") /\ Means[s].why # NoReason)

LEMMA SentenceKinds ==
    ASSUME NEW s \in Sentence
    PROVE  /\ IsDecisionSentence(s) <=>
                /\ ~Is(s, "inc") /\ ~Is(s, "sup") /\ ~Is(s, "con") /\ ~Is(s, "failed")
                /\ Means[s].f \cap {"mark", "alias", "verb"} # {}
           /\ Is(s, "inc") \/ Is(s, "sup") => Held(s) = {}
           /\ ~Is(s, "inc") /\ ~Is(s, "sup") /\ Is(s, "con") => Held(s) = {<<"CONSTRAINT", s>>}
           /\ ~Is(s, "inc") /\ ~Is(s, "sup") /\ ~Is(s, "con") /\ Is(s, "failed") =>
                Held(s) = {<<"FAILED-APPROACH", s>>}
           /\ IsDecisionSentence(s) => Held(s) = {<<"DECISION", s>>}
           /\ ~Is(s, "inc") /\ ~Is(s, "sup") /\ ~Is(s, "con") /\ ~Is(s, "failed") /\ ~IsDecisionSentence(s) =>
                Held(s) = {}
<1>1. IsDecisionSentence(s) <=>
        /\ ~Is(s, "inc") /\ ~Is(s, "sup") /\ ~Is(s, "con") /\ ~Is(s, "failed")
        /\ Means[s].f \cap {"mark", "alias", "verb"} # {}
  BY DEF IsDecisionSentence, Is
<1>2. \A k \in {"CONSTRAINT", "FAILED-APPROACH", "DECISION"} : <<k, s>> \in EntityNames
  BY DEF EntityNames
<1> QED BY <1>1, <1>2 DEF Held

LEMMA HeldIsAdded ==
    ASSUME NEW a \in Scans, NEW s \in Sentence, NEW t \in Nat,
           NEW kind \in {"CONSTRAINT", "FAILED-APPROACH", "DECISION"},
           NEW basis \in {"marker_stated", "inferred"}, Held(s) = {<<kind, s>>}, ~Is(s, "sup"),
           NEW b, b.led = Add(a.led, Entity(<<kind, s>>, "assistant", basis, t)),
           b = [led |-> b.led, last |-> b.last],
           b.last = IF IsDecisionSentence(s) THEN <<"DECISION", s>> ELSE a.last,
           IsDecisionSentence(s) => kind = "DECISION"
    PROVE  Scanned(a, s, t, b)
<1> DEFINE e == Entity(<<kind, s>>, "assistant", basis, t)
<1>1. <<kind, s>> \in EntityNames
  BY DEF EntityNames
<1>2. Fresh(e, "assistant", t) /\ e.name = <<kind, s>>
  BY <1>1, EntityIsFresh DEF Speakers
<1> HIDE DEF e
<1>3. a.led \in Ledgers /\ (a.last = NoFact \/ Named(a.led, a.last))
      /\ a.last \in {NoFact} \cup ({"DECISION"} \X Sentence)
  BY DEF Scans
<1>4. Adds(a.led, Held(s), "assistant", t, b.led) /\ KeepsOverrides(a.led, b.led)
  <2>1. Adds(a.led, {e.name}, "assistant", t, b.led) /\ KeepsOverrides(a.led, b.led)
    BY <1>2, <1>3, AddAdds DEF e
  <2> QED BY <1>2, <2>1
<1>5. b.led \in Ledgers /\ \A n : Named(b.led, n) <=> Named(a.led, n) \/ n \in Held(s)
  BY <1>4, Zenon DEF Adds
<1>6. b.last = NoFact \/ Named(b.led, b.last)
  BY <1>3, <1>5
<1>7. b \in Scans
  <2>1. b.last \in {NoFact} \cup ({"DECISION"} \X Sentence)
    BY <1>3
  <2> QED BY <1>5, <1>6, <2>1 DEF Scans
<1> QED BY <1>4, <1>7, Zenon DEF Scanned, KeepsOverrides

LEMMA SentenceScanned ==
    ASSUME NEW a \in Scans, NEW s \in Sentence, NEW t \in Nat
    PROVE  Scanned(a, s, t, TakeSentence(a, s, t))
<1> DEFINE b == TakeSentence(a, s, t)
<1>1. a.led \in Ledgers /\ (a.last = NoFact \/ Named(a.led, a.last))
      /\ a = [led |-> a.led, last |-> a.last]
      /\ a.last \in {NoFact} \cup ({"DECISION"} \X Sentence)
  BY DEF Scans
<1>2. CASE Is(s, "inc") \/ (~Is(s, "inc") /\ ~Is(s, "sup") /\ ~Is(s, "con") /\ ~Is(s, "failed")
                                /\ ~IsDecisionSentence(s))
  <2>1. b = a
    BY <1>2, SentenceKinds, Zenon DEF TakeSentence
  <2>2. Held(s) = {} /\ ~IsDecisionSentence(s)
    BY <1>2, SentenceKinds, Zenon
  <2>3. Adds(a.led, {}, "assistant", t, a.led)
    BY <1>1, AddsNothing
  <2> QED BY <2>1, <2>2, <2>3, Zenon DEF Scanned
<1>3. CASE ~Is(s, "inc") /\ Is(s, "sup")
  <2>1. b = [a EXCEPT !.led = Bind(a.led, a.last, s)]
    BY <1>3 DEF TakeSentence
  <2> HIDE DEF b
  <2>2. b = [led |-> Bind(a.led, a.last, s), last |-> a.last]
    BY <1>1, <2>1
  <2>3. b.led = Bind(a.led, a.last, s) /\ b.last = a.last
    BY <2>2
  <2>4. Held(s) = {} /\ ~IsDecisionSentence(s)
    BY <1>3, SentenceKinds, Zenon
  <2>5. /\ Adds(a.led, {}, "assistant", t, b.led)
        /\ \A m, f : Overrides(b.led, m, f) =>
                Overrides(a.led, m, f) \/ (a.last # NoFact /\ m = a.last /\ f = Means[s].ref)
        /\ \A m : Reasoned(b.led, m) => Reasoned(a.led, m) \/ Means[s].why # NoReason
    <3> DEFINE c == Bind(a.led, a.last, s)
    <3>1. /\ Adds(a.led, {}, "assistant", t, c)
          /\ \A m, f : Overrides(c, m, f) =>
                Overrides(a.led, m, f) \/ (a.last # NoFact /\ m = a.last /\ f = Means[s].ref)
          /\ \A m : Reasoned(c, m) => Reasoned(a.led, m) \/ Means[s].why # NoReason
      BY <1>1, BindAdds
    <3> QED BY <2>3, <3>1
  <2>6. b.led \in Ledgers /\ \A n : Named(b.led, n) <=> Named(a.led, n) \/ n \in {}
    BY <2>5, Zenon DEF Adds
  <2>7. b \in Scans
    BY <1>1, <2>2, <2>3, <2>6 DEF Scans
  <2>8. Scanned(a, s, t, b)
    BY <1>3, <2>3, <2>4, <2>5, <2>7, Zenon DEF Scanned
  <2> QED BY <2>8 DEF b
<1>4. CASE ~Is(s, "inc") /\ ~Is(s, "sup") /\ Is(s, "con")
  <2>1. b = [a EXCEPT !.led = Add(a.led, Entity(<<"CONSTRAINT", s>>, "assistant", "marker_stated", t))]
    BY <1>4 DEF TakeSentence
  <2>2. Held(s) = {<<"CONSTRAINT", s>>} /\ ~IsDecisionSentence(s)
    BY <1>4, SentenceKinds, Zenon
  <2> HIDE DEF b
  <2> DEFINE c == Add(a.led, Entity(<<"CONSTRAINT", s>>, "assistant", "marker_stated", t))
  <2>3. b = [led |-> c, last |-> a.last]
    BY <1>1, <2>1
  <2> HIDE DEF c
  <2>4. b.led = c /\ b.last = a.last /\ b = [led |-> b.led, last |-> b.last]
    BY <2>3
  <2>5. Scanned(a, s, t, b)
    BY <1>4, <2>2, <2>4, HeldIsAdded DEF c
  <2> QED BY <2>5 DEF b
<1>5. CASE ~Is(s, "inc") /\ ~Is(s, "sup") /\ ~Is(s, "con") /\ Is(s, "failed")
  <2>1. b = [a EXCEPT !.led = Add(a.led, Entity(<<"FAILED-APPROACH", s>>, "assistant", "inferred", t))]
    BY <1>5 DEF TakeSentence
  <2>2. Held(s) = {<<"FAILED-APPROACH", s>>} /\ ~IsDecisionSentence(s)
    BY <1>5, SentenceKinds, Zenon
  <2> HIDE DEF b
  <2> DEFINE c == Add(a.led, Entity(<<"FAILED-APPROACH", s>>, "assistant", "inferred", t))
  <2>3. b = [led |-> c, last |-> a.last]
    BY <1>1, <2>1
  <2> HIDE DEF c
  <2>4. b.led = c /\ b.last = a.last /\ b = [led |-> b.led, last |-> b.last]
    BY <2>3
  <2>5. Scanned(a, s, t, b)
    BY <1>5, <2>2, <2>4, HeldIsAdded DEF c
  <2> QED BY <2>5 DEF b
<1>6. CASE IsDecisionSentence(s)
  <2> DEFINE basis == IF Is(s, "mark") \/ Is(s, "alias") THEN "marker_stated" ELSE "inferred"
             c == Add(a.led, Entity(<<"DECISION", s>>, "assistant", basis, t))
  <2>1. /\ ~Is(s, "inc") /\ ~Is(s, "sup") /\ ~Is(s, "con") /\ ~Is(s, "failed")
        /\ Means[s].f \cap {"mark", "alias", "verb"} # {} /\ Held(s) = {<<"DECISION", s>>}
    BY <1>6, SentenceKinds, Zenon
  <2>2. b = [led |-> c, last |-> <<"DECISION", s>>]
    BY <2>1, Zenon DEF TakeSentence
  <2>3. basis \in {"marker_stated", "inferred"}
    OBVIOUS
  <2> HIDE DEF b, basis
  <2>4. b.led = c /\ b.last = <<"DECISION", s>> /\ b = [led |-> b.led, last |-> b.last]
    BY <2>2
  <2>5. Scanned(a, s, t, b)
    BY <1>6, <2>1, <2>3, <2>4, HeldIsAdded
  <2> QED BY <2>5 DEF b
<1> QED BY <1>2, <1>3, <1>4, <1>5, <1>6

\* The scan of a text block takes one sentence after another.
LEMMA SentencesUnroll ==
    ASSUME NEW led \in Ledgers, NEW txt \in Seq(Sentence), NEW t \in Nat
    PROVE  \E D \in [0..Len(txt) -> Scans] :
           /\ TakeSentences(led, txt, t) = D[Len(txt)].led
           /\ D[0] = [led |-> led, last |-> NoFact]
           /\ \A i \in 1..Len(txt) : D[i] = TakeSentence(D[i - 1], txt[i], t)
<1> DEFINE n == Len(txt)
           base == [led |-> led, last |-> NoFact]
           step == [p \in Scans \X (1..n) |-> TakeSentence(p[1], txt[p[2]], t)]
           Solves(f) == f = [i \in 0..n |-> IF i = 0 THEN base ELSE TakeSentence(f[i - 1], txt[i], t)]
           D == CHOOSE f : Solves(f)
<1>1. base \in Scans /\ n \in Nat
  BY DEF Scans
<1>2. step \in [Scans \X (1..n) -> Scans]
  <2>1. ASSUME NEW a \in Scans, NEW i \in 1..n PROVE TakeSentence(a, txt[i], t) \in Scans
    <3>1. txt[i] \in Sentence
      OBVIOUS
    <3> QED BY <3>1, SentenceScanned DEF Scanned
  <2> QED BY <2>1
<1>3. \A p \in Scans \X (1..n) : step[p] = TakeSentence(p[1], txt[p[2]], t)
  OBVIOUS
<1>4. TakeSentences(led, txt, t) = D[n].led
  BY Zenon DEF TakeSentences
<1> HIDE DEF base, step, n, D
<1>5. PICK f \in [0..n -> Scans] : Recurs(f, n, base, step)
  BY <1>1, <1>2, RecursionExists
<1>6. \A k \in 1..n : f[k] = TakeSentence(f[k - 1], txt[k], t)
  <2> TAKE k \in 1..n
  <2>1. <<f[k - 1], k>> \in Scans \X (1..n)
    BY <1>1
  <2> QED BY <1>3, <1>5, <2>1 DEF Recurs
<1>7. Solves(f)
  BY <1>1, <1>5, <1>6 DEF Recurs
<1>8. Solves(D)
  <2> HIDE DEF Solves
  <2> QED BY <1>7 DEF D
<1>9. DOMAIN D = 0..n /\ D[0] = base /\ \A i \in 1..n : D[i] = TakeSentence(D[i - 1], txt[i], t)
  BY <1>1, <1>8
<1>10. D \in [0..n -> Scans]
  <2> DEFINE S == {i \in 0..n : D[i] \in Scans}
  <2>1. S \in SUBSET Nat /\ 0 \in S
    BY <1>1, <1>9
  <2>2. ASSUME NEW k \in S, k < n PROVE k + 1 \in S
    <3>1. k + 1 \in 1..n /\ (k + 1) - 1 = k
      BY <1>1, <2>2
    <3>2. D[k + 1] = TakeSentence(D[k], txt[k + 1], t)
      BY <1>9, <3>1
    <3>3. step[<<D[k], k + 1>>] \in Scans
      BY <1>2, <3>1
    <3>4. step[<<D[k], k + 1>>] = TakeSentence(D[k], txt[k + 1], t)
      BY <1>3, <3>1
    <3> QED BY <1>1, <2>2, <3>2, <3>3, <3>4
  <2> HIDE DEF S
  <2>3. 0..n \subseteq S
    BY <1>1, <2>1, <2>2, UpToInduction
  <2>4. \A i \in 0..n : D[i] \in Scans
    BY <2>3 DEF S
  <2>5. D = [i \in 0..n |-> D[i]]
    BY <1>8
  <2> QED BY <2>4, <2>5
<1> QED BY <1>4, <1>9, <1>10 DEF base, n

\* A text block declares that n supersedes f: a Supersedes: line follows n with
\* no other decision between.
Declared(txt, n, f) ==
    \E i, j \in DOMAIN txt :
        /\ i < j /\ <<"DECISION", txt[i]>> = n
        /\ Is(txt[j], "sup") /\ Means[txt[j]].ref = f
        /\ \A m \in (i + 1)..(j - 1) : ~IsDecisionSentence(txt[m])
\* A text block gives a reason for an override.
Reasons(txt) ==
    \E i \in DOMAIN txt :
        txt[i] \in Sentence /\ Is(txt[i], "sup") /\ Means[txt[i]].why # NoReason
HeldText(txt) == UNION {Held(txt[i]) : i \in DOMAIN txt}
LEMMA SentencesAdd ==
    ASSUME NEW led \in Ledgers, NEW txt \in Seq(Sentence), NEW t \in Nat
    PROVE  LET new == TakeSentences(led, txt, t) IN
           /\ Adds(led, HeldText(txt), "assistant", t, new)
           /\ \A n, f : Overrides(new, n, f) => Overrides(led, n, f) \/ Declared(txt, n, f)
           /\ \A n : Reasoned(new, n) => Reasoned(led, n) \/ Reasons(txt)
<1> DEFINE n == Len(txt)
           Upto(k) == UNION {Held(txt[i]) : i \in 1..k}
           new == TakeSentences(led, txt, t)
<1>1. PICK D \in [0..n -> Scans] :
        /\ new = D[n].led
        /\ D[0] = [led |-> led, last |-> NoFact]
        /\ \A i \in 1..n : D[i] = TakeSentence(D[i - 1], txt[i], t)
  BY SentencesUnroll
<1>2. n \in Nat /\ DOMAIN txt = 1..n /\ \A i \in DOMAIN txt : txt[i] \in Sentence
  OBVIOUS
<1> HIDE DEF n, new
<1> DEFINE Follows(k) ==
             D[k].last = NoFact \/ \E a \in 1..k :
                D[k].last = <<"DECISION", txt[a]>> /\ \A m \in (a + 1)..k : ~IsDecisionSentence(txt[m])
           Binds(k) ==
             /\ \A x, f : Overrides(D[k].led, x, f) => Overrides(led, x, f) \/ Declared(txt, x, f)
             /\ \A x : Reasoned(D[k].led, x) => Reasoned(led, x) \/ Reasons(txt)
           Done(k) == Adds(led, Upto(k), "assistant", t, D[k].led) /\ Binds(k) /\ Follows(k)
           S == {k \in 0..n : Done(k)}
<1>3. 0 \in S
  <2>1. Upto(0) = {} /\ D[0].led = led /\ D[0].last = NoFact
    BY <1>1
  <2> HIDE DEF Upto
  <2>2. Adds(led, Upto(0), "assistant", t, D[0].led)
    BY <2>1, AddsNothing
  <2>3. Binds(0) /\ Follows(0)
    BY <2>1, Zenon
  <2> QED BY <1>2, <2>2, <2>3
<1>4. ASSUME NEW k \in S, k < n PROVE k + 1 \in S
  <2>1. k \in 0..n /\ k + 1 \in 1..n /\ (k + 1) - 1 = k /\ k \in Nat
    BY <1>2, <1>4
  <2> DEFINE s == txt[k + 1]
  <2>2. /\ D[k] \in Scans /\ D[k + 1] \in Scans /\ D[k + 1] = TakeSentence(D[k], s, t)
        /\ s \in Sentence /\ k + 1 \in DOMAIN txt
    BY <1>1, <1>2, <2>1
  <2>3. Scanned(D[k], s, t, D[k + 1])
    BY <2>2, SentenceScanned
  <2>4. Upto(k + 1) = Upto(k) \cup Held(s)
    BY <2>1
  <2>5. Adds(led, Upto(k), "assistant", t, D[k].led) /\ Binds(k) /\ Follows(k)
    BY <2>1
  <2> HIDE DEF Upto, Binds, Follows
  <2>6. D[k].led \in Ledgers /\ D[k + 1].led \in Ledgers
    BY <2>2 DEF Scans
  <2>7. Adds(led, Upto(k + 1), "assistant", t, D[k + 1].led)
    <3>1. Adds(D[k].led, Held(s), "assistant", t, D[k + 1].led)
      BY <2>3, Zenon DEF Scanned
    <3>2. Adds(led, Upto(k) \cup Held(s), "assistant", t, D[k + 1].led)
      BY <2>5, <2>6, <3>1, AddsCompose
    <3> QED BY <2>4, <3>2
  <2>8. Binds(k + 1)
    <3>1. ASSUME NEW x, NEW f, Overrides(D[k + 1].led, x, f)
          PROVE  Overrides(led, x, f) \/ Declared(txt, x, f)
      <4>1. CASE Overrides(D[k].led, x, f)
        BY <2>5, <4>1, Zenon DEF Binds
      <4>2. CASE Is(s, "sup") /\ x # NoFact /\ x = D[k].last /\ f = Means[s].ref
        <5>1. PICK a \in 1..k :
                D[k].last = <<"DECISION", txt[a]>> /\ \A m \in (a + 1)..k : ~IsDecisionSentence(txt[m])
          BY <2>5, <4>2, Zenon DEF Follows
        <5>2. a \in DOMAIN txt /\ a < k + 1
          BY <1>2, <2>1
        <5>3. \A m \in (a + 1)..((k + 1) - 1) : ~IsDecisionSentence(txt[m])
          BY <2>1, <5>1
        <5> QED BY <2>2, <4>2, <5>1, <5>2, <5>3, Zenon DEF Declared
      <4> QED BY <2>3, <3>1, <4>1, <4>2, Zenon DEF Scanned
    <3>2. ASSUME NEW x, Reasoned(D[k + 1].led, x) PROVE Reasoned(led, x) \/ Reasons(txt)
      <4>1. CASE Reasoned(D[k].led, x)
        BY <2>5, <4>1, Zenon DEF Binds
      <4>2. CASE Is(s, "sup") /\ Means[s].why # NoReason
        BY <2>2, <4>2 DEF Reasons
      <4> QED BY <2>3, <3>2, <4>1, <4>2, Zenon DEF Scanned
    <3> QED BY <3>1, <3>2, Zenon DEF Binds
  <2>9. Follows(k + 1)
    <3>1. CASE IsDecisionSentence(s)
      <4>1. D[k + 1].last = <<"DECISION", txt[k + 1]>>
        BY <2>3, <3>1, Zenon DEF Scanned
      <4>2. k + 1 \in 1..(k + 1) /\ (k + 1 + 1)..(k + 1) = {}
        BY <2>1
      <4> QED BY <4>1, <4>2, Zenon DEF Follows
    <3>2. CASE ~IsDecisionSentence(s)
      <4>1. D[k + 1].last = D[k].last
        BY <2>3, <3>2, Zenon DEF Scanned
      <4>2. ASSUME NEW a \in 1..k, \A m \in (a + 1)..k : ~IsDecisionSentence(txt[m])
            PROVE  a \in 1..(k + 1) /\ \A m \in (a + 1)..(k + 1) : ~IsDecisionSentence(txt[m])
        <5>1. \A m \in (a + 1)..(k + 1) : m \in (a + 1)..k \/ m = k + 1
          BY <2>1
        <5>2. a \in 1..(k + 1)
          BY <2>1
        <5> QED BY <3>2, <4>2, <5>1, <5>2, Zenon
      <4> QED BY <2>5, <4>1, <4>2, Zenon DEF Follows
    <3> QED BY <3>1, <3>2
  <2> QED BY <2>1, <2>7, <2>8, <2>9
<1>5. S \in SUBSET Nat
  BY <1>2
<1> HIDE DEF S
<1>6. n \in S
  BY <1>2, <1>3, <1>4, <1>5, UpToInduction
<1>7. Upto(n) = HeldText(txt)
  BY <1>2 DEF HeldText
<1> HIDE DEF Upto
<1>8. Adds(led, Upto(n), "assistant", t, D[n].led) /\ Binds(n)
  BY <1>6 DEF S
<1> QED BY <1>1, <1>7, <1>8, Zenon DEF new

-----------------------------------------------------------------------------
\* What an entry asserts.
Voices == {"user", "pasted", "assistant", "error"}
RoleOf(kind) ==
    IF kind = "assistant" THEN "assistant" ELSE IF kind = "error" THEN "tool" ELSE "user"
Rest(txt, pasted) == IF pasted THEN DOMAIN txt ELSE Unmarked(txt)
Request(txt, pasted) ==
    LET rest == Rest(txt, pasted) IN
    {<<"USER-REQUEST", txt[i]>> : i \in {i \in rest : i = CHOOSE k \in rest : \A j \in rest : k <= j}}
UserAsserts(txt, pasted) ==
    (IF pasted THEN {} ELSE GivenText("incidents", txt, "user")) \cup Request(txt, pasted)
        \cup (IF pasted \/ Rest(txt, pasted) = {} THEN {}
               ELSE GivenText("rules", txt, "user") \cup GivenText("literals", txt, "user"))
AssistantAsserts(txt) ==
    GivenText("incidents", txt, "assistant") \cup HeldText(txt)
        \cup GivenText("literals", txt, "assistant")
AssertedBy(e) ==
    CASE e.kind = "user" -> UserAsserts(e.txt, FALSE)
      [] e.kind = "pasted" -> UserAsserts(e.txt, TRUE)
      [] e.kind = "assistant" -> AssistantAsserts(e.txt)
      [] e.kind = "error" -> {<<"ERROR", e.txt[1]>>}

LEMMA KeepsCompose ==
    ASSUME NEW a, NEW b, NEW c, KeepsOverrides(a, b), KeepsOverrides(b, c)
    PROVE  KeepsOverrides(a, c)
BY Zenon DEF KeepsOverrides

LEMMA UserAdds ==
    ASSUME NEW led \in Ledgers, NEW txt \in Seq(Sentence), NEW pasted \in BOOLEAN, NEW t \in Nat
    PROVE  LET new == TakeUser(led, txt, pasted, t) IN
           Adds(led, UserAsserts(txt, pasted), "user", t, new) /\ KeepsOverrides(led, new)
<1> DEFINE rest == Rest(txt, pasted)
           asked == IF pasted THEN led ELSE Extract("incidents", led, txt, "user", t)
           at == CHOOSE i \in rest : \A j \in rest : i <= j
           request == Add(asked, Entity(<<"USER-REQUEST", txt[at]>>, "user", "structural", t))
           ruled == Extract("rules", request, txt, "user", t)
           whole == Extract("literals", ruled, txt, "user", t)
           marked == IF pasted THEN {} ELSE GivenText("incidents", txt, "user")
           new == TakeUser(led, txt, pasted, t)
<1>1. new = IF rest = {} THEN asked ELSE IF pasted THEN request ELSE whole
  BY Zenon DEF TakeUser, Rest
<1>2. "user" \in Speakers /\ "incidents" \in Passes /\ "rules" \in Passes /\ "literals" \in Passes
  BY DEF Speakers, Passes
<1>3. rest \in SUBSET Nat /\ \A i \in rest : txt[i] \in Sentence
  BY DEF Rest, Unmarked
<1>4. Adds(led, marked, "user", t, asked) /\ KeepsOverrides(led, asked)
  <2>1. CASE pasted
    <3>1. KeepsOverrides(led, led)
      BY Zenon DEF KeepsOverrides
    <3> QED BY <2>1, <3>1, AddsNothing
  <2>2. CASE ~pasted
    BY <1>2, <2>2, ExtractAdds
  <2> QED BY <2>1, <2>2
<1>5. asked \in Ledgers
  BY <1>4, Zenon DEF Adds
<1> HIDE DEF rest, asked, marked, new
<1>6. CASE rest = {}
  <2>1. Request(txt, pasted) = {}
    BY <1>6 DEF Request, rest
  <2>2. UserAsserts(txt, pasted) = marked
    BY <1>6, <2>1 DEF UserAsserts, rest, marked
  <2>3. new = asked
    BY <1>1, <1>6
  <2> QED BY <1>4, <2>2, <2>3 DEF new
<1>7. CASE rest # {}
  <2>1. at \in rest
    <3>1. \E i \in rest : \A j \in rest : i <= j
      BY <1>3, <1>7, LeastNatural
    <3> QED BY <3>1, Zenon
  <2> HIDE DEF at
  <2>2. Request(txt, pasted) = {<<"USER-REQUEST", txt[at]>>}
    BY <2>1 DEF Request, rest, at
  <2> DEFINE e == Entity(<<"USER-REQUEST", txt[at]>>, "user", "structural", t)
  <2>3. Fresh(e, "user", t) /\ e.name = <<"USER-REQUEST", txt[at]>>
    <3>1. <<"USER-REQUEST", txt[at]>> \in EntityNames
      BY <1>3, <2>1 DEF EntityNames
    <3> QED BY <1>2, <3>1, EntityIsFresh
  <2> HIDE DEF e
  <2>4. Adds(asked, Request(txt, pasted), "user", t, request) /\ KeepsOverrides(asked, request)
    <3>1. Adds(asked, {e.name}, "user", t, request) /\ KeepsOverrides(asked, request)
      BY <1>5, <2>3, AddAdds DEF e
    <3> QED BY <2>2, <2>3, <3>1
  <2>5. request \in Ledgers
    BY <2>4, Zenon DEF Adds
  <2> HIDE DEF request
  <2>6. /\ Adds(led, marked \cup Request(txt, pasted), "user", t, request)
        /\ KeepsOverrides(led, request)
    BY <1>4, <1>5, <2>4, <2>5, AddsCompose, KeepsCompose
  <2>7. CASE pasted
    <3>1. UserAsserts(txt, pasted) = marked \cup Request(txt, pasted)
      BY <2>7 DEF UserAsserts, marked
    <3>2. new = request
      BY <1>1, <1>7, <2>7
    <3> QED BY <2>6, <3>1, <3>2 DEF new
  <2>8. CASE ~pasted
    <3> DEFINE rules == GivenText("rules", txt, "user")
               lits == GivenText("literals", txt, "user")
    <3>1. Adds(request, rules, "user", t, ruled) /\ KeepsOverrides(request, ruled)
      BY <1>2, <2>5, ExtractAdds
    <3>2. ruled \in Ledgers
      BY <3>1, Zenon DEF Adds
    <3> HIDE DEF ruled
    <3>3. Adds(ruled, lits, "user", t, whole) /\ KeepsOverrides(ruled, whole)
      BY <1>2, <3>2, ExtractAdds
    <3>4. whole \in Ledgers
      BY <3>3, Zenon DEF Adds
    <3> HIDE DEF whole
    <3>5. Adds(request, rules \cup lits, "user", t, whole) /\ KeepsOverrides(request, whole)
      BY <2>5, <3>1, <3>2, <3>3, <3>4, AddsCompose, KeepsCompose
    <3>6. UserAsserts(txt, pasted) = (marked \cup Request(txt, pasted)) \cup (rules \cup lits)
      BY <1>7, <2>8 DEF UserAsserts, marked, rest
    <3> HIDE DEF rules, lits
    <3>7. /\ Adds(led, (marked \cup Request(txt, pasted)) \cup (rules \cup lits), "user", t, whole)
          /\ KeepsOverrides(led, whole)
      BY <2>5, <2>6, <3>4, <3>5, AddsCompose, KeepsCompose
    <3>8. new = whole
      BY <1>1, <1>7, <2>8
    <3> QED BY <3>6, <3>7, <3>8 DEF new
  <2> QED BY <2>7, <2>8
<1> QED BY <1>6, <1>7

LEMMA AssistantAdds ==
    ASSUME NEW led \in Ledgers, NEW txt \in Seq(Sentence), NEW t \in Nat
    PROVE  LET new == TakeAssistant(led, txt, t) IN
           /\ Adds(led, AssistantAsserts(txt), "assistant", t, new)
           /\ \A n, f : Overrides(new, n, f) => Overrides(led, n, f) \/ Declared(txt, n, f)
           /\ \A n : Reasoned(new, n) => Reasoned(led, n) \/ Reasons(txt)
<1> DEFINE marked == Extract("incidents", led, txt, "assistant", t)
           scanned == TakeSentences(marked, txt, t)
           new == Extract("literals", scanned, txt, "assistant", t)
           A == GivenText("incidents", txt, "assistant")
           B == HeldText(txt)
           C == GivenText("literals", txt, "assistant")
<1>1. "assistant" \in Speakers /\ "incidents" \in Passes /\ "literals" \in Passes
  BY DEF Speakers, Passes
<1>2. Adds(led, A, "assistant", t, marked) /\ KeepsOverrides(led, marked)
  BY <1>1, ExtractAdds
<1>3. marked \in Ledgers
  BY <1>2, Zenon DEF Adds
<1>4. TakeAssistant(led, txt, t) = new
  BY Zenon DEF TakeAssistant
<1> HIDE DEF marked
<1>5. /\ Adds(marked, B, "assistant", t, scanned)
      /\ \A n, f : Overrides(scanned, n, f) => Overrides(marked, n, f) \/ Declared(txt, n, f)
      /\ \A n : Reasoned(scanned, n) => Reasoned(marked, n) \/ Reasons(txt)
  BY <1>3, SentencesAdd
<1>6. scanned \in Ledgers
  BY <1>5, Zenon DEF Adds
<1> HIDE DEF scanned
<1>7. Adds(scanned, C, "assistant", t, new) /\ KeepsOverrides(scanned, new)
  BY <1>1, <1>6, ExtractAdds
<1>8. new \in Ledgers
  BY <1>7, Zenon DEF Adds
<1>9. AssistantAsserts(txt) = (A \cup B) \cup C
  BY DEF AssistantAsserts
<1> HIDE DEF new, A, B, C
<1>10. Adds(led, A \cup B, "assistant", t, scanned)
  BY <1>2, <1>3, <1>5, <1>6, AddsCompose
<1>11. Adds(led, (A \cup B) \cup C, "assistant", t, new)
  BY <1>6, <1>7, <1>8, <1>10, AddsCompose
<1>12. /\ \A n, f : Overrides(new, n, f) => Overrides(led, n, f) \/ Declared(txt, n, f)
       /\ \A n : Reasoned(new, n) => Reasoned(led, n) \/ Reasons(txt)
  BY <1>2, <1>5, <1>7, Zenon DEF KeepsOverrides
<1> QED BY <1>4, <1>9, <1>11, <1>12

\* The identifiers an entry asserts are stated in it.
StatedIn(txt, role, n) ==
    \E s \in ToSet(txt) : /\ n[2] \in ToSet(Means[s].lits) /\ ~Is(s, "inc")
                          /\ role = "assistant" => ~Is(s, "sup")
LEMMA GivenLiterals ==
    ASSUME NEW txt \in Seq(Sentence), NEW role \in Speakers, NEW pass \in Passes,
           NEW n \in GivenText(pass, txt, role), n[1] = "LITERAL"
    PROVE  pass = "literals" /\ StatedIn(txt, role, n)
<1>1. PICK i \in DOMAIN txt : n \in Given(pass, txt[i], role)
  BY DEF GivenText
<1>2. txt[i] \in ToSet(txt)
  BY DEF ToSet
<1> DEFINE s == txt[i]
<1> HIDE DEF s
<1>3. n \in Given(pass, s, role)
  BY <1>1 DEF s
<1>4. ~(n = <<"INCIDENT", s>>) /\ ~(n = <<"CONSTRAINT", s>>)
  OBVIOUS
<1>5. /\ pass = "literals" /\ ~Is(s, "inc") /\ ~(role = "assistant" /\ Is(s, "sup"))
      /\ \E l \in ToSet(Means[s].lits) : n = <<"LITERAL", l>>
  BY <1>3, <1>4, Zenon DEF Given
<1>6. n[2] \in ToSet(Means[s].lits)
  BY <1>5
<1> QED BY <1>2, <1>5, <1>6 DEF s, StatedIn

LEMMA UserLiterals ==
    ASSUME NEW txt \in Seq(Sentence), NEW pasted \in BOOLEAN,
           NEW n \in UserAsserts(txt, pasted), n[1] = "LITERAL"
    PROVE  ~pasted /\ StatedIn(txt, "user", n)
<1>1. "user" \in Speakers /\ "incidents" \in Passes /\ "rules" \in Passes /\ "literals" \in Passes
  BY DEF Speakers, Passes
<1>2. n \notin Request(txt, pasted)
  BY DEF Request
<1>3. /\ n \notin GivenText("incidents", txt, "user")
      /\ n \notin GivenText("rules", txt, "user")
  BY <1>1, GivenLiterals
<1>4. ~pasted /\ n \in GivenText("literals", txt, "user")
  BY <1>2, <1>3 DEF UserAsserts
<1> QED BY <1>1, <1>4, GivenLiterals

LEMMA AssistantLiterals ==
    ASSUME NEW txt \in Seq(Sentence), NEW n \in AssistantAsserts(txt), n[1] = "LITERAL"
    PROVE  StatedIn(txt, "assistant", n)
<1>1. "assistant" \in Speakers /\ "incidents" \in Passes /\ "literals" \in Passes
  BY DEF Speakers, Passes
<1>2. n \notin HeldText(txt)
  <2>1. \A s : n # <<"CONSTRAINT", s>> /\ n # <<"FAILED-APPROACH", s>> /\ n # <<"DECISION", s>>
    OBVIOUS
  <2> QED BY <2>1 DEF HeldText, Held
<1>3. n \notin GivenText("incidents", txt, "assistant")
  BY <1>1, GivenLiterals
<1>4. n \in GivenText("literals", txt, "assistant")
  BY <1>2, <1>3 DEF AssistantAsserts
<1> QED BY <1>1, <1>4, GivenLiterals

LEMMA RefreshAdds ==
    ASSUME NEW led \in Ledgers, NEW e, NEW t, Fresh(e, "none", t)
    PROVE  Adds(led, {e.name}, "none", t, Refresh(led, e)) /\ KeepsOverrides(led, Refresh(led, e))
<1>1. e \in LedgerEntity
  BY DEF Fresh
<1>2. CASE ~Named(led, e.name)
  BY <1>1, <1>2, AppendAdds DEF Refresh
<1>3. CASE Named(led, e.name)
  <2> DEFINE p == Pos(led, e.name)
             y == led[p]
             x == [y EXCEPT !.state = IF @ = "none" THEN @ ELSE e.state]
  <2>1. p \in DOMAIN led /\ y.name = e.name
    BY <1>3, PosIs
  <2>2. y \in LedgerEntity
    BY <2>1 DEF Ledgers
  <2>3. Refresh(led, e) = [led EXCEPT ![p] = x]
    BY <1>3 DEF Refresh
  <2> HIDE DEF y
  <2>4. /\ x \in LedgerEntity /\ x.name = y.name /\ x.turn = y.turn /\ x.role = y.role
        /\ x.basis = y.basis /\ x.roles = y.roles /\ x.sup = y.sup /\ x.why = y.why
    BY <1>1, <2>2 DEF LedgerEntity
  <2> HIDE DEF p, x
  <2> DEFINE new == [led EXCEPT ![p] = x]
  <2>5. /\ new \in Ledgers /\ Grows(led, new) /\ DOMAIN new = DOMAIN led
        /\ \A m : Reasoned(new, m) => Reasoned(led, m) \/ (m = x.name /\ x.why # NoReason)
        /\ \A m : Named(new, m) <=> Named(led, m)
        /\ \A m, r, k : Shows(new, m, r, k) <=>
                Shows(led, m, r, k) \/ (m = x.name /\ <<r, k>> \in x.roles)
        /\ \A m, f : Overrides(new, m, f) =>
                Overrides(led, m, f) \/ (m = x.name /\ f = x.sup /\ f # NoFact)
    <3>1. /\ x.name = led[p].name /\ led[p].roles \subseteq x.roles
          /\ led[p].sup # NoFact => x.sup = led[p].sup
          /\ led[p].why # NoReason => x.why = led[p].why
          /\ x.turn = led[p].turn /\ x.role = led[p].role /\ x.basis = led[p].basis
          /\ led[p].why # NoReason => led[p].sup # NoFact
          /\ x.why # NoReason => x.sup # NoFact
      <4>1. led[p].why # NoReason => led[p].sup # NoFact
        BY <2>1, Zenon DEF Ledgers
      <4> QED BY <2>4, <4>1 DEF y
    <3> QED BY <2>1, <2>4, <3>1, ChangeAdds, Zenon
  <2> HIDE DEF new
  <2>6. \A m, r, k : m = x.name /\ <<r, k>> \in x.roles => Shows(led, m, r, k)
    <3>1. \A r, k : <<r, k>> \in x.roles => <<r, k>> \in Evidence(led[p])
      BY <2>4 DEF Evidence, y
    <3>2. x.name = led[p].name
      BY <2>4 DEF y
    <3> QED BY <2>1, <3>1, <3>2, Zenon DEF Shows
  <2>7. Adds(led, {e.name}, "none", t, new)
    <3>1. \A m : Named(new, m) <=> Named(led, m) \/ m \in {e.name}
      BY <1>3, <2>5
    <3>2. "none" \notin Speakers
      BY DEF Speakers
    <3>3. \A m, k : \A r \in Speakers :
            Shows(new, m, r, k) <=> Shows(led, m, r, k) \/ (m \in {e.name} /\ r = "none" /\ k = t)
      BY <2>5, <2>6, <3>2, Zenon
    <3> QED BY <2>5, <3>1, <3>3, Zenon DEF Adds
  <2>8. KeepsOverrides(led, new)
    <3>1. led[p].name = x.name /\ led[p].sup = x.sup
      BY <2>4 DEF y
    <3>2. ASSUME NEW m, NEW f, Overrides(new, m, f) PROVE Overrides(led, m, f)
      <4>1. Overrides(led, m, f) \/ (m = x.name /\ f = x.sup /\ f # NoFact)
        BY <2>5, <3>2
      <4> QED BY <2>1, <3>1, <4>1, Zenon DEF Overrides
    <3>3. led[p].why = x.why
      BY <2>4 DEF y
    <3>4. ASSUME NEW m, Reasoned(new, m) PROVE Reasoned(led, m)
      <4>1. Reasoned(led, m) \/ (m = x.name /\ x.why # NoReason)
        BY <2>5, <3>4
      <4> QED BY <2>1, <3>1, <3>3, <4>1, Zenon DEF Reasoned
    <3> QED BY <3>2, <3>4, Zenon DEF KeepsOverrides
  <2> QED BY <2>3, <2>7, <2>8 DEF new
<1> QED BY <1>2, <1>3

-----------------------------------------------------------------------------
LogEntries ==
    [kind : {"user", "pasted", "assistant", "error", "write", "task", "todo"},
     txt : Text \cup {<<s>> : s \in Failure} \cup {<<p>> : p \in Path}
            \cup {<<s, state>> : s \in Task, state \in {"pending", "done"}}]
ParserInv ==
    /\ log \in Seq(LogEntries)
    /\ ents \in Ledgers
    /\ edits \in [Path -> [n : Nat, last : Nat]]
    /\ \A i \in DOMAIN ents : ents[i].turn < Len(log)
    \* an entry that speaks is evidence for what it asserts, and for nothing else
    /\ \A k \in DOMAIN log : log[k].kind \in Voices =>
            \A n : \A r \in Speakers :
                Shows(ents, n, r, k - 1) <=> n \in AssertedBy(log[k]) /\ r = RoleOf(log[k].kind)
    \* there is no evidence from an entry to come
    /\ \A n, k : \A r \in Speakers : Shows(ents, n, r, k) => k \in 0..(Len(log) - 1)
    /\ LiteralsAreStated
    /\ OverrideFollowsItsDecision

LEMMA ParserInitially == ParserInit => ParserInv
<1> SUFFICES ASSUME ParserInit PROVE ParserInv
  OBVIOUS
<1>1. log = <<>> /\ ents = <<>> /\ edits \in [Path -> [n : Nat, last : Nat]]
  BY DEF ParserInit
<1>2. log \in Seq(LogEntries) /\ ents \in Seq(LedgerEntity) /\ DOMAIN ents = {} /\ DOMAIN log = {}
  BY <1>1
<1>3. ents \in Ledgers
  BY <1>2 DEF Ledgers
<1>4. ToSet(ents) = {}
  BY <1>2 DEF ToSet
<1> QED BY <1>1, <1>2, <1>3, <1>4, Zenon DEF ParserInv, Shows, LiteralsAreStated, OverrideFollowsItsDecision

\* The parse of one more entry.
Takes(e, A, role) ==
    /\ log' = Append(log, e)
    /\ Adds(ents, A, role, Len(log), ents')
    /\ edits' \in [Path -> [n : Nat, last : Nat]]
    /\ e.kind \in Voices => A = AssertedBy(e) /\ role = RoleOf(e.kind)
    /\ \A n \in A : n[1] = "LITERAL" =>
            e.kind \in {"user", "assistant"} /\ StatedIn(e.txt, RoleOf(e.kind), n)
    /\ \A n, f : Overrides(ents', n, f) =>
            Overrides(ents, n, f) \/ (e.kind = "assistant" /\ Declared(e.txt, n, f))
    /\ \A n : Reasoned(ents', n) =>
            Reasoned(ents, n) \/ (e.kind = "assistant" /\ Reasons(e.txt))

LEMMA TakingKeeps ==
    ASSUME ParserInv, NEW e \in LogEntries, NEW A, NEW role, Takes(e, A, role)
    PROVE  ParserInv'
<1> DEFINE m == Len(log)
<1>1. /\ m \in Nat /\ DOMAIN log = 1..m /\ log' \in Seq(LogEntries) /\ Len(log') = m + 1
      /\ DOMAIN log' = 1..(m + 1) /\ log'[m + 1] = e
      /\ \A k \in 1..m : log'[k] = log[k]
  BY DEF ParserInv, Takes
<1>2. /\ \A k \in DOMAIN log : k \in DOMAIN log' /\ log'[k] = log[k] /\ k - 1 # m
      /\ m + 1 \in DOMAIN log' /\ (m + 1) - 1 = m
      /\ \A k \in DOMAIN log' : k \in DOMAIN log \/ k = m + 1
  BY <1>1
<1>3. Adds(ents, A, role, m, ents') /\ ents \in Ledgers
  BY DEF Takes, ParserInv
<1>4. /\ ents' \in Ledgers /\ Grows(ents, ents')
      /\ \A n : Named(ents', n) <=> Named(ents, n) \/ n \in A
      /\ \A n, k : \A r \in Speakers :
            Shows(ents', n, r, k) <=> Shows(ents, n, r, k) \/ (n \in A /\ r = role /\ k = m)
  BY <1>3, Zenon DEF Adds
<1>5. \A n, k : \A r \in Speakers : Shows(ents, n, r, k) => k \in 0..(m - 1)
  BY DEF ParserInv
<1>6. \A n : \A r \in Speakers : ~Shows(ents, n, r, m)
  BY <1>1, <1>5
<1>7. \A k \in DOMAIN log : log[k].kind \in Voices =>
            \A n : \A r \in Speakers :
                Shows(ents, n, r, k - 1) <=> n \in AssertedBy(log[k]) /\ r = RoleOf(log[k].kind)
  BY DEF ParserInv
<1> HIDE DEF m
<1>8. ASSUME NEW k \in DOMAIN log', log'[k].kind \in Voices, NEW n, NEW r \in Speakers
      PROVE  Shows(ents', n, r, k - 1) <=> n \in AssertedBy(log'[k]) /\ r = RoleOf(log'[k].kind)
  <2>1. CASE k \in DOMAIN log
    <3>1. log'[k] = log[k] /\ k - 1 # m
      BY <1>2, <2>1
    <3>2. Shows(ents', n, r, k - 1) <=> Shows(ents, n, r, k - 1)
      BY <1>4, <3>1
    <3> QED BY <1>7, <1>8, <2>1, <3>1, <3>2, Zenon
  <2>2. CASE k = m + 1
    <3>1. k - 1 = m /\ log'[k] = e
      BY <1>1, <2>2
    <3>2. A = AssertedBy(e) /\ role = RoleOf(e.kind)
      BY <1>8, <3>1 DEF Takes
    <3>3. Shows(ents', n, r, m) <=> n \in A /\ r = role
      BY <1>4, <1>6, Zenon
    <3> QED BY <3>1, <3>2, <3>3, Zenon
  <2> QED BY <1>2, <2>1, <2>2
<1>9. ASSUME NEW n, NEW k, NEW r \in Speakers, Shows(ents', n, r, k)
      PROVE  k \in 0..(Len(log') - 1)
  <2>1. k \in 0..(m - 1) \/ k = m
    BY <1>4, <1>5, <1>9
  <2> QED BY <1>1, <2>1
<1>10. LiteralsAreStated'
  <2>1. ASSUME NEW x \in ToSet(ents'), x.name[1] = "LITERAL"
        PROVE  \E i \in DOMAIN log' : \E s \in ToSet(log'[i].txt) :
                  /\ log'[i].kind \in {"user", "assistant"}
                  /\ x.name[2] \in ToSet(Means[s].lits) /\ ~Is(s, "inc")
                  /\ log'[i].kind = "assistant" => ~Is(s, "sup")
    <3> DEFINE n == x.name
    <3>1. Named(ents', n)
      BY DEF ToSet, Named
    <3>2. CASE Named(ents, n)
      <4>1. PICK y \in ToSet(ents) : y.name = n
        BY <3>2 DEF Named, ToSet
      <4>2. PICK i \in DOMAIN log : \E s \in ToSet(log[i].txt) :
                  /\ log[i].kind \in {"user", "assistant"}
                  /\ n[2] \in ToSet(Means[s].lits) /\ ~Is(s, "inc")
                  /\ log[i].kind = "assistant" => ~Is(s, "sup")
        BY <2>1, <4>1, Zenon DEF ParserInv, LiteralsAreStated
      <4> QED BY <1>2, <4>2, Zenon
    <3>3. CASE n \in A
      <4>1. e.kind \in {"user", "assistant"} /\ StatedIn(e.txt, RoleOf(e.kind), n)
        BY <2>1, <3>3, Zenon DEF Takes
      <4>2. e.kind = "assistant" => RoleOf(e.kind) = "assistant"
        BY DEF RoleOf
      <4>3. \E s \in ToSet(e.txt) :
                  /\ n[2] \in ToSet(Means[s].lits) /\ ~Is(s, "inc")
                  /\ e.kind = "assistant" => ~Is(s, "sup")
        BY <4>1, <4>2, Zenon DEF StatedIn
      <4> QED BY <1>1, <1>2, <4>1, <4>3, Zenon
    <3> QED BY <1>4, <3>1, <3>2, <3>3, Zenon
  <2> QED BY <2>1, Zenon DEF LiteralsAreStated
<1>11. OverrideFollowsItsDecision'
  <2> DEFINE Bound(l, n, f) == \E k \in DOMAIN l : l[k].kind = "assistant" /\ Declared(l[k].txt, n, f)
  <2>1. ASSUME NEW x \in ToSet(ents'), x.sup # NoFact
        PROVE  Bound(log', x.name, x.sup)
    <3>1. Overrides(ents', x.name, x.sup)
      BY <2>1 DEF ToSet, Overrides
    <3>2. CASE Overrides(ents, x.name, x.sup)
      <4>1. PICK y \in ToSet(ents) : y.name = x.name /\ y.sup = x.sup
        BY <3>2 DEF Overrides, ToSet
      <4>2. Bound(log, y.name, y.sup)
        BY <2>1, <4>1, Zenon DEF ParserInv, OverrideFollowsItsDecision, Declared
      <4> QED BY <1>2, <4>1, <4>2, Zenon
    <3>3. CASE e.kind = "assistant" /\ Declared(e.txt, x.name, x.sup)
      BY <1>1, <1>2, <3>3, Zenon
    <3> QED BY <3>1, <3>2, <3>3, Zenon DEF Takes
  <2> QED BY <2>1, Zenon DEF OverrideFollowsItsDecision, Declared
<1>12. edits' \in [Path -> [n : Nat, last : Nat]]
  BY DEF Takes
<1>13. \A i \in DOMAIN ents' : ents'[i].turn < Len(log')
  <2>1. \A i \in DOMAIN ents' : i \in DOMAIN ents \/ ents'[i].turn = m
    BY <1>3, Zenon DEF Adds
  <2>2. \A i \in DOMAIN ents : ents'[i].turn = ents[i].turn /\ ents[i].turn < m
    BY <1>4 DEF Grows, ParserInv, m
  <2>3. \A i \in DOMAIN ents : ents[i].turn \in Nat
    <3>1. \A i \in DOMAIN ents : ents[i] \in LedgerEntity
      BY <1>3 DEF Ledgers
    <3>2. \A y \in LedgerEntity : y.turn \in Nat
      BY DEF LedgerEntity
    <3> QED BY <3>1, <3>2
  <2> QED BY <1>1, <2>1, <2>2, <2>3
<1> QED BY <1>1, <1>4, <1>8, <1>9, <1>10, <1>11, <1>12, <1>13, Zenon DEF ParserInv

\* What every step keeps.
ParserKept ==
    /\ ParserInv' /\ Grows(ents, ents') /\ \A n : Named(ents, n) => Named(ents', n)
    /\ \A i \in DOMAIN ents' : i \in DOMAIN ents \/ ents'[i].turn = Turn
    /\ \A n : Reasoned(ents', n) =>
            Reasoned(ents, n) \/ (log'[Len(log')].kind = "assistant" /\ Reasons(log'[Len(log')].txt))

LEMMA TakingIsKept ==
    ASSUME ParserInv, NEW e \in LogEntries, NEW A, NEW role, Takes(e, A, role)
    PROVE  ParserKept
<1>1. ParserInv'
  BY TakingKeeps
<1>2. Adds(ents, A, role, Len(log), ents')
  BY DEF Takes
<1>3. log'[Len(log')] = e
  BY DEF Takes, ParserInv
<1>4. \A n : Reasoned(ents', n) =>
            Reasoned(ents, n) \/ (log'[Len(log')].kind = "assistant" /\ Reasons(log'[Len(log')].txt))
  BY <1>3, Zenon DEF Takes
<1> QED BY <1>1, <1>2, <1>4, Zenon DEF ParserKept, Adds, Turn

LEMMA TextsAreSentences ==
    ASSUME NEW txt \in Text
    PROVE  txt \in Seq(Sentence)
BY TextsAssumption

LEMMA UserTurnKeeps ==
    ASSUME ParserInv, NEW txt \in Text, NEW pasted \in BOOLEAN, UserTurn(txt, pasted)
    PROVE  ParserKept
<1> DEFINE kind == IF pasted THEN "pasted" ELSE "user"
           e == Entry(kind, txt)
           A == UserAsserts(txt, pasted)
<1>1. e \in LogEntries /\ e.kind = kind /\ e.txt = txt
  BY DEF Entry, LogEntries
<1>2. log' = Append(log, e) /\ ents' = TakeUser(ents, txt, pasted, Len(log)) /\ edits' = edits
  BY Zenon DEF UserTurn, Read, Turn
<1>3. ents \in Ledgers /\ Len(log) \in Nat /\ txt \in Seq(Sentence)
  BY TextsAreSentences DEF ParserInv
<1>4. Adds(ents, A, "user", Len(log), ents') /\ KeepsOverrides(ents, ents')
  BY <1>2, <1>3, UserAdds
<1> HIDE DEF e
<1>5. A = AssertedBy(e) /\ "user" = RoleOf(e.kind)
  BY <1>1 DEF AssertedBy, RoleOf
<1>6. ASSUME NEW n \in A, n[1] = "LITERAL"
      PROVE  e.kind \in {"user", "assistant"} /\ StatedIn(e.txt, RoleOf(e.kind), n)
  <2>1. ~pasted /\ StatedIn(txt, "user", n)
    BY <1>3, <1>6, UserLiterals
  <2> QED BY <1>1, <1>5, <2>1
<1> HIDE DEF A
<1>7. edits' \in [Path -> [n : Nat, last : Nat]]
  BY <1>2 DEF ParserInv
<1>8. Takes(e, A, "user")
  BY <1>2, <1>4, <1>5, <1>6, <1>7, Zenon DEF Takes, KeepsOverrides
<1> QED BY <1>1, <1>8, TakingIsKept DEF e

LEMMA AssistantTextKeeps ==
    ASSUME ParserInv, NEW txt \in Text, AssistantText(txt)
    PROVE  ParserKept
<1> DEFINE e == Entry("assistant", txt)
           A == AssistantAsserts(txt)
<1>1. e \in LogEntries /\ e.kind = "assistant" /\ e.txt = txt
  BY DEF Entry, LogEntries
<1>2. log' = Append(log, e) /\ ents' = TakeAssistant(ents, txt, Len(log)) /\ edits' = edits
  BY Zenon DEF AssistantText, Read, Turn
<1>3. ents \in Ledgers /\ Len(log) \in Nat /\ txt \in Seq(Sentence)
  BY TextsAreSentences DEF ParserInv
<1>4. /\ Adds(ents, A, "assistant", Len(log), ents')
      /\ \A n, f : Overrides(ents', n, f) => Overrides(ents, n, f) \/ Declared(txt, n, f)
      /\ \A n : Reasoned(ents', n) => Reasoned(ents, n) \/ Reasons(txt)
  BY <1>2, <1>3, AssistantAdds
<1> HIDE DEF e
<1>5. A = AssertedBy(e) /\ "assistant" = RoleOf(e.kind)
  BY <1>1 DEF AssertedBy, RoleOf
<1>6. ASSUME NEW n \in A, n[1] = "LITERAL"
      PROVE  e.kind \in {"user", "assistant"} /\ StatedIn(e.txt, RoleOf(e.kind), n)
  <2>1. StatedIn(txt, "assistant", n)
    BY <1>3, <1>6, AssistantLiterals
  <2> QED BY <1>1, <1>5, <2>1
<1> HIDE DEF A
<1>7. edits' \in [Path -> [n : Nat, last : Nat]]
  BY <1>2 DEF ParserInv
<1>8. Takes(e, A, "assistant")
  BY <1>1, <1>2, <1>4, <1>5, <1>6, <1>7, Zenon DEF Takes
<1> QED BY <1>1, <1>8, TakingIsKept

LEMMA ToolErrorKeeps ==
    ASSUME ParserInv, NEW s \in Failure, ToolError(s)
    PROVE  ParserKept
<1> DEFINE e == Entry("error", <<s>>)
           x == Entity(<<"ERROR", s>>, "tool", "structural", Len(log))
<1>1. e \in LogEntries /\ e.kind = "error" /\ e.txt = <<s>>
  BY DEF Entry, LogEntries
<1>2. log' = Append(log, e) /\ ents' = Add(ents, x) /\ edits' = edits
  BY Zenon DEF ToolError, Read, Turn
<1>3. ents \in Ledgers /\ Len(log) \in Nat
  BY DEF ParserInv
<1>4. Fresh(x, "tool", Len(log)) /\ x.name = <<"ERROR", s>>
  <2>1. <<"ERROR", s>> \in EntityNames
    BY DEF EntityNames
  <2> QED BY <1>3, <2>1, EntityIsFresh DEF Speakers
<1> HIDE DEF e, x
<1>5. Adds(ents, {x.name}, "tool", Len(log), ents') /\ KeepsOverrides(ents, ents')
  BY <1>2, <1>3, <1>4, AddAdds
<1>6. {x.name} = AssertedBy(e) /\ "tool" = RoleOf(e.kind)
  BY <1>1, <1>4 DEF AssertedBy, RoleOf
<1>7. \A n \in {x.name} : n[1] # "LITERAL"
  BY <1>4
<1>8. edits' \in [Path -> [n : Nat, last : Nat]]
  BY <1>2 DEF ParserInv
<1>9. Takes(e, {x.name}, "tool")
  BY <1>2, <1>5, <1>6, <1>7, <1>8, Zenon DEF Takes, KeepsOverrides
<1> QED BY <1>1, <1>9, TakingIsKept

LEMMA WriteToolKeeps ==
    ASSUME ParserInv, NEW p \in Path, WriteTool(p)
    PROVE  ParserKept
<1> DEFINE e == Entry("write", <<p>>)
<1>1. e \in LogEntries /\ e.kind \notin Voices
  BY DEF Entry, LogEntries, Voices
<1>2. /\ log' = Append(log, e) /\ ents' = ents
      /\ edits' = [edits EXCEPT ![p] = [n |-> @.n + 1, last |-> Turn]]
  BY Zenon DEF WriteTool, Read
<1> HIDE DEF e
<1>3. Adds(ents, {}, "none", Len(log), ents')
  BY <1>2, AddsNothing DEF ParserInv
<1>4. \A n \in {} : n[1] # "LITERAL"
  OBVIOUS
<1>5. edits' \in [Path -> [n : Nat, last : Nat]]
  <2>1. edits \in [Path -> [n : Nat, last : Nat]] /\ Turn \in Nat
    BY DEF ParserInv, Turn
  <2>2. [n |-> edits[p].n + 1, last |-> Turn] \in [n : Nat, last : Nat]
    BY <2>1
  <2> QED BY <1>2, <2>1, <2>2
<1>6. Takes(e, {}, "none")
  BY <1>1, <1>2, <1>3, <1>4, <1>5, Zenon DEF Takes
<1> QED BY <1>1, <1>6, TakingIsKept

LEMMA TaskToolKeeps ==
    ASSUME ParserInv, NEW s \in Task, NEW state \in {"pending", "done"}, NEW update \in BOOLEAN,
           TaskTool(s, state, update)
    PROVE  ParserKept
<1> DEFINE e == Entry(IF update THEN "todo" ELSE "task", <<s, state>>)
           base == Entity(<<"TASK", s>>, "none", "structural", Len(log))
           x == [base EXCEPT !.state = state]
           y == [x EXCEPT !.state = "none"]
           A == {<<"TASK", s>>}
<1>1. e \in LogEntries /\ e.kind \notin Voices
  BY DEF Entry, LogEntries, Voices
<1>2. /\ log' = Append(log, e) /\ edits' = edits
      /\ ents' = IF update THEN Refresh(ents, x) ELSE Add(ents, y)
  BY Zenon DEF TaskTool, Read, Turn
<1>3. ents \in Ledgers /\ Len(log) \in Nat
  BY DEF ParserInv
<1>4. /\ Fresh(x, "none", Len(log)) /\ x.name = <<"TASK", s>>
      /\ Fresh(y, "none", Len(log)) /\ y.name = <<"TASK", s>>
  <2>1. <<"TASK", s>> \in EntityNames
    BY DEF EntityNames
  <2>2. Fresh(base, "none", Len(log)) /\ base.name = <<"TASK", s>>
    BY <1>3, <2>1, EntityIsFresh DEF Speakers
  <2> HIDE DEF base
  <2> QED BY <2>2 DEF Fresh, LedgerEntity
<1> HIDE DEF e, x, y
<1>5. Adds(ents, A, "none", Len(log), ents') /\ KeepsOverrides(ents, ents')
  <2>1. CASE update
    <3>1. Adds(ents, {x.name}, "none", Len(log), Refresh(ents, x)) /\ KeepsOverrides(ents, Refresh(ents, x))
      BY <1>3, <1>4, RefreshAdds
    <3> QED BY <1>2, <1>4, <2>1, <3>1
  <2>2. CASE ~update
    <3>1. Adds(ents, {y.name}, "none", Len(log), Add(ents, y)) /\ KeepsOverrides(ents, Add(ents, y))
      BY <1>3, <1>4, AddAdds
    <3> QED BY <1>2, <1>4, <2>2, <3>1
  <2> QED BY <2>1, <2>2
<1>6. \A n \in A : n[1] # "LITERAL"
  OBVIOUS
<1> HIDE DEF A
<1>7. edits' \in [Path -> [n : Nat, last : Nat]]
  BY <1>2 DEF ParserInv
<1>8. Takes(e, A, "none")
  BY <1>1, <1>2, <1>5, <1>6, <1>7, Zenon DEF Takes, KeepsOverrides
<1> QED BY <1>1, <1>8, TakingIsKept

LEMMA ParserSteps == ParserInv /\ [ParserNext]_parserVars => ParserKept
<1> SUFFICES ASSUME ParserInv, [ParserNext]_parserVars PROVE ParserKept
  OBVIOUS
<1>1. CASE UNCHANGED parserVars
  <2>1. log' = log /\ ents' = ents /\ edits' = edits
    BY <1>1 DEF parserVars
  <2>2. ParserInv'
    BY <2>1 DEF ParserInv, LiteralsAreStated, OverrideFollowsItsDecision
  <2>3. Grows(ents, ents)
    BY AddsNothing, Zenon DEF Adds, ParserInv
  <2> QED BY <2>1, <2>2, <2>3, Zenon DEF ParserKept
<1>2. ASSUME NEW txt \in Text, AssistantText(txt) PROVE ParserKept
  BY <1>2, AssistantTextKeeps
<1>3. ASSUME NEW txt \in Text, NEW pasted \in BOOLEAN, UserTurn(txt, pasted) PROVE ParserKept
  BY <1>3, UserTurnKeeps
<1>4. ASSUME NEW s \in Failure, ToolError(s) PROVE ParserKept
  BY <1>4, ToolErrorKeeps
<1>5. ASSUME NEW p \in Path, WriteTool(p) PROVE ParserKept
  BY <1>5, WriteToolKeeps
<1>6. ASSUME NEW s \in Task, NEW state \in {"pending", "done"}, NEW update \in BOOLEAN,
             TaskTool(s, state, update)
      PROVE  ParserKept
  BY <1>6, TaskToolKeeps
<1> QED BY <1>1, <1>2, <1>3, <1>4, <1>5, <1>6, Zenon DEF ParserNext

\* Word for word the same entry, the same evidence.
LEMMA AssertionsCount == ParserInv => EveryAssertionCounts
<1> SUFFICES ASSUME ParserInv, NEW i \in DOMAIN log, NEW j \in DOMAIN log,
                    log[i] = log[j], log[i].kind \in Voices,
                    NEW e \in ToSet(ents), NEW r \in Speakers
             PROVE  <<r, i - 1>> \in Evidence(e) <=> <<r, j - 1>> \in Evidence(e)
  BY Zenon DEF EveryAssertionCounts, Voices, Speakers
<1>1. PICK x \in DOMAIN ents : ents[x] = e
  BY DEF ToSet
<1>2. \A y \in DOMAIN ents : ents[y].name = e.name => y = x
  BY <1>1 DEF ParserInv, Ledgers
<1>3. \A k : Shows(ents, e.name, r, k) <=> <<r, k>> \in Evidence(e)
  BY <1>1, <1>2, Zenon DEF Shows
<1>4. \A k \in DOMAIN log : log[k].kind \in Voices =>
        (Shows(ents, e.name, r, k - 1) <=> e.name \in AssertedBy(log[k]) /\ r = RoleOf(log[k].kind))
  BY DEF ParserInv
<1>5. Shows(ents, e.name, r, i - 1) <=> Shows(ents, e.name, r, j - 1)
  BY <1>4
<1> QED BY <1>3, <1>5

\* A fact that matches stays a match, so the only one is replaced by none.
Matches(led, i) ==
    {n \in {led[j].name : j \in DOMAIN led} : n[1] \in LinkKinds /\ n[2] \in Means[i].about}
LEMMA LinksStay ==
    ASSUME ParserInv, ParserKept, NEW i, LinkedTo(ents, i) # NoFact
    PROVE  LinkedTo(ents', i) \in {NoFact, LinkedTo(ents, i)}
<1> DEFINE H == Matches(ents, i)
           K == Matches(ents', i)
<1>1. /\ LinkedTo(ents, i) = IF Cardinality(H) = 1 THEN CHOOSE n \in H : TRUE ELSE NoFact
      /\ LinkedTo(ents', i) = IF Cardinality(K) = 1 THEN CHOOSE n \in K : TRUE ELSE NoFact
  BY Zenon DEF LinkedTo, Matches
<1>2. \A led \in Ledgers : IsFiniteSet(Matches(led, i))
  <2>1. TAKE led \in Ledgers
  <2> DEFINE names == [j \in DOMAIN led |-> led[j].name]
             all == {led[j].name : j \in DOMAIN led}
  <2>2. IsFiniteSet(DOMAIN led)
    <3>1. Len(led) \in Nat /\ DOMAIN led = 1..Len(led)
      BY DEF Ledgers
    <3> QED BY <3>1, FS_Interval
  <2>3. names \in Surjection(DOMAIN led, all)
    BY DEF Surjection
  <2>4. IsFiniteSet(all)
    BY <2>2, <2>3, FS_Surjection
  <2>5. Matches(led, i) \subseteq all
    BY DEF Matches
  <2> QED BY <2>4, <2>5, FS_Subset
<1>3. IsFiniteSet(H) /\ IsFiniteSet(K)
  BY <1>2 DEF ParserInv, ParserKept
<1>4. H \subseteq K
  <2>1. \A n : Named(ents, n) => Named(ents', n)
    BY DEF ParserKept
  <2>2. ASSUME NEW n \in H PROVE n \in K
    <3>1. Named(ents, n) /\ n[1] \in LinkKinds /\ n[2] \in Means[i].about
      BY DEF Matches, Named
    <3>2. Named(ents', n)
      BY <2>1, <3>1
    <3> QED BY <3>1, <3>2 DEF Matches, Named
  <2> QED BY <2>2
<1> HIDE DEF H, K
<1>5. CASE Cardinality(K) # 1
  BY <1>1, <1>5
<1>6. CASE Cardinality(K) = 1
  <2>1. Cardinality(H) = 1
    BY <1>1
  <2>2. PICK h : H = {h}
    BY <1>3, <2>1, FS_Singleton
  <2>3. PICK k : K = {k}
    BY <1>3, <1>6, FS_Singleton
  <2>4. H = K
    BY <1>4, <2>2, <2>3
  <2> QED BY <1>1, <1>6, <2>4
<1> QED BY <1>5, <1>6

FirstAssertionStep ==
    /\ Len(ents') >= Len(ents)
    /\ \A i \in DOMAIN ents :
         LET e == ents[i]  new == ents'[i] IN
         /\ <<new.name, new.turn, new.role, new.basis>> = <<e.name, e.turn, e.role, e.basis>>
         /\ e.roles \subseteq new.roles
         /\ e.sup # NoFact => new.sup = e.sup
         /\ e.why # NoReason => new.why = e.why
LinkStep ==
    \A e \in ToSet(ents) : (e.name[1] = "INCIDENT" /\ LinkedTo(ents, e.name[2]) # NoFact) =>
        LinkedTo(ents', e.name[2]) \in {NoFact, LinkedTo(ents, e.name[2])}

ParserSpec == ParserInit /\ [][ParserNext]_parserVars

\* A growing transcript only ever adds: its first assertions stand, the same
\* words are the same evidence, every identifier was stated, and overrides and
\* links stay with their fact.
THEOREM AssertionsStayKept == ParserSpec => AssertionsAreKept
<1>1. ParserInv /\ [ParserNext]_parserVars => ParserInv'
  BY ParserSteps DEF ParserKept
<1>2. ParserInv => EveryAssertionCounts /\ LiteralsAreStated /\ OverrideFollowsItsDecision
  BY AssertionsCount DEF ParserInv
<1>3. ParserInv /\ [ParserNext]_parserVars => [FirstAssertionStep]_parserVars
  <2>1. ParserKept => FirstAssertionStep
    BY DEF ParserKept, Grows, FirstAssertionStep
  <2> QED BY <2>1, ParserSteps
<1>4. ParserInv /\ [ParserNext]_parserVars => [LinkStep]_parserVars
  <2>1. ParserInv /\ ParserKept => LinkStep
    BY LinksStay DEF LinkStep
  <2> QED BY <2>1, ParserSteps
<1>5. ParserSpec => []ParserInv
  BY <1>1, ParserInitially, PTL DEF ParserSpec
<1>6. ParserSpec => [][FirstAssertionStep]_parserVars
  BY <1>3, <1>5, PTL DEF ParserSpec
<1>7. ParserSpec => [][LinkStep]_parserVars
  BY <1>4, <1>5, PTL DEF ParserSpec
<1>8. ParserSpec => [](EveryAssertionCounts /\ LiteralsAreStated /\ OverrideFollowsItsDecision)
  BY <1>2, <1>5, PTL
<1>9. FirstAssertionStands <=> [][FirstAssertionStep]_parserVars
  BY DEF FirstAssertionStands, FirstAssertionStep
<1>10. LinkNeverMoves <=> [][LinkStep]_parserVars
  BY DEF LinkNeverMoves, LinkStep
<1> QED BY <1>6, <1>7, <1>8, <1>9, <1>10, PTL DEF AssertionsAreKept

LEMMA UpToCounts ==
    ASSUME NEW n \in Nat PROVE IsFiniteSet(1..n) /\ Cardinality(1..n) = n
BY FS_Interval

LEMMA TakingIs ==
    ASSUME NEW m \in Nat, NEW P, NEW a \in Seq(1..m), NEW i \in 1..m
    PROVE  /\ Placing(a, i, P) \in Seq(1..m)
           /\ i \in P => Placing(a, i, P) = Append(a, i)
           /\ i \notin P => Placing(a, i, P) = a
<1>1. CASE i \in P
  <2>1. Append(a, i) \in Seq(1..m)
    OBVIOUS
  <2> QED BY <1>1, <2>1 DEF Placing
<1>2. CASE i \notin P
  BY <1>2 DEF Placing
<1> QED BY <1>1, <1>2

\* The positions of a set, one after another.
LEMMA AscendingUnrolls ==
    ASSUME NEW m \in Nat, NEW P
    PROVE  \E D \in [0..m -> Seq(1..m)] :
           /\ Ascending(m, P) = D[m]
           /\ D[0] = <<>>
           /\ \A i \in 1..m : D[i] = Placing(D[i - 1], i, P)
<1> DEFINE n == m
           base == <<>>
           step == [p \in Seq(1..m) \X (1..n) |-> Placing(p[1], p[2], P)]
           Solves(f) == f = [i \in 0..n |-> IF i = 0 THEN base ELSE Placing(f[i - 1], i, P)]
           D == CHOOSE f : Solves(f)
<1>1. base \in Seq(1..m) /\ n \in Nat
  OBVIOUS
<1>2. step \in [Seq(1..m) \X (1..n) -> Seq(1..m)]
  <2>1. ASSUME NEW a \in Seq(1..m), NEW i \in 1..m
        PROVE  Placing(a, i, P) \in Seq(1..m)
    BY TakingIs
  <2> QED BY <2>1
<1>3. \A p \in Seq(1..m) \X (1..n) : step[p] = Placing(p[1], p[2], P)
  OBVIOUS
<1>4. Ascending(m, P) = D[n]
  BY Zenon DEF Ascending
<1> HIDE DEF base, step, n, D
<1>5. PICK f \in [0..n -> Seq(1..m)] : Recurs(f, n, base, step)
  BY <1>1, <1>2, RecursionExists
<1>6. \A k \in 1..n : f[k] = Placing(f[k - 1], k, P)
  <2> TAKE k \in 1..n
  <2>1. <<f[k - 1], k>> \in Seq(1..m) \X (1..n)
    BY <1>1
  <2> QED BY <1>3, <1>5, <2>1 DEF Recurs
<1>7. Solves(f)
  BY <1>1, <1>5, <1>6 DEF Recurs
<1>8. Solves(D)
  <2> HIDE DEF Solves
  <2> QED BY <1>7 DEF D
<1>9. DOMAIN D = 0..n /\ D[0] = base /\ \A i \in 1..n : D[i] = Placing(D[i - 1], i, P)
  BY <1>1, <1>8
<1>10. D \in [0..n -> Seq(1..m)]
  <2> DEFINE S == {i \in 0..n : D[i] \in Seq(1..m)}
  <2>1. S \in SUBSET Nat /\ 0 \in S
    BY <1>1, <1>9
  <2>2. ASSUME NEW k \in S, k < n PROVE k + 1 \in S
    <3>1. k + 1 \in 1..n /\ (k + 1) - 1 = k
      BY <1>1, <2>2
    <3>2. D[k + 1] = Placing(D[k], k + 1, P)
      BY <1>9, <3>1
    <3>3. step[<<D[k], k + 1>>] \in Seq(1..m)
      BY <1>2, <3>1
    <3>4. step[<<D[k], k + 1>>] = Placing(D[k], k + 1, P)
      BY <1>3, <3>1
    <3> QED BY <1>1, <2>2, <3>2, <3>3, <3>4
  <2> HIDE DEF S
  <2>3. 0..n \subseteq S
    BY <1>1, <2>1, <2>2, UpToInduction
  <2>4. \A i \in 0..n : D[i] \in Seq(1..m)
    BY <2>3 DEF S
  <2>5. D = [i \in 0..n |-> D[i]]
    BY <1>8
  <2> QED BY <2>4, <2>5
<1> QED BY <1>4, <1>9, <1>10 DEF base, n

\* They are all of them, each once and in their order.
Lists(o, P, k) ==
    /\ \A i \in DOMAIN o : o[i] \in P /\ o[i] <= k
    /\ \A x \in P : x <= k => \E i \in DOMAIN o : o[i] = x
    /\ \A i, j \in DOMAIN o : i < j => o[i] < o[j]
LEMMA TakingLists ==
    ASSUME NEW m \in Nat, NEW P \in SUBSET (1..m), NEW k \in Nat, k < m,
           NEW a \in Seq(1..m), Lists(a, P, k)
    PROVE  Lists(Placing(a, k + 1, P), P, k + 1)
<1> DEFINE b == Placing(a, k + 1, P)
<1>1. /\ Len(a) \in Nat /\ DOMAIN a = 1..Len(a) /\ \A i \in DOMAIN a : a[i] \in Int
      /\ k + 1 \in 1..m /\ \A x \in P : x \in Int
  OBVIOUS
<1>2. /\ k + 1 \in P => b = Append(a, k + 1)
      /\ k + 1 \notin P => b = a
  BY DEF Placing
<1> HIDE DEF b
<1>3. CASE k + 1 \in P
  <2>1. /\ Len(b) = Len(a) + 1 /\ DOMAIN b = 1..(Len(a) + 1)
        /\ b[Len(a) + 1] = k + 1 /\ \A i \in 1..Len(a) : b[i] = a[i]
    BY <1>1, <1>2, <1>3
  <2>2. /\ \A i \in DOMAIN a : i \in DOMAIN b /\ b[i] = a[i] /\ i < Len(a) + 1
        /\ \A i \in DOMAIN b : i \in DOMAIN a \/ i = Len(a) + 1
        /\ Len(a) + 1 \in DOMAIN b
    BY <1>1, <2>1
  <2>3. \A i \in DOMAIN b : b[i] \in P /\ b[i] <= k + 1
    BY <1>1, <1>3, <2>1, <2>2 DEF Lists
  <2>4. ASSUME NEW x \in P, x <= k + 1 PROVE \E i \in DOMAIN b : b[i] = x
    <3>1. CASE x = k + 1
      BY <2>1, <2>2, <3>1
    <3>2. CASE x # k + 1
      <4>1. x <= k
        BY <1>1, <2>4, <3>2
      <4>2. PICK i \in DOMAIN a : a[i] = x
        BY <4>1 DEF Lists
      <4> QED BY <2>2, <4>2
    <3> QED BY <3>1, <3>2
  <2>5. ASSUME NEW i \in DOMAIN b, NEW j \in DOMAIN b, i < j PROVE b[i] < b[j]
    <3>1. i \in DOMAIN a
      BY <1>1, <2>1, <2>5
    <3>2. b[i] = a[i] /\ a[i] <= k /\ a[i] \in Int
      BY <1>1, <2>2, <3>1 DEF Lists
    <3>3. CASE j = Len(a) + 1
      BY <2>1, <3>2, <3>3
    <3>4. CASE j \in DOMAIN a
      BY <2>2, <2>5, <3>1, <3>4 DEF Lists
    <3> QED BY <2>2, <3>3, <3>4
  <2> QED BY <2>3, <2>4, <2>5 DEF Lists, b
<1>4. CASE k + 1 \notin P
  <2>1. b = a
    BY <1>2, <1>4
  <2>2. \A x \in P : x <= k + 1 => x <= k
    BY <1>1, <1>4
  <2>3. \A i \in DOMAIN a : a[i] <= k + 1
    BY <1>1 DEF Lists
  <2> QED BY <2>1, <2>2, <2>3 DEF Lists, b
<1> QED BY <1>3, <1>4

LEMMA AscendingIs ==
    ASSUME NEW m \in Nat, NEW P \in SUBSET (1..m)
    PROVE  LET o == Ascending(m, P) IN
           /\ o \in Seq(1..m) /\ Len(o) \in Nat /\ DOMAIN o = 1..Len(o)
           /\ \A i \in DOMAIN o : o[i] \in P
           /\ \A x \in P : \E i \in DOMAIN o : o[i] = x
           /\ \A i, j \in DOMAIN o : i < j => o[i] < o[j]
           /\ Len(o) = Cardinality(P)
<1>1. PICK D \in [0..m -> Seq(1..m)] :
        /\ Ascending(m, P) = D[m]
        /\ D[0] = <<>>
        /\ \A i \in 1..m : D[i] = Placing(D[i - 1], i, P)
  BY AscendingUnrolls
<1> DEFINE S == {k \in 0..m : Lists(D[k], P, k)}
<1>2. 0 \in S
  BY <1>1 DEF Lists
<1>3. ASSUME NEW k \in S, k < m PROVE k + 1 \in S
  <2>1. k \in 0..m /\ k \in Nat /\ k + 1 \in 1..m /\ k + 1 \in 0..m /\ (k + 1) - 1 = k /\ Lists(D[k], P, k)
    BY <1>3
  <2>2. D[k] \in Seq(1..m) /\ D[k + 1] = Placing(D[k], k + 1, P)
    BY <1>1, <2>1
  <2>3. Lists(D[k + 1], P, k + 1)
    BY <1>3, <2>1, <2>2, TakingLists
  <2> QED BY <2>1, <2>3
<1>4. Lists(D[m], P, m)
  <2>1. S \in SUBSET Nat
    OBVIOUS
  <2> HIDE DEF S
  <2>2. 0..m \subseteq S
    BY <1>2, <1>3, <2>1, UpToInduction
  <2>3. m \in S
    BY <2>2
  <2> QED BY <2>3 DEF S
<1> DEFINE o == D[m]
<1>5. /\ o \in Seq(1..m) /\ Len(o) \in Nat /\ DOMAIN o = 1..Len(o)
      /\ \A i \in DOMAIN o : o[i] \in P
      /\ \A x \in P : \E i \in DOMAIN o : o[i] = x
      /\ \A i, j \in DOMAIN o : i < j => o[i] < o[j]
  BY <1>1, <1>4 DEF Lists
<1> HIDE DEF S, o
<1>6. Len(o) = Cardinality(P)
  <2> DEFINE N == 1..Len(o)
  <2>1. o \in [N -> P]
    BY <1>5
  <2>2. \A i, j \in N : o[i] = o[j] => i = j
    <3>1. TAKE i, j \in N
    <3>2. i < j \/ j < i \/ i = j
      BY <1>5
    <3>3. o[i] \in Int /\ o[j] \in Int
      BY <1>5
    <3>4. (i < j => o[i] < o[j]) /\ (j < i => o[j] < o[i])
      BY <1>5, Zenon
    <3> QED BY <3>2, <3>3, <3>4
  <2>3. o \in Bijection(N, P)
    BY <1>5, <2>1, <2>2 DEF Bijection, Injection, IsInjective, Surjection
  <2>4. IsFiniteSet(N) /\ Cardinality(N) = Len(o)
    BY <1>5, UpToCounts
  <2> HIDE DEF N
  <2>5. ExistsBijection(N, P)
    BY <2>3 DEF ExistsBijection
  <2> QED BY <2>4, <2>5, FS_Bijection
<1> QED BY <1>1, <1>5, <1>6 DEF o

\* More positions of a longer sequence come after those of a shorter one.
Leads(o, n, a) ==
    /\ Len(o) <= Len(a)
    /\ \A i \in 1..Len(o) : a[i] = o[i]
    /\ \A i \in DOMAIN a : i > Len(o) => a[i] > n
LEMMA TakingLeads ==
    ASSUME NEW n \in Nat, NEW m \in Nat, NEW p \in Nat, n <= p, p < m, NEW Q, NEW o \in Seq(1..n),
           NEW a \in Seq(1..m), Leads(o, n, a)
    PROVE  Leads(o, n, Placing(a, p + 1, Q))
<1> DEFINE b == Placing(a, p + 1, Q)
<1>1. /\ Len(a) \in Nat /\ DOMAIN a = 1..Len(a) /\ Len(o) \in Nat /\ p + 1 \in 1..m /\ p + 1 > n
  OBVIOUS
<1>2. /\ p + 1 \in Q => b = Append(a, p + 1)
      /\ p + 1 \notin Q => b = a
  BY DEF Placing
<1> HIDE DEF b
<1>3. CASE p + 1 \in Q
  <2>1. /\ Len(b) = Len(a) + 1 /\ DOMAIN b = 1..(Len(a) + 1)
        /\ b[Len(a) + 1] = p + 1 /\ \A i \in 1..Len(a) : b[i] = a[i]
    <3>1. b = Append(a, p + 1)
      BY <1>2, <1>3
    <3> QED BY <1>1, <3>1, AppendProperties
  <2>2. Len(o) <= Len(b) /\ \A i \in 1..Len(o) : b[i] = o[i]
    BY <1>1, <2>1 DEF Leads
  <2>3. ASSUME NEW i \in DOMAIN b, i > Len(o) PROVE b[i] > n
    <3>1. CASE i = Len(a) + 1
      BY <1>1, <2>1, <3>1
    <3>2. CASE i # Len(a) + 1
      <4> DEFINE l == Len(a)
      <4>1. l \in Nat /\ i \in 1..(l + 1) /\ i # l + 1
        BY <1>1, <2>1, <3>2
      <4> HIDE DEF l
      <4>2. i \in 1..l
        BY <4>1
      <4>3. i \in DOMAIN a /\ b[i] = a[i]
        BY <1>1, <2>1, <4>2 DEF l
      <4> QED BY <2>3, <4>3 DEF Leads
    <3> QED BY <3>1, <3>2
  <2> QED BY <2>2, <2>3 DEF Leads, b
<1>4. CASE p + 1 \notin Q
  BY <1>2, <1>4 DEF b
<1> QED BY <1>3, <1>4

LEMMA AscendingExtends ==
    ASSUME NEW n \in Nat, NEW m \in Nat, n <= m, NEW P \in SUBSET (1..n), NEW Q \in SUBSET (1..m),
           \A i \in 1..n : i \in Q <=> i \in P
    PROVE  Leads(Ascending(n, P), n, Ascending(m, Q))
<1>1. PICK C \in [0..n -> Seq(1..n)] :
        /\ Ascending(n, P) = C[n]
        /\ C[0] = <<>>
        /\ \A i \in 1..n : C[i] = Placing(C[i - 1], i, P)
  BY AscendingUnrolls
<1>2. PICK D \in [0..m -> Seq(1..m)] :
        /\ Ascending(m, Q) = D[m]
        /\ D[0] = <<>>
        /\ \A i \in 1..m : D[i] = Placing(D[i - 1], i, Q)
  BY AscendingUnrolls
<1>3. D[n] = C[n]
  <2> DEFINE S == {k \in 0..n : D[k] = C[k]}
  <2>1. 0 \in S /\ S \in SUBSET Nat
    BY <1>1, <1>2
  <2>2. ASSUME NEW k \in S, k < n PROVE k + 1 \in S
    <3>1. k \in 0..n /\ k + 1 \in 1..n /\ k + 1 \in 0..n /\ k + 1 \in 1..m /\ (k + 1) - 1 = k /\ D[k] = C[k]
      BY <2>2
    <3>2. C[k + 1] = Placing(C[k], k + 1, P)
      BY <1>1, <3>1
    <3>3. D[k + 1] = Placing(C[k], k + 1, Q)
      BY <1>2, <3>1
    <3>4. k + 1 \in Q <=> k + 1 \in P
      BY <3>1
    <3>5. D[k + 1] = C[k + 1]
      BY <3>2, <3>3, <3>4, Zenon DEF Placing
    <3> QED BY <3>1, <3>5
  <2> HIDE DEF S
  <2>3. 0..n \subseteq S
    BY <2>1, <2>2, UpToInduction
  <2>4. n \in S
    BY <2>3
  <2> QED BY <2>4 DEF S
<1> DEFINE o == C[n]
           S == {k \in Nat : n + k <= m => Leads(o, n, D[n + k])}
<1>4. o \in Seq(1..n) /\ Len(o) \in Nat /\ DOMAIN o = 1..Len(o)
  BY <1>1
<1>5. D[n] = o
  BY <1>3
<1> HIDE DEF o
<1>6. 0 \in S
  <2>1. n + 0 = n
    OBVIOUS
  <2>2. Leads(o, n, o)
    BY <1>4 DEF Leads
  <2> QED BY <1>5, <2>1, <2>2
<1>7. ASSUME NEW k \in S, k < m - n PROVE k + 1 \in S
  <2> DEFINE p == n + k
  <2>1. /\ p \in Nat /\ n <= p /\ p < m /\ p \in 0..m /\ p + 1 \in 1..m /\ (p + 1) - 1 = p
        /\ n + (k + 1) = p + 1 /\ k + 1 \in Nat /\ Leads(o, n, D[p])
    BY <1>7
  <2> HIDE DEF p
  <2>2. D[p] \in Seq(1..m) /\ D[p + 1] = Placing(D[p], p + 1, Q)
    BY <1>2, <2>1
  <2>3. Leads(o, n, D[p + 1])
    BY <1>4, <2>1, <2>2, TakingLeads
  <2> QED BY <2>1, <2>3
<1>8. Leads(o, n, D[m])
  <2>1. S \in SUBSET Nat /\ m - n \in Nat /\ n + (m - n) = m
    OBVIOUS
  <2> HIDE DEF S
  <2>2. 0..(m - n) \subseteq S
    BY <1>6, <1>7, <2>1, UpToInduction
  <2>3. m - n \in S
    BY <2>1, <2>2
  <2> QED BY <2>1, <2>3 DEF S
<1> QED BY <1>1, <1>2, <1>8 DEF o

\* What a sequence has at some positions.
LEMMA PickedIs ==
    ASSUME NEW T, NEW s \in Seq(T), NEW P \in SUBSET (DOMAIN s)
    PROVE  LET p == Picked(s, P) IN
           /\ p \in Seq(T) /\ Len(p) \in Nat /\ DOMAIN p = 1..Len(p)
           /\ \A k \in DOMAIN p : \E i \in P : p[k] = s[i]
           /\ \A i \in P : \E k \in DOMAIN p : p[k] = s[i]
           /\ Len(p) = Cardinality(P)
<1> DEFINE o == Ascending(Len(s), P)
           p == Picked(s, P)
<1>1. Len(s) \in Nat /\ DOMAIN s = 1..Len(s) /\ P \in SUBSET (1..Len(s))
  OBVIOUS
<1>2. /\ Len(o) \in Nat /\ DOMAIN o = 1..Len(o)
      /\ \A i \in DOMAIN o : o[i] \in P
      /\ \A x \in P : \E i \in DOMAIN o : o[i] = x
      /\ Len(o) = Cardinality(P)
  BY <1>1, AscendingIs
<1>3. p = [k \in DOMAIN o |-> s[o[k]]]
  BY DEF Picked
<1> HIDE DEF o, p
<1>4. \A k \in DOMAIN o : p[k] = s[o[k]] /\ p[k] \in T
  BY <1>1, <1>2, <1>3
<1>5. p \in Seq(T) /\ Len(p) = Len(o) /\ DOMAIN p = DOMAIN o
  BY <1>2, <1>3, <1>4
<1>6. \A k \in DOMAIN p : \E i \in P : p[k] = s[i]
  BY <1>2, <1>4, <1>5
<1>7. \A i \in P : \E k \in DOMAIN p : p[k] = s[i]
  BY <1>2, <1>4, <1>5
<1> QED BY <1>2, <1>5, <1>6, <1>7 DEF p

-----------------------------------------------------------------------------
\* A sequence after another has the elements of both.
LEMMA JoinIs ==
    ASSUME NEW S, NEW a \in Seq(S), NEW b \in Seq(S)
    PROVE  /\ a \o b \in Seq(S) /\ Len(a \o b) = Len(a) + Len(b)
           /\ Len(a) \in Nat /\ Len(b) \in Nat
           /\ \A i \in 1..Len(a) : (a \o b)[i] = a[i]
           /\ ToSet(a \o b) = ToSet(a) \cup ToSet(b)
<1>1. /\ a \o b \in Seq(S) /\ Len(a) \in Nat /\ Len(b) \in Nat /\ Len(a \o b) = Len(a) + Len(b)
      /\ \A i \in 1..(Len(a) + Len(b)) : (a \o b)[i] = IF i <= Len(a) THEN a[i] ELSE b[i - Len(a)]
  BY ConcatProperties
<1>2. /\ DOMAIN (a \o b) = 1..(Len(a) + Len(b)) /\ DOMAIN a = 1..Len(a) /\ DOMAIN b = 1..Len(b)
  BY <1>1
<1> DEFINE c == a \o b
           m == Len(a)
           k == Len(b)
<1>3. /\ \A i \in 1..m : i \in 1..(m + k) /\ c[i] = a[i]
      /\ \A i \in 1..k : m + i \in 1..(m + k) /\ c[m + i] = b[i]
      /\ \A i \in 1..(m + k) : i \in 1..m \/ i - m \in 1..k
      /\ \A i \in 1..(m + k) : i \notin 1..m => c[i] = b[i - m]
  BY <1>1
<1>4. /\ DOMAIN c = 1..(m + k) /\ DOMAIN a = 1..m /\ DOMAIN b = 1..k
  BY <1>2
<1> HIDE DEF c, m, k
<1>5. ToSet(c) = ToSet(a) \cup ToSet(b)
  BY <1>3, <1>4 DEF ToSet
<1> QED BY <1>1, <1>3, <1>5 DEF c, m, k

-----------------------------------------------------------------------------
(***************************************************************************)
(* What a gist shows.                                                      *)
(***************************************************************************)
LEMMA KindsAre ==
    /\ Len(GistKinds) \in Nat
    /\ Sectioned = {"CONSTRAINT", "DECISION", "LITERAL", "FAILED-APPROACH", "INCIDENT",
                    "USER-REQUEST", "TASK", "ERROR", "FILE"}
    /\ \A kind \in Sectioned : \E k \in 1..Len(GistKinds) : GistKinds[k] = kind
    /\ \A k \in 1..Len(GistKinds) : GistKinds[k] \in Sectioned
<1>1. DOMAIN GistKinds = 1..9 /\ Len(GistKinds) = 9
  BY DEF GistKinds
<1>2. /\ GistKinds[1] = "CONSTRAINT" /\ GistKinds[2] = "DECISION" /\ GistKinds[3] = "LITERAL"
      /\ GistKinds[4] = "FAILED-APPROACH" /\ GistKinds[5] = "INCIDENT"
      /\ GistKinds[6] = "USER-REQUEST" /\ GistKinds[7] = "TASK" /\ GistKinds[8] = "ERROR"
      /\ GistKinds[9] = "FILE"
  BY DEF GistKinds
<1>3. \A k \in 1..9 : k = 1 \/ k = 2 \/ k = 3 \/ k = 4 \/ k = 5 \/ k = 6 \/ k = 7 \/ k = 8 \/ k = 9
  OBVIOUS
<1>4. Sectioned = {GistKinds[k] : k \in 1..9}
  BY <1>1 DEF Sectioned, ToSet
<1>5. Sectioned = {"CONSTRAINT", "DECISION", "LITERAL", "FAILED-APPROACH", "INCIDENT",
                   "USER-REQUEST", "TASK", "ERROR", "FILE"}
  BY <1>2, <1>3, <1>4
<1> QED BY <1>1, <1>4, <1>5

\* An entity's kind has a section, and no other line looks like a fact.
LEMMA NamesAreSectioned ==
    /\ \A n \in EntityNames : n[1] \in Sectioned
    /\ \A s \in {"head", "conflict", "more", "blank", "title"} : s \notin Sectioned
<1>1. \A n \in EntityNames : n[1] \in {"CONSTRAINT", "DECISION", "LITERAL", "FAILED-APPROACH", "INCIDENT",
                   "USER-REQUEST", "TASK", "ERROR", "FILE"}
  BY DEF EntityNames
<1> QED BY <1>1, KindsAre

HeadLines(R) == ({"head", "more"} \X Nat) \cup ({"conflict"} \X {Key(r) : r \in R})
           \cup ({"blank", "title"} \X Sectioned)
GistLines(R) == HeadLines(R) \cup EntityNames
LEMMA FactsOfHeads ==
    ASSUME NEW R, NEW n \in HeadLines(R)
    PROVE  n[1] \notin Sectioned
<1>1. n[1] \in {"head", "conflict", "more", "blank", "title"}
  BY DEF HeadLines
<1> QED BY <1>1, NamesAreSectioned

LEMMA AtMostIs ==
    ASSUME NEW S, NEW s \in Seq(S), NEW n \in Nat
    PROVE  /\ AtMost(s, n) \in Seq(S) /\ Len(AtMost(s, n)) = (IF Len(s) < n THEN Len(s) ELSE n)
           /\ Len(s) \in Nat
           /\ \A i \in 1..Len(AtMost(s, n)) : AtMost(s, n)[i] = s[i]
<1> DEFINE k == IF Len(s) < n THEN Len(s) ELSE n
<1>1. k \in Nat /\ k <= Len(s) /\ Len(s) \in Nat
  OBVIOUS
<1>2. AtMost(s, n) = SubSeq(s, 1, k)
  BY DEF AtMost
<1> HIDE DEF k
<1>3. /\ SubSeq(s, 1, k) \in Seq(S) /\ Len(SubSeq(s, 1, k)) = k
      /\ \A i \in 1..k : SubSeq(s, 1, k)[i] = s[i]
  BY <1>1, FrontIsKept
<1> QED BY <1>1, <1>2, <1>3 DEF k

LEMMA HeaderIs ==
    ASSUME NEW R, NEW open \in Seq(R)
    PROVE  /\ Header(open) \in Seq(HeadLines(R))
           /\ ConflictLines(open) \subseteq ToSet(Header(open))
           /\ Len(open) - ConflictCap > 0 => <<"more", Len(open) - ConflictCap>> \in ToSet(Header(open))
<1> DEFINE shown == AtMost(open, ConflictCap)
           a == <<<<"head", 1>>, <<"head", 2>>, <<"head", 3>>>>
           b == IF open = <<>> THEN <<>> ELSE <<<<"head", 4>>, <<"head", 5>>>>
           c == [i \in DOMAIN shown |-> <<"conflict", Key(shown[i])>>]
           d == IF Len(open) > Len(shown) THEN <<<<"more", Len(open) - Len(shown)>>>> ELSE <<>>
           e == <<<<"head", 6>>, <<"head", 7>>>>
           H == HeadLines(R)
<1>1. /\ shown \in Seq(R) /\ Len(shown) = (IF Len(open) < ConflictCap THEN Len(open) ELSE ConflictCap)
      /\ Len(open) \in Nat /\ ConflictCap \in Nat
  BY GistAssumption, AtMostIs
<1>2. a \in Seq(H) /\ e \in Seq(H)
  <2>1. \A n \in Nat : <<"head", n>> \in H
    BY DEF HeadLines
  <2> HIDE DEF H
  <2> QED BY <2>1
<1>3. b \in Seq(H)
  <2>1. \A n \in Nat : <<"head", n>> \in H
    BY DEF HeadLines
  <2> HIDE DEF H
  <2> QED BY <2>1
<1> HIDE DEF shown
<1>4. c \in Seq(H)
  <2>1. \A i \in DOMAIN shown : <<"conflict", Key(shown[i])>> \in H
    BY <1>1 DEF HeadLines
  <2> HIDE DEF H
  <2>2. DOMAIN shown = 1..Len(shown) /\ Len(shown) \in Nat
    BY <1>1
  <2> QED BY <2>1, <2>2
<1>5. d \in Seq(H) /\ (Len(open) - ConflictCap > 0 => <<"more", Len(open) - ConflictCap>> \in ToSet(d))
  <2>1. CASE Len(open) > Len(shown)
    <3>1. Len(shown) = ConflictCap /\ Len(open) - ConflictCap \in Nat
      BY <1>1, <2>1
    <3>2. d = <<<<"more", Len(open) - ConflictCap>>>>
      BY <2>1, <3>1
    <3>3. <<"more", Len(open) - ConflictCap>> \in H
      BY <3>1 DEF HeadLines
    <3> HIDE DEF H, d
    <3> DEFINE x == <<"more", Len(open) - ConflictCap>>
    <3> HIDE DEF x
    <3>4. d = <<x>> /\ x \in H
      BY <3>2, <3>3 DEF x
    <3>5. d \in Seq(H) /\ DOMAIN d = {1} /\ d[1] = x
      BY <3>4
    <3>6. x \in ToSet(d)
      BY <3>5 DEF ToSet
    <3> QED BY <3>5, <3>6 DEF x
  <2>2. CASE ~(Len(open) > Len(shown))
    <3>1. d = <<>> /\ ~(Len(open) - ConflictCap > 0)
      BY <1>1, <2>2
    <3> HIDE DEF d
    <3> QED BY <3>1
  <2> QED BY <2>1, <2>2
<1>6. ConflictLines(open) = ToSet(c)
  <2>1. ConflictLines(open) = {<<"conflict", Key(row)>> : row \in {shown[i] : i \in DOMAIN shown}}
    BY DEF ConflictLines, ToSet, shown
  <2>2. ToSet(c) = {<<"conflict", Key(shown[i])>> : i \in DOMAIN shown}
    BY DEF ToSet
  <2> QED BY <2>1, <2>2
<1>7. Header(open) = a \o b \o c \o d \o e
  BY DEF Header, shown
<1> HIDE DEF a, b, c, d, e, H
<1>8. a \o b \in Seq(H) /\ a \o b \o c \in Seq(H) /\ a \o b \o c \o d \in Seq(H)
  BY <1>2, <1>3, <1>4, <1>5
<1>9. Header(open) \in Seq(H)
  BY <1>2, <1>7, <1>8
<1>10. /\ ToSet(a \o b \o c) = ToSet(a \o b) \cup ToSet(c)
       /\ ToSet(a \o b \o c \o d) = ToSet(a \o b \o c) \cup ToSet(d)
       /\ ToSet(Header(open)) = ToSet(a \o b \o c \o d) \cup ToSet(e)
  <2>1. ToSet(a \o b \o c) = ToSet(a \o b) \cup ToSet(c)
    BY <1>4, <1>8, JoinIs
  <2>2. ToSet(a \o b \o c \o d) = ToSet(a \o b \o c) \cup ToSet(d)
    BY <1>5, <1>8, JoinIs
  <2>3. ToSet(Header(open)) = ToSet(a \o b \o c \o d) \cup ToSet(e)
    BY <1>2, <1>7, <1>8, JoinIs
  <2> QED BY <2>1, <2>2, <2>3
<1> QED BY <1>5, <1>6, <1>9, <1>10 DEF H

\* A section names the facts it is given.
NamesOf(es) == {es[i].name : i \in DOMAIN es}
LEMMA SectionIs ==
    ASSUME NEW R, NEW kind \in Sectioned, NEW es \in Seq(LedgerEntity)
    PROVE  /\ Section(kind, es) \in Seq(GistLines(R))
           /\ FactsIn(Section(kind, es)) = NamesOf(es)
<1>1. /\ DOMAIN es = 1..Len(es) /\ Len(es) \in Nat /\ \A i \in DOMAIN es : es[i].name \in EntityNames
  <2>1. DOMAIN es = 1..Len(es) /\ Len(es) \in Nat /\ \A i \in DOMAIN es : es[i] \in LedgerEntity
    OBVIOUS
  <2>2. \A e \in LedgerEntity : e.name \in EntityNames
    BY DEF LedgerEntity
  <2> QED BY <2>1, <2>2
<1>2. CASE es = <<>>
  <2>1. Section(kind, es) = <<>>
    BY <1>2 DEF Section
  <2>2. DOMAIN es = {} /\ DOMAIN Section(kind, es) = {}
    BY <1>2, <2>1
  <2> QED BY <2>1, <2>2 DEF FactsIn, ToSet, NamesOf
<1>3. CASE es # <<>>
  <2> DEFINE a == <<<<"blank", kind>>, <<"title", kind>>>>
             b == [i \in DOMAIN es |-> es[i].name]
             L == GistLines(R)
  <2>1. <<"blank", kind>> \in HeadLines(R) /\ <<"title", kind>> \in HeadLines(R)
    BY DEF HeadLines
  <2>2. a \in Seq(HeadLines(R)) /\ a \in Seq(L)
    BY <2>1 DEF GistLines
  <2>3. \A i \in DOMAIN es : b[i] = es[i].name /\ b[i] \in L
    BY <1>1 DEF GistLines
  <2>4. Section(kind, es) = a \o b
    BY <1>3 DEF Section
  <2> HIDE DEF a, L
  <2>5. b \in Seq(L) /\ DOMAIN b = DOMAIN es
    BY <1>1, <2>3
  <2> HIDE DEF b
  <2>6. Section(kind, es) \in Seq(L) /\ ToSet(Section(kind, es)) = ToSet(a) \cup ToSet(b)
    BY <2>2, <2>4, <2>5, JoinIs
  <2>7. \A n \in ToSet(a) : n[1] \notin Sectioned
    <3>1. \A n \in ToSet(a) : n \in HeadLines(R)
      BY <2>2 DEF ToSet
    <3> QED BY <3>1, FactsOfHeads
  <2>8. ToSet(b) = NamesOf(es) /\ \A n \in NamesOf(es) : n[1] \in Sectioned
    BY <1>1, <2>3, <2>5, NamesAreSectioned DEF ToSet, NamesOf
  <2> QED BY <2>6, <2>7, <2>8 DEF FactsIn, L
<1> QED BY <1>2, <1>3

\* One section after another.
LEMMA RenderUnrolls ==
    ASSUME NEW R, NEW open \in Seq(R), NEW facts \in [Sectioned -> Seq(LedgerEntity)]
    PROVE  \E D \in [0..Len(GistKinds) -> Seq(GistLines(R))] :
           /\ Render(open, facts) = D[Len(GistKinds)]
           /\ D[0] = Header(open)
           /\ \A i \in 1..Len(GistKinds) : D[i] = NextSection(D[i - 1], i, facts)
<1> DEFINE n == Len(GistKinds)
           base == Header(open)
           step == [p \in Seq(GistLines(R)) \X (1..n) |-> NextSection(p[1], p[2], facts)]
           Solves(f) == f = [i \in 0..n |-> IF i = 0 THEN base ELSE NextSection(f[i - 1], i, facts)]
           D == CHOOSE f : Solves(f)
<1>1. base \in Seq(GistLines(R)) /\ n \in Nat
  <2>1. Header(open) \in Seq(HeadLines(R)) /\ HeadLines(R) \subseteq GistLines(R)
    BY HeaderIs DEF GistLines
  <2>2. Header(open) \in Seq(GistLines(R))
    BY <2>1
  <2> QED BY <2>2, KindsAre
<1>2. step \in [Seq(GistLines(R)) \X (1..n) -> Seq(GistLines(R))]
  <2>1. ASSUME NEW a \in Seq(GistLines(R)), NEW i \in 1..n
        PROVE  NextSection(a, i, facts) \in Seq(GistLines(R))
    <3>1. GistKinds[i] \in Sectioned
      BY KindsAre
    <3>2. Section(GistKinds[i], facts[GistKinds[i]]) \in Seq(GistLines(R))
      BY <3>1, SectionIs
    <3> QED BY <3>2, JoinIs DEF NextSection
  <2> QED BY <2>1
<1>3. \A p \in Seq(GistLines(R)) \X (1..n) : step[p] = NextSection(p[1], p[2], facts)
  OBVIOUS
<1>4. Render(open, facts) = D[n]
  BY Zenon DEF Render
<1> HIDE DEF base, step, n, D
<1>5. PICK f \in [0..n -> Seq(GistLines(R))] : Recurs(f, n, base, step)
  BY <1>1, <1>2, RecursionExists
<1>6. \A k \in 1..n : f[k] = NextSection(f[k - 1], k, facts)
  <2> TAKE k \in 1..n
  <2>1. <<f[k - 1], k>> \in Seq(GistLines(R)) \X (1..n)
    BY <1>1
  <2> QED BY <1>3, <1>5, <2>1 DEF Recurs
<1>7. Solves(f)
  BY <1>1, <1>5, <1>6 DEF Recurs
<1>8. Solves(D)
  <2> HIDE DEF Solves
  <2> QED BY <1>7 DEF D
<1>9. DOMAIN D = 0..n /\ D[0] = base /\ \A i \in 1..n : D[i] = NextSection(D[i - 1], i, facts)
  BY <1>1, <1>8
<1>10. D \in [0..n -> Seq(GistLines(R))]
  <2> DEFINE S == {i \in 0..n : D[i] \in Seq(GistLines(R))}
  <2>1. S \in SUBSET Nat /\ 0 \in S
    BY <1>1, <1>9
  <2>2. ASSUME NEW k \in S, k < n PROVE k + 1 \in S
    <3>1. k + 1 \in 1..n /\ (k + 1) - 1 = k
      BY <1>1, <2>2
    <3>2. D[k + 1] = NextSection(D[k], k + 1, facts)
      BY <1>9, <3>1
    <3>3. step[<<D[k], k + 1>>] \in Seq(GistLines(R))
      BY <1>2, <3>1
    <3>4. step[<<D[k], k + 1>>] = NextSection(D[k], k + 1, facts)
      BY <1>3, <3>1
    <3> QED BY <1>1, <2>2, <3>2, <3>3, <3>4
  <2> HIDE DEF S
  <2>3. 0..n \subseteq S
    BY <1>1, <2>1, <2>2, UpToInduction
  <2>4. \A i \in 0..n : D[i] \in Seq(GistLines(R))
    BY <2>3 DEF S
  <2>5. D = [i \in 0..n |-> D[i]]
    BY <1>8
  <2> QED BY <2>4, <2>5
<1> QED BY <1>4, <1>9, <1>10 DEF base, n

\* The whole text: the header comes first, and then the facts it is given.
NamesUpto(facts, k) == UNION {NamesOf(facts[GistKinds[j]]) : j \in 1..k}
Renders(h, facts, k, lines) ==
    /\ Len(h) <= Len(lines)
    /\ \A i \in 1..Len(h) : lines[i] = h[i]
    /\ FactsIn(lines) = NamesUpto(facts, k)
LEMMA NextSectionRenders ==
    ASSUME NEW R, NEW facts \in [Sectioned -> Seq(LedgerEntity)], NEW k \in Nat, k < Len(GistKinds),
           NEW h \in Seq(GistLines(R)), NEW a \in Seq(GistLines(R)), Renders(h, facts, k, a)
    PROVE  Renders(h, facts, k + 1, NextSection(a, k + 1, facts))
<1> DEFINE kind == GistKinds[k + 1]
           sec == Section(kind, facts[kind])
           b == NextSection(a, k + 1, facts)
<1>1. k + 1 \in 1..Len(GistKinds)
  BY KindsAre
<1>2. kind \in Sectioned /\ facts[kind] \in Seq(LedgerEntity)
  BY <1>1, KindsAre
<1>3. sec \in Seq(GistLines(R)) /\ FactsIn(sec) = NamesOf(facts[kind])
  BY <1>2, SectionIs
<1>4. b = a \o sec
  BY DEF NextSection
<1>5. NamesUpto(facts, k + 1) = NamesUpto(facts, k) \cup NamesOf(facts[kind])
  <2>1. 1..(k + 1) = (1..k) \cup {k + 1}
    OBVIOUS
  <2> QED BY <2>1, Zenon DEF NamesUpto
<1> HIDE DEF kind, sec, b
<1>6. /\ Len(b) = Len(a) + Len(sec) /\ Len(a) \in Nat /\ Len(sec) \in Nat
      /\ \A i \in 1..Len(a) : b[i] = a[i]
      /\ ToSet(b) = ToSet(a) \cup ToSet(sec)
  BY <1>3, <1>4, JoinIs
<1>7. FactsIn(b) = FactsIn(a) \cup FactsIn(sec)
  BY <1>6 DEF FactsIn
<1>8. Len(h) <= Len(a) /\ Len(h) \in Nat
  BY DEF Renders
<1>9. \A i \in 1..Len(h) : b[i] = h[i]
  <2> TAKE i \in 1..Len(h)
  <2>1. i \in 1..Len(a)
    BY <1>6, <1>8
  <2> QED BY <1>6, <2>1 DEF Renders
<1>10. Len(h) <= Len(b)
  BY <1>6, <1>8
<1>11. FactsIn(b) = NamesUpto(facts, k + 1)
  BY <1>3, <1>5, <1>7 DEF Renders
<1> QED BY <1>9, <1>10, <1>11 DEF Renders, b

LEMMA RenderIs ==
    ASSUME NEW R, NEW open \in Seq(R), NEW facts \in [Sectioned -> Seq(LedgerEntity)]
    PROVE  LET lines == Render(open, facts) IN
           /\ lines \in Seq(GistLines(R))
           /\ Len(Header(open)) <= Len(lines) /\ Len(Header(open)) \in Nat /\ Len(lines) \in Nat
           /\ \A i \in 1..Len(Header(open)) : lines[i] = Header(open)[i]
           /\ FactsIn(lines) = UNION {NamesOf(facts[kind]) : kind \in Sectioned}
<1> DEFINE n == Len(GistKinds)
           h == Header(open)
<1>1. PICK D \in [0..n -> Seq(GistLines(R))] :
        /\ Render(open, facts) = D[n]
        /\ D[0] = h
        /\ \A i \in 1..n : D[i] = NextSection(D[i - 1], i, facts)
  BY RenderUnrolls
<1> DEFINE S == {k \in 0..n : Renders(h, facts, k, D[k])}
<1>2. n \in Nat
  BY KindsAre
<1>3. h \in Seq(HeadLines(R)) /\ h \in Seq(GistLines(R)) /\ Len(h) \in Nat /\ DOMAIN h = 1..Len(h)
  <2>1. h \in Seq(HeadLines(R))
    BY HeaderIs
  <2>2. h \in Seq(GistLines(R))
    BY <1>1, <1>2
  <2> HIDE DEF h
  <2> QED BY <2>1, <2>2
<1> HIDE DEF n, h
<1>4. 0 \in S
  <2>1. FactsIn(h) = {}
    <3>1. \A x \in ToSet(h) : x \in HeadLines(R)
      BY <1>3 DEF ToSet
    <3>2. \A x \in ToSet(h) : x[1] \notin Sectioned
      BY <3>1, FactsOfHeads
    <3> QED BY <3>2 DEF FactsIn
  <2>2. NamesUpto(facts, 0) = {}
    BY DEF NamesUpto
  <2>3. Renders(h, facts, 0, h)
    BY <1>3, <2>1, <2>2 DEF Renders
  <2> QED BY <1>1, <1>2, <2>3
<1>5. ASSUME NEW k \in S, k < n PROVE k + 1 \in S
  <2>1. k \in Nat /\ k \in 0..n /\ k + 1 \in 1..n /\ k + 1 \in 0..n /\ (k + 1) - 1 = k /\ Renders(h, facts, k, D[k])
    BY <1>2, <1>5
  <2>2. D[k] \in Seq(GistLines(R)) /\ D[k + 1] = NextSection(D[k], k + 1, facts)
    BY <1>1, <2>1
  <2>3. Renders(h, facts, k + 1, D[k + 1])
    BY <1>3, <1>5, <2>1, <2>2, NextSectionRenders DEF n
  <2> QED BY <2>1, <2>3
<1>6. Renders(h, facts, n, D[n])
  <2>1. S \in SUBSET Nat
    BY <1>2
  <2> HIDE DEF S
  <2>2. 0..n \subseteq S
    BY <1>2, <1>4, <1>5, <2>1, UpToInduction
  <2>3. n \in S
    BY <1>2, <2>2
  <2> QED BY <2>3 DEF S
<1>7. NamesUpto(facts, n) = UNION {NamesOf(facts[kind]) : kind \in Sectioned}
  <2>1. \A x : (\E j \in 1..n : x \in NamesOf(facts[GistKinds[j]])) <=> \E kind \in Sectioned : x \in NamesOf(facts[kind])
    BY KindsAre, Zenon DEF n
  <2>2. \A x : x \in NamesUpto(facts, n) <=> \E j \in 1..n : x \in NamesOf(facts[GistKinds[j]])
    BY Zenon DEF NamesUpto
  <2>3. \A x : x \in UNION {NamesOf(facts[kind]) : kind \in Sectioned} <=> \E kind \in Sectioned : x \in NamesOf(facts[kind])
    BY Zenon
  <2> QED BY <2>1, <2>2, <2>3, Zenon
<1>8. D[n] \in Seq(GistLines(R)) /\ Len(D[n]) \in Nat
  BY <1>1, <1>2
<1> QED BY <1>1, <1>3, <1>6, <1>7, <1>8 DEF h, Renders

\* The facts of the ledger's kinds, in order, are all of its facts.
LEMMA OfKindIs ==
    ASSUME NEW led \in Seq(LedgerEntity), NEW kind
    PROVE  /\ OfKind(led, kind) \in Seq(LedgerEntity)
           /\ NamesOf(OfKind(led, kind)) = {n \in NamesOf(led) : n[1] = kind}
<1> DEFINE P == {i \in DOMAIN led : led[i].name[1] = kind}
           p == Picked(led, P)
<1>1. P \in SUBSET (DOMAIN led)
  OBVIOUS
<1>2. OfKind(led, kind) = p
  BY DEF OfKind
<1>3. /\ p \in Seq(LedgerEntity)
      /\ \A k \in DOMAIN p : \E i \in P : p[k] = led[i]
      /\ \A i \in P : \E k \in DOMAIN p : p[k] = led[i]
  BY <1>1, PickedIs
<1>4. \A n : n \in NamesOf(p) <=> \E i \in P : n = led[i].name
  <2>1. \A n : n \in NamesOf(p) <=> \E k \in DOMAIN p : n = p[k].name
    BY DEF NamesOf
  <2> HIDE DEF p, P
  <2>2. \A n : (\E k \in DOMAIN p : n = p[k].name) => \E i \in P : n = led[i].name
    <3> SUFFICES ASSUME NEW k \in DOMAIN p PROVE \E i \in P : p[k].name = led[i].name
      OBVIOUS
    <3>1. PICK i \in P : p[k] = led[i]
      BY <1>3
    <3> QED BY <3>1
  <2>3. \A n : (\E i \in P : n = led[i].name) => \E k \in DOMAIN p : n = p[k].name
    <3> SUFFICES ASSUME NEW i \in P PROVE \E k \in DOMAIN p : led[i].name = p[k].name
      OBVIOUS
    <3>1. PICK k \in DOMAIN p : p[k] = led[i]
      BY <1>3
    <3> QED BY <3>1
  <2> QED
    <3> TAKE n
    <3>1. n \in NamesOf(p) => \E i \in P : n = led[i].name
      BY <2>1, <2>2
    <3>2. (\E i \in P : n = led[i].name) => n \in NamesOf(p)
      BY <2>1, <2>3
    <3> QED BY <3>1, <3>2
<1>5. \A n : n \in {x \in NamesOf(led) : x[1] = kind} <=> \E i \in P : n = led[i].name
  BY DEF NamesOf
<1> HIDE DEF p
<1> QED BY <1>2, <1>3, <1>4, <1>5

LEMMA RankedLinesAre ==
    ASSUME NEW R, NEW open \in Seq(R), NEW es \in Seq(LedgerEntity)
    PROVE  LET lines == RankedLines(open, es) IN
           /\ Len(Header(open)) <= Len(lines) /\ Len(Header(open)) \in Nat /\ Len(lines) \in Nat
           /\ DOMAIN lines = 1..Len(lines)
           /\ \A i \in 1..Len(Header(open)) : lines[i] = Header(open)[i]
           /\ FactsIn(lines) = NamesOf(es)
<1> DEFINE facts == [kind \in Sectioned |-> OfKind(es, kind)]
<1>1. facts \in [Sectioned -> Seq(LedgerEntity)]
  BY OfKindIs
<1>2. \A kind \in Sectioned : NamesOf(facts[kind]) = {n \in NamesOf(es) : n[1] = kind}
  BY OfKindIs
<1>3. RankedLines(open, es) = Render(open, facts)
  BY DEF RankedLines
<1> HIDE DEF facts
<1>4. UNION {NamesOf(facts[kind]) : kind \in Sectioned} = NamesOf(es)
  <2>1. \A n \in NamesOf(es) : n[1] \in Sectioned
    <3>1. \A i \in DOMAIN es : es[i].name \in EntityNames
      <4>1. \A i \in DOMAIN es : es[i] \in LedgerEntity
        OBVIOUS
      <4>2. \A e \in LedgerEntity : e.name \in EntityNames
        BY DEF LedgerEntity
      <4> QED BY <4>1, <4>2
    <3>2. \A n \in NamesOf(es) : n \in EntityNames
      BY <3>1 DEF NamesOf
    <3> QED BY <3>2, NamesAreSectioned
  <2>2. \A x : x \in UNION {NamesOf(facts[kind]) : kind \in Sectioned} <=> \E kind \in Sectioned : x \in NamesOf(facts[kind])
    BY Zenon
  <2> QED BY <1>2, <2>1, <2>2
<1>5. /\ Render(open, facts) \in Seq(GistLines(R))
      /\ Len(Header(open)) <= Len(Render(open, facts)) /\ Len(Header(open)) \in Nat
      /\ Len(Render(open, facts)) \in Nat
      /\ \A i \in 1..Len(Header(open)) : Render(open, facts)[i] = Header(open)[i]
      /\ FactsIn(Render(open, facts)) = UNION {NamesOf(facts[kind]) : kind \in Sectioned}
  BY <1>1, RenderIs
<1>6. DOMAIN Render(open, facts) = 1..Len(Render(open, facts))
  BY <1>5
<1> QED BY <1>3, <1>4, <1>5, <1>6

\* Some fact stands no higher than any other.
LEMMA LowestStands ==
    ASSUME NEW es \in Seq(LedgerEntity), es # <<>>
    PROVE  \E v \in DOMAIN es : \A i \in DOMAIN es : ~Below(es[i], es[v])
<1> DEFINE n == Len(es)
           S == {k \in 0..n : k = 0 \/ \E v \in 1..k : \A i \in 1..k : ~Below(es[i], es[v])}
<1>1. n \in Nat /\ n # 0 /\ DOMAIN es = 1..n
  OBVIOUS
<1>2. \A i \in 1..n : RankOf(es[i].name) \in Int /\ es[i].turn \in Int
  <2>1. \A i \in 1..n : es[i] \in LedgerEntity
    OBVIOUS
  <2>2. \A e \in LedgerEntity : e.name \in EntityNames /\ e.turn \in Nat
    BY DEF LedgerEntity
  <2> QED BY <2>1, <2>2, GistAssumption
<1> HIDE DEF n
<1>3. ASSUME NEW k \in S, k < n PROVE k + 1 \in S
  <2>1. k \in Nat /\ k + 1 \in 1..n /\ k + 1 \in 0..n /\ k + 1 # 0 /\ k <= n
    BY <1>1, <1>3
  <2>2. ~Below(es[k + 1], es[k + 1])
    BY <1>2, <2>1 DEF Below
  <2>3. CASE k = 0
    <3>1. \A i \in 1..1 : i = 1
      OBVIOUS
    <3> QED BY <2>1, <2>2, <2>3, <3>1
  <2>4. CASE k # 0
    <3>1. PICK v \in 1..k : \A i \in 1..k : ~Below(es[i], es[v])
      BY <1>3, <2>4
    <3>2. /\ v \in 1..n /\ v \in 1..(k + 1) /\ k + 1 \in 1..(k + 1)
          /\ \A i \in 1..(k + 1) : i \in 1..n /\ (i \in 1..k \/ i = k + 1)
      BY <1>1, <2>1
    <3> HIDE DEF S
    <3>3. CASE Below(es[k + 1], es[v])
      <4>1. ASSUME NEW i \in 1..(k + 1) PROVE ~Below(es[i], es[k + 1])
        <5>1. CASE i = k + 1
          BY <2>2, <5>1
        <5>2. CASE i \in 1..k
          <6>1. ~Below(es[i], es[v])
            BY <3>1, <5>2
          <6>2. /\ RankOf(es[i].name) \in Int /\ es[i].turn \in Int
                /\ RankOf(es[v].name) \in Int /\ es[v].turn \in Int
                /\ RankOf(es[k + 1].name) \in Int /\ es[k + 1].turn \in Int
            BY <1>2, <2>1, <3>2
          <6> QED BY <3>3, <6>1, <6>2 DEF Below
        <5> QED BY <3>2, <5>1, <5>2
      <4> QED BY <2>1, <3>2, <4>1 DEF S
    <3>4. CASE ~Below(es[k + 1], es[v])
      BY <2>1, <3>1, <3>2, <3>4 DEF S
    <3> QED BY <3>3, <3>4
  <2> QED BY <2>3, <2>4
<1>4. n \in S
  <2>1. S \in SUBSET Nat /\ 0 \in S
    BY <1>1
  <2> HIDE DEF S
  <2>2. 0..n \subseteq S
    BY <1>1, <1>3, <2>1, UpToInduction
  <2> QED BY <1>1, <2>2
<1> QED BY <1>1, <1>4

\* A round evicts nothing, or the fact that stands lowest.
LEMMA EvictIs ==
    ASSUME NEW open, NEW es \in Seq(LedgerEntity)
    PROVE  /\ Evict(open, es) \in Seq(LedgerEntity)
           /\ \/ /\ Evict(open, es) = es
                 /\ Len(RankedLines(open, es)) <= GistBudget \/ es = <<>>
              \/ /\ Len(Evict(open, es)) = Len(es) - 1
                 /\ \A k \in DOMAIN Evict(open, es) : \E i \in DOMAIN es : Evict(open, es)[k] = es[i]
                 /\ \E v \in DOMAIN es :
                      /\ \A i \in DOMAIN es : ~Below(es[i], es[v])
                      /\ \A i \in DOMAIN es : i = v \/ \E k \in DOMAIN Evict(open, es) : Evict(open, es)[k] = es[i]
<1>1. CASE Len(RankedLines(open, es)) <= GistBudget \/ es = <<>>
  BY <1>1 DEF Evict
<1>2. CASE ~(Len(RankedLines(open, es)) <= GistBudget \/ es = <<>>)
  <2> DEFINE v == CHOOSE v \in DOMAIN es : \A i \in DOMAIN es : ~Below(es[i], es[v])
             P == DOMAIN es \ {v}
             p == Picked(es, P)
  <2>1. v \in DOMAIN es /\ \A i \in DOMAIN es : ~Below(es[i], es[v])
    BY <1>2, LowestStands
  <2>2. Evict(open, es) = p
    BY <1>2 DEF Evict
  <2> HIDE DEF v
  <2>3. P \in SUBSET (DOMAIN es)
    OBVIOUS
  <2>4. /\ p \in Seq(LedgerEntity)
        /\ \A k \in DOMAIN p : \E i \in P : p[k] = es[i]
        /\ \A i \in P : \E k \in DOMAIN p : p[k] = es[i]
        /\ Len(p) = Cardinality(P)
    BY <2>3, PickedIs
  <2>5. Cardinality(P) = Len(es) - 1
    <3>1. IsFiniteSet(DOMAIN es) /\ Cardinality(DOMAIN es) = Len(es)
      BY UpToCounts
    <3> QED BY <2>1, <3>1, FS_RemoveElement
  <2>6. \A i \in DOMAIN es : i = v \/ i \in P
    OBVIOUS
  <2> HIDE DEF P, p
  <2>7. \A i \in P : i \in DOMAIN es
    BY <2>3
  <2> QED BY <2>1, <2>2, <2>4, <2>5, <2>6, <2>7
<1> QED BY <1>1, <1>2

\* What eviction leaves of some facts after k rounds.
Leaves(open, es, k, cur) ==
    /\ \A j \in DOMAIN cur : \E i \in DOMAIN es : cur[j] = es[i]
    /\ \A i \in DOMAIN es :
        \/ \E j \in DOMAIN cur : cur[j] = es[i]
        \/ \A j \in DOMAIN cur : RankOf(cur[j].name) >= RankOf(es[i].name)
    /\ Len(RankedLines(open, cur)) <= GistBudget \/ cur = <<>> \/ Len(cur) + k <= Len(es)
LEMMA EvictLeaves ==
    ASSUME NEW open, NEW es \in Seq(LedgerEntity), NEW k \in Nat, NEW cur \in Seq(LedgerEntity),
           Leaves(open, es, k, cur)
    PROVE  Leaves(open, es, k + 1, Evict(open, cur))
<1> DEFINE new == Evict(open, cur)
<1>1. CASE new = cur /\ (Len(RankedLines(open, cur)) <= GistBudget \/ cur = <<>>)
  BY <1>1, Zenon DEF Leaves
<1>2. CASE /\ Len(new) = Len(cur) - 1
           /\ \A j \in DOMAIN new : \E i \in DOMAIN cur : new[j] = cur[i]
           /\ \E v \in DOMAIN cur :
                /\ \A i \in DOMAIN cur : ~Below(cur[i], cur[v])
                /\ \A i \in DOMAIN cur : i = v \/ \E j \in DOMAIN new : new[j] = cur[i]
  <2>1. PICK v \in DOMAIN cur :
            /\ \A i \in DOMAIN cur : ~Below(cur[i], cur[v])
            /\ \A i \in DOMAIN cur : i = v \/ \E j \in DOMAIN new : new[j] = cur[i]
    BY <1>2
  <2>2. \A i \in DOMAIN cur : RankOf(cur[i].name) \in Int
    <3>1. \A i \in DOMAIN cur : cur[i] \in LedgerEntity
      OBVIOUS
    <3>2. \A e \in LedgerEntity : e.name \in EntityNames
      BY DEF LedgerEntity
    <3> QED BY <3>1, <3>2, GistAssumption
  <2>3. \A i \in DOMAIN cur : RankOf(cur[i].name) >= RankOf(cur[v].name)
    BY <2>1, <2>2 DEF Below
  <2>4. Len(cur) \in Nat /\ Len(es) \in Nat /\ cur # <<>>
    BY <2>1
  <2> HIDE DEF new
  <2>5. \A j \in DOMAIN new : \E i \in DOMAIN es : new[j] = es[i]
    BY <1>2, Zenon DEF Leaves
  <2>6. ASSUME NEW i \in DOMAIN es, ~\E j \in DOMAIN new : new[j] = es[i]
        PROVE  \A j \in DOMAIN new : RankOf(new[j].name) >= RankOf(es[i].name)
    <3> TAKE j \in DOMAIN new
    <3>1. PICK q \in DOMAIN cur : new[j] = cur[q]
      BY <1>2
    <3>2. CASE \E r \in DOMAIN cur : cur[r] = es[i]
      <4>1. PICK r \in DOMAIN cur : cur[r] = es[i]
        BY <3>2
      <4>2. r = v
        BY <2>1, <2>6, <4>1, Zenon
      <4> QED BY <2>3, <3>1, <4>1, <4>2
    <3>3. CASE \A r \in DOMAIN cur : RankOf(cur[r].name) >= RankOf(es[i].name)
      BY <3>1, <3>3
    <3> QED BY <3>2, <3>3 DEF Leaves
  <2>7. CASE Len(RankedLines(open, cur)) <= GistBudget \/ cur = <<>>
    <3>1. new = cur
      BY <2>7 DEF new, Evict
    <3> QED BY <1>2, <2>4, <3>1
  <2>8. CASE Len(cur) + k <= Len(es)
    <3>1. Len(new) + (k + 1) <= Len(es)
      BY <1>2, <2>4, <2>8
    <3> QED BY <2>5, <2>6, <3>1, Zenon DEF Leaves, new
  <2> QED BY <2>7, <2>8 DEF Leaves
<1> QED BY <1>1, <1>2, EvictIs

\* One round of eviction after another.
Rounds(open, es, D) ==
    /\ D \in [0..Len(es) -> Seq(LedgerEntity)]
    /\ Evicted(open, es) = D[Len(es)]
    /\ D[0] = es
    /\ \A i \in 1..Len(es) : D[i] = Evict(open, D[i - 1])
LEMMA EvictedUnrolls ==
    ASSUME NEW open, NEW es \in Seq(LedgerEntity)
    PROVE  \E D : Rounds(open, es, D)
<1> DEFINE n == Len(es)
           base == es
           step == [p \in Seq(LedgerEntity) \X (1..n) |-> Evict(open, p[1])]
           Solves(f) == f = [i \in 0..n |-> IF i = 0 THEN base ELSE Evict(open, f[i - 1])]
           D == CHOOSE f : Solves(f)
<1>1. base \in Seq(LedgerEntity) /\ n \in Nat
  OBVIOUS
<1>2. step \in [Seq(LedgerEntity) \X (1..n) -> Seq(LedgerEntity)]
  <2>1. ASSUME NEW a \in Seq(LedgerEntity), NEW i \in 1..n PROVE Evict(open, a) \in Seq(LedgerEntity)
    BY EvictIs
  <2> QED BY <2>1
<1>3. \A p \in Seq(LedgerEntity) \X (1..n) : step[p] = Evict(open, p[1])
  OBVIOUS
<1>4. Evicted(open, es) = D[n]
  BY Zenon DEF Evicted
<1> HIDE DEF base, step, n, D
<1>5. PICK f \in [0..n -> Seq(LedgerEntity)] : Recurs(f, n, base, step)
  BY <1>1, <1>2, RecursionExists
<1>6. \A k \in 1..n : f[k] = Evict(open, f[k - 1])
  <2> TAKE k \in 1..n
  <2>1. <<f[k - 1], k>> \in Seq(LedgerEntity) \X (1..n)
    BY <1>1
  <2> QED BY <1>3, <1>5, <2>1 DEF Recurs
<1>7. Solves(f)
  BY <1>1, <1>5, <1>6 DEF Recurs
<1>8. Solves(D)
  <2> HIDE DEF Solves
  <2> QED BY <1>7 DEF D
<1>9. DOMAIN D = 0..n /\ D[0] = base /\ \A i \in 1..n : D[i] = Evict(open, D[i - 1])
  BY <1>1, <1>8
<1>10. D \in [0..n -> Seq(LedgerEntity)]
  <2> DEFINE S == {i \in 0..n : D[i] \in Seq(LedgerEntity)}
  <2>1. S \in SUBSET Nat /\ 0 \in S
    BY <1>1, <1>9
  <2>2. ASSUME NEW k \in S, k < n PROVE k + 1 \in S
    <3>1. k + 1 \in 1..n /\ (k + 1) - 1 = k
      BY <1>1, <2>2
    <3>2. D[k + 1] = Evict(open, D[k])
      BY <1>9, <3>1
    <3>3. step[<<D[k], k + 1>>] \in Seq(LedgerEntity)
      BY <1>2, <3>1
    <3>4. step[<<D[k], k + 1>>] = Evict(open, D[k])
      BY <1>3, <3>1
    <3> QED BY <1>1, <2>2, <3>2, <3>3, <3>4
  <2> HIDE DEF S
  <2>3. 0..n \subseteq S
    BY <1>1, <2>1, <2>2, UpToInduction
  <2>4. \A i \in 0..n : D[i] \in Seq(LedgerEntity)
    BY <2>3 DEF S
  <2>5. D = [i \in 0..n |-> D[i]]
    BY <1>8
  <2> QED BY <2>4, <2>5
<1>11. Rounds(open, es, D)
  BY <1>4, <1>9, <1>10 DEF Rounds, base, n
<1> QED BY <1>11

LEMMA EvictedLeaves ==
    ASSUME NEW open, NEW es \in Seq(LedgerEntity)
    PROVE  /\ Evicted(open, es) \in Seq(LedgerEntity)
           /\ Leaves(open, es, Len(es), Evicted(open, es))
<1> DEFINE n == Len(es)
<1>0. PICK D : Rounds(open, es, D)
  BY EvictedUnrolls
<1>1. /\ D \in [0..n -> Seq(LedgerEntity)]
      /\ Evicted(open, es) = D[n]
      /\ D[0] = es
      /\ \A i \in 1..n : D[i] = Evict(open, D[i - 1])
  BY <1>0 DEF Rounds
<1>2. n \in Nat
  OBVIOUS
<1> DEFINE S == {k \in 0..n : Leaves(open, es, k, D[k])}
<1>3. 0 \in S
  <2>1. \A i \in DOMAIN es : \E j \in DOMAIN es : es[j] = es[i]
    OBVIOUS
  <2>2. Len(es) + 0 <= Len(es)
    OBVIOUS
  <2>3. Leaves(open, es, 0, es)
    BY <2>1, <2>2, Zenon DEF Leaves
  <2> QED BY <1>1, <1>2, <2>3
<1> HIDE DEF n
<1>4. ASSUME NEW k \in S, k < n PROVE k + 1 \in S
  <2>1. k \in Nat /\ k \in 0..n /\ k + 1 \in 1..n /\ k + 1 \in 0..n /\ (k + 1) - 1 = k /\ Leaves(open, es, k, D[k])
    BY <1>2, <1>4
  <2>2. D[k] \in Seq(LedgerEntity) /\ D[k + 1] = Evict(open, D[k])
    BY <1>1, <2>1
  <2>3. Leaves(open, es, k + 1, D[k + 1])
    BY <2>1, <2>2, EvictLeaves
  <2> QED BY <2>1, <2>3
<1>5. n \in S
  <2>1. S \in SUBSET Nat
    BY <1>2
  <2> HIDE DEF S
  <2>2. 0..n \subseteq S
    BY <1>2, <1>3, <1>4, <2>1, UpToInduction
  <2> QED BY <1>2, <2>2
<1> QED BY <1>1, <1>2, <1>5 DEF n

\* The identifiers a capped list keeps stand as high as those it leaves out.
LEMMA TopIs ==
    ASSUME NEW led \in Seq(LedgerEntity)
    PROVE  LET top == TopLiterals(led) IN
           /\ top \in Seq(LedgerEntity)
           /\ \A k \in DOMAIN top : \E i \in DOMAIN led : top[k] = led[i]
           /\ \A i \in DOMAIN led :
                \/ \E k \in DOMAIN top : top[k] = led[i]
                \/ /\ led[i].name[1] = "LITERAL"
                   /\ \A k \in DOMAIN top : top[k].name[1] = "LITERAL" =>
                            RankOf(top[k].name) >= RankOf(led[i].name)
<1> DEFINE lits == {i \in DOMAIN led : led[i].name[1] = "LITERAL"}
           above(i) == {j \in lits : Below(led[i], led[j]) \/ (~Below(led[j], led[i]) /\ j < i)}
           P == {i \in DOMAIN led : led[i].name[1] \in Sectioned
                                        /\ (i \in lits => Cardinality(above(i)) < LiteralCap)}
           top == Picked(led, P)
<1>1. TopLiterals(led) = top
  BY DEF TopLiterals
<1>2. P \in SUBSET (DOMAIN led)
  OBVIOUS
<1>3. /\ top \in Seq(LedgerEntity)
      /\ \A k \in DOMAIN top : \E i \in P : top[k] = led[i]
      /\ \A i \in P : \E k \in DOMAIN top : top[k] = led[i]
  BY <1>2, PickedIs
<1> HIDE DEF top
<1>4. /\ IsFiniteSet(DOMAIN led) /\ LiteralCap \in Nat
      /\ \A i \in DOMAIN led : i \in Int
  BY UpToCounts, GistAssumption
<1>5. \A i \in DOMAIN led : /\ led[i].name[1] \in Sectioned
                            /\ RankOf(led[i].name) \in Int /\ led[i].turn \in Int
  <2>1. \A i \in DOMAIN led : led[i] \in LedgerEntity
    OBVIOUS
  <2>2. \A e \in LedgerEntity : e.name \in EntityNames /\ e.turn \in Int
    BY DEF LedgerEntity
  <2> QED BY <2>1, <2>2, GistAssumption, NamesAreSectioned
<1>6. \A i \in lits : above(i) \subseteq lits /\ IsFiniteSet(above(i)) /\ Cardinality(above(i)) \in Nat
  <2>1. lits \subseteq DOMAIN led /\ \A i \in lits : above(i) \subseteq lits
    OBVIOUS
  <2> HIDE DEF lits, above
  <2> QED BY <1>4, <2>1, FS_Subset, FS_CardinalityType
<1>7. ASSUME NEW i \in DOMAIN led, i \notin P
      PROVE  /\ led[i].name[1] = "LITERAL"
             /\ \A k \in DOMAIN top : top[k].name[1] = "LITERAL" =>
                    RankOf(top[k].name) >= RankOf(led[i].name)
  <2>1. i \in lits /\ ~(Cardinality(above(i)) < LiteralCap)
    BY <1>5, <1>7
  <2>2. ASSUME NEW k \in DOMAIN top, top[k].name[1] = "LITERAL"
        PROVE  RankOf(top[k].name) >= RankOf(led[i].name)
    <3>1. PICK p \in P : top[k] = led[p]
      BY <1>3
    <3>2. p \in lits /\ Cardinality(above(p)) < LiteralCap
      BY <2>2, <3>1
    <3>3. ~(RankOf(led[p].name) < RankOf(led[i].name))
      <4> SUFFICES ASSUME RankOf(led[p].name) < RankOf(led[i].name) PROVE FALSE
        OBVIOUS
      <4>1. ASSUME NEW j \in above(i) PROVE j \in above(p)
        <5>1. j \in lits /\ (Below(led[i], led[j]) \/ ~Below(led[j], led[i]))
          OBVIOUS
        <5>2. j \in DOMAIN led /\ p \in DOMAIN led
          BY <3>2, <5>1
        <5> HIDE DEF above, lits
        <5>3. /\ RankOf(led[j].name) \in Int /\ RankOf(led[i].name) \in Int /\ RankOf(led[p].name) \in Int
              /\ led[j].turn \in Int /\ led[i].turn \in Int /\ led[p].turn \in Int
          BY <1>5, <5>2
        <5>4. RankOf(led[i].name) <= RankOf(led[j].name)
          BY <5>1, <5>3 DEF Below
        <5>5. Below(led[p], led[j])
          BY <5>3, <5>4 DEF Below
        <5> QED BY <5>1, <5>5 DEF above
      <4>2. above(i) \subseteq above(p)
        BY <4>1
      <4>3. /\ IsFiniteSet(above(p)) /\ Cardinality(above(p)) \in Nat
            /\ Cardinality(above(i)) \in Nat
        BY <1>6, <2>1, <3>2
      <4> HIDE DEF above, lits, P
      <4>4. Cardinality(above(i)) <= Cardinality(above(p))
        BY <4>2, <4>3, FS_Subset
      <4> QED BY <1>4, <2>1, <3>2, <4>3, <4>4
    <3>4. p \in DOMAIN led
      BY <1>2
    <3>5. RankOf(led[p].name) \in Int /\ RankOf(led[i].name) \in Int
      BY <1>5, <3>4
    <3> QED BY <3>1, <3>3, <3>5
  <2> QED BY <2>1, <2>2
<1> HIDE DEF P
<1> QED BY <1>1, <1>2, <1>3, <1>7

\* Cutting from the end spares a header that fits.
LEMMA StaticKeeps ==
    ASSUME NEW R, NEW open \in Seq(R), NEW led \in Seq(LedgerEntity)
    PROVE  StaticKeepsConflicts(led, open)
<1> SUFFICES ASSUME Len(Header(open)) <= GistBudget
             PROVE  ConflictLines(open) \subseteq ToSet(StaticGist(led, open))
  BY DEF StaticKeepsConflicts
<1> DEFINE capped == [kind \in Sectioned |->
                        IF kind = "LITERAL" THEN LastOf(OfKind(led, kind), LiteralCap)
                        ELSE OfKind(led, kind)]
           room == IF GistBudget < 4 THEN 4 ELSE GistBudget
           h == Header(open)
           lines == Render(open, capped)
<1>1. StaticGist(led, open) = AtMost(lines, room)
  BY DEF StaticGist
<1>2. GistBudget \in Nat /\ LiteralCap \in Nat
  BY GistAssumption
<1>3. capped \in [Sectioned -> Seq(LedgerEntity)]
  <2>1. ASSUME NEW s \in Seq(LedgerEntity) PROVE LastOf(s, LiteralCap) \in Seq(LedgerEntity)
    <3> DEFINE a == IF Len(s) < LiteralCap THEN 1 ELSE Len(s) - LiteralCap + 1
    <3>1. a \in Int /\ Len(s) \in Int /\ \A i \in a..Len(s) : s[i] \in LedgerEntity
      BY <1>2
    <3>2. LastOf(s, LiteralCap) = SubSeq(s, a, Len(s))
      BY DEF LastOf
    <3> HIDE DEF a
    <3> QED BY <3>1, <3>2, SubSeqProperties
  <2>2. \A kind \in Sectioned : OfKind(led, kind) \in Seq(LedgerEntity)
    BY OfKindIs
  <2> QED BY <2>1, <2>2
<1> HIDE DEF capped
<1>4. /\ lines \in Seq(GistLines(R)) /\ Len(h) <= Len(lines) /\ Len(h) \in Nat /\ Len(lines) \in Nat
      /\ \A i \in 1..Len(h) : lines[i] = h[i]
  BY <1>3, RenderIs
<1>5. h \in Seq(HeadLines(R)) /\ ConflictLines(open) \subseteq ToSet(h)
  BY HeaderIs
<1>6. room \in Nat /\ Len(h) <= room
  BY <1>2
<1> HIDE DEF h, lines, room
<1> DEFINE cut == AtMost(lines, room)
<1>7. /\ cut \in Seq(GistLines(R)) /\ Len(cut) = (IF Len(lines) < room THEN Len(lines) ELSE room)
      /\ \A i \in 1..Len(cut) : cut[i] = lines[i]
  BY <1>4, <1>6, AtMostIs
<1> HIDE DEF cut
<1>8. Len(h) <= Len(cut) /\ Len(cut) \in Nat /\ DOMAIN cut = 1..Len(cut) /\ DOMAIN h = 1..Len(h)
  BY <1>4, <1>5, <1>6, <1>7
<1>9. \A i \in DOMAIN h : i \in DOMAIN cut /\ cut[i] = h[i]
  BY <1>4, <1>7, <1>8
<1>10. ToSet(h) \subseteq ToSet(cut)
  BY <1>9 DEF ToSet
<1> QED BY <1>1, <1>5, <1>10 DEF cut

\* A budget takes the facts of least standing and no unresolved conflict.
LEMMA GistIsRight ==
    ASSUME NEW R, NEW open \in Seq(R), NEW led \in Seq(LedgerEntity)
    PROVE  LET gist == RankedGist(led, open) IN
           ConflictsSurviveBudget(open, gist) /\ EvictionFollowsRank(led, gist)
<1> DEFINE gist == RankedGist(led, open)
           top == TopLiterals(led)
           cur == Evicted(open, top)
           h == Header(open)
<1>1. /\ top \in Seq(LedgerEntity)
      /\ \A k \in DOMAIN top : \E i \in DOMAIN led : top[k] = led[i]
      /\ \A i \in DOMAIN led :
                \/ \E k \in DOMAIN top : top[k] = led[i]
                \/ /\ led[i].name[1] = "LITERAL"
                   /\ \A k \in DOMAIN top : top[k].name[1] = "LITERAL" =>
                            RankOf(top[k].name) >= RankOf(led[i].name)
  BY TopIs
<1>2. gist = RankedLines(open, cur)
  BY DEF RankedGist
<1> HIDE DEF top
<1>3. cur \in Seq(LedgerEntity) /\ Leaves(open, top, Len(top), cur)
  BY <1>1, EvictedLeaves
<1> HIDE DEF cur, gist
<1>4. /\ Len(h) <= Len(gist) /\ Len(h) \in Nat /\ Len(gist) \in Nat
      /\ DOMAIN gist = 1..Len(gist)
      /\ \A i \in 1..Len(h) : gist[i] = h[i]
      /\ FactsIn(gist) = NamesOf(cur)
  BY <1>2, <1>3, RankedLinesAre
<1>5. /\ h \in Seq(HeadLines(R)) /\ ConflictLines(open) \subseteq ToSet(h)
      /\ Len(open) - ConflictCap > 0 => <<"more", Len(open) - ConflictCap>> \in ToSet(h)
  BY HeaderIs
<1> HIDE DEF h
<1>6. ToSet(h) \subseteq ToSet(gist)
  <2>1. DOMAIN h = 1..Len(h)
    BY <1>5
  <2>2. \A i \in DOMAIN h : i \in DOMAIN gist /\ gist[i] = h[i]
    BY <1>4, <2>1
  <2> QED BY <2>2 DEF ToSet
<1>7. ConflictsSurviveBudget(open, gist)
  BY <1>5, <1>6 DEF ConflictsSurviveBudget
<1>8. ASSUME NEW e \in ToSet(led), NEW s \in ToSet(led), e.name \notin FactsIn(gist),
             s.name \in FactsIn(gist), e.name[1] = "LITERAL" => s.name[1] = "LITERAL"
      PROVE  RankOf(s.name) >= RankOf(e.name)
  <2>1. PICK i \in DOMAIN led : e = led[i]
    BY DEF ToSet
  <2>2. PICK j \in DOMAIN cur : s.name = cur[j].name
    BY <1>4, <1>8 DEF NamesOf
  <2>3. \A k \in DOMAIN cur : cur[k] # e
    BY <1>4, <1>8 DEF NamesOf
  <2>4. CASE \E k \in DOMAIN top : top[k] = led[i]
    <3>1. PICK k \in DOMAIN top : top[k] = e
      BY <2>1, <2>4
    <3>2. \A r \in DOMAIN cur : RankOf(cur[r].name) >= RankOf(top[k].name)
      BY <1>3, <2>3, <3>1, Zenon DEF Leaves
    <3> QED BY <2>2, <3>1, <3>2
  <2>5. CASE /\ led[i].name[1] = "LITERAL"
             /\ \A k \in DOMAIN top : top[k].name[1] = "LITERAL" =>
                            RankOf(top[k].name) >= RankOf(led[i].name)
    <3>1. PICK k \in DOMAIN top : cur[j] = top[k]
      BY <1>3, Zenon DEF Leaves
    <3>2. top[k].name[1] = "LITERAL"
      BY <1>8, <2>1, <2>2, <2>5, <3>1
    <3> QED BY <2>1, <2>2, <2>5, <3>1, <3>2
  <2> QED BY <1>1, <2>4, <2>5
<1>9. Len(gist) > GistBudget => FactsIn(gist) = {}
  <2> SUFFICES ASSUME Len(gist) > GistBudget PROVE FactsIn(gist) = {}
    OBVIOUS
  <2>1. GistBudget \in Nat /\ Len(top) \in Nat /\ Len(cur) \in Nat
    BY <1>1, <1>3, GistAssumption
  <2>2. cur = <<>> \/ Len(cur) + Len(top) <= Len(top)
    BY <1>2, <1>3, <1>4, <2>1 DEF Leaves
  <2>3. Len(cur) = 0
    BY <2>1, <2>2
  <2>4. DOMAIN cur = {}
    BY <1>3, <2>3
  <2> QED BY <1>4, <2>4 DEF NamesOf
<1>10. EvictionFollowsRank(led, gist)
  BY <1>8, <1>9 DEF EvictionFollowsRank
<1> QED BY <1>7, <1>10 DEF gist

-----------------------------------------------------------------------------
(***************************************************************************)
(* What the lint examines, and what it charges a decision with.            *)
(***************************************************************************)
RuleFacts == EntityNames \cup ToSet(Banked)
Rules == [fact : RuleFacts, turn : Int]
LintRecords ==
    [case : {"constraint_collision", "protected_subject"}, fact : EntityNames, turn : Nat,
     against : RuleFacts \cup ({"SUBJECT"} \X ToSet(Subjects)), resolved : BOOLEAN]
KeysOf(table) == {Key(table[i]) : i \in DOMAIN table}
Tables ==
    {table \in Seq(LintRecords) :
        \A i, j \in DOMAIN table : Key(table[i]) = Key(table[j]) => i = j}

LEMMA RulesAre ==
    ASSUME NEW led \in Seq(LedgerEntity)
    PROVE  /\ Constraints(led) \in Seq(Rules)
           /\ Len(Constraints(led)) \in Nat
           /\ DOMAIN Constraints(led) = 1..Len(Constraints(led))
<1> DEFINE P == {i \in DOMAIN led : led[i].name[1] = "CONSTRAINT"}
           own == Picked(led, P)
           a == [i \in DOMAIN Banked |-> [fact |-> Banked[i], turn |-> NoTurn]]
           b == [i \in DOMAIN own |-> [fact |-> own[i].name, turn |-> own[i].turn]]
<1>1. Constraints(led) = a \o b
  BY DEF Constraints
<1>2. own \in Seq(LedgerEntity)
  <2>1. P \in SUBSET (DOMAIN led)
    OBVIOUS
  <2> HIDE DEF P
  <2> QED BY <2>1, PickedIs
<1>3. Banked \in Seq(ToSet(Banked))
  BY LintAssumption
<1> HIDE DEF own
<1>4. a \in Seq(Rules)
  <2>1. Len(Banked) \in Nat /\ DOMAIN Banked = 1..Len(Banked)
    BY <1>3
  <2>2. \A i \in DOMAIN Banked : [fact |-> Banked[i], turn |-> NoTurn] \in Rules
    <3>1. \A i \in DOMAIN Banked : Banked[i] \in ToSet(Banked)
      BY DEF ToSet
    <3> QED BY <3>1 DEF Rules, RuleFacts, NoTurn
  <2> QED BY <2>1, <2>2
<1>5. b \in Seq(Rules)
  <2>1. Len(own) \in Nat /\ DOMAIN own = 1..Len(own) /\ \A i \in DOMAIN own : own[i] \in LedgerEntity
    BY <1>2
  <2>2. \A e \in LedgerEntity : [fact |-> e.name, turn |-> e.turn] \in Rules
    BY DEF LedgerEntity, Rules, RuleFacts
  <2>3. \A i \in DOMAIN own : [fact |-> own[i].name, turn |-> own[i].turn] \in Rules
    BY <2>1, <2>2
  <2> QED BY <2>1, <2>3
<1> HIDE DEF a, b
<1>6. a \o b \in Seq(Rules)
  BY <1>4, <1>5, JoinIs
<1> QED BY <1>1, <1>6

LEMMA DecisionsAre ==
    ASSUME NEW led \in Seq(LedgerEntity)
    PROVE  /\ Decisions(led) \in Seq(LedgerEntity)
           /\ Len(Decisions(led)) \in Nat
           /\ DOMAIN Decisions(led) = 1..Len(Decisions(led))
<1> DEFINE P == {i \in DOMAIN led : IsDecision(led[i])}
<1>1. P \in SUBSET (DOMAIN led) /\ Decisions(led) = Picked(led, P)
  BY DEF Decisions
<1> HIDE DEF P
<1> QED BY <1>1, PickedIs

LEMMA ComparedIs ==
    ASSUME NEW led \in Seq(LedgerEntity), NEW d
    PROVE  /\ Compared(led, d) \in SUBSET (DOMAIN Constraints(led))
           /\ IsFiniteSet(Compared(led, d)) /\ Cardinality(Compared(led, d)) \in Nat
           /\ Cardinality(Compared(led, d)) <= Len(Constraints(led))
<1> DEFINE n == Len(Constraints(led))
           C == Compared(led, d)
<1>1. n \in Nat /\ DOMAIN Constraints(led) = 1..n
  BY RulesAre
<1>2. C \subseteq 1..n
  BY <1>1 DEF Compared, RulesInScope
<1> HIDE DEF n, C
<1>3. IsFiniteSet(1..n) /\ Cardinality(1..n) = n
  BY <1>1, FS_Interval
<1>4. IsFiniteSet(C) /\ Cardinality(C) <= n /\ Cardinality(C) \in Nat
  BY <1>2, <1>3, FS_Subset, FS_CardinalityType
<1> QED BY <1>1, <1>2, <1>4 DEF C, n

\* Every row of a charge is about the decision that is charged.
LEMMA ChargesAre ==
    ASSUME NEW led \in Seq(LedgerEntity), NEW d \in LedgerEntity
    PROVE  LET rs == Charges(led, d) IN
           /\ rs \in Seq(LintRecords)
           /\ \A i \in DOMAIN rs : rs[i].fact = d.name /\ rs[i].turn = d.turn
<1> DEFINE cs == Constraints(led)
           P == {i \in Compared(led, d) : cs[i].fact[2] \in Means[d.name[2]].clash}
           Q == {i \in DOMAIN Subjects : Subjects[i] \in Means[d.name[2]].prot}
           against == Picked(cs, P)
           shielded == Picked(Subjects, Q)
           a == [i \in DOMAIN against |->
                    LintRow("constraint_collision", d, against[i].fact,
                            d.why # NoReason /\ d.sup = against[i].fact)]
           b == [i \in DOMAIN shielded |->
                    LintRow("protected_subject", d, <<"SUBJECT", shielded[i]>>, d.why # NoReason)]
           Own == {r \in LintRecords : r.fact = d.name /\ r.turn = d.turn}
<1>1. Charges(led, d) = a \o b
  BY DEF Charges, Charged, Opposing, Guarding, RulesInScope, Compared
<1>2. /\ against \in Seq(Rules) /\ Len(against) \in Nat /\ DOMAIN against = 1..Len(against)
  <2>1. P \in SUBSET (DOMAIN cs) /\ cs \in Seq(Rules)
    BY ComparedIs, RulesAre
  <2> HIDE DEF P, cs
  <2> QED BY <2>1, PickedIs
<1>3. /\ shielded \in Seq(ToSet(Subjects)) /\ Len(shielded) \in Nat /\ DOMAIN shielded = 1..Len(shielded)
  <2>1. Q \in SUBSET (DOMAIN Subjects) /\ Subjects \in Seq(ToSet(Subjects))
    BY LintAssumption
  <2> HIDE DEF Q
  <2> QED BY <2>1, PickedIs
<1> HIDE DEF against, shielded
<1>4. d.name \in EntityNames /\ d.turn \in Nat
  BY DEF LedgerEntity
<1>5. \A case \in {"constraint_collision", "protected_subject"} :
        \A x \in RuleFacts \cup ({"SUBJECT"} \X ToSet(Subjects)) : \A z \in BOOLEAN :
            LintRow(case, d, x, z) \in Own
  BY <1>4 DEF LintRow, LintRecords
<1> HIDE DEF Own
<1>6. a \in Seq(Own)
  <2>1. \A i \in DOMAIN against : against[i].fact \in RuleFacts
    <3>1. \A i \in DOMAIN against : against[i] \in Rules
      BY <1>2
    <3>2. \A c \in Rules : c.fact \in RuleFacts
      BY DEF Rules
    <3> QED BY <3>1, <3>2
  <2>2. \A i \in DOMAIN against :
            LintRow("constraint_collision", d, against[i].fact,
                    d.why # NoReason /\ d.sup = against[i].fact) \in Own
    BY <1>5, <2>1
  <2> QED BY <1>2, <2>2
<1>7. b \in Seq(Own)
  <2>1. \A i \in DOMAIN shielded : <<"SUBJECT", shielded[i]>> \in {"SUBJECT"} \X ToSet(Subjects)
    BY <1>3
  <2>2. \A i \in DOMAIN shielded :
            LintRow("protected_subject", d, <<"SUBJECT", shielded[i]>>, d.why # NoReason) \in Own
    BY <1>5, <2>1
  <2> QED BY <1>3, <2>2
<1> HIDE DEF a, b
<1>8. a \o b \in Seq(Own)
  BY <1>6, <1>7, JoinIs
<1>9. a \o b \in Seq(LintRecords) /\ \A i \in DOMAIN (a \o b) : (a \o b)[i] \in Own
  BY <1>8 DEF Own
<1> QED BY <1>1, <1>9 DEF Own

\* A row is noted once.
LEMMA NoteIs ==
    ASSUME NEW table \in Tables, NEW r \in LintRecords
    PROVE  LET new == Note(table, r) IN
           /\ new \in Tables /\ Len(table) <= Len(new) /\ Len(table) \in Nat /\ Len(new) \in Nat
           /\ KeysOf(new) = KeysOf(table) \cup {Key(r)}
           /\ \A i \in 1..Len(table) : new[i] = table[i]
           /\ \A i \in (Len(table) + 1)..Len(new) : new[i] = r
<1> DEFINE n == Len(table)
           new == Note(table, r)
           more == Append(table, r)
<1>1. n \in Nat /\ DOMAIN table = 1..n /\ table \in Seq(LintRecords)
  BY DEF Tables
<1>2. CASE \A i \in DOMAIN table : Key(table[i]) # Key(r)
  <2>1. new = more
    BY <1>2 DEF Note
  <2>2. /\ more \in Seq(LintRecords) /\ Len(more) = n + 1 /\ DOMAIN more = 1..(n + 1)
        /\ more[n + 1] = r /\ \A i \in 1..n : more[i] = table[i]
    BY <1>1
  <2> HIDE DEF more, n, new
  <2>3. \A i, j \in DOMAIN more : Key(more[i]) = Key(more[j]) => i = j
    <3>1. ASSUME NEW i \in DOMAIN more, NEW j \in DOMAIN more, Key(more[i]) = Key(more[j]) PROVE i = j
      <4>1. (i \in 1..n \/ i = n + 1) /\ (j \in 1..n \/ j = n + 1)
        BY <1>1, <2>2
      <4>2. CASE i \in 1..n /\ j \in 1..n
        BY <1>1, <2>2, <3>1, <4>2, Zenon DEF Tables
      <4>3. CASE i \in 1..n /\ j = n + 1
        BY <1>1, <1>2, <2>2, <3>1, <4>3, Zenon
      <4>4. CASE i = n + 1 /\ j \in 1..n
        BY <1>1, <1>2, <2>2, <3>1, <4>4, Zenon
      <4> QED BY <4>1, <4>2, <4>3, <4>4
    <3> QED BY <3>1
  <2>4. more \in Tables
    BY <2>2, <2>3 DEF Tables
  <2>5. KeysOf(more) = KeysOf(table) \cup {Key(r)}
    <3>1. \A x : x \in KeysOf(more) <=> x \in KeysOf(table) \/ x = Key(r)
      <4>1. TAKE x
      <4>2. \A i \in 1..(n + 1) : i \in 1..n \/ i = n + 1
        BY <1>1
      <4>3. \A i \in 1..n : i \in 1..(n + 1)
        BY <1>1
      <4>4. n + 1 \in 1..(n + 1)
        BY <1>1
      <4>5. x \in KeysOf(more) <=> \E i \in 1..(n + 1) : x = Key(more[i])
        BY <2>2 DEF KeysOf
      <4>6. x \in KeysOf(table) <=> \E i \in 1..n : x = Key(table[i])
        BY <1>1 DEF KeysOf
      <4> QED BY <2>2, <4>2, <4>3, <4>4, <4>5, <4>6, Zenon
    <3> QED BY <3>1
  <2>6. n <= n + 1 /\ n + 1 \in Nat /\ \A i \in (n + 1)..(n + 1) : i = n + 1
    BY <1>1
  <2>7. \A i \in (n + 1)..Len(more) : more[i] = r
    BY <2>2, <2>6, Zenon
  <2> QED BY <1>1, <2>1, <2>2, <2>4, <2>5, <2>6, <2>7 DEF n, new
<1>3. CASE ~ \A i \in DOMAIN table : Key(table[i]) # Key(r)
  <2>1. new = table
    BY <1>3 DEF Note
  <2>2. KeysOf(table) = KeysOf(table) \cup {Key(r)}
    BY <1>3 DEF KeysOf
  <2> HIDE DEF new
  <2> QED BY <1>1, <2>1, <2>2 DEF new
<1> QED BY <1>2, <1>3

\* Row after row.
LEMMA NoteAllUnrolls ==
    ASSUME NEW table \in Tables, NEW rs \in Seq(LintRecords)
    PROVE  \E D \in [0..Len(rs) -> Tables] :
           /\ NoteAll(table, rs) = D[Len(rs)]
           /\ D[0] = table
           /\ \A i \in 1..Len(rs) : D[i] = Note(D[i - 1], rs[i])
<1> DEFINE n == Len(rs)
           base == table
           step == [p \in Tables \X (1..n) |-> Note(p[1], rs[p[2]])]
           Solves(f) == f = [i \in 0..n |-> IF i = 0 THEN base ELSE Note(f[i - 1], rs[i])]
           D == CHOOSE f : Solves(f)
<1>1. base \in Tables /\ n \in Nat
  OBVIOUS
<1>2. step \in [Tables \X (1..n) -> Tables]
  <2>1. ASSUME NEW a \in Tables, NEW i \in 1..n PROVE Note(a, rs[i]) \in Tables
    <3>1. rs[i] \in LintRecords
      OBVIOUS
    <3> QED BY <3>1, NoteIs
  <2> QED BY <2>1
<1>3. \A p \in Tables \X (1..n) : step[p] = Note(p[1], rs[p[2]])
  OBVIOUS
<1>4. NoteAll(table, rs) = D[n]
  BY Zenon DEF NoteAll
<1> HIDE DEF base, step, n, D
<1>5. PICK f \in [0..n -> Tables] : Recurs(f, n, base, step)
  BY <1>1, <1>2, RecursionExists
<1>6. \A k \in 1..n : f[k] = Note(f[k - 1], rs[k])
  <2> TAKE k \in 1..n
  <2>1. <<f[k - 1], k>> \in Tables \X (1..n)
    BY <1>1
  <2> QED BY <1>3, <1>5, <2>1 DEF Recurs
<1>7. Solves(f)
  BY <1>1, <1>5, <1>6 DEF Recurs
<1>8. Solves(D)
  <2> HIDE DEF Solves
  <2> QED BY <1>7 DEF D
<1>9. DOMAIN D = 0..n /\ D[0] = base /\ \A i \in 1..n : D[i] = Note(D[i - 1], rs[i])
  BY <1>1, <1>8
<1>10. D \in [0..n -> Tables]
  <2> DEFINE S == {i \in 0..n : D[i] \in Tables}
  <2>1. S \in SUBSET Nat /\ 0 \in S
    BY <1>1, <1>9
  <2>2. ASSUME NEW k \in S, k < n PROVE k + 1 \in S
    <3>1. k + 1 \in 1..n /\ (k + 1) - 1 = k
      BY <1>1, <2>2
    <3>2. D[k + 1] = Note(D[k], rs[k + 1])
      BY <1>9, <3>1
    <3>3. step[<<D[k], k + 1>>] \in Tables
      BY <1>2, <3>1
    <3>4. step[<<D[k], k + 1>>] = Note(D[k], rs[k + 1])
      BY <1>3, <3>1
    <3> QED BY <1>1, <2>2, <3>2, <3>3, <3>4
  <2> HIDE DEF S
  <2>3. 0..n \subseteq S
    BY <1>1, <2>1, <2>2, UpToInduction
  <2>4. \A i \in 0..n : D[i] \in Tables
    BY <2>3 DEF S
  <2>5. D = [i \in 0..n |-> D[i]]
    BY <1>8
  <2> QED BY <2>4, <2>5
<1> QED BY <1>4, <1>9, <1>10 DEF base, n

\* All the rows are noted, each once, after those that were there.
LEMMA NoteAllIs ==
    ASSUME NEW table \in Tables, NEW rs \in Seq(LintRecords)
    PROVE  LET new == NoteAll(table, rs) IN
           /\ new \in Tables /\ Len(table) <= Len(new) /\ Len(table) \in Nat /\ Len(new) \in Nat
           /\ KeysOf(new) = KeysOf(table) \cup KeysOf(rs)
           /\ \A i \in 1..Len(table) : new[i] = table[i]
           /\ \A i \in (Len(table) + 1)..Len(new) : \E j \in DOMAIN rs : new[i] = rs[j]
<1> DEFINE n == Len(rs)
           m == Len(table)
           Upto(k) == {Key(rs[j]) : j \in 1..k}
<1>1. PICK D \in [0..n -> Tables] :
        /\ NoteAll(table, rs) = D[n]
        /\ D[0] = table
        /\ \A i \in 1..n : D[i] = Note(D[i - 1], rs[i])
  BY NoteAllUnrolls
<1>2. n \in Nat /\ DOMAIN rs = 1..n /\ m \in Nat /\ DOMAIN table = 1..m
  BY DEF Tables
<1> HIDE DEF n, m
<1> DEFINE Done(k) == /\ D[k] \in Tables /\ m <= Len(D[k]) /\ Len(D[k]) \in Nat
                      /\ KeysOf(D[k]) = KeysOf(table) \cup Upto(k)
                      /\ \A i \in 1..m : D[k][i] = table[i]
                      /\ \A i \in (m + 1)..Len(D[k]) : \E j \in 1..k : D[k][i] = rs[j]
           S == {k \in 0..n : Done(k)}
<1>3. 0 \in S
  <2>1. Upto(0) = {}
    OBVIOUS
  <2>2. \A i \in (m + 1)..m : FALSE
    BY <1>2
  <2> HIDE DEF Upto
  <2>3. Len(table) = m
    BY DEF m
  <2>4. Done(0)
    BY <1>1, <1>2, <2>1, <2>2, <2>3
  <2> QED BY <1>2, <2>4
<1>4. ASSUME NEW k \in S, k < n PROVE k + 1 \in S
  <2>1. k \in 0..n /\ k + 1 \in 1..n /\ (k + 1) - 1 = k /\ k \in Nat /\ k + 1 \in 0..n
    BY <1>2, <1>4
  <2>2. D[k] \in Tables /\ D[k + 1] = Note(D[k], rs[k + 1]) /\ rs[k + 1] \in LintRecords
    BY <1>1, <1>2, <2>1
  <2> DEFINE q == Len(D[k])
             q2 == Len(D[k + 1])
  <2>3. /\ D[k + 1] \in Tables /\ q <= q2 /\ q \in Nat /\ q2 \in Nat
        /\ KeysOf(D[k + 1]) = KeysOf(D[k]) \cup {Key(rs[k + 1])}
        /\ \A i \in 1..q : D[k + 1][i] = D[k][i]
        /\ \A i \in (q + 1)..q2 : D[k + 1][i] = rs[k + 1]
    <3> DEFINE a == D[k]
               r == rs[k + 1]
    <3>1. a \in Tables /\ r \in LintRecords /\ D[k + 1] = Note(a, r)
      BY <2>2
    <3> HIDE DEF a, r
    <3>2. LET new == Note(a, r) IN
          /\ new \in Tables /\ Len(a) <= Len(new) /\ Len(a) \in Nat /\ Len(new) \in Nat
          /\ KeysOf(new) = KeysOf(a) \cup {Key(r)}
          /\ \A i \in 1..Len(a) : new[i] = a[i]
          /\ \A i \in (Len(a) + 1)..Len(new) : new[i] = r
      BY <3>1, NoteIs
    <3> QED BY <3>1, <3>2 DEF a, r
  <2>4. Upto(k + 1) = Upto(k) \cup {Key(rs[k + 1])}
    BY <2>1
  <2> HIDE DEF Upto
  <2>5. Done(k)
    BY <1>4
  <2>6. KeysOf(D[k + 1]) = KeysOf(table) \cup Upto(k + 1)
    BY <2>3, <2>4, <2>5
  <2>7. m <= q2 /\ m <= q
    BY <1>2, <2>3, <2>5
  <2>8. \A i \in 1..m : D[k + 1][i] = table[i]
    <3>1. \A i \in 1..m : i \in 1..q
      BY <1>2, <2>3, <2>7
    <3> QED BY <2>3, <2>5, <3>1, Zenon
  <2>9. \A i \in (m + 1)..q2 : \E j \in 1..(k + 1) : D[k + 1][i] = rs[j]
    <3> TAKE i \in (m + 1)..q2
    <3>1. (i \in (m + 1)..q /\ i \in 1..q) \/ i \in (q + 1)..q2
      BY <1>2, <2>3
    <3>2. CASE i \in (m + 1)..q /\ i \in 1..q
      <4>1. PICK j \in 1..k : D[k][i] = rs[j]
        BY <2>5, <3>2
      <4>2. j \in 1..(k + 1)
        BY <2>1
      <4> QED BY <2>3, <3>2, <4>1, <4>2
    <3>3. CASE i \in (q + 1)..q2
      BY <2>1, <2>3, <3>3
    <3> QED BY <3>1, <3>2, <3>3
  <2>10. Done(k + 1)
    BY <2>3, <2>6, <2>7, <2>8, <2>9
  <2> QED BY <2>1, <2>10
<1>5. S \in SUBSET Nat
  BY <1>2
<1> HIDE DEF S
<1>6. n \in S
  BY <1>2, <1>3, <1>4, <1>5, UpToInduction
<1>7. Upto(n) = KeysOf(rs)
  BY <1>2 DEF KeysOf
<1> HIDE DEF Upto
<1>8. Done(n)
  BY <1>6 DEF S
<1> HIDE DEF Done
<1> QED BY <1>1, <1>2, <1>7, <1>8 DEF m, Done

Examinations ==
    [rows : Tables, linted : Nat, compared : Nat, gated : Nat, protected : Nat,
     truncated : BOOLEAN]

\* One more decision examined, or, after a cut, none.
LEMMA ExamineIs ==
    ASSUME NEW led \in Seq(LedgerEntity), NEW d \in LedgerEntity, NEW acc \in Examinations
    PROVE  LET new == Examine(acc, d, led) IN
           /\ new \in Examinations
           /\ acc.truncated => new = acc
           /\ ~acc.truncated =>
                /\ new.rows = NoteAll(acc.rows, Charges(led, d))
                /\ new.linted = acc.linted + 1
                /\ new.compared + new.gated = acc.compared + acc.gated + Len(Constraints(led))
                /\ new.protected = acc.protected + Len(Subjects)
                /\ new.truncated <=> Len(new.rows) >= LintCap
<1> DEFINE table == NoteAll(acc.rows, Charges(led, d))
           k == Cardinality(Compared(led, d))
           n == Len(Constraints(led))
           m == Len(Subjects)
           full == [rows |-> table, linted |-> acc.linted + 1, compared |-> acc.compared + k,
                    gated |-> acc.gated + n - k, protected |-> acc.protected + m,
                    truncated |-> Len(table) >= LintCap]
<1>1. Examine(acc, d, led) = IF acc.truncated THEN acc ELSE full
  BY DEF Examine, Counted
<1>2. table \in Tables
  <2>1. acc.rows \in Tables /\ Charges(led, d) \in Seq(LintRecords)
    BY ChargesAre DEF Examinations
  <2> QED BY <2>1, NoteAllIs
<1>3. k \in Nat /\ n \in Nat /\ k <= n
  BY ComparedIs, RulesAre
<1>4. m \in Nat
  BY LintAssumption
<1> HIDE DEF table, k, n, m
<1>5. /\ acc.linted \in Nat /\ acc.compared \in Nat /\ acc.gated \in Nat /\ acc.protected \in Nat
      /\ acc.truncated \in BOOLEAN
  BY DEF Examinations
<1>6. /\ acc.linted + 1 \in Nat /\ acc.compared + k \in Nat /\ acc.gated + n - k \in Nat
      /\ acc.protected + m \in Nat
      /\ (acc.compared + k) + (acc.gated + n - k) = acc.compared + acc.gated + n
  <2> DEFINE a == acc.linted
             b == acc.compared
             c == acc.gated
             e == acc.protected
  <2>1. a \in Nat /\ b \in Nat /\ c \in Nat /\ e \in Nat
    BY <1>5
  <2> HIDE DEF a, b, c, e
  <2>2. /\ a + 1 \in Nat /\ b + k \in Nat /\ c + n - k \in Nat /\ e + m \in Nat
        /\ (b + k) + (c + n - k) = b + c + n
    BY <1>3, <1>4, <2>1
  <2> QED BY <2>2 DEF a, b, c, e
<1>7. /\ full \in Examinations
      /\ full.rows = table /\ full.linted = acc.linted + 1
      /\ full.compared + full.gated = acc.compared + acc.gated + n
      /\ full.protected = acc.protected + m
      /\ full.truncated <=> Len(full.rows) >= LintCap
  <2>1. /\ full.rows = table /\ full.linted = acc.linted + 1 /\ full.protected = acc.protected + m
        /\ full.compared = acc.compared + k /\ full.gated = acc.gated + n - k
        /\ full.truncated = (Len(table) >= LintCap)
    OBVIOUS
  <2>2. full \in Examinations
    <3>1. \A a \in Tables, b, c, e, f \in Nat, z \in BOOLEAN :
            [rows |-> a, linted |-> b, compared |-> c, gated |-> e, protected |-> f,
             truncated |-> z] \in Examinations
      BY DEF Examinations
    <3>2. (Len(table) >= LintCap) \in BOOLEAN
      OBVIOUS
    <3> QED BY <1>2, <1>6, <3>1, <3>2
  <2> HIDE DEF full
  <2> QED BY <1>6, <2>1, <2>2
<1> HIDE DEF full
<1> QED BY <1>1, <1>5, <1>7 DEF table, n, m

\* Decision after decision.
LEMMA ExaminedUnrolls ==
    ASSUME NEW led \in Seq(LedgerEntity)
    PROVE  \E D \in [0..Len(Decisions(led)) -> Examinations] :
           /\ Examined(led) = D[Len(Decisions(led))]
           /\ D[0] = Unexamined
           /\ \A i \in 1..Len(Decisions(led)) : D[i] = Examine(D[i - 1], Decisions(led)[i], led)
<1> DEFINE n == Len(Decisions(led))
           base == Unexamined
           step == [p \in Examinations \X (1..n) |-> Examine(p[1], Decisions(led)[p[2]], led)]
           Solves(f) == f = [i \in 0..n |-> IF i = 0 THEN base ELSE Examine(f[i - 1], Decisions(led)[i], led)]
           D == CHOOSE f : Solves(f)
<1>1. base \in Examinations /\ n \in Nat
  <2>1. <<>> \in Tables
    BY DEF Tables
  <2> QED BY <2>1, DecisionsAre DEF Unexamined, Examinations
<1>2. step \in [Examinations \X (1..n) -> Examinations]
  <2>1. ASSUME NEW a \in Examinations, NEW i \in 1..n
        PROVE  Examine(a, Decisions(led)[i], led) \in Examinations
    <3>1. Decisions(led)[i] \in LedgerEntity
      BY DecisionsAre
    <3> QED BY <3>1, ExamineIs
  <2> QED BY <2>1
<1>3. \A p \in Examinations \X (1..n) : step[p] = Examine(p[1], Decisions(led)[p[2]], led)
  OBVIOUS
<1>4. Examined(led) = D[n]
  BY Zenon DEF Examined
<1> HIDE DEF base, step, n, D
<1>5. PICK f \in [0..n -> Examinations] : Recurs(f, n, base, step)
  BY <1>1, <1>2, RecursionExists
<1>6. \A k \in 1..n : f[k] = Examine(f[k - 1], Decisions(led)[k], led)
  <2> TAKE k \in 1..n
  <2>1. <<f[k - 1], k>> \in Examinations \X (1..n)
    BY <1>1
  <2> QED BY <1>3, <1>5, <2>1 DEF Recurs
<1>7. Solves(f)
  BY <1>1, <1>5, <1>6 DEF Recurs
<1>8. Solves(D)
  <2> HIDE DEF Solves
  <2> QED BY <1>7 DEF D
<1>9. DOMAIN D = 0..n /\ D[0] = base /\ \A i \in 1..n : D[i] = Examine(D[i - 1], Decisions(led)[i], led)
  BY <1>1, <1>8
<1>10. D \in [0..n -> Examinations]
  <2> DEFINE S == {i \in 0..n : D[i] \in Examinations}
  <2>1. S \in SUBSET Nat /\ 0 \in S
    BY <1>1, <1>9
  <2>2. ASSUME NEW k \in S, k < n PROVE k + 1 \in S
    <3>1. k + 1 \in 1..n /\ (k + 1) - 1 = k
      BY <1>1, <2>2
    <3>2. D[k + 1] = Examine(D[k], Decisions(led)[k + 1], led)
      BY <1>9, <3>1
    <3>3. step[<<D[k], k + 1>>] \in Examinations
      BY <1>2, <3>1
    <3>4. step[<<D[k], k + 1>>] = Examine(D[k], Decisions(led)[k + 1], led)
      BY <1>3, <3>1
    <3> QED BY <1>1, <2>2, <3>2, <3>3, <3>4
  <2> HIDE DEF S
  <2>3. 0..n \subseteq S
    BY <1>1, <2>1, <2>2, UpToInduction
  <2>4. \A i \in 0..n : D[i] \in Examinations
    BY <2>3 DEF S
  <2>5. D = [i \in 0..n |-> D[i]]
    BY <1>8
  <2> QED BY <2>4, <2>5
<1> QED BY <1>4, <1>9, <1>10 DEF base, n

\* What the first decisions are charged with.
ChargedBy(led, n) == {Key(r) : r \in UNION {ToSet(Charges(led, Decisions(led)[j])) : j \in 1..n}}
\* The counters and the rows are those of the decisions examined.
ExaminedRight(led, k, x) ==
    /\ x.linted <= k /\ (~x.truncated => x.linted = k)
    /\ x.truncated => Len(x.rows) >= LintCap
    /\ ~x.truncated => Len(x.rows) < LintCap \/ Len(x.rows) = 0
    /\ KeysOf(x.rows) = ChargedBy(led, x.linted)
    /\ x.compared + x.gated = x.linted * Len(Constraints(led))
    /\ x.protected = x.linted * Len(Subjects)

LEMMA KeysOfSet ==
    ASSUME NEW rs
    PROVE  KeysOf(rs) = {Key(r) : r \in ToSet(rs)}
BY DEF KeysOf, ToSet

LEMMA ChargedNext ==
    ASSUME NEW led, NEW n \in Nat
    PROVE  ChargedBy(led, n + 1) = ChargedBy(led, n) \cup KeysOf(Charges(led, Decisions(led)[n + 1]))
<1> DEFINE T(j) == ToSet(Charges(led, Decisions(led)[j]))
<1>1. 1..(n + 1) = (1..n) \cup {n + 1}
  OBVIOUS
<1>2. /\ ChargedBy(led, n + 1) = {Key(r) : r \in UNION {T(j) : j \in 1..(n + 1)}}
      /\ ChargedBy(led, n) = {Key(r) : r \in UNION {T(j) : j \in 1..n}}
      /\ KeysOf(Charges(led, Decisions(led)[n + 1])) = {Key(r) : r \in T(n + 1)}
  BY KeysOfSet, Zenon DEF ChargedBy
<1> HIDE DEF T
<1>3. UNION {T(j) : j \in 1..(n + 1)} = (UNION {T(j) : j \in 1..n}) \cup T(n + 1)
  BY <1>1
<1> QED BY <1>2, <1>3

LEMMA ExaminedIs ==
    ASSUME NEW led \in Seq(LedgerEntity)
    PROVE  /\ Examined(led) \in Examinations
           /\ ExaminedRight(led, Len(Decisions(led)), Examined(led))
<1> DEFINE n == Len(Decisions(led))
<1>1. PICK D \in [0..n -> Examinations] :
        /\ Examined(led) = D[n]
        /\ D[0] = Unexamined
        /\ \A i \in 1..n : D[i] = Examine(D[i - 1], Decisions(led)[i], led)
  BY ExaminedUnrolls
<1>2. n \in Nat /\ \A i \in 1..n : Decisions(led)[i] \in LedgerEntity
  BY DecisionsAre
<1> HIDE DEF n
<1>3. Len(Constraints(led)) \in Nat /\ Len(Subjects) \in Nat /\ LintCap \in Nat
  BY RulesAre, LintAssumption
<1> DEFINE S == {k \in 0..n : ExaminedRight(led, k, D[k])}
<1>4. 0 \in S
  <2>1. /\ Unexamined.linted = 0 /\ Unexamined.compared = 0 /\ Unexamined.gated = 0
        /\ Unexamined.protected = 0 /\ ~Unexamined.truncated /\ Unexamined.rows = <<>>
    BY DEF Unexamined
  <2>2. KeysOf(<<>>) = {}
    BY DEF KeysOf
  <2>3. ChargedBy(led, 0) = {}
    <3>1. 1..0 = {}
      OBVIOUS
    <3> QED BY <3>1, Zenon DEF ChargedBy
  <2>4. ExaminedRight(led, 0, Unexamined)
    <3>1. /\ 0 * Len(Constraints(led)) = 0 /\ 0 * Len(Subjects) = 0 /\ Len(<<>>) = 0
          /\ 0 <= 0 /\ 0 + 0 = 0
      BY <1>3
    <3> QED BY <2>1, <2>2, <2>3, <3>1, Zenon DEF ExaminedRight
  <2> QED BY <1>1, <1>2, <2>4
<1>5. ASSUME NEW k \in S, k < n PROVE k + 1 \in S
  <2> DEFINE x == D[k]
             d == Decisions(led)[k + 1]
             y == D[k + 1]
             rs == Charges(led, d)
  <2>1. k \in 0..n /\ k + 1 \in 1..n /\ (k + 1) - 1 = k /\ k \in Nat /\ k + 1 \in 0..n
    BY <1>2, <1>5
  <2>2. x \in Examinations /\ d \in LedgerEntity /\ y = Examine(x, d, led) /\ y \in Examinations
    BY <1>1, <1>2, <2>1
  <2>3. ExaminedRight(led, k, x)
    BY <1>5
  <2>4. rs = Charges(led, Decisions(led)[k + 1])
    OBVIOUS
  <2> HIDE DEF x, d, y, rs
  <2>5. /\ x.truncated => y = x
        /\ ~x.truncated =>
                /\ y.rows = NoteAll(x.rows, Charges(led, d))
                /\ y.linted = x.linted + 1
                /\ y.compared + y.gated = x.compared + x.gated + Len(Constraints(led))
                /\ y.protected = x.protected + Len(Subjects)
                /\ y.truncated <=> Len(y.rows) >= LintCap
    BY <2>2, ExamineIs
  <2>6. CASE x.truncated
    <3>1. ExaminedRight(led, k + 1, x)
      <4>1. x.linted \in Nat
        BY <2>2 DEF Examinations
      <4> QED BY <2>1, <2>3, <2>6, <4>1 DEF ExaminedRight
    <3> QED BY <2>1, <2>5, <2>6, <3>1 DEF y
  <2>7. CASE ~x.truncated
    <3>1. /\ x.linted = k /\ KeysOf(x.rows) = ChargedBy(led, k)
          /\ x.compared + x.gated = k * Len(Constraints(led)) /\ x.protected = k * Len(Subjects)
      BY <2>3, <2>7 DEF ExaminedRight
    <3>2. x.rows \in Tables /\ rs \in Seq(LintRecords)
      BY <2>2, ChargesAre DEF Examinations, rs
    <3>3. KeysOf(y.rows) = ChargedBy(led, k + 1)
      <4>1. KeysOf(NoteAll(x.rows, rs)) = KeysOf(x.rows) \cup KeysOf(rs)
        BY <3>2, NoteAllIs
      <4> QED BY <2>1, <2>4, <2>5, <2>7, <3>1, <4>1, ChargedNext DEF rs
    <3>4. /\ y.linted = k + 1
          /\ y.compared + y.gated = (k + 1) * Len(Constraints(led))
          /\ y.protected = (k + 1) * Len(Subjects)
      <4>1. \A c \in Nat : (k + 1) * c = k * c + c
        BY <2>1
      <4>2. /\ (k + 1) * Len(Constraints(led)) = k * Len(Constraints(led)) + Len(Constraints(led))
            /\ (k + 1) * Len(Subjects) = k * Len(Subjects) + Len(Subjects)
        BY <1>3, <4>1
      <4> QED BY <2>5, <2>7, <3>1, <4>2
    <3>5. Len(y.rows) \in Nat /\ y.truncated \in BOOLEAN
      BY <2>2 DEF Examinations, Tables
    <3>6. ExaminedRight(led, k + 1, y)
      <4>1. /\ y.linted <= k + 1 /\ (~y.truncated => y.linted = k + 1)
            /\ y.truncated => Len(y.rows) >= LintCap
            /\ ~y.truncated => Len(y.rows) < LintCap \/ Len(y.rows) = 0
        BY <1>3, <2>1, <2>5, <2>7, <3>4, <3>5
      <4> QED BY <3>3, <3>4, <4>1, Zenon DEF ExaminedRight
    <3> QED BY <2>1, <3>6 DEF y
  <2>8. x.truncated \in BOOLEAN
    BY <2>2 DEF Examinations
  <2> QED BY <2>6, <2>7, <2>8
<1>6. S \in SUBSET Nat
  BY <1>2
<1> HIDE DEF S
<1>7. n \in Nat /\ n \in 0..n
  BY <1>2
<1>8. 0..n \subseteq S
  BY <1>4, <1>5, <1>6, <1>7, UpToInduction
<1>9. n \in S
  BY <1>7, <1>8
<1> QED BY <1>1, <1>7, <1>9 DEF S, n

\* The rows reported are the first of the rows noted.
LEMMA LintRowsAre ==
    ASSUME NEW led \in Seq(LedgerEntity)
    PROVE  LET found == LintRows(led)  all == Examined(led).rows IN
           /\ all \in Tables /\ found \in Tables /\ Len(found) \in Nat /\ Len(all) \in Nat
           /\ Len(found) = IF Len(all) < LintCap THEN Len(all) ELSE LintCap
           /\ \A i \in 1..Len(found) : found[i] = all[i]
<1> DEFINE all == Examined(led).rows
           found == LintRows(led)
           n == Len(all)
           m == IF n < LintCap THEN n ELSE LintCap
<1>1. all \in Tables
  <2>1. \A x \in Examinations : x.rows \in Tables
    BY DEF Examinations
  <2> QED BY <2>1, ExaminedIs
<1>2. found = SubSeq(all, 1, m)
  BY DEF LintRows, AtMost
<1>3. LintCap \in Nat
  BY LintAssumption
<1> HIDE DEF all, found
<1>4. all \in Seq(LintRecords) /\ n \in Nat /\ m \in 0..n /\ DOMAIN all = 1..n
  BY <1>1, <1>3 DEF Tables
<1> HIDE DEF m, n
<1>5. /\ found \in Seq(LintRecords) /\ Len(found) = m /\ \A i \in 1..m : found[i] = all[i]
      /\ DOMAIN found = 1..m /\ \A i \in 1..m : i \in 1..n
  BY <1>2, <1>4 DEF n
<1>6. found \in Tables
  <2>1. \A i, j \in DOMAIN found : Key(found[i]) = Key(found[j]) => i = j
    BY <1>1, <1>4, <1>5, Zenon DEF Tables
  <2> QED BY <1>5, <2>1 DEF Tables
<1> QED BY <1>1, <1>4, <1>5, <1>6 DEF all, found, n, m

LEMMA UnresolvedIs ==
    ASSUME NEW led \in Seq(LedgerEntity)
    PROVE  Unresolved(led) \in Seq(LintRecords)
<1> DEFINE table == LintRows(led)
           P == {i \in DOMAIN table : ~table[i].resolved}
<1>1. table \in Seq(LintRecords) /\ P \in SUBSET (DOMAIN table)
  BY LintRowsAre DEF Tables
<1>2. Unresolved(led) = Picked(table, P)
  BY DEF Unresolved
<1> HIDE DEF table, P
<1> QED BY <1>1, <1>2, PickedIs

\* The end of the parse adds to a ledger and leaves a ledger.
LEMMA WithFilesIs == ParserInv => WithFiles(ents) \in Ledgers
<1> SUFFICES ASSUME ParserInv PROVE WithFiles(ents) \in Ledgers
  OBVIOUS
<1> DEFINE paths == SetToSeq(Path)
           P == {i \in DOMAIN paths : edits[paths[i]].n > 0}
           files == Picked(paths, P)
           es == [i \in DOMAIN files |-> Entity(<<"FILE", FileName(files[i])>>, "none",
                                                "structural", edits[files[i]].last)]
<1>1. ents \in Ledgers /\ edits \in [Path -> [n : Nat, last : Nat]]
  BY DEF ParserInv
<1>2. WithFiles(ents) = AddAll(ents, es)
  BY DEF WithFiles
<1>3. paths \in Seq(Path)
  <2> DEFINE n == Cardinality(Path)
  <2>1. IsFiniteSet(Path) /\ n \in Nat
    BY PathAssumption, FS_CardinalityType
  <2>2. PICK m \in Nat : ExistsBijection(1..m, Path)
    BY <2>1, FS_NatBijection
  <2>3. m = n
    BY <2>2, FS_CountingElements
  <2>4. PICK f \in [1..n -> Path] : IsInjective(f)
    BY <2>2, <2>3 DEF ExistsBijection, Bijection, Injection
  <2>5. paths \in [1..n -> Path]
    <3>1. paths = CHOOSE g \in [1..n -> Path] : IsInjective(g)
      BY DEF SetToSeq
    <3> HIDE DEF paths, n
    <3> QED BY <2>4, <3>1
  <2> HIDE DEF paths, n
  <2> QED BY <2>1, <2>5
<1>4. files \in Seq(Path)
  <2>1. P \in SUBSET (DOMAIN paths)
    OBVIOUS
  <2> HIDE DEF P, paths
  <2> QED BY <1>3, <2>1, PickedIs
<1> HIDE DEF paths, P, files
<1>5. Len(files) \in Nat /\ DOMAIN files = 1..Len(files) /\ \A i \in DOMAIN files : files[i] \in Path
  BY <1>4
<1>6. \A p \in Path :
        LET e == Entity(<<"FILE", FileName(p)>>, "none", "structural", edits[p].last)
        IN Fresh(e, e.role, e.turn) /\ e \in LedgerEntity
  <2> TAKE p \in Path
  <2> DEFINE x == <<"FILE", FileName(p)>>
             t == edits[p].last
             e == Entity(x, "none", "structural", t)
  <2>1. x \in EntityNames
    BY DEF EntityNames
  <2>2. t \in Nat
    BY <1>1
  <2> HIDE DEF x, t
  <2>3. Fresh(e, "none", t)
    BY <2>1, <2>2, EntityIsFresh DEF Speakers
  <2> HIDE DEF e
  <2>4. Fresh(e, e.role, e.turn) /\ e \in LedgerEntity
    BY <2>3 DEF Fresh
  <2> QED BY <2>4 DEF e, x, t
<1>7. /\ es \in Seq(LedgerEntity) /\ DOMAIN es = DOMAIN files
      /\ \A i \in DOMAIN es : Fresh(es[i], es[i].role, es[i].turn)
  <2>1. \A i \in DOMAIN files : es[i] \in LedgerEntity /\ Fresh(es[i], es[i].role, es[i].turn)
    BY <1>5, <1>6
  <2>2. DOMAIN es = 1..Len(files) /\ es = [i \in 1..Len(files) |-> es[i]]
    BY <1>5
  <2> HIDE DEF es
  <2>3. es \in Seq(LedgerEntity)
    BY <1>5, <2>1, <2>2
  <2> QED BY <1>5, <2>1, <2>2, <2>3
<1> HIDE DEF es
<1>8. PICK D \in [0..Len(es) -> Ledgers] : AddAll(ents, es) = D[Len(es)]
  BY <1>1, <1>7, AddAllUnrolls
<1>9. Len(es) \in 0..Len(es)
  BY <1>7
<1> QED BY <1>2, <1>8, <1>9

\* Whatever the transcript and the budgets, a budget takes the facts of least
\* standing and no unresolved conflict.
THEOREM BudgetsCutTheLeast == ParserSpec => []BudgetCutsTheLeast
<1>1. ParserInv => BudgetCutsTheLeast
  <2> SUFFICES ASSUME ParserInv PROVE BudgetCutsTheLeast
    OBVIOUS
  <2>1. Ledger \in Seq(LedgerEntity)
    BY WithFilesIs DEF Ledger, Ledgers
  <2>2. Unresolved(Ledger) \in Seq(LintRecords)
    BY <2>1, UnresolvedIs
  <2>3. StaticKeepsConflicts(Ledger, Unresolved(Ledger))
    BY <2>1, <2>2, StaticKeeps
  <2>4. LET gist == RankedGist(Ledger, Unresolved(Ledger)) IN
        /\ ConflictsSurviveBudget(Unresolved(Ledger), gist)
        /\ EvictionFollowsRank(Ledger, gist)
    BY <2>1, <2>2, GistIsRight
  <2> QED BY <2>3, <2>4 DEF BudgetCutsTheLeast
<1>2. ParserInv /\ [ParserNext]_parserVars => ParserInv'
  BY ParserSteps DEF ParserKept
<1> QED BY <1>1, <1>2, ParserInitially, PTL DEF ParserSpec

\* A decision is charged with what it collides with, and with nothing else.
Against(led, d) ==
    {c \in ToSet(Constraints(led)) : InScope(c, d) /\ c.fact[2] \in Means[d.name[2]].clash}
Shielded(d) == {s \in ToSet(Subjects) : s \in Means[d.name[2]].prot}
ChargesKeys(led, d) ==
    {<<d.name, "constraint_collision", c.fact>> : c \in Against(led, d)}
        \cup {<<d.name, "protected_subject", <<"SUBJECT", s>>>> : s \in Shielded(d)}

LEMMA ChargesSay ==
    ASSUME NEW led \in Seq(LedgerEntity), NEW d \in LedgerEntity
    PROVE  KeysOf(Charges(led, d)) = ChargesKeys(led, d)
<1> DEFINE cs == Constraints(led)
           P == {i \in Compared(led, d) : cs[i].fact[2] \in Means[d.name[2]].clash}
           Q == {i \in DOMAIN Subjects : Subjects[i] \in Means[d.name[2]].prot}
           against == Picked(cs, P)
           shielded == Picked(Subjects, Q)
           rowA(i) == LintRow("constraint_collision", d, against[i].fact,
                              d.why # NoReason /\ d.sup = against[i].fact)
           rowB(i) == LintRow("protected_subject", d, <<"SUBJECT", shielded[i]>>, d.why # NoReason)
           a == [i \in DOMAIN against |-> rowA(i)]
           b == [i \in DOMAIN shielded |-> rowB(i)]
<1>1. Charges(led, d) = a \o b
  BY DEF Charges, Charged, Opposing, Guarding, RulesInScope, Compared
<1>2. /\ cs \in Seq(Rules) /\ P \in SUBSET (DOMAIN cs)
      /\ Subjects \in Seq(ToSet(Subjects)) /\ Q \in SUBSET (DOMAIN Subjects)
  BY ComparedIs, RulesAre, LintAssumption
<1>3. \A i \in DOMAIN cs : i \in P <=> cs[i] \in Against(led, d)
  <2>1. \A i \in DOMAIN cs : cs[i] \in ToSet(cs)
    BY DEF ToSet
  <2> QED BY <2>1 DEF Compared, Against, RulesInScope
<1>4. \A i \in DOMAIN Subjects : i \in Q <=> Subjects[i] \in Shielded(d)
  BY DEF ToSet, Shielded
<1> HIDE DEF cs, P, Q
<1>5. /\ against \in Seq(Rules) /\ Len(against) \in Nat /\ DOMAIN against = 1..Len(against)
      /\ \A k \in DOMAIN against : \E i \in P : against[k] = cs[i]
      /\ \A i \in P : \E k \in DOMAIN against : against[k] = cs[i]
  BY <1>2, PickedIs
<1>6. /\ shielded \in Seq(ToSet(Subjects)) /\ Len(shielded) \in Nat /\ DOMAIN shielded = 1..Len(shielded)
      /\ \A k \in DOMAIN shielded : \E i \in Q : shielded[k] = Subjects[i]
      /\ \A i \in Q : \E k \in DOMAIN shielded : shielded[k] = Subjects[i]
  BY <1>2, PickedIs
<1> HIDE DEF against, shielded
<1>7. ToSet(against) = Against(led, d)
  <2>1. ASSUME NEW c \in ToSet(against) PROVE c \in Against(led, d)
    <3>1. PICK k \in DOMAIN against : against[k] = c
      BY DEF ToSet
    <3>2. PICK i \in P : against[k] = cs[i]
      BY <1>5
    <3> QED BY <1>2, <1>3, <3>1, <3>2
  <2>2. ASSUME NEW c \in Against(led, d) PROVE c \in ToSet(against)
    <3>1. PICK i \in DOMAIN cs : cs[i] = c
      BY DEF Against, ToSet, cs
    <3>2. PICK k \in DOMAIN against : against[k] = cs[i]
      BY <1>3, <1>5, <3>1
    <3> QED BY <3>1, <3>2 DEF ToSet
  <2> QED BY <2>1, <2>2
<1>8. ToSet(shielded) = Shielded(d)
  <2>1. ASSUME NEW c \in ToSet(shielded) PROVE c \in Shielded(d)
    <3>1. PICK k \in DOMAIN shielded : shielded[k] = c
      BY DEF ToSet
    <3>2. PICK i \in Q : shielded[k] = Subjects[i]
      BY <1>6
    <3> QED BY <1>2, <1>4, <3>1, <3>2
  <2>2. ASSUME NEW c \in Shielded(d) PROVE c \in ToSet(shielded)
    <3>1. PICK i \in DOMAIN Subjects : Subjects[i] = c
      BY DEF Shielded, ToSet
    <3>2. PICK k \in DOMAIN shielded : shielded[k] = Subjects[i]
      BY <1>4, <1>6, <3>1
    <3> QED BY <3>1, <3>2 DEF ToSet
  <2> QED BY <2>1, <2>2
<1>9. \A case, x, z : Key(LintRow(case, d, x, z)) = <<d.name, case, x>>
  BY DEF Key, LintRow
<1>10. KeysOf(a) = {<<d.name, "constraint_collision", c.fact>> : c \in Against(led, d)}
  <2>1. KeysOf(a) = {Key(rowA(i)) : i \in DOMAIN against}
    BY DEF KeysOf
  <2>2. \A i \in DOMAIN against : Key(rowA(i)) = <<d.name, "constraint_collision", against[i].fact>>
    BY <1>9
  <2> HIDE DEF rowA, a
  <2>3. KeysOf(a) = {<<d.name, "constraint_collision", against[i].fact>> : i \in DOMAIN against}
    BY <2>1, <2>2
  <2>4. {<<d.name, "constraint_collision", against[i].fact>> : i \in DOMAIN against}
            = {<<d.name, "constraint_collision", c.fact>> : c \in ToSet(against)}
    BY DEF ToSet
  <2> QED BY <1>7, <2>3, <2>4
<1>11. KeysOf(b) = {<<d.name, "protected_subject", <<"SUBJECT", s>>>> : s \in Shielded(d)}
  <2>1. KeysOf(b) = {Key(rowB(i)) : i \in DOMAIN shielded}
    BY DEF KeysOf
  <2>2. \A i \in DOMAIN shielded : Key(rowB(i)) = <<d.name, "protected_subject", <<"SUBJECT", shielded[i]>>>>
    BY <1>9
  <2> HIDE DEF rowB, b
  <2>3. KeysOf(b) = {<<d.name, "protected_subject", <<"SUBJECT", shielded[i]>>>> : i \in DOMAIN shielded}
    BY <2>1, <2>2
  <2>4. {<<d.name, "protected_subject", <<"SUBJECT", shielded[i]>>>> : i \in DOMAIN shielded}
            = {<<d.name, "protected_subject", <<"SUBJECT", s>>>> : s \in ToSet(shielded)}
    BY DEF ToSet
  <2> QED BY <1>8, <2>3, <2>4
<1>12. KeysOf(a \o b) = KeysOf(a) \cup KeysOf(b)
  <2> DEFINE R == {rowA(i) : i \in DOMAIN against} \cup {rowB(i) : i \in DOMAIN shielded}
  <2>1. a \in Seq(R) /\ b \in Seq(R)
    <3>1. (\A i \in DOMAIN against : rowA(i) \in R) /\ (\A i \in DOMAIN shielded : rowB(i) \in R)
      BY Zenon
    <3> HIDE DEF rowA, rowB, R
    <3> QED BY <1>5, <1>6, <3>1
  <2> HIDE DEF R, a, b
  <2>2. ToSet(a \o b) = ToSet(a) \cup ToSet(b)
    BY <2>1, JoinIs
  <2>3. \A s, t : {Key(r) : r \in s \cup t} = {Key(r) : r \in s} \cup {Key(r) : r \in t}
    OBVIOUS
  <2> QED BY <2>2, <2>3, KeysOfSet
<1> HIDE DEF a, b
<1> QED BY <1>1, <1>10, <1>11, <1>12 DEF ChargesKeys

\* Every decision examined has been charged with its collisions.
LEMMA ChargedAre ==
    ASSUME NEW led \in Seq(LedgerEntity), NEW n \in 0..Len(Decisions(led))
    PROVE  ChargedBy(led, n) = UNION {ChargesKeys(led, Decisions(led)[j]) : j \in 1..n}
<1> DEFINE ds == Decisions(led)
<1>1. ds \in Seq(LedgerEntity) /\ Len(ds) \in Nat /\ \A j \in 1..n : ds[j] \in LedgerEntity
  BY DecisionsAre
<1> HIDE DEF ds
<1>2. \A j \in 1..n : {Key(r) : r \in ToSet(Charges(led, ds[j]))} = ChargesKeys(led, ds[j])
  <2> TAKE j \in 1..n
  <2>1. ds[j] \in LedgerEntity
    BY <1>1
  <2>2. KeysOf(Charges(led, ds[j])) = ChargesKeys(led, ds[j])
    BY <2>1, ChargesSay
  <2> QED BY <2>2, KeysOfSet
<1> DEFINE T(j) == ToSet(Charges(led, ds[j]))
           C(j) == ChargesKeys(led, ds[j])
<1>3. ChargedBy(led, n) = {Key(r) : r \in UNION {T(j) : j \in 1..n}}
  BY DEF ChargedBy, ds
<1>4. \A j \in 1..n : {Key(r) : r \in T(j)} = C(j)
  BY <1>2
<1> HIDE DEF T, C
<1>5. \A x : x \in {Key(r) : r \in UNION {T(j) : j \in 1..n}} <=> x \in UNION {C(j) : j \in 1..n}
  <2> TAKE x
  <2>1. ASSUME x \in {Key(r) : r \in UNION {T(j) : j \in 1..n}} PROVE x \in UNION {C(j) : j \in 1..n}
    <3>1. PICK r \in UNION {T(j) : j \in 1..n} : x = Key(r)
      BY <2>1
    <3>2. PICK j \in 1..n : r \in T(j)
      BY Zenon
    <3>3. x \in C(j)
      BY <1>4, <3>1, <3>2
    <3> QED BY <3>3
  <2>2. ASSUME x \in UNION {C(j) : j \in 1..n} PROVE x \in {Key(r) : r \in UNION {T(j) : j \in 1..n}}
    <3>1. PICK j \in 1..n : x \in C(j)
      BY <2>2, Zenon
    <3>2. PICK r \in T(j) : x = Key(r)
      BY <1>4, <3>1
    <3>3. r \in UNION {T(i) : i \in 1..n}
      BY Zenon
    <3> QED BY <3>2, <3>3
  <2> QED BY <2>1, <2>2
<1> QED BY <1>3, <1>5 DEF C, ds

\* The pairs the lint owes a row are what its decisions are charged with.
LEMMA CollisionsAre ==
    ASSUME NEW led \in Seq(LedgerEntity)
    PROVE  Collisions(led) = UNION {ChargesKeys(led, Decisions(led)[j]) : j \in 1..Len(Decisions(led))}
<1> DEFINE ds == Decisions(led)
           cs == Constraints(led)
<1>1. DOMAIN ds = 1..Len(ds)
  BY DecisionsAre
<1> HIDE DEF ds, cs
<1> DEFINE A == {<<p[1].name, "constraint_collision", p[2].fact>> : p \in
                    {q \in ToSet(ds) \X ToSet(cs) :
                        InScope(q[2], q[1]) /\ q[2].fact[2] \in Means[q[1].name[2]].clash}}
           B == {<<p[1].name, "protected_subject", <<"SUBJECT", p[2]>>>> : p \in
                    {q \in ToSet(ds) \X ToSet(Subjects) : q[2] \in Means[q[1].name[2]].prot}}
           a(d) == {<<d.name, "constraint_collision", c.fact>> : c \in Against(led, d)}
           b(d) == {<<d.name, "protected_subject", <<"SUBJECT", s>>>> : s \in Shielded(d)}
<1>2. Collisions(led) = A \cup B
  BY DEF Collisions, ds, cs
<1>3. A = UNION {a(d) : d \in ToSet(ds)}
  <2>1. ASSUME NEW x \in A PROVE x \in UNION {a(d) : d \in ToSet(ds)}
    <3>1. PICK q \in ToSet(ds) \X ToSet(cs) :
            /\ InScope(q[2], q[1]) /\ q[2].fact[2] \in Means[q[1].name[2]].clash
            /\ x = <<q[1].name, "constraint_collision", q[2].fact>>
      BY Zenon
    <3>2. q[1] \in ToSet(ds) /\ q[2] \in Against(led, q[1])
      BY <3>1 DEF Against, cs
    <3>3. x \in a(q[1])
      BY <3>1, <3>2
    <3> QED BY <3>2, <3>3
  <2>2. ASSUME NEW x \in UNION {a(d) : d \in ToSet(ds)} PROVE x \in A
    <3>1. PICK d \in ToSet(ds) : x \in a(d)
      BY Zenon
    <3>2. PICK c \in Against(led, d) : x = <<d.name, "constraint_collision", c.fact>>
      BY <3>1
    <3> DEFINE q == <<d, c>>
    <3>3. q \in ToSet(ds) \X ToSet(cs) /\ q[1] = d /\ q[2] = c
      BY <3>2 DEF Against, cs
    <3>4. InScope(q[2], q[1]) /\ q[2].fact[2] \in Means[q[1].name[2]].clash
      BY <3>2, <3>3 DEF Against
    <3> HIDE DEF q
    <3> QED BY <3>2, <3>3, <3>4
  <2> QED BY <2>1, <2>2
<1>4. B = UNION {b(d) : d \in ToSet(ds)}
  <2>1. ASSUME NEW x \in B PROVE x \in UNION {b(d) : d \in ToSet(ds)}
    <3>1. PICK q \in ToSet(ds) \X ToSet(Subjects) :
            /\ q[2] \in Means[q[1].name[2]].prot
            /\ x = <<q[1].name, "protected_subject", <<"SUBJECT", q[2]>>>>
      BY Zenon
    <3>2. q[1] \in ToSet(ds) /\ q[2] \in Shielded(q[1])
      BY <3>1 DEF Shielded
    <3>3. x \in b(q[1])
      BY <3>1, <3>2
    <3> QED BY <3>2, <3>3
  <2>2. ASSUME NEW x \in UNION {b(d) : d \in ToSet(ds)} PROVE x \in B
    <3>1. PICK d \in ToSet(ds) : x \in b(d)
      BY Zenon
    <3>2. PICK s \in Shielded(d) : x = <<d.name, "protected_subject", <<"SUBJECT", s>>>>
      BY <3>1
    <3> DEFINE q == <<d, s>>
    <3>3. q \in ToSet(ds) \X ToSet(Subjects) /\ q[1] = d /\ q[2] = s
      BY <3>2 DEF Shielded
    <3>4. q[2] \in Means[q[1].name[2]].prot
      BY <3>2, <3>3 DEF Shielded
    <3> HIDE DEF q
    <3> QED BY <3>2, <3>3, <3>4
  <2> QED BY <2>1, <2>2
<1>5. \A d : ChargesKeys(led, d) = a(d) \cup b(d)
  BY DEF ChargesKeys
<1> HIDE DEF A, B, a, b
<1>6. UNION {ChargesKeys(led, ds[j]) : j \in 1..Len(ds)} = UNION {a(d) \cup b(d) : d \in ToSet(ds)}
  <2>1. {ChargesKeys(led, ds[j]) : j \in 1..Len(ds)} = {a(d) \cup b(d) : d \in ToSet(ds)}
    BY <1>1, <1>5 DEF ToSet
  <2> QED BY <2>1
<1>7. UNION {a(d) \cup b(d) : d \in ToSet(ds)} =
            (UNION {a(d) : d \in ToSet(ds)}) \cup (UNION {b(d) : d \in ToSet(ds)})
  OBVIOUS
<1> QED BY <1>2, <1>3, <1>4, <1>6, <1>7 DEF ds

LEMMA KeysCount ==
    ASSUME NEW table \in Tables
    PROVE  Cardinality(KeysOf(table)) = Len(table)
<1> DEFINE n == Len(table)
           f == [i \in 1..n |-> Key(table[i])]
<1>1. n \in Nat /\ DOMAIN table = 1..n
  BY DEF Tables
<1>2. \A i, j \in 1..n : Key(table[i]) = Key(table[j]) => i = j
  BY <1>1 DEF Tables
<1>3. KeysOf(table) = {Key(table[i]) : i \in 1..n}
  BY <1>1 DEF KeysOf
<1> HIDE DEF n
<1>4. f \in Bijection(1..n, KeysOf(table))
  BY <1>2, <1>3 DEF Bijection, Injection, IsInjective, Surjection
<1>5. ExistsBijection(1..n, KeysOf(table))
  BY <1>4 DEF ExistsBijection
<1>6. Cardinality(KeysOf(table)) = n
  BY <1>1, <1>5, FS_CountingElements
<1> QED BY <1>6 DEF n

\* The lint of any ledger.
LEMMA LintIs ==
    ASSUME NEW led \in Seq(LedgerEntity)
    PROVE  LET found == LintRows(led)
               keys == {Key(found[i]) : i \in DOMAIN found}
               x == Examined(led)
           IN /\ keys \subseteq Collisions(led) /\ Cardinality(keys) = Len(found)
              /\ x.truncated => Len(found) = LintCap
              /\ ~x.truncated => keys = Collisions(led)
              /\ x.compared + x.gated = x.linted * Len(Constraints(led))
              /\ x.protected = x.linted * Len(Subjects)
              /\ ~x.truncated => x.linted = Len(Decisions(led))
<1> DEFINE found == LintRows(led)
           keys == {Key(found[i]) : i \in DOMAIN found}
           x == Examined(led)
           all == x.rows
           n == Len(Decisions(led))
           C(j) == ChargesKeys(led, Decisions(led)[j])
<1>1. x \in Examinations /\ ExaminedRight(led, n, x)
  BY ExaminedIs
<1>2. /\ all \in Tables /\ found \in Tables /\ Len(found) \in Nat /\ Len(all) \in Nat
      /\ Len(found) = IF Len(all) < LintCap THEN Len(all) ELSE LintCap
      /\ \A i \in 1..Len(found) : found[i] = all[i]
  BY LintRowsAre
<1>3. n \in Nat
  BY DecisionsAre
<1>4. Collisions(led) = UNION {C(j) : j \in 1..n}
  BY CollisionsAre
<1>5. /\ x.linted \in 0..n /\ (~x.truncated => x.linted = n)
      /\ x.truncated => Len(all) >= LintCap
      /\ ~x.truncated => Len(all) < LintCap \/ Len(all) = 0
      /\ KeysOf(all) = ChargedBy(led, x.linted)
      /\ x.compared + x.gated = x.linted * Len(Constraints(led))
      /\ x.protected = x.linted * Len(Subjects)
  <2>1. x.linted \in Nat
    BY <1>1 DEF Examinations
  <2>2. x.linted \in 0..n
    BY <1>1, <1>3, <2>1 DEF ExaminedRight
  <2> QED BY <1>1, <2>2 DEF ExaminedRight
<1>6. KeysOf(all) = UNION {C(j) : j \in 1..x.linted}
  <2>1. ChargedBy(led, x.linted) = UNION {C(j) : j \in 1..x.linted}
    BY <1>5, ChargedAre
  <2> QED BY <1>5, <2>1
<1>7. keys = KeysOf(found)
  BY DEF KeysOf
<1>8. Cardinality(keys) = Len(found)
  BY <1>2, <1>7, KeysCount
<1> HIDE DEF keys, found, all, n, C, x
<1>9. DOMAIN found = 1..Len(found) /\ DOMAIN all = 1..Len(all) /\ LintCap \in Nat
  BY <1>2, LintAssumption DEF Tables
<1>10. KeysOf(found) \subseteq KeysOf(all)
  <2>1. \A i \in 1..Len(found) : i \in 1..Len(all)
    BY <1>2, <1>9
  <2> QED BY <1>2, <1>9, <2>1 DEF KeysOf
<1>11. KeysOf(all) \subseteq Collisions(led)
  <2>1. \A j \in 1..x.linted : j \in 1..n
    BY <1>3, <1>5
  <2> QED BY <1>4, <1>6, <2>1
<1>12. (x.truncated => Len(found) = LintCap) /\ (~x.truncated => Len(found) = Len(all))
  <2>1. /\ x.truncated => Len(all) >= LintCap
        /\ ~x.truncated => Len(all) < LintCap \/ Len(all) = 0
    BY <1>5
  <2> DEFINE a == Len(all)
             f == Len(found)
  <2>2. a \in Nat /\ LintCap \in Nat /\ f = IF a < LintCap THEN a ELSE LintCap
    BY <1>2, <1>9
  <2> HIDE DEF a, f
  <2>3. (a >= LintCap => f = LintCap) /\ (a < LintCap \/ a = 0 => f = a)
    BY <2>2
  <2> QED BY <2>1, <2>3 DEF a, f
<1>13. ASSUME ~x.truncated PROVE keys = Collisions(led)
  <2>1. Len(found) = Len(all)
    BY <1>12, <1>13
  <2>2. KeysOf(found) = KeysOf(all)
    BY <1>2, <1>9, <2>1 DEF KeysOf
  <2>3. x.linted = n
    BY <1>5, <1>13
  <2> QED BY <1>4, <1>6, <1>7, <2>2, <2>3
<1>14. /\ keys \subseteq Collisions(led) /\ Cardinality(keys) = Len(found)
  BY <1>7, <1>8, <1>10, <1>11
<1> QED BY <1>5, <1>12, <1>13, <1>14 DEF keys, found, n, x

-----------------------------------------------------------------------------
(***************************************************************************)
(* How the lint of a longer transcript compares with the lint of a shorter *)
(* one: W stands for a reason given in the new entry.                      *)
(***************************************************************************)
RowGrows(r, new, W) ==
    /\ Key(new) = Key(r) /\ new.turn = r.turn
    /\ r.resolved => new.resolved
    /\ new.resolved /\ ~r.resolved => W
RowsGrow(table, new, W) ==
    Len(table) = Len(new) /\ \A i \in 1..Len(table) : RowGrows(table[i], new[i], W)

\* Rows that correspond are noted, or not, together.
LEMMA NoteGrows ==
    ASSUME NEW a \in Tables, NEW b \in Tables, NEW r \in LintRecords, NEW q \in LintRecords,
           NEW W, RowsGrow(a, b, W), RowGrows(r, q, W)
    PROVE  RowsGrow(Note(a, r), Note(b, q), W)
<1> DEFINE n == Len(a)
<1>1. /\ a \in Seq(LintRecords) /\ b \in Seq(LintRecords)
      /\ n \in Nat /\ Len(b) = n /\ DOMAIN a = 1..n /\ DOMAIN b = 1..n
      /\ \A i \in 1..n : RowGrows(a[i], b[i], W)
  BY DEF Tables, RowsGrow
<1>2. (\A i \in DOMAIN a : Key(a[i]) # Key(r)) <=> (\A i \in DOMAIN b : Key(b[i]) # Key(q))
  BY <1>1, Zenon DEF RowGrows
<1>3. CASE \A i \in DOMAIN a : Key(a[i]) # Key(r)
  <2> DEFINE c == Append(a, r)
             d == Append(b, q)
  <2>1. Note(a, r) = c /\ Note(b, q) = d
    BY <1>2, <1>3 DEF Note
  <2>2. /\ Len(c) = n + 1 /\ Len(d) = n + 1 /\ c[n + 1] = r /\ d[n + 1] = q
        /\ \A i \in 1..n : c[i] = a[i] /\ d[i] = b[i]
    BY <1>1, AppendProperties
  <2> HIDE DEF c, d
  <2>3. \A i \in 1..(n + 1) : i \in 1..n \/ i = n + 1
    BY <1>1
  <2>4. \A i \in 1..(n + 1) : RowGrows(c[i], d[i], W)
    <3> TAKE i \in 1..(n + 1)
    <3>1. CASE i \in 1..n
      BY <1>1, <2>2, <3>1
    <3>2. CASE i = n + 1
      BY <2>2, <3>2
    <3> QED BY <2>3, <3>1, <3>2
  <2> QED BY <2>1, <2>2, <2>4 DEF RowsGrow
<1>4. CASE ~(\A i \in DOMAIN a : Key(a[i]) # Key(r))
  <2>1. Note(a, r) = a /\ Note(b, q) = b
    BY <1>2, <1>4 DEF Note
  <2> QED BY <2>1
<1> QED BY <1>3, <1>4

LEMMA NoteAllGrows ==
    ASSUME NEW a \in Tables, NEW b \in Tables,
           NEW rs \in Seq(LintRecords), NEW qs \in Seq(LintRecords),
           NEW W, RowsGrow(a, b, W), RowsGrow(rs, qs, W)
    PROVE  RowsGrow(NoteAll(a, rs), NoteAll(b, qs), W)
<1> DEFINE n == Len(rs)
<1>1. n \in Nat /\ Len(qs) = n /\ \A i \in 1..n : RowGrows(rs[i], qs[i], W)
  BY DEF RowsGrow
<1>2. \A i \in 1..n : rs[i] \in LintRecords /\ qs[i] \in LintRecords
  BY <1>1
<1>3. PICK D \in [0..n -> Tables] :
        /\ NoteAll(a, rs) = D[n]
        /\ D[0] = a
        /\ \A i \in 1..n : D[i] = Note(D[i - 1], rs[i])
  BY NoteAllUnrolls
<1>4. PICK E \in [0..n -> Tables] :
        /\ NoteAll(b, qs) = E[n]
        /\ E[0] = b
        /\ \A i \in 1..n : E[i] = Note(E[i - 1], qs[i])
  BY <1>1, NoteAllUnrolls
<1> HIDE DEF n
<1> DEFINE S == {k \in 0..n : RowsGrow(D[k], E[k], W)}
<1>5. 0 \in S
  BY <1>1, <1>3, <1>4
<1>6. ASSUME NEW k \in S, k < n PROVE k + 1 \in S
  <2>1. /\ k \in 0..n /\ k + 1 \in 1..n /\ k + 1 \in 0..n /\ (k + 1) - 1 = k
        /\ RowsGrow(D[k], E[k], W)
    BY <1>1, <1>6
  <2>2. D[k] \in Tables /\ E[k] \in Tables
    BY <2>1
  <2>3. D[k + 1] = Note(D[k], rs[k + 1]) /\ E[k + 1] = Note(E[k], qs[k + 1])
    BY <1>3, <1>4, <2>1
  <2>4. RowsGrow(D[k + 1], E[k + 1], W)
    BY <1>1, <1>2, <2>1, <2>2, <2>3, NoteGrows
  <2> QED BY <2>1, <2>4
<1>7. S \in SUBSET Nat
  BY <1>1
<1> HIDE DEF S
<1>8. n \in S
  <2>1. 0..n \subseteq S
    BY <1>1, <1>5, <1>6, <1>7, UpToInduction
  <2> QED BY <1>1, <2>1
<1> QED BY <1>3, <1>4, <1>8 DEF S

\* What a longer sequence has at more positions begins with what the shorter had.
LEMMA PickedExtends ==
    ASSUME NEW T, NEW s \in Seq(T), NEW u \in Seq(T), Len(s) <= Len(u),
           NEW P \in SUBSET (DOMAIN s), NEW Q \in SUBSET (DOMAIN u),
           \A i \in DOMAIN s : i \in Q <=> i \in P
    PROVE  LET a == Picked(s, P)  b == Picked(u, Q) IN
           /\ Len(a) <= Len(b)
           /\ \A k \in 1..Len(a) : \E i \in P : a[k] = s[i] /\ b[k] = u[i]
           /\ \A k \in 1..Len(b) : k > Len(a) => \E i \in Q : i > Len(s) /\ b[k] = u[i]
<1> DEFINE n == Len(s)
           m == Len(u)
           o == Ascending(n, P)
           c == Ascending(m, Q)
           a == Picked(s, P)
           b == Picked(u, Q)
<1>1. n \in Nat /\ m \in Nat /\ n <= m /\ P \in SUBSET (1..n) /\ Q \in SUBSET (1..m)
      /\ \A i \in 1..n : i \in Q <=> i \in P
  OBVIOUS
<1> HIDE DEF n, m
<1>2. Leads(o, n, c)
  BY <1>1, AscendingExtends
<1>3. /\ Len(o) \in Nat /\ DOMAIN o = 1..Len(o) /\ \A i \in DOMAIN o : o[i] \in P
      /\ Len(c) \in Nat /\ DOMAIN c = 1..Len(c) /\ \A i \in DOMAIN c : c[i] \in Q
  BY <1>1, AscendingIs
<1>4. a = [k \in DOMAIN o |-> s[o[k]]] /\ b = [k \in DOMAIN c |-> u[c[k]]]
  BY DEF Picked, n, m
<1> HIDE DEF a, b, o, c
<1>5. /\ Len(a) \in Nat /\ DOMAIN a = 1..Len(a) /\ Len(b) \in Nat /\ DOMAIN b = 1..Len(b)
  BY PickedIs DEF a, b
<1>6. Len(a) = Len(o) /\ Len(b) = Len(c)
  BY <1>3, <1>4, <1>5
<1>7. Len(a) <= Len(b)
  BY <1>2, <1>6 DEF Leads
<1>8. \A k \in 1..Len(a) : \E i \in P : a[k] = s[i] /\ b[k] = u[i]
  <2> TAKE k \in 1..Len(a)
  <2>1. k \in DOMAIN o /\ k \in DOMAIN c
    BY <1>3, <1>5, <1>6, <1>7
  <2>2. c[k] = o[k] /\ o[k] \in P
    BY <1>2, <1>3, <2>1 DEF Leads
  <2> QED BY <1>4, <2>1, <2>2
<1>9. \A k \in 1..Len(b) : k > Len(a) => \E i \in Q : i > n /\ b[k] = u[i]
  <2> SUFFICES ASSUME NEW k \in 1..Len(b), k > Len(a) PROVE \E i \in Q : i > n /\ b[k] = u[i]
    OBVIOUS
  <2>1. k \in DOMAIN c /\ c[k] \in Q /\ b[k] = u[c[k]]
    BY <1>3, <1>4, <1>6
  <2>2. c[k] > n
    BY <1>2, <1>6, <2>1 DEF Leads
  <2> QED BY <2>1, <2>2
<1> QED BY <1>7, <1>8, <1>9 DEF a, b, n

\* A ledger and what it is after one more entry, the entry of turn t.
Later(led, new, t, W) ==
    /\ Grows(led, new)
    /\ \A i \in DOMAIN led : led[i].turn < t
    /\ \A i \in DOMAIN new : i \in DOMAIN led \/ new[i].turn = t
    /\ \A i \in DOMAIN led : new[i].why # NoReason => led[i].why # NoReason \/ W

LEMMA LaterIs ==
    ASSUME NEW led \in Ledgers, NEW new \in Ledgers, NEW t \in Nat, NEW W, Later(led, new, t, W)
    PROVE  /\ led \in Seq(LedgerEntity) /\ new \in Seq(LedgerEntity)
           /\ Len(led) \in Nat /\ DOMAIN led = 1..Len(led)
           /\ Len(new) \in Nat /\ DOMAIN new = 1..Len(new)
           /\ Len(led) <= Len(new)
           /\ \A i \in DOMAIN led : i \in DOMAIN new
           /\ \A i \in DOMAIN led : led[i] \in LedgerEntity /\ new[i] \in LedgerEntity
           /\ \A i \in DOMAIN led : new[i].name = led[i].name /\ new[i].turn = led[i].turn
                                    /\ new[i].basis = led[i].basis /\ led[i].turn < t
<1>1. /\ led \in Seq(LedgerEntity) /\ new \in Seq(LedgerEntity)
      /\ Len(led) \in Nat /\ DOMAIN led = 1..Len(led)
      /\ Len(new) \in Nat /\ DOMAIN new = 1..Len(new)
  BY DEF Ledgers
<1>2. Len(led) <= Len(new)
  BY <1>1 DEF Later, Grows
<1>3. \A i \in DOMAIN led : i \in DOMAIN new
  BY <1>1, <1>2
<1>4. \A i \in DOMAIN led : led[i] \in LedgerEntity /\ new[i] \in LedgerEntity
  BY <1>1, <1>3
<1>5. \A i \in DOMAIN led : new[i].name = led[i].name /\ new[i].turn = led[i].turn
                                    /\ new[i].basis = led[i].basis /\ led[i].turn < t
  BY Zenon DEF Later, Grows
<1> QED BY <1>1, <1>2, <1>3, <1>4, <1>5

\* The decisions so far stay the first decisions.
LEMMA DecisionsExtend ==
    ASSUME NEW led \in Ledgers, NEW new \in Ledgers, NEW t \in Nat, NEW W, Later(led, new, t, W)
    PROVE  LET ds == Decisions(led)  es == Decisions(new) IN
           /\ Len(ds) <= Len(es)
           /\ \A k \in 1..Len(ds) : \E i \in DOMAIN led : ds[k] = led[i] /\ es[k] = new[i]
           /\ \A k \in 1..Len(es) : k > Len(ds) => es[k].turn = t
<1> DEFINE P == {i \in DOMAIN led : IsDecision(led[i])}
           Q == {i \in DOMAIN new : IsDecision(new[i])}
           ds == Decisions(led)
           es == Decisions(new)
<1>1. /\ led \in Seq(LedgerEntity) /\ new \in Seq(LedgerEntity)
      /\ Len(led) \in Nat /\ DOMAIN led = 1..Len(led)
      /\ Len(led) <= Len(new) /\ \A i \in DOMAIN led : i \in DOMAIN new
      /\ \A i \in DOMAIN led : new[i].name = led[i].name /\ new[i].basis = led[i].basis
  BY LaterIs
<1>2. P \in SUBSET (DOMAIN led) /\ Q \in SUBSET (DOMAIN new)
  OBVIOUS
<1>3. \A i \in DOMAIN led : i \in Q <=> i \in P
  BY <1>1 DEF IsDecision
<1>4. ds = Picked(led, P) /\ es = Picked(new, Q)
  BY DEF Decisions
<1> HIDE DEF P, Q, ds, es
<1>5. /\ Len(ds) <= Len(es)
      /\ \A k \in 1..Len(ds) : \E i \in P : ds[k] = led[i] /\ es[k] = new[i]
      /\ \A k \in 1..Len(es) : k > Len(ds) => \E i \in Q : i > Len(led) /\ es[k] = new[i]
  <2> DEFINE a == Picked(led, P)
             b == Picked(new, Q)
  <2>1. /\ Len(a) <= Len(b)
        /\ \A k \in 1..Len(a) : \E i \in P : a[k] = led[i] /\ b[k] = new[i]
        /\ \A k \in 1..Len(b) : k > Len(a) => \E i \in Q : i > Len(led) /\ b[k] = new[i]
    BY <1>1, <1>2, <1>3, PickedExtends
  <2> QED BY <1>4, <2>1
<1>6. \A k \in 1..Len(ds) : \E i \in DOMAIN led : ds[k] = led[i] /\ es[k] = new[i]
  BY <1>2, <1>5
<1>7. \A k \in 1..Len(es) : k > Len(ds) => es[k].turn = t
  <2>1. \A i \in DOMAIN new : i > Len(led) => new[i].turn = t
    <3>1. \A i \in DOMAIN led : ~(i > Len(led))
      BY <1>1
    <3> QED BY <3>1, Zenon DEF Later
  <2> TAKE k \in 1..Len(es)
  <2> HAVE k > Len(ds)
  <2>2. PICK i \in Q : i > Len(led) /\ es[k] = new[i]
    BY <1>5
  <2> QED BY <1>2, <2>1, <2>2
<1> QED BY <1>5, <1>6, <1>7 DEF ds, es

\* The rules so far stay the first rules, and the others are of the new turn.
LEMMA RulesExtend ==
    ASSUME NEW led \in Ledgers, NEW new \in Ledgers, NEW t \in Nat, NEW W, Later(led, new, t, W)
    PROVE  LET cs == Constraints(led)  ks == Constraints(new) IN
           /\ Len(cs) <= Len(ks)
           /\ \A k \in 1..Len(cs) : ks[k] = cs[k]
           /\ \A k \in 1..Len(ks) : k > Len(cs) => ks[k].turn = t
<1> DEFINE P == {i \in DOMAIN led : led[i].name[1] = "CONSTRAINT"}
           Q == {i \in DOMAIN new : new[i].name[1] = "CONSTRAINT"}
           own == Picked(led, P)
           all == Picked(new, Q)
           durable == [i \in DOMAIN Banked |-> [fact |-> Banked[i], turn |-> NoTurn]]
           a == [i \in DOMAIN own |-> [fact |-> own[i].name, turn |-> own[i].turn]]
           b == [i \in DOMAIN all |-> [fact |-> all[i].name, turn |-> all[i].turn]]
           m == Len(Banked)
<1>1. /\ led \in Seq(LedgerEntity) /\ new \in Seq(LedgerEntity)
      /\ Len(led) \in Nat /\ DOMAIN led = 1..Len(led)
      /\ Len(led) <= Len(new) /\ \A i \in DOMAIN led : i \in DOMAIN new
      /\ \A i \in DOMAIN led : new[i].name = led[i].name /\ new[i].turn = led[i].turn
  BY LaterIs
<1>2. P \in SUBSET (DOMAIN led) /\ Q \in SUBSET (DOMAIN new)
      /\ \A i \in DOMAIN led : i \in Q <=> i \in P
  BY <1>1
<1>3. Constraints(led) = durable \o a /\ Constraints(new) = durable \o b
  BY DEF Constraints
<1>4. m \in Nat /\ DOMAIN durable = 1..m
  BY LintAssumption
<1> HIDE DEF P, Q, own, all
<1>5. /\ Len(own) <= Len(all)
      /\ \A k \in 1..Len(own) : \E i \in P : own[k] = led[i] /\ all[k] = new[i]
      /\ \A k \in 1..Len(all) : k > Len(own) => \E i \in Q : i > Len(led) /\ all[k] = new[i]
  BY <1>1, <1>2, PickedExtends DEF own, all
<1>6. /\ Len(own) \in Nat /\ DOMAIN own = 1..Len(own)
      /\ Len(all) \in Nat /\ DOMAIN all = 1..Len(all)
  BY <1>1, <1>2, PickedIs DEF own, all
<1>7. /\ Len(a) = Len(own) /\ Len(b) = Len(all) /\ DOMAIN a = DOMAIN own /\ DOMAIN b = DOMAIN all
      /\ \A k \in 1..Len(own) : a[k] = [fact |-> own[k].name, turn |-> own[k].turn]
      /\ \A k \in 1..Len(all) : b[k] = [fact |-> all[k].name, turn |-> all[k].turn]
  BY <1>6
<1> HIDE DEF a, b, durable, m
<1>8. /\ Len(durable \o a) = m + Len(own) /\ Len(durable \o b) = m + Len(all)
      /\ \A k \in 1..(m + Len(own)) :
            (durable \o a)[k] = IF k <= m THEN durable[k] ELSE a[k - m]
      /\ \A k \in 1..(m + Len(all)) :
            (durable \o b)[k] = IF k <= m THEN durable[k] ELSE b[k - m]
  <2>1. durable \in Seq(Rules \cup {durable[i] : i \in 1..m}) /\ Len(durable) = m
    BY <1>4 DEF durable, m
  <2>2. a \in Seq({a[i] : i \in 1..Len(own)}) /\ b \in Seq({b[i] : i \in 1..Len(all)})
    <3>1. a = [i \in 1..Len(own) |-> a[i]] /\ b = [i \in 1..Len(all) |-> b[i]]
      BY <1>6 DEF a, b
    <3> QED BY <1>6, <3>1
  <2> DEFINE U == Rules \cup {durable[i] : i \in 1..m} \cup {a[i] : i \in 1..Len(own)}
                  \cup {b[i] : i \in 1..Len(all)}
  <2>3. durable \in Seq(U) /\ a \in Seq(U) /\ b \in Seq(U)
    BY <2>1, <2>2
  <2> HIDE DEF U
  <2>4. /\ Len(durable \o a) = Len(durable) + Len(a)
        /\ \A k \in 1..Len(durable) + Len(a) :
            (durable \o a)[k] = IF k <= Len(durable) THEN durable[k] ELSE a[k - Len(durable)]
    BY <2>3, ConcatProperties
  <2>5. /\ Len(durable \o b) = Len(durable) + Len(b)
        /\ \A k \in 1..Len(durable) + Len(b) :
            (durable \o b)[k] = IF k <= Len(durable) THEN durable[k] ELSE b[k - Len(durable)]
    BY <2>3, ConcatProperties
  <2>6. Len(durable) = m /\ Len(a) = Len(own) /\ Len(b) = Len(all)
    BY <1>7, <2>1
  <2> QED BY <2>4, <2>5, <2>6
<1>9. \A k \in 1..Len(own) : a[k] = b[k]
  <2> TAKE k \in 1..Len(own)
  <2>1. PICK i \in P : own[k] = led[i] /\ all[k] = new[i]
    BY <1>5
  <2>2. own[k].name = all[k].name /\ own[k].turn = all[k].turn
    BY <1>1, <1>2, <2>1
  <2>3. k \in 1..Len(all)
    BY <1>5, <1>6
  <2> QED BY <1>7, <2>2, <2>3
<1>10. \A k \in 1..Len(all) : k > Len(own) => b[k].turn = t
  <2> SUFFICES ASSUME NEW k \in 1..Len(all), k > Len(own) PROVE b[k].turn = t
    OBVIOUS
  <2>1. PICK i \in Q : i > Len(led) /\ all[k] = new[i]
    BY <1>5
  <2>2. i \notin DOMAIN led /\ i \in DOMAIN new
    BY <1>1, <1>2, <2>1
  <2>3. new[i].turn = t
    BY <2>2 DEF Later
  <2>4. b[k] = [fact |-> all[k].name, turn |-> all[k].turn]
    BY <1>7
  <2>5. b[k].turn = all[k].turn
    BY <2>4
  <2> QED BY <2>1, <2>3, <2>5
<1>11. \A k \in 1..(m + Len(own)) : (durable \o b)[k] = (durable \o a)[k]
  <2> TAKE k \in 1..(m + Len(own))
  <2> DEFINE x == Len(own)
             y == Len(all)
  <2>1. x \in Nat /\ y \in Nat /\ x <= y /\ m \in Nat
    BY <1>4, <1>5, <1>6
  <2>2. k \in 1..(m + x)
    OBVIOUS
  <2> HIDE DEF x, y
  <2>3. k \in 1..(m + y) /\ (k <= m \/ k - m \in 1..x)
    BY <2>1, <2>2
  <2>4. k <= m \/ a[k - m] = b[k - m]
    BY <1>9, <2>3 DEF x
  <2> QED BY <1>8, <2>2, <2>3, <2>4 DEF x, y
<1>12. \A k \in 1..(m + Len(all)) : k > m + Len(own) => (durable \o b)[k].turn = t
  <2> SUFFICES ASSUME NEW k \in 1..(m + Len(all)), k > m + Len(own)
               PROVE  (durable \o b)[k].turn = t
    OBVIOUS
  <2> DEFINE x == Len(own)
             y == Len(all)
  <2>1. x \in Nat /\ y \in Nat /\ m \in Nat /\ k \in 1..(m + y) /\ k > m + x
    BY <1>4, <1>6
  <2> HIDE DEF x, y
  <2>2. ~(k <= m) /\ k - m \in 1..y /\ k - m > x
    BY <2>1
  <2>3. b[k - m].turn = t
    BY <1>10, <2>2 DEF x, y
  <2>4. (durable \o b)[k] = IF k <= m THEN durable[k] ELSE b[k - m]
    BY <1>8
  <2> QED BY <2>2, <2>3, <2>4
<1>13. m + Len(own) <= m + Len(all)
  BY <1>4, <1>5, <1>6
<1> QED BY <1>3, <1>8, <1>11, <1>12, <1>13

\* No rule of the new entry reaches back to a decision already made.
Opposed(led, d) == Opposing(Constraints(led), d)
LEMMA OpposedStays ==
    ASSUME NEW led \in Ledgers, NEW new \in Ledgers, NEW t \in Nat, NEW W, Later(led, new, t, W),
           NEW j \in DOMAIN led
    PROVE  Opposed(new, new[j]) = Opposed(led, led[j])
<1> DEFINE cs == Constraints(led)
           ks == Constraints(new)
           d == led[j]
           e == new[j]
           P == {i \in Compared(led, d) : cs[i].fact[2] \in Means[d.name[2]].clash}
           Q == {i \in Compared(new, e) : ks[i].fact[2] \in Means[e.name[2]].clash}
           a == Picked(cs, P)
           b == Picked(ks, Q)
<1>1. /\ led \in Seq(LedgerEntity) /\ new \in Seq(LedgerEntity)
      /\ e.name = d.name /\ e.turn = d.turn /\ d.turn < t /\ d.turn \in Nat
  <2>1. /\ led \in Seq(LedgerEntity) /\ new \in Seq(LedgerEntity)
        /\ d \in LedgerEntity /\ e.name = d.name /\ e.turn = d.turn /\ d.turn < t
    BY LaterIs
  <2> QED BY <2>1 DEF LedgerEntity
<1>2. /\ cs \in Seq(Rules) /\ Len(cs) \in Nat /\ DOMAIN cs = 1..Len(cs)
      /\ ks \in Seq(Rules) /\ Len(ks) \in Nat /\ DOMAIN ks = 1..Len(ks)
  BY <1>1, RulesAre
<1>3. /\ Len(cs) <= Len(ks)
      /\ \A k \in 1..Len(cs) : ks[k] = cs[k]
      /\ \A k \in 1..Len(ks) : k > Len(cs) => ks[k].turn = t
  BY RulesExtend
<1>4. Opposed(led, d) = a /\ Opposed(new, e) = b
  BY DEF Opposed, Opposing, RulesInScope, Compared
<1>5. /\ \A i \in 1..Len(cs) : i \in P <=> InScope(cs[i], d) /\ cs[i].fact[2] \in Means[d.name[2]].clash
      /\ \A i \in 1..Len(ks) : i \in Q <=> InScope(ks[i], e) /\ ks[i].fact[2] \in Means[e.name[2]].clash
      /\ P \in SUBSET (1..Len(cs)) /\ Q \in SUBSET (1..Len(ks))
  BY <1>2 DEF Compared, RulesInScope
<1> HIDE DEF P, Q, cs, ks, d, e
<1>6. \A c : InScope(c, e) <=> InScope(c, d)
  BY <1>1 DEF InScope
<1>7. \A i \in 1..Len(cs) : i \in Q <=> i \in P
  <2> TAKE i \in 1..Len(cs)
  <2>1. i \in 1..Len(ks) /\ ks[i] = cs[i]
    BY <1>2, <1>3
  <2> QED BY <1>1, <1>5, <1>6, <2>1
<1>8. Q \in SUBSET (1..Len(cs))
  <2> SUFFICES ASSUME NEW i \in Q, i \notin 1..Len(cs) PROVE FALSE
    OBVIOUS
  <2>1. i \in 1..Len(ks) /\ i > Len(cs)
    BY <1>2, <1>5
  <2>2. ks[i].turn = t
    BY <1>3, <2>1
  <2>3. InScope(ks[i], e)
    BY <1>5, <2>1
  <2> QED BY <1>1, <2>2, <2>3 DEF InScope, NoTurn
<1>9. /\ Len(a) <= Len(b)
      /\ \A k \in 1..Len(a) : \E i \in P : a[k] = cs[i] /\ b[k] = ks[i]
      /\ \A k \in 1..Len(b) : k > Len(a) => \E i \in Q : i > Len(cs) /\ b[k] = ks[i]
  <2>1. P \in SUBSET (DOMAIN cs) /\ Q \in SUBSET (DOMAIN ks) /\ \A i \in DOMAIN cs : i \in Q <=> i \in P
    BY <1>2, <1>5, <1>7
  <2>2. cs \in Seq(Rules) /\ ks \in Seq(Rules) /\ Len(cs) <= Len(ks)
    BY <1>2, <1>3
  <2> QED BY <2>1, <2>2, PickedExtends
<1>10. /\ a \in Seq(Rules) /\ Len(a) \in Nat /\ DOMAIN a = 1..Len(a)
       /\ b \in Seq(Rules) /\ Len(b) \in Nat /\ DOMAIN b = 1..Len(b)
  BY <1>2, <1>5, PickedIs
<1> HIDE DEF a, b
<1>11. Len(b) = Len(a)
  <2>1. ASSUME Len(b) > Len(a) PROVE FALSE
    <3>1. Len(b) \in 1..Len(b)
      BY <1>10, <2>1
    <3>2. PICK i \in Q : i > Len(cs)
      BY <1>9, <2>1, <3>1
    <3> QED BY <1>2, <1>8, <3>2
  <2>2. Len(a) <= Len(b) /\ Len(a) \in Nat /\ Len(b) \in Nat
    BY <1>9, <1>10
  <2> QED BY <2>1, <2>2
<1>12. \A k \in 1..Len(a) : b[k] = a[k]
  <2> TAKE k \in 1..Len(a)
  <2>1. PICK i \in P : a[k] = cs[i] /\ b[k] = ks[i]
    BY <1>9
  <2>2. i \in 1..Len(cs)
    BY <1>5
  <2> QED BY <1>3, <2>1, <2>2
<1>13. a = b
  BY <1>10, <1>11, <1>12
<1> QED BY <1>4, <1>13 DEF d, e

LEMMA JoinGrows ==
    ASSUME NEW W,
           NEW a \in Seq(LintRecords), NEW b \in Seq(LintRecords),
           NEW c \in Seq(LintRecords), NEW d \in Seq(LintRecords),
           RowsGrow(a, c, W), RowsGrow(b, d, W)
    PROVE  RowsGrow(a \o b, c \o d, W)
<1> DEFINE m == Len(a)
           n == Len(b)
           r == a \o b
           q == c \o d
<1>1. /\ m \in Nat /\ n \in Nat /\ Len(c) = m /\ Len(d) = n
      /\ \A i \in 1..m : RowGrows(a[i], c[i], W)
      /\ \A i \in 1..n : RowGrows(b[i], d[i], W)
  BY DEF RowsGrow
<1>2. Len(r) = m + n /\ \A i \in 1..(m + n) : r[i] = IF i <= m THEN a[i] ELSE b[i - m]
  BY ConcatProperties
<1>3. Len(q) = m + n /\ \A i \in 1..(m + n) : q[i] = IF i <= m THEN c[i] ELSE d[i - m]
  <2>1. Len(q) = Len(c) + Len(d)
        /\ \A i \in 1..(Len(c) + Len(d)) : q[i] = IF i <= Len(c) THEN c[i] ELSE d[i - Len(c)]
    BY ConcatProperties
  <2> QED BY <1>1, <2>1
<1> HIDE DEF r, q, m, n
<1>4. \A i \in 1..(m + n) : RowGrows(r[i], q[i], W)
  <2> TAKE i \in 1..(m + n)
  <2>1. CASE i <= m
    <3>1. i \in 1..m /\ r[i] = a[i] /\ q[i] = c[i]
      BY <1>1, <1>2, <1>3, <2>1
    <3> QED BY <1>1, <3>1
  <2>2. CASE ~(i <= m)
    <3>1. i - m \in 1..n /\ r[i] = b[i - m] /\ q[i] = d[i - m]
      BY <1>1, <1>2, <1>3, <2>2
    <3> QED BY <1>1, <3>1
  <2> QED BY <2>1, <2>2
<1> QED BY <1>2, <1>3, <1>4 DEF RowsGrow, r, q

\* A decision made before is charged with what it was charged with, and only
\* a reason that is given can resolve a charge.
LEMMA ChargesGrow ==
    ASSUME NEW led \in Ledgers, NEW new \in Ledgers, NEW t \in Nat, NEW W, Later(led, new, t, W),
           NEW j \in DOMAIN led
    PROVE  RowsGrow(Charges(led, led[j]), Charges(new, new[j]), W)
<1> DEFINE d == led[j]
           e == new[j]
           against == Opposed(led, d)
           Q == {i \in DOMAIN Subjects : Subjects[i] \in Means[d.name[2]].prot}
           shielded == Picked(Subjects, Q)
           rowA(x, i) == LintRow("constraint_collision", x, against[i].fact,
                                 x.why # NoReason /\ x.sup = against[i].fact)
           rowB(x, i) == LintRow("protected_subject", x, <<"SUBJECT", shielded[i]>>, x.why # NoReason)
           a(x) == [i \in DOMAIN against |-> rowA(x, i)]
           b(x) == [i \in DOMAIN shielded |-> rowB(x, i)]
<1>1. /\ led \in Seq(LedgerEntity) /\ new \in Seq(LedgerEntity)
      /\ d \in LedgerEntity /\ e \in LedgerEntity /\ e.name = d.name /\ e.turn = d.turn
  BY LaterIs
<1>2. Charges(led, d) = a(d) \o b(d)
  BY DEF Charges, Opposed, Charged, Opposing, Guarding, RulesInScope, Compared
<1>3. Charges(new, e) = a(e) \o b(e)
  <2>1. Opposed(new, e) = against
    BY OpposedStays
  <2>2. Opposed(new, e) = Picked(Constraints(new),
            {i \in Compared(new, e) : Constraints(new)[i].fact[2] \in Means[e.name[2]].clash})
    BY DEF Opposed, Opposing, RulesInScope, Compared
  <2>3. shielded = Picked(Subjects, {i \in DOMAIN Subjects : Subjects[i] \in Means[e.name[2]].prot})
    BY <1>1
  <2> HIDE DEF against, shielded
  <2> QED BY <2>1, <2>2, <2>3 DEF Charges, Charged, Opposing, Guarding, RulesInScope, Compared
<1>4. /\ against \in Seq(Rules) /\ Len(against) \in Nat /\ DOMAIN against = 1..Len(against)
  <2> DEFINE P == {i \in Compared(led, d) : Constraints(led)[i].fact[2] \in Means[d.name[2]].clash}
  <2>1. P \in SUBSET (DOMAIN Constraints(led)) /\ Constraints(led) \in Seq(Rules)
    BY <1>1, ComparedIs, RulesAre
  <2>2. against = Picked(Constraints(led), P)
    BY DEF Opposed, Opposing, RulesInScope, Compared
  <2> HIDE DEF P, against
  <2> QED BY <2>1, <2>2, PickedIs
<1>5. /\ shielded \in Seq(ToSet(Subjects)) /\ Len(shielded) \in Nat /\ DOMAIN shielded = 1..Len(shielded)
  <2>1. Q \in SUBSET (DOMAIN Subjects) /\ Subjects \in Seq(ToSet(Subjects))
    BY LintAssumption
  <2> HIDE DEF Q
  <2> QED BY <2>1, PickedIs
<1>6. /\ d.why # NoReason => e.why # NoReason /\ e.sup = d.sup
      /\ e.why # NoReason => d.why # NoReason \/ W
  <2>1. d.why # NoReason => d.sup # NoFact
    BY DEF Ledgers
  <2>2. /\ d.sup # NoFact => e.sup = d.sup
        /\ d.why # NoReason => e.why = d.why
        /\ e.why # NoReason => d.why # NoReason \/ W
    BY Zenon DEF Later, Grows
  <2> QED BY <2>1, <2>2
<1> HIDE DEF against, Q, shielded, d, e
<1>7. \A x \in {d, e} : \A case \in {"constraint_collision", "protected_subject"} :
        \A y \in RuleFacts \cup ({"SUBJECT"} \X ToSet(Subjects)) : \A z \in BOOLEAN :
            LintRow(case, x, y, z) \in LintRecords
  <2>1. \A x \in {d, e} : x.name \in EntityNames /\ x.turn \in Nat
    BY <1>1 DEF LedgerEntity
  <2> QED BY <2>1 DEF LintRow, LintRecords
<1>8. \A i \in DOMAIN against : against[i].fact \in RuleFacts
  <2>1. \A i \in DOMAIN against : against[i] \in Rules
    BY <1>4
  <2>2. \A c \in Rules : c.fact \in RuleFacts
    BY DEF Rules
  <2> QED BY <2>1, <2>2
<1>9. \A i \in DOMAIN shielded : <<"SUBJECT", shielded[i]>> \in {"SUBJECT"} \X ToSet(Subjects)
  BY <1>5
<1>10. \A x \in {d, e} : \A i \in DOMAIN against : rowA(x, i) \in LintRecords
  BY <1>7, <1>8
<1>11. \A x \in {d, e} : \A i \in DOMAIN shielded : rowB(x, i) \in LintRecords
  BY <1>7, <1>9
<1>12. \A i \in DOMAIN against : RowGrows(rowA(d, i), rowA(e, i), W)
  BY <1>1, <1>6 DEF RowGrows, LintRow, Key
<1>13. \A i \in DOMAIN shielded : RowGrows(rowB(d, i), rowB(e, i), W)
  BY <1>1, <1>6 DEF RowGrows, LintRow, Key
<1> HIDE DEF rowA, rowB
<1>14. /\ \A x \in {d, e} : a(x) \in Seq(LintRecords) /\ Len(a(x)) = Len(against)
       /\ \A i \in 1..Len(against) : a(d)[i] = rowA(d, i) /\ a(e)[i] = rowA(e, i)
  BY <1>4, <1>10
<1>15. /\ \A x \in {d, e} : b(x) \in Seq(LintRecords) /\ Len(b(x)) = Len(shielded)
       /\ \A i \in 1..Len(shielded) : b(d)[i] = rowB(d, i) /\ b(e)[i] = rowB(e, i)
  BY <1>5, <1>11
<1> HIDE DEF a, b
<1>16. RowsGrow(a(d), a(e), W)
  BY <1>4, <1>12, <1>14 DEF RowsGrow
<1>17. RowsGrow(b(d), b(e), W)
  BY <1>5, <1>13, <1>15 DEF RowsGrow
<1>18. RowsGrow(a(d) \o b(d), a(e) \o b(e), W)
  BY <1>14, <1>15, <1>16, <1>17, JoinGrows
<1> QED BY <1>2, <1>3, <1>18 DEF d, e

\* Two examinations of the same decisions, the second with what is known later.
Matched(x, y, W) == RowsGrow(x.rows, y.rows, W) /\ (x.truncated <=> y.truncated)
LEMMA ExamineGrows ==
    ASSUME NEW led \in Ledgers, NEW new \in Ledgers, NEW t \in Nat, NEW W, Later(led, new, t, W),
           NEW j \in DOMAIN led,
           NEW x \in Examinations, NEW y \in Examinations, Matched(x, y, W)
    PROVE  Matched(Examine(x, led[j], led), Examine(y, new[j], new), W)
<1> DEFINE d == led[j]
           e == new[j]
           u == Examine(x, d, led)
           v == Examine(y, e, new)
           rs == Charges(led, d)
           qs == Charges(new, e)
<1>1. /\ led \in Seq(LedgerEntity) /\ new \in Seq(LedgerEntity)
      /\ d \in LedgerEntity /\ e \in LedgerEntity
  BY LaterIs
<1>2. rs \in Seq(LintRecords) /\ qs \in Seq(LintRecords)
  BY <1>1, ChargesAre
<1>3. RowsGrow(rs, qs, W)
  BY ChargesGrow
<1>4. /\ u \in Examinations
      /\ x.truncated => u = x
      /\ ~x.truncated => u.rows = NoteAll(x.rows, rs) /\ (u.truncated <=> Len(u.rows) >= LintCap)
  BY <1>1, ExamineIs
<1>5. /\ v \in Examinations
      /\ y.truncated => v = y
      /\ ~y.truncated => v.rows = NoteAll(y.rows, qs) /\ (v.truncated <=> Len(v.rows) >= LintCap)
  BY <1>1, ExamineIs
<1>6. x.rows \in Tables /\ y.rows \in Tables
  BY DEF Examinations
<1> HIDE DEF d, e, u, v, rs, qs
<1>7. CASE x.truncated
  BY <1>4, <1>5, <1>7 DEF Matched, u, v, d, e
<1>8. CASE ~x.truncated
  <2>1. u.rows = NoteAll(x.rows, rs) /\ v.rows = NoteAll(y.rows, qs)
    BY <1>4, <1>5, <1>8 DEF Matched
  <2>2. RowsGrow(u.rows, v.rows, W)
    BY <1>2, <1>3, <1>6, <2>1, NoteAllGrows DEF Matched
  <2>3. Len(u.rows) = Len(v.rows)
    BY <2>2 DEF RowsGrow
  <2>4. u.truncated <=> v.truncated
    BY <1>4, <1>5, <1>8, <2>3 DEF Matched
  <2> QED BY <2>2, <2>4 DEF Matched, u, v, d, e
<1> QED BY <1>7, <1>8

\* The rows noted so far stay the first rows, and the others are about the
\* decisions of the new entry.
LEMMA ExaminedGrows ==
    ASSUME NEW led \in Ledgers, NEW new \in Ledgers, NEW t \in Nat, NEW W, Later(led, new, t, W)
    PROVE  LET a == Examined(led).rows  b == Examined(new).rows IN
           /\ Len(a) <= Len(b)
           /\ \A i \in 1..Len(a) : RowGrows(a[i], b[i], W)
           /\ \A i \in 1..Len(b) : i > Len(a) => b[i].turn = t
<1> DEFINE ds == Decisions(led)
           es == Decisions(new)
           n == Len(ds)
           m == Len(es)
<1>1. led \in Seq(LedgerEntity) /\ new \in Seq(LedgerEntity)
  BY LaterIs
<1>2. /\ n \in Nat /\ DOMAIN ds = 1..n /\ \A i \in 1..n : ds[i] \in LedgerEntity
      /\ m \in Nat /\ DOMAIN es = 1..m /\ \A i \in 1..m : es[i] \in LedgerEntity
  BY <1>1, DecisionsAre
<1>3. /\ n <= m
      /\ \A k \in 1..n : \E i \in DOMAIN led : ds[k] = led[i] /\ es[k] = new[i]
      /\ \A k \in 1..m : k > n => es[k].turn = t
  BY DecisionsExtend
<1>4. PICK D \in [0..n -> Examinations] :
        /\ Examined(led) = D[n]
        /\ D[0] = Unexamined
        /\ \A i \in 1..n : D[i] = Examine(D[i - 1], ds[i], led)
  BY <1>1, ExaminedUnrolls
<1>5. PICK E \in [0..m -> Examinations] :
        /\ Examined(new) = E[m]
        /\ E[0] = Unexamined
        /\ \A i \in 1..m : E[i] = Examine(E[i - 1], es[i], new)
  BY <1>1, ExaminedUnrolls
<1> HIDE DEF n, m, ds, es
<1>6. Matched(D[n], E[n], W)
  <2> DEFINE S == {k \in 0..n : Matched(D[k], E[k], W)}
  <2>1. 0 \in S
    <3>1. Len(Unexamined.rows) = 0
      BY DEF Unexamined
    <3>2. RowsGrow(Unexamined.rows, Unexamined.rows, W)
      BY <3>1 DEF RowsGrow
    <3> QED BY <1>2, <1>4, <1>5, <3>2 DEF Matched
  <2>2. ASSUME NEW k \in S, k < n PROVE k + 1 \in S
    <3>1. /\ k \in 0..n /\ k \in 0..m /\ k + 1 \in 1..n /\ k + 1 \in 1..m /\ k + 1 \in 0..n
          /\ (k + 1) - 1 = k /\ Matched(D[k], E[k], W)
      BY <1>2, <1>3, <2>2
    <3>2. PICK i \in DOMAIN led : ds[k + 1] = led[i] /\ es[k + 1] = new[i]
      BY <1>3, <3>1
    <3>3. D[k + 1] = Examine(D[k], led[i], led) /\ E[k + 1] = Examine(E[k], new[i], new)
      BY <1>4, <1>5, <3>1, <3>2
    <3>4. D[k] \in Examinations /\ E[k] \in Examinations
      BY <3>1
    <3>5. Matched(D[k + 1], E[k + 1], W)
      BY <3>1, <3>3, <3>4, ExamineGrows
    <3> QED BY <3>1, <3>5
  <2>3. S \in SUBSET Nat /\ n \in 0..n
    BY <1>2
  <2> HIDE DEF S
  <2>4. n \in S
    <3>1. 0..n \subseteq S
      BY <1>2, <2>1, <2>2, <2>3, UpToInduction
    <3> QED BY <2>3, <3>1
  <2> QED BY <2>4 DEF S
<1> DEFINE a == D[n].rows
           Beyond(r) == /\ r \in Tables /\ Len(a) <= Len(r)
                        /\ \A i \in 1..Len(a) : RowGrows(a[i], r[i], W)
                        /\ \A i \in 1..Len(r) : i > Len(a) => r[i].turn = t
           S == {k \in Nat : n + k <= m => Beyond(E[n + k].rows)}
<1>7. \A x \in Examinations : x.rows \in Tables /\ Len(x.rows) \in Nat
  BY DEF Examinations, Tables
<1>8. n \in 0..n /\ n \in 0..m /\ Len(a) \in Nat
  BY <1>2, <1>3, <1>7
<1> HIDE DEF a
<1>9. 0 \in S
  <2>1. n + 0 = n
    BY <1>2
  <2>2. E[n].rows \in Tables /\ Len(E[n].rows) = Len(a) /\ \A i \in 1..Len(a) : RowGrows(a[i], E[n].rows[i], W)
    BY <1>6, <1>7, <1>8 DEF Matched, RowsGrow, a
  <2>3. \A i \in 1..Len(a) : ~(i > Len(a))
    BY <1>8
  <2>4. Beyond(E[n].rows)
    BY <1>8, <2>2, <2>3
  <2> QED BY <2>1, <2>4
<1>10. ASSUME NEW k \in S, k < m - n PROVE k + 1 \in S
  <2> DEFINE p == n + k
             x == E[p]
             y == E[p + 1]
             d == es[p + 1]
             r == x.rows
             q == y.rows
             rs == Charges(new, d)
  <2>1. /\ p \in 0..m /\ p + 1 \in 1..m /\ p + 1 \in 0..m /\ (p + 1) - 1 = p /\ p + 1 > n
        /\ k + 1 \in Nat /\ n + (k + 1) = p + 1 /\ Beyond(r)
    BY <1>2, <1>3, <1>10
  <2>2. /\ x \in Examinations /\ y \in Examinations /\ d \in LedgerEntity
        /\ y = Examine(x, d, new) /\ d.turn = t
    BY <1>2, <1>3, <1>5, <2>1
  <2>3. rs \in Seq(LintRecords) /\ \A i \in DOMAIN rs : rs[i].turn = t
    BY <1>1, <2>2, ChargesAre
  <2>4. (x.truncated => y = x) /\ (~x.truncated => y.rows = NoteAll(x.rows, rs))
    BY <1>1, <2>2, ExamineIs
  <2>5. r \in Tables /\ q \in Tables /\ Len(r) \in Nat /\ Len(q) \in Nat
    BY <1>7, <2>2
  <2> HIDE DEF p, d, rs
  <2>6. CASE x.truncated
    <3>1. Beyond(q)
      BY <2>1, <2>4, <2>6
    <3> QED BY <2>1, <3>1
  <2>7. CASE ~x.truncated
    <3>1. q = NoteAll(r, rs)
      BY <2>4, <2>7
    <3> HIDE DEF r, q
    <3>2. /\ Len(r) <= Len(q)
          /\ \A i \in 1..Len(r) : q[i] = r[i]
          /\ \A i \in (Len(r) + 1)..Len(q) : \E j \in DOMAIN rs : q[i] = rs[j]
      BY <2>3, <2>5, <3>1, NoteAllIs
    <3>3. Len(a) <= Len(r) /\ Len(a) <= Len(q) /\ \A i \in 1..Len(a) : i \in 1..Len(r)
      BY <1>8, <2>1, <2>5, <3>2
    <3>4. \A i \in 1..Len(a) : RowGrows(a[i], q[i], W)
      BY <2>1, <3>2, <3>3
    <3>5. \A i \in 1..Len(q) : i > Len(a) => q[i].turn = t
      <4> SUFFICES ASSUME NEW i \in 1..Len(q), i > Len(a) PROVE q[i].turn = t
        OBVIOUS
      <4>1. CASE i \in 1..Len(r)
        BY <2>1, <3>2, <4>1
      <4>2. CASE i \notin 1..Len(r)
        <5>1. i \in (Len(r) + 1)..Len(q)
          BY <2>5, <4>2
        <5> QED BY <2>3, <3>2, <5>1
      <4> QED BY <4>1, <4>2
    <3>6. Beyond(q)
      BY <2>5, <3>3, <3>4, <3>5
    <3> QED BY <2>1, <3>6 DEF q
  <2> QED BY <2>6, <2>7
<1>11. S \in SUBSET Nat /\ m - n \in Nat /\ n + (m - n) = m
  BY <1>2, <1>3
<1> HIDE DEF S
<1>12. m - n \in S
  <2>1. 0..(m - n) \subseteq S
    BY <1>9, <1>10, <1>11, UpToInduction
  <2> QED BY <1>11, <2>1
<1>13. Beyond(E[m].rows)
  BY <1>2, <1>11, <1>12 DEF S
<1> QED BY <1>4, <1>5, <1>13 DEF a

\* The rows reported so far stay, and while there was room the others are
\* about the decisions of the new entry.
LEMMA LintGrows ==
    ASSUME NEW led \in Ledgers, NEW new \in Ledgers, NEW t \in Nat, NEW W, Later(led, new, t, W)
    PROVE  LET old == LintRows(led)  now == LintRows(new) IN
           /\ Len(now) >= Len(old) /\ DOMAIN old = 1..Len(old) /\ DOMAIN now = 1..Len(now)
           /\ \A i \in DOMAIN old : RowGrows(old[i], now[i], W)
           /\ \A i \in (Len(old) + 1)..Len(now) : Len(old) < LintCap => now[i].turn = t
<1> DEFINE a == Examined(led).rows
           b == Examined(new).rows
           old == LintRows(led)
           now == LintRows(new)
           la == Len(a)
           lb == Len(b)
           lo == Len(old)
           ln == Len(now)
<1>1. led \in Seq(LedgerEntity) /\ new \in Seq(LedgerEntity)
  BY LaterIs
<1>2. /\ old \in Tables /\ lo \in Nat /\ la \in Nat
      /\ lo = IF la < LintCap THEN la ELSE LintCap
      /\ \A i \in 1..lo : old[i] = a[i]
  BY <1>1, LintRowsAre
<1>3. /\ now \in Tables /\ ln \in Nat /\ lb \in Nat
      /\ ln = IF lb < LintCap THEN lb ELSE LintCap
      /\ \A i \in 1..ln : now[i] = b[i]
  BY <1>1, LintRowsAre
<1>4. /\ la <= lb
      /\ \A i \in 1..la : RowGrows(a[i], b[i], W)
      /\ \A i \in 1..lb : i > la => b[i].turn = t
  BY ExaminedGrows
<1>5. LintCap \in Nat
  BY LintAssumption
<1>6. DOMAIN old = 1..lo /\ DOMAIN now = 1..ln
  BY <1>2, <1>3 DEF Tables
<1> HIDE DEF a, b, old, now, la, lb, lo, ln
<1>7. ln >= lo /\ lo <= la /\ ln <= lb /\ (lo < LintCap => lo = la)
  BY <1>2, <1>3, <1>4, <1>5
<1>8. lo \in Nat /\ la \in Nat /\ ln \in Nat /\ lb \in Nat
  BY <1>2, <1>3
<1>9. \A i \in 1..lo : RowGrows(old[i], now[i], W)
  <2> TAKE i \in 1..lo
  <2>1. i \in 1..la /\ i \in 1..ln
    BY <1>7, <1>8
  <2> QED BY <1>2, <1>3, <1>4, <2>1
<1>10. \A i \in (lo + 1)..ln : lo < LintCap => now[i].turn = t
  <2> SUFFICES ASSUME NEW i \in (lo + 1)..ln, lo < LintCap PROVE now[i].turn = t
    OBVIOUS
  <2>1. i \in 1..ln /\ i \in 1..lb /\ i > la
    BY <1>7, <1>8
  <2> QED BY <1>3, <1>4, <2>1
<1> QED BY <1>6, <1>7, <1>9, <1>10 DEF old, now, lo, ln

\* What the two action properties say of one step.
RetroactiveStep ==
    LET old == LintRows(ents)  new == LintRows(ents') IN
    /\ Len(new) >= Len(old)
    /\ \A i \in DOMAIN old : Key(new[i]) = Key(old[i])
    /\ \A i \in (Len(old) + 1)..Len(new) : i <= LintCap =>
         (Len(old) < LintCap /\ ~Examined(ents).truncated => new[i].turn = Turn)
ResolutionStep ==
    \A i \in DOMAIN LintRows(ents) :
     LET old == LintRows(ents)[i]  new == LintRows(ents')[i] IN
     /\ old.resolved => new.resolved
     /\ (new.resolved /\ ~old.resolved) =>
         \E s \in ToSet(log'[Len(log')].txt) \cap Sentence :
             Is(s, "sup") /\ Means[s].why # NoReason

LEMMA LintStep ==
    ASSUME ParserInv, ParserKept
    PROVE  RetroactiveStep /\ ResolutionStep
<1> DEFINE txt == log'[Len(log')].txt
           W == Reasons(txt)
<1>1. ents \in Ledgers /\ ents' \in Ledgers /\ Turn \in Nat /\ Turn = Len(log)
  BY DEF ParserInv, ParserKept, Turn
<1>2. Later(ents, ents', Turn, W)
  <2>1. Grows(ents, ents')
    BY DEF ParserKept
  <2>2. \A i \in DOMAIN ents : ents[i].turn < Turn
    BY DEF ParserInv, Turn
  <2>3. \A i \in DOMAIN ents' : i \in DOMAIN ents \/ ents'[i].turn = Turn
    BY Zenon DEF ParserKept
  <2>4. ASSUME NEW i \in DOMAIN ents, ents'[i].why # NoReason
        PROVE  ents[i].why # NoReason \/ W
    <3>1. /\ \A k, j \in DOMAIN ents : ents[k].name = ents[j].name => k = j
          /\ Len(ents) \in Nat /\ DOMAIN ents = 1..Len(ents)
          /\ Len(ents') \in Nat /\ DOMAIN ents' = 1..Len(ents')
      BY <1>1 DEF Ledgers
    <3>2. i \in DOMAIN ents' /\ ents'[i].name = ents[i].name
      BY <2>1, <3>1 DEF Grows
    <3>3. Reasoned(ents', ents[i].name)
      BY <2>4, <3>2 DEF Reasoned
    <3>4. Reasoned(ents, ents[i].name) \/ W
      BY <3>3, Zenon DEF ParserKept
    <3>5. Reasoned(ents, ents[i].name) => ents[i].why # NoReason
      BY <3>1, Zenon DEF Reasoned
    <3> QED BY <3>4, <3>5
  <2> HIDE DEF W
  <2> QED BY <2>1, <2>2, <2>3, <2>4, Zenon DEF Later
<1> DEFINE old == LintRows(ents)
           new == LintRows(ents')
<1>3. W => \E s \in ToSet(txt) \cap Sentence : Is(s, "sup") /\ Means[s].why # NoReason
  BY DEF Reasons, ToSet
<1> HIDE DEF W, txt
<1>4. /\ Len(new) >= Len(old) /\ DOMAIN old = 1..Len(old) /\ DOMAIN new = 1..Len(new)
      /\ \A i \in DOMAIN old : RowGrows(old[i], new[i], W)
      /\ \A i \in (Len(old) + 1)..Len(new) : Len(old) < LintCap => new[i].turn = Turn
  BY <1>1, <1>2, LintGrows
<1> HIDE DEF old, new
<1>5. RetroactiveStep
  BY <1>4, Zenon DEF RetroactiveStep, RowGrows, old, new
<1>6. ResolutionStep
  <2>1. \A i \in DOMAIN old :
            /\ old[i].resolved => new[i].resolved
            /\ (new[i].resolved /\ ~old[i].resolved) => W
    BY <1>4, Zenon DEF RowGrows
  <2> QED BY <1>3, <2>1, Zenon DEF ResolutionStep, old, new, txt
<1> QED BY <1>5, <1>6

\* However long the session, a lint that does not say it stopped early has
\* found every collision, no decision is convicted by text of its own or a
\* later turn, and a conflict is forgotten only when a reason is given.
THEOREM LintStaysHonest == ParserSpec => LintIsHonest
<1>1. ParserInv => SilenceMeansClean /\ CountersAddUp
  <2> SUFFICES ASSUME ParserInv PROVE SilenceMeansClean /\ CountersAddUp
    OBVIOUS
  <2>1. ents \in Seq(LedgerEntity)
    BY DEF ParserInv, Ledgers
  <2> QED BY <2>1, LintIs, Zenon DEF SilenceMeansClean, CountersAddUp
<1>2. ParserInv /\ [ParserNext]_parserVars => [RetroactiveStep]_parserVars
  BY LintStep, ParserSteps
<1>3. ParserInv /\ [ParserNext]_parserVars => [ResolutionStep]_parserVars
  BY LintStep, ParserSteps
<1>4. ParserInv /\ [ParserNext]_parserVars => ParserInv'
  BY ParserSteps DEF ParserKept
<1>5. ParserSpec => []ParserInv
  BY <1>4, ParserInitially, PTL DEF ParserSpec
<1>6. ParserSpec => [](SilenceMeansClean /\ CountersAddUp)
  BY <1>1, <1>5, PTL
<1>7. ParserSpec => [][RetroactiveStep]_parserVars
  BY <1>2, <1>5, PTL DEF ParserSpec
<1>8. ParserSpec => [][ResolutionStep]_parserVars
  BY <1>3, <1>5, PTL DEF ParserSpec
<1>9. NoRetroactiveConflict <=> [][RetroactiveStep]_parserVars
  BY DEF NoRetroactiveConflict, RetroactiveStep
<1>10. ResolutionIsExplicit <=> [][ResolutionStep]_parserVars
  BY DEF ResolutionIsExplicit, ResolutionStep
<1> QED BY <1>6, <1>7, <1>8, <1>9, <1>10, PTL DEF LintIsHonest

=============================================================================

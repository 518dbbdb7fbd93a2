---------------------------- MODULE Supersession ----------------------------
(***************************************************************************)
(* Which facts are current: the fold of the declared supersessions of      *)
(* events.jsonl into families (ctxpack/core/supersession_dag.py) that      *)
(* `session why` runs on every query (ctxpack/agent/session_reader.py,     *)
(* load_supersession), while checkpoints add declarations to the file by   *)
(* truncating and rewriting it (ctxpack/agent/checkpoint.py, _emit_events).*)
(*                                                                         *)
(* The union-find loops are modelled step by step.  The list of rows is a  *)
(* set here and the loops over it take its members in any order, so what   *)
(* holds of the fold holds for every order of the rows.                    *)
(***************************************************************************)
EXTENDS Naturals, FiniteSets

CONSTANTS
    Fact,     \* fact ids, which the fold compares
    Overlap,  \* may a query read the file while a checkpoint rewrites it?
    MaxRows   \* bound: different declarations

ASSUME FactAssumption == Fact \subseteq Nat
ASSUME SupersessionBounds == Overlap \in BOOLEAN /\ MaxRows \in Nat

VARIABLES
    rows,      \* the fact_superseded rows of events.jsonl
    rewrite,   \* the rows a checkpoint that is rewriting the file will write
    declared,  \* the rows of every checkpoint that has finished
    fold       \* the query in progress

vars == <<rows, rewrite, declared, fold>>

\* head supersedes base
Row == [base : Fact, head : Fact]
Edge == {e \in Row : e.base # e.head}
NoRewrite == [pc |-> "none"]
Idle == [pc |-> "idle"]

(***************************************************************************)
(* The pure parts of the fold.                                             *)
(***************************************************************************)
\* (mutant) one head per base
EdgesOnePerBase(log) ==
    {e \in log : e.base # e.head /\ \A d \in log : d.base = e.base => d.head <= e.head}
\* edges_from_events: a fact that supersedes itself is dropped
Edges(log) == {e \in log : e.base # e.head}

Bases(edges) == {e.base : e \in edges}
Heads(edges) == {e.head : e \in edges}
Touched(edges) == Bases(edges) \cup Heads(edges)
LiveHeads(edges) == Touched(edges) \ Bases(edges)

\* what is reported of a family: its oldest facts and its competing heads
Conflict(edges, family) ==
    [roots |-> family \ Heads(edges), heads |-> family \cap LiveHeads(edges),
     facts |-> family]
Forked(edges, family) == Cardinality(family \cap LiveHeads(edges)) >= 2

-----------------------------------------------------------------------------
Init ==
    /\ rows = {}
    /\ rewrite = NoRewrite
    /\ declared = {}
    /\ fold = Idle

(***************************************************************************)
(* A checkpoint: it reads the file, truncates it and writes it back with   *)
(* one more declaration.                                                   *)
(***************************************************************************)
OpenEvents(e) ==
    /\ rewrite = NoRewrite
    /\ Overlap \/ fold = Idle
    /\ e \notin rows
    /\ Cardinality(rows) < MaxRows
    /\ rewrite' = [pc |-> "write", rows |-> rows \cup {e}]
    /\ rows' = {}
    /\ UNCHANGED <<declared, fold>>

WriteEvents ==
    /\ rewrite # NoRewrite
    /\ rows' = rewrite.rows
    /\ declared' = rewrite.rows
    /\ rewrite' = NoRewrite
    /\ UNCHANGED fold

(***************************************************************************)
(* The query.                                                              *)
(***************************************************************************)
At(pc) == fold.pc = pc
File == <<rows, rewrite, declared>>

\* load_supersession: the whole file is read, every fact is its own parent
Load ==
    /\ fold = Idle
    /\ Overlap \/ rewrite = NoRewrite
    /\ fold' = [pc |-> "next", edges |-> Edges(rows), known |-> declared,
                todo |-> Edges(rows), now |-> {}, x |-> 0, mark |-> 0,
                parent |-> [f \in Fact |-> f], left |-> Touched(Edges(rows)),
                families |-> [f \in Fact |-> {}], conflicts |-> {}]
    /\ UNCHANGED File

\* union: find the root of the edge's base ...
NextEdge(e) ==
    /\ At("next")
    /\ e \in fold.todo
    /\ fold' = [fold EXCEPT !.pc = "find_base", !.todo = @ \ {e}, !.now = {e},
                            !.x = e.base]
    /\ UNCHANGED File

Finding == At("find_base") \/ At("find_head") \/ At("find_member")
IsRoot(f) == fold.parent[f] = f

\* (mutant) the cursor is left where it is
HalveInPlace ==
    /\ Finding
    /\ ~IsRoot(fold.x)
    /\ fold' = [fold EXCEPT !.parent[fold.x] = fold.parent[fold.parent[fold.x]]]
    /\ UNCHANGED File
\* one turn of find's loop: path halving
Halve ==
    /\ Finding
    /\ ~IsRoot(fold.x)
    /\ LET up == fold.parent[fold.parent[fold.x]] IN
         fold' = [fold EXCEPT !.parent[fold.x] = up, !.x = up]
    /\ UNCHANGED File

\* ... then that of its head ...
BaseFound(e) ==
    /\ At("find_base")
    /\ IsRoot(fold.x)
    /\ e \in fold.now
    /\ fold' = [fold EXCEPT !.pc = "find_head", !.mark = fold.x, !.x = e.head]
    /\ UNCHANGED File

\* (mutant) the edge's ends are linked, not their roots
LinkEnds(parent, a, b) ==
    [f \in Fact |->
        LET ends == {e \in fold.now : e.base = f \/ e.head = f} IN
        IF ends = {} THEN parent[f]
        ELSE LET e == CHOOSE e \in ends : TRUE IN
             IF e.base < e.head THEN e.base ELSE e.head]
\* ... and put the greater root under the smaller
Link(parent, a, b) ==
    IF a < b THEN [parent EXCEPT ![b] = a] ELSE [parent EXCEPT ![a] = b]

HeadFound ==
    /\ At("find_head")
    /\ IsRoot(fold.x)
    /\ fold' = [fold EXCEPT !.pc = "next", !.now = {},
                            !.parent = Link(@, fold.mark, fold.x)]
    /\ UNCHANGED File

\* when every edge is done, each fact is filed under its root
Collect(f) ==
    /\ At("next")
    /\ fold.todo = {}
    /\ f \in fold.left
    /\ fold' = [fold EXCEPT !.pc = "find_member", !.mark = f, !.x = f]
    /\ UNCHANGED File

MemberFound ==
    /\ At("find_member")
    /\ IsRoot(fold.x)
    /\ fold' = [fold EXCEPT !.pc = "next", !.left = @ \ {fold.mark},
                            !.families[fold.x] = @ \cup {fold.mark}]
    /\ UNCHANGED File

Families == {fold.families[r] : r \in Fact} \ {{}}
Classify ==
    /\ At("next")
    /\ fold.todo = {} /\ fold.left = {}
    /\ fold' = [fold EXCEPT !.pc = "done",
                  !.conflicts = {Conflict(fold.edges, m) :
                                   m \in {n \in Families : Forked(fold.edges, n)}}]
    /\ UNCHANGED File

Answer ==
    /\ At("done")
    /\ fold' = Idle
    /\ UNCHANGED File

FoldStep ==
    \/ \E e \in Edge : NextEdge(e) \/ BaseFound(e)
    \/ Halve \/ HeadFound
    \/ \E f \in Fact : Collect(f)
    \/ MemberFound \/ Classify

Next ==
    \/ \E e \in Row : OpenEvents(e)
    \/ WriteEvents
    \/ Load \/ FoldStep \/ Answer

Spec == Init /\ [][Next]_vars
\* a query is a plain loop in a running process
FairSpec == Spec /\ WF_vars(FoldStep)

-----------------------------------------------------------------------------
ConflictType == [roots : SUBSET Fact, heads : SUBSET Fact, facts : SUBSET Fact]
FoldType ==
    [pc : {"next", "find_base", "find_head", "find_member", "done"},
     edges : SUBSET Edge, known : SUBSET Row, todo : SUBSET Edge,
     now : SUBSET Edge, x : Nat, mark : Nat, parent : [Fact -> Fact],
     left : SUBSET Fact, families : [Fact -> SUBSET Fact],
     conflicts : SUBSET ConflictType]

(***************************************************************************)
(* Every variable keeps its type: in particular no fact supersedes itself  *)
(* in what is folded, and find only ever walks over facts.                 *)
(***************************************************************************)
TypeOK ==
    /\ rows \subseteq Row
    /\ rewrite \in {NoRewrite} \cup [pc : {"write"}, rows : SUBSET Row]
    /\ declared \subseteq Row
    /\ fold \in {Idle} \cup FoldType
    /\ Finding => fold.x \in Fact
    /\ At("find_head") \/ At("find_member") => fold.mark \in Fact

(***************************************************************************)
(* What the docstrings promise, without the algorithm: a lineage is a      *)
(* connected family, that is, the facts no cut of the graph separates.     *)
(***************************************************************************)
Cut(S, edges) == \A e \in edges : e.base \in S <=> e.head \in S
Lineage(edges, f) ==
    {x \in Touched(edges) :
        \A S \in SUBSET Fact : Cut(S, edges) => (f \in S <=> x \in S)}
Lineages(edges) == {Lineage(edges, f) : f \in Touched(edges)}
Conflicts(edges) ==
    {Conflict(edges, m) : m \in {n \in Lineages(edges) : Forked(edges, n)}}

(***************************************************************************)
(* The fold reports exactly the forked lineages, each with all its facts,  *)
(* heads and roots, whatever the order of the rows and of the collection,  *)
(* and however find's path halving has flattened the trees meanwhile.      *)
(***************************************************************************)
ConflictsAreForks == At("done") => fold.conflicts = Conflicts(fold.edges)

(***************************************************************************)
(* "Roots are chosen deterministically (min id) so the fold is             *)
(* replay-stable": a family is filed under its least fact, so the order in *)
(* which families are reported does not depend on the order of the rows.   *)
(***************************************************************************)
FiledUnderLeast ==
    At("done") =>
      \A r \in Fact : fold.families[r] # {} =>
         r \in fold.families[r] /\ \A f \in fold.families[r] : r <= f

(***************************************************************************)
(* A fork must be surfaced, "never silently collapsed": a query reports    *)
(* the forks of everything that checkpoints had declared when it began.    *)
(* Not so when it reads the file while a checkpoint has truncated it.      *)
(***************************************************************************)
ForksSurface == At("done") => fold.conflicts = Conflicts(fold.known \cap Edge)

(***************************************************************************)
(* Every query ends: find's loops terminate on whatever forest the unions  *)
(* have built, cyclic declarations included.                               *)
(***************************************************************************)
FoldEnds == At("next") ~> At("done")

(***************************************************************************)
(* The heads are "current tips of every superseded lineage": each lineage  *)
(* has one.  The code does not see to that: when a decision is reverted by *)
(* declaring the old one again, whose id is its content's, the edges form  *)
(* a cycle and nothing of the lineage is current.                          *)
(***************************************************************************)
EveryLineageHasATip ==
    At("done") =>
      \A L \in Lineages(fold.edges) : L \cap LiveHeads(fold.edges) # {}

(***************************************************************************)
(* What the union-find has built when it ends is what the docstrings       *)
(* promise: exactly the forked lineages, each filed under its least fact.  *)
(***************************************************************************)
FamiliesAreRight ==
    /\ TypeOK
    /\ ConflictsAreForks
    /\ FiledUnderLeast

=============================================================================

---------------------------- MODULE EntityGraph -----------------------------
(***************************************************************************)
(* ctxpack/core/entity_graph.py: the graph of the references between the   *)
(* entities of a document, and the two searches ctx/graph_query runs on    *)
(* it.  The neighbours of a node are met in any order (they are a set).    *)
(***************************************************************************)
EXTENDS Integers, Sequences, FiniteSets, SequencesExt

CONSTANTS
    Node,           \* entity names: of a section, only referred to or asked about
    Start, Goal,    \* the entities asked about
    MaxDepth, MaxRefs

ASSUME GraphAssumption ==
    /\ IsFiniteSet(Node) /\ Start \in Node
    /\ MaxDepth \in Nat

VARIABLES
    sections,       \* entities with a section of their own
    refs,           \* <<from, to>>: who refers to whom
    ask, search

graphVars == <<sections, refs, ask, search>>

\* every reference is kept forwards, backwards and both ways
Out(n) == {m \in Node : <<n, m>> \in refs}
In(n) == {m \in Node : <<m, n>> \in refs}
Adjacent(n) == Out(n) \cup In(n)
InGraph(n) == n \in sections \/ Adjacent(n) # {}

Neighbours(n, direction) ==
    CASE direction = "out" -> Out(n) [] direction = "in" -> In(n) [] OTHER -> Adjacent(n)

NoSearch == [pc |-> "ask"]
GraphInit ==
    /\ \E k \in 0..MaxRefs : refs \in kSubset(k, Node \X Node)
    /\ \E alone \in SUBSET {Start} : sections = {e[1] : e \in refs} \cup alone
    /\ ask = NoSearch /\ search = NoSearch

\* query: what the graph does not know is an error, not an empty answer
Answers(result) == search' = [pc |-> "done", result |-> result]
UnknownEntity == search' = [pc |-> "unknown"]
Bfs(depth, direction) ==
    /\ ask = NoSearch
    /\ ask' = [op |-> "bfs", depth |-> depth, dir |-> direction]
    /\ IF InGraph(Start)
       THEN search' = [pc |-> "bfs", queue |-> <<[n |-> Start, d |-> 0]>>, visited |-> {Start}]
       ELSE UnknownEntity
    /\ UNCHANGED <<sections, refs>>

Path(direction) ==
    /\ ask = NoSearch
    /\ ask' = [op |-> "path", depth |-> 0, dir |-> direction]
    /\ CASE ~InGraph(Start) -> UnknownEntity
         [] InGraph(Start) /\ Start = Goal -> Answers(<<Start>>)
         [] InGraph(Start) /\ Start # Goal /\ ~InGraph(Goal) -> Answers(<<>>)
         [] OTHER -> search' = [pc |-> "path", queue |-> <<<<Start>>>>, visited |-> {Start}]
    /\ UNCHANGED <<sections, refs>>

\* (mutant) one step more than asked for
TooDeepByOne(d) == d > ask.depth
TooDeep(d) == d >= ask.depth

\* traverse_directed: the head of the queue and its unvisited neighbours
BfsStep ==
    /\ search.pc = "bfs" /\ search.queue # <<>>
    /\ LET at == Head(search.queue)
           new == IF TooDeep(at.d) THEN {} ELSE Neighbours(at.n, ask.dir) \ search.visited
       IN \E order \in SetToSeqs(new) :
            search' = [search EXCEPT !.visited = @ \cup new,
                !.queue = Tail(@) \o [i \in DOMAIN order |-> [n |-> order[i], d |-> at.d + 1]]]
    /\ UNCHANGED <<sections, refs, ask>>
BfsEnds ==
    /\ search.pc = "bfs" /\ search.queue = <<>>
    /\ Answers(search.visited \ {Start})
    /\ UNCHANGED <<sections, refs, ask>>

\* path_directed, and path for any other direction than "out"
Around(n) == Neighbours(n, IF ask.dir = "out" THEN "out" ELSE "both")

PathStep ==
    /\ search.pc = "path" /\ search.queue # <<>>
    /\ LET at == Head(search.queue)
           new == Around(at[Len(at)]) \ search.visited
       IN IF Goal \in Around(at[Len(at)]) THEN Answers(Append(at, Goal))
          ELSE \E order \in SetToSeqs(new) :
            search' = [search EXCEPT !.visited = @ \cup new,
                !.queue = Tail(@) \o [i \in DOMAIN order |-> Append(at, order[i])]]
    /\ UNCHANGED <<sections, refs, ask>>
PathEnds ==
    /\ search.pc = "path" /\ search.queue = <<>>
    /\ Answers(<<>>)
    /\ UNCHANGED <<sections, refs, ask>>

GraphNext ==
    \/ \E depth \in 0..MaxDepth, direction \in {"out", "in", "both"} : Bfs(depth, direction)
    \/ \E direction \in {"out", "in"} : Path(direction)
    \/ BfsStep \/ BfsEnds \/ PathStep \/ PathEnds

-----------------------------------------------------------------------------
Steps(dir) == {e \in Node \X Node :
    CASE dir = "out" -> e \in refs
      [] dir = "in" -> <<e[2], e[1]>> \in refs
      [] OTHER -> e \in refs \/ <<e[2], e[1]>> \in refs}
\* the walks of n edges from the start
WalkEnds(dir, n) ==
    {w[n + 1] : w \in {v \in [1..n + 1 -> Node] :
        v[1] = Start /\ \A i \in 1..n : <<v[i], v[i + 1]>> \in Steps(dir)}}
Within(dir, depth) == (UNION {WalkEnds(dir, n) : n \in 0..depth}) \ {Start}

(* bfs answers with the entities that a walk of at most `depth` references *)
(* reaches, in the direction asked for, on cyclic graphs too ("the tool    *)
(* path is exact").                                                        *)
BfsIsExact ==
    search.pc = "done" /\ ask.op = "bfs" =>
        search.result = Within(ask.dir, ask.depth)

(* path answers with a shortest walk of existing references, backwards     *)
(* only where that was asked for, and with none only if there is none.     *)
PathIsShortest ==
    search.pc = "done" /\ ask.op = "path" =>
        LET p == search.result
            dir == IF ask.dir = "out" THEN "out" ELSE "both"
            reached == {n \in 0..Cardinality(Node) : Goal \in WalkEnds(dir, n)}
        IN IF p = <<>> THEN reached = {}
           ELSE /\ p[1] = Start /\ p[Len(p)] = Goal
                /\ \A i \in 1..Len(p) - 1 : <<p[i], p[i + 1]>> \in Steps(dir)
                /\ \A n \in reached : Len(p) - 1 <= n

(* Traversals answer with what the references reach and nothing else.      *)
SearchIsExact ==
    /\ BfsIsExact
    /\ PathIsShortest

=============================================================================

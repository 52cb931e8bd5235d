----------------------------- MODULE GraphWalk -----------------------------
(***************************************************************************)
(* The breadth-first searches of src/store/graph.go: GraphWalk, the        *)
(* neighbourhood of a seed, and GraphPath, a shortest path.  A step is one *)
(* layer: the batch of relationships of the frontier, the batch of their   *)
(* other ends.  Kinds of edges are left out.  The code visits a layer in   *)
(* the order of ids, which decides what a cap drops and which of several   *)
(* predecessors a node keeps; here any choice may be made.                 *)
(***************************************************************************)
EXTENDS Naturals, FiniteSets

CONSTANTS
    Nodes,          \* ids of resources that relationships mention
    Links,          \* relationships that may exist, pairs <<from, to>>
    Seed, Goal,     \* where a search starts, where a path is to end
    Filtered,       \* nodes --exclude-types or --exclude-regions may drop
    Managed,        \* nodes that may be managed by the provider
    Gone,           \* nodes whose resource may be missing
    Depths,         \* values of MaxDepth
    NodeCaps, EdgeCaps, \* values of MaxNodes and MaxEdges, 0 for no cap
    Unseen          \* the value a map has for a key it does not hold

ASSUME GraphAssumption ==
    /\ {Seed, Goal} \subseteq Nodes /\ Seed # Goal
    /\ Links \subseteq Nodes \X Nodes
    /\ Gone \subseteq Nodes \ {Seed, Goal}
    /\ Depths \subseteq Nat /\ NodeCaps \subseteq Nat /\ EdgeCaps \subseteq Nat
    /\ IsFiniteSet(Nodes) /\ IsFiniteSet(Links)
    /\ Unseen \notin Nodes \union Nat

VARIABLES
    query,          \* what is asked, and of which graph
    depth,
    frontier,
    visited,        \* visited[n]: the depth at which n was admitted, Unseen
    edges,          \* edges of the result
    parent,         \* parent[n]: the predecessor on the way to n, Unseen
    answer          \* "searching", "done", "found", "no path"

graphVars == <<query, depth, frontier, visited, edges, parent, answer>>

Directions == {"out", "in", "both"}

\* A query of an arbitrary small graph.  --include-managed is a query without
\* managed nodes.
Queries ==
    [what : {"walk", "path"}, links : SUBSET Links, dir : Directions,
     managed : SUBSET Managed, excluded : SUBSET Filtered, gone : SUBSET Gone,
     maxDepth : Depths, maxNodes : NodeCaps, maxEdges : EdgeCaps]

GraphInit ==
    /\ query \in Queries
    /\ query.what = "path" => query.maxNodes = 0 /\ query.maxEdges = 0
    /\ depth = 0 /\ frontier = {Seed}
    /\ visited = [n \in Nodes |-> IF n = Seed THEN 0 ELSE Unseen]
    /\ edges = {}
    /\ parent = [n \in Nodes |-> IF n = Seed THEN Seed ELSE Unseen]
    /\ answer = "searching"

-----------------------------------------------------------------------------
\* Is n the other end of link l, followed from m?
Leads(l, m, n) ==
    \/ query.dir \in {"out", "both"} /\ l = <<m, n>>
    \/ query.dir \in {"in", "both"} /\ l = <<n, m>>

Reached(m, n) == \E l \in query.links : Leads(l, m, n)

Searching(what) == query.what = what /\ answer = "searching"
More == depth < query.maxDepth /\ frontier # {}

\* At most cap of the set S, all of it without a cap; used: what counts already.
Capped(S, used, cap) ==
    IF cap = 0 \/ used + Cardinality(S) <= cap THEN {S}
    ELSE {T \in SUBSET S : used + Cardinality(T) = IF used > cap THEN used ELSE cap}

\* collectFrontierEdges: the relationships of the frontier.
Candidates == {l \in query.links : \E m \in frontier, n \in Nodes : Leads(l, m, n)}

\* Unvisited ends of candidates whose resource is there.
Found(seen) ==
    {n \in Nodes \ query.gone : seen[n] = Unseen /\ \E m \in frontier : Reached(m, n)}

Admitted == {n \in Nodes : visited[n] # Unseen}

\* Provider-managed nodes are shown and not walked through.
Expandable(S) == S \ query.managed

\* A layer of GraphWalk: edges are collected before nodes are admitted.
WalkLayer ==
    /\ Searching("walk") /\ More
    /\ LET new == Found(visited) \ query.excluded
           live == {l \in Candidates :
                      \A n \in {l[1], l[2]} : n \in query.excluded => visited[n] # Unseen}
       IN  \E nodes \in Capped(new, Cardinality(Admitted), query.maxNodes),
              ls \in Capped(live \ edges, Cardinality(edges), query.maxEdges) :
             /\ edges' = edges \union ls
             /\ visited' = [n \in Nodes |-> IF n \in nodes THEN depth + 1 ELSE visited[n]]
             /\ frontier' = Expandable(nodes)
    /\ depth' = depth + 1
    /\ UNCHANGED <<query, parent, answer>>

\* pruneDanglingEdges: a node dropped by a cap takes its edges with it.
Pruned(es) == {l \in es : l[1] \in Admitted /\ l[2] \in Admitted}

WalkEnds ==
    /\ Searching("walk") /\ ~More
    /\ edges' = Pruned(edges) /\ answer' = "done"
    /\ UNCHANGED <<query, depth, frontier, visited, parent>>

\* Mutant of Passable: an excluded node keeps its entry and is walked through.
PassableAll(S) == S \ query.managed

\* The nodes of a layer that the next one starts from.
Passable(S) == S \ (query.excluded \union query.managed)

\* A layer of GraphPath (graphPathExpandStep): the goal counts even if it is
\* excluded or managed; excluded and missing nodes forget their predecessor.
PathLayer ==
    /\ Searching("path") /\ More
    /\ LET found == Found(parent)
           kept == IF Goal \in found THEN found ELSE found \ query.excluded
       IN  /\ \E p \in [kept -> frontier] :
                 /\ \A n \in kept : Reached(p[n], n)
                 /\ parent' = [n \in Nodes |-> IF n \in kept THEN p[n] ELSE parent[n]]
           /\ answer' = IF Goal \in found THEN "found" ELSE answer
           /\ frontier' = Passable(found)
    /\ depth' = depth + 1
    /\ UNCHANGED <<query, visited, edges>>

\* ErrNoPath.
PathEnds ==
    /\ Searching("path") /\ ~More
    /\ answer' = "no path"
    /\ UNCHANGED <<query, depth, frontier, visited, edges, parent>>

GraphNext == WalkLayer \/ WalkEnds \/ PathLayer \/ PathEnds

GraphSpec == GraphInit /\ [][GraphNext]_graphVars

-----------------------------------------------------------------------------
(* What is meant by a distance. *)

\* Nodes within k steps of the seed: paths that pass no node that is excluded or
\* missing, nor, but at its ends, one that is managed.
Ball(k, blocked) ==
    LET ball[i \in 0 .. k] ==
            IF i = 0 THEN {Seed}
            ELSE ball[i - 1] \union
                 {n \in Nodes \ blocked :
                    \E m \in ball[i - 1] : (m = Seed \/ m \notin query.managed) /\ Reached(m, n)}
    IN  ball[k]

Distance(n, blocked) == CHOOSE k \in 0 .. Cardinality(Nodes) :
    n \in Ball(k, blocked) /\ (k > 0 => n \notin Ball(k - 1, blocked))

\* Every variable holds the values the code's types allow.
GraphTypeOK ==
    /\ query \in Queries
    /\ depth \in Nat /\ depth <= query.maxDepth
    /\ frontier \subseteq Nodes
    /\ visited \in [Nodes -> Nat \union {Unseen}]
    /\ edges \subseteq query.links
    /\ query.maxNodes # 0 => Cardinality(Admitted) <= query.maxNodes
    /\ query.maxEdges # 0 => Cardinality(edges) <= query.maxEdges
    /\ parent \in [Nodes -> Nodes \union {Unseen}]
    /\ answer \in {"searching", "done", "found", "no path"}

\* The neighbourhood is exact: what a walk returns at depth d is at distance d, and
\* unless the cap on nodes was reached it returns everything within MaxDepth,
\* whatever managed, excluded and missing nodes lie in between.
WalkIsExact ==
    answer = "done" =>
        LET blocked == query.excluded \union query.gone
        IN  /\ \A n \in Admitted : /\ n \in Ball(query.maxDepth, blocked)
                                   /\ visited[n] = Distance(n, blocked)
            /\ query.maxNodes \notin 1 .. Cardinality(Admitted) =>
                   Ball(query.maxDepth, blocked) \subseteq Admitted

\* The result is a graph that can be drawn: no edge without both its nodes, though
\* edges are taken before their nodes; and unless the cap on edges was reached,
\* every node is linked to one a step closer to the seed.
WalkIsConnected ==
    answer = "done" =>
        /\ \A l \in edges : l[1] \in Admitted /\ l[2] \in Admitted
        /\ query.maxEdges = 0 =>
             \A n \in Admitted \ {Seed} : \E m \in Admitted, l \in edges :
                 Leads(l, m, n) /\ visited[m] + 1 = visited[n]

\* The way back along the predecessors is a path, and the shortest; ErrNoPath means
\* that there is none within MaxDepth.  Excluded nodes lose their predecessor in
\* the layer that meets them, and may be met again in a later one.
PathIsShortest ==
    LET blocked == (query.excluded \union query.gone) \ {Goal}
        back[i \in 0 .. depth] == IF i = 0 THEN Goal ELSE parent[back[i - 1]]
    IN  /\ answer = "found" =>
             /\ back[depth] = Seed
             /\ \A i \in 1 .. depth : Reached(back[i], back[i - 1]) /\ back[i] \notin blocked \ {Seed}
             /\ depth = Distance(Goal, blocked)
        /\ answer = "no path" => Goal \notin Ball(query.maxDepth, blocked)

\* The answers of GraphWalk and GraphPath are those of the graph they search.
WalksAreTrue == GraphTypeOK /\ WalkIsExact /\ WalkIsConnected /\ PathIsShortest
=============================================================================

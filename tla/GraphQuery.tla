------------------------------ MODULE GraphQuery ------------------------------
(***************************************************************************)
(* packages/world-engine/src/graph/GraphQuery.ts: the searches over an     *)
(* index g of GraphBuilder.ts.  g.nodes are the entities, g.edges maps the *)
(* ids of relationships to the relationships, and g.out and g.in hold a    *)
(* triple <<node, id, other end>> for each entry of _outEdges and _inEdges.*)
(*                                                                         *)
(* A search is a step that is repeated.  The code goes through a map in    *)
(* the order of its entries; here the order is any fixed one.  Filters on  *)
(* types are left out, and so are the entities and relationships that go   *)
(* with the ids of an answer.                                              *)
(***************************************************************************)
EXTENDS Integers, SequencesExt

\* n steps from start; every search says how many are enough.
Repeat(Step(_), start, n) ==
    LET after[k \in 0..n] == IF k = 0 THEN start ELSE Step(after[k - 1])
    IN  after[n]

NoPath == <<>>

EdgesOf(g, table, n) == {g.edges[t[2]] : t \in {x \in table : x[1] = n /\ x[2] \in DOMAIN g.edges}}
OutEdges(g, n) == EdgesOf(g, g.out, n)
InEdges(g, n) == EdgesOf(g, g.in, n)

\* What a search that starts at a node or at s can come to.
NodesOf(g) == g.nodes \cup UNION {{g.edges[e].source, g.edges[e].target} : e \in DOMAIN g.edges}
NodesFrom(g, s) == NodesOf(g) \cup {s}

\* A way on from a node: along an edge to another.
Way(r, v) == [edge |-> r, node |-> v]

\* Faulty variant of Across: a way back along r is not taken.
AcrossOneWay(r, n) == r.target

\* Where a path goes from n along r.
Across(r, n) == IF r.target = n /\ r.both THEN r.source ELSE r.target
WaysOut(g, n) == {Way(r, Across(r, n)) : r \in OutEdges(g, n)}

\* The loop at the end of both searches for a path: from t back to s, from each
\* node to the one it was found from.
PathBack(from, s, t) ==
    LET Back(b) ==
            LET v == Head(b.path)
            IN  IF v \notin DOMAIN from \ {s} THEN b
                ELSE [path |-> <<from[v].prev>> \o b.path, weight |-> b.weight + from[v].edge.weight]
    IN  Repeat(Back, [path |-> <<t>>, weight |-> 0], Cardinality(DOMAIN from))

-----------------------------------------------------------------------------
\* A round of a search breadth first: the next node of the queue, at a.at steps
\* from the start, is taken off it, and nodes that lie on its ways are found from
\* it.  Nothing goes on from a node beyond the depths in within, nor from a target.
SpreadRound(next, within, targets, a) ==
    LET u == Head(a.queue)
        ways == IF a.at[u] \in within THEN next[u] ELSE {}
        fresh == {x.node : x \in ways} \ DOMAIN a.at
        Found(v) == CHOOSE x \in ways : x.node = v
    IN  IF a.queue = <<>> \/ u \in targets THEN a
        ELSE [queue |-> Tail(a.queue) \o SetToSeq(fresh),
              at |-> [v \in DOMAIN a.at \cup fresh |->
                         IF v \in fresh THEN a.at[u] + 1 ELSE a.at[v]],
              from |-> [v \in DOMAIN a.from \cup fresh |->
                           IF v \in fresh THEN [prev |-> u, edge |-> Found(v).edge]
                           ELSE a.from[v]]]

\* Every node is in the queue once at most.
Spread(next, within, targets, s) ==
    LET Round(a) == SpreadRound(next, within, targets, a)
    IN  Repeat(Round, [queue |-> <<s>>, at |-> [v \in {s} |-> 0], from |-> <<>>],
               Cardinality(DOMAIN next))

\* findShortestPath.
ShortestPath(g, s, t) ==
    LET next == [n \in NodesFrom(g, s) |-> WaysOut(g, n)]
        end == Spread(next, Nat, {t}, s)
    IN  IF s = t THEN (IF s \in g.nodes THEN <<s>> ELSE NoPath)
        ELSE IF end.queue = <<>> THEN NoPath ELSE PathBack(end.from, s, t).path

\* expandNeighborhood: the depth at which each entity is found.
Neighborhood(g, s, maxDepth, direction) ==
    LET candidates(n) == (IF direction # "inbound" THEN OutEdges(g, n) ELSE {})
                             \cup (IF direction # "outbound" THEN InEdges(g, n) ELSE {})
        Other(r, n) == IF r.source = n THEN r.target ELSE r.source
        next == [n \in NodesFrom(g, s) |->
                    {Way(r, Other(r, n)) : r \in {x \in candidates(n) : Other(x, n) \in g.nodes}}]
    IN  Spread(next, 0..(maxDepth - 1), {}, s).at

\* calculateBlastRadius, without its score.
BlastRadius(g, s, maxDepth) ==
    LET depth == Neighborhood(g, s, maxDepth, "outbound")
        At(test(_)) == {n \in DOMAIN depth \ {s} : test(depth[n])}
    IN  IF s \notin g.nodes THEN [direct |-> {}, transitive |-> {}]
        ELSE [direct |-> At(LAMBDA d : d = 1), transitive |-> At(LAMBDA d : d # 1)]

-----------------------------------------------------------------------------
\* A round of findDijkstraShortestPath: the nearest of the unvisited nodes is
\* visited, and what is nearer by way of it is found from it.  a.at has no entry
\* for a distance that is infinite.
SettleRound(next, t, a) ==
    LET near == a.unvisited \cap DOMAIN a.at
        u == CHOOSE n \in near : \A m \in near : a.at[n] <= a.at[m]
        Alt(x) == a.at[u] + x.edge.weight
        better == {x \in next[u] : /\ x.node \in a.unvisited \ {u}
                                   /\ x.node \in DOMAIN a.at => Alt(x) < a.at[x.node]}
        nearer == {x.node : x \in better}
        Best(v) == CHOOSE x \in better :
                      x.node = v /\ \A y \in better : y.node = v => Alt(x) <= Alt(y)
    IN  IF near = {} \/ u = t THEN a
        ELSE [unvisited |-> a.unvisited \ {u},
              at |-> [v \in DOMAIN a.at \cup nearer |->
                         IF v \in nearer THEN Alt(Best(v)) ELSE a.at[v]],
              from |-> [v \in DOMAIN a.from \cup nearer |->
                           IF v \in nearer THEN [prev |-> u, edge |-> Best(v).edge]
                           ELSE a.from[v]]]

Settle(next, nodes, s, t) ==
    LET Round(a) == SettleRound(next, t, a)
    IN  Repeat(Round, [unvisited |-> nodes, at |-> [v \in {s} |-> 0], from |-> <<>>],
               Cardinality(nodes))

Dijkstra(g, s, t) ==
    LET end == Settle([n \in g.nodes |-> WaysOut(g, n)], g.nodes, s, t)
    IN  IF {s, t} \subseteq g.nodes /\ t \in DOMAIN end.at THEN PathBack(end.from, s, t)
        ELSE NoPath

-----------------------------------------------------------------------------
\* The cycle that an edge from u to v closes: from u up to v, or to where there is
\* no parent.
Circle(parent, u, v) ==
    LET Up(path) == IF Head(path) \in DOMAIN parent \ {v}
                    THEN <<parent[Head(path)]>> \o path ELSE path
        up == Repeat(Up, <<u>>, Cardinality(DOMAIN parent))
    IN  (IF Head(up) = v THEN up ELSE <<v>> \o up) \o <<v>>

\* dfs of detectCycles is called with u.  a.calls are the calls that have not
\* returned, the innermost last, each with the targets it has still to look at.
Enter(targets, a, u) ==
    [a EXCEPT !.calls = Append(@, [of |-> u, todo |-> targets[u]]),
              !.visited = @ \cup {u}]

\* The innermost call looks at its next target.  Those in calls are in recStack.
Look(targets, a) ==
    LET n == Len(a.calls)
        u == a.calls[n].of
        v == CHOOSE t \in a.calls[n].todo : TRUE
        rest == [a EXCEPT !.calls[n].todo = @ \ {v}]
    IN  IF v \notin a.visited
        THEN Enter(targets, [rest EXCEPT !.parent =
                 [w \in DOMAIN @ \cup {v} |-> IF w = v THEN u ELSE @[w]]], v)
        ELSE IF \E i \in 1..n : a.calls[i].of = v
             THEN [rest EXCEPT !.cycles = @ \cup {Circle(a.parent, u, v)}]
             ELSE rest

DfsStep(targets, nodes, a) ==
    LET n == Len(a.calls)
        new == nodes \ a.visited
    IN  IF n > 0
        THEN IF a.calls[n].todo = {} THEN [a EXCEPT !.calls = SubSeq(@, 1, n - 1)]
             ELSE Look(targets, a)
        ELSE IF new = {} THEN a ELSE Enter(targets, a, CHOOSE u \in new : TRUE)

\* Each node is entered and left once and each target of it looked at once.
FindCycles(targets, nodes) ==
    LET size == Cardinality(DOMAIN targets)
        Next(a) == DfsStep(targets, nodes, a)
    IN  Repeat(Next, [calls |-> <<>>, visited |-> {}, parent |-> <<>>, cycles |-> {}],
               size * (size + 2)).cycles

Cycles(g) == FindCycles([n \in NodesOf(g) |-> {r.target : r \in OutEdges(g, n)}], g.nodes)

-----------------------------------------------------------------------------
\* A round of topologicalSort: the next node of the queue goes into the order, and
\* its edges are counted off their targets.
DrainRound(g, a) ==
    LET u == Head(a.queue)
        Off(v) == Cardinality({r \in OutEdges(g, u) : r.target = v})
        ready == {v \in DOMAIN a.degree : a.degree[v] \in 1..Off(v)}
    IN  IF a.queue = <<>> THEN a
        ELSE [queue |-> Tail(a.queue) \o SetToSeq(ready),
              degree |-> [v \in DOMAIN a.degree |-> a.degree[v] - Off(v)],
              sorted |-> Append(a.sorted, u)]

\* The search through what is counted: the nodes and the targets of edges.
Drain(g, edges, counted) ==
    LET degree == [n \in counted |-> Cardinality({r \in edges : r.target = n})]
        Round(a) == DrainRound(g, a)
    IN  Repeat(Round, [queue |-> SetToSeq({n \in counted : degree[n] = 0}),
                       degree |-> degree, sorted |-> <<>>],
               Cardinality(counted))

\* null says that there is no order of all entities.
Topological(g) ==
    LET edges == {g.edges[e] : e \in DOMAIN g.edges}
        end == Drain(g, edges, g.nodes \cup {r.target : r \in edges})
    IN  [null |-> Len(end.sorted) # Cardinality(g.nodes), order |-> end.sorted]
=============================================================================

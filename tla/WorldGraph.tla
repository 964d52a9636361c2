------------------------------ MODULE WorldGraph ------------------------------
(***************************************************************************)
(* packages/world-engine/src: what the searches of GraphQuery make of the  *)
(* index of a world model, whatever mutations have led to it.              *)
(***************************************************************************)
EXTENDS WorldIndex, GraphQuery

\* What the searches are meant to compute, from the relationships themselves.
Arcs == UNION {{<<t[1], t[3]>> : t \in Ends(r)} : r \in Range(relationships)}
Weight(u, v) ==
    Min({r.weight : r \in {x \in Range(relationships) :
                               \E t \in Ends(x) : t[1] = u /\ t[3] = v}})
Routes(nodes, s, t) ==
    {p \in SeqOf(nodes, Cardinality(nodes)) :
        /\ p # <<>> /\ p[1] = s /\ Last(p) = t
        /\ IsInjective(p)
        /\ \A i \in 1..(Len(p) - 1) : <<p[i], p[i + 1]>> \in Arcs}
Cost(p) ==
    LET total[i \in 1..Len(p)] ==
            IF i = 1 THEN 0 ELSE total[i - 1] + Weight(p[i - 1], p[i])
    IN  total[Len(p)]
Hops(nodes, s, t) == Min({Len(p) - 1 : p \in Routes(nodes, s, t)})

HopsSound(s, t) ==
    LET found == ShortestPath(index, s, t)
        routes == Routes(Entity, s, t)
    IN  IF (s = t /\ s \notin entities) \/ routes = {} THEN found = NoPath
        ELSE found \in routes /\ Len(found) = Hops(Entity, s, t) + 1

WeightsSound(s, t) ==
    LET found == Dijkstra(index, s, t)
        routes == IF {s, t} \subseteq entities THEN Routes(entities, s, t) ELSE {}
    IN  IF routes = {} THEN found = NoPath
        ELSE /\ found.path \in routes
             /\ found.weight = Min({Cost(p) : p \in routes})

\* Everything within d steps of s, and nothing else, at its distance.
DepthSound(s, d) ==
    s \in entities =>
        LET depth == Neighborhood(index, s, d, "outbound")
            near == {n \in entities : Routes(entities, s, n) # {} /\ Hops(entities, s, n) <= d}
            radius == BlastRadius(index, s, d)
        IN  /\ DOMAIN depth = near
            /\ \A n \in near : depth[n] = Hops(entities, s, n)
            /\ radius.direct \cup radius.transitive = near \ {s}

Closed == \A e \in DOMAIN relationships :
              {relationships[e].source, relationships[e].target} \subseteq entities
OneWay == \A e \in DOMAIN relationships : ~relationships[e].both
\* Some entities each have a predecessor among themselves.
HasLoop(arcs) == \E S \in SUBSET Entity : S # {} /\ \A v \in S : \E u \in S : <<u, v>> \in arcs
DependencyArcs == {<<r.source, r.target>> : r \in Range(relationships)}

\* Both searches for cycles agree with the definition; an order puts sources
\* before targets.  Of a graph that names entities it does not have nothing is said:
\* there topologicalSort answers null without any cycle.
CyclesSound ==
    Closed =>
        LET sorted == Topological(index)
            cycles == Cycles(index)
            Place(n) == CHOOSE i \in DOMAIN sorted.order : sorted.order[i] = n
        IN  /\ sorted.null <=> HasLoop(DependencyArcs)
            /\ ~sorted.null =>
                   /\ Range(sorted.order) = entities /\ IsInjective(sorted.order)
                   /\ \A a \in DependencyArcs : Place(a[1]) < Place(a[2])
            /\ (cycles = {}) <=> ~HasLoop(Arcs)
            /\ OneWay => \A c \in cycles :
                   /\ Len(c) > 1 /\ c[1] = Last(c)
                   /\ \A i \in 1..(Len(c) - 1) : <<c[i], c[i + 1]>> \in Arcs

\* Of an index in step the searches of GraphQuery return what they are named for:
\* the fewest hops, the least weight, the distances of a neighbourhood and the
\* blast radius, the cycles and an order that respects every dependency, whatever
\* sequence of mutations led to the index.  In an empty one there is nothing to find.
QueriesSound ==
    (reshaped = {} /\ index # EmptyIndex) =>
        /\ \A s, t \in Entity : HopsSound(s, t) /\ WeightsSound(s, t)
        /\ \A s \in Entity, d \in 0..Cardinality(Entity) : DepthSound(s, d)
        /\ CyclesSound
=============================================================================

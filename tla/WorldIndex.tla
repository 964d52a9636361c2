------------------------------ MODULE WorldIndex ------------------------------
(***************************************************************************)
(* packages/world-engine/src: a world model with its graph, as the         *)
(* mutations of WorldEngine change both.  The model is immutable and       *)
(* replaced as a whole; the graph is an index (GraphBuilder) that is kept  *)
(* up to date entry by entry: index.nodes are the entities, index.edges    *)
(* maps the ids of relationships to the relationships, and index.out and   *)
(* index.in hold a triple <<node, id, other end>> for each entry of        *)
(* _outEdges and _inEdges.                                                 *)
(*                                                                         *)
(* Both hold the same entities and relationships as long as the mutations  *)
(* make the same changes in both.  What entities hold is left out, and so  *)
(* are constraints, behaviours and the indexes by type.                    *)
(***************************************************************************)
EXTENDS Integers, FiniteSetsExt

CONSTANTS
    Entity,
    Relationships      \* records with id, source, target, weight and both

ASSUME WorldAssumption ==
    /\ IsFiniteSet(Entity)
    /\ \A r \in Relationships :
           {r.source, r.target} \subseteq Entity /\ r.weight \in Nat /\ r.both \in BOOLEAN

VARIABLES
    entities,          \* the ids of the model's entities
    relationships,     \* the model's relationships, by id
    index,             \* the GraphBuilder: nodes, edges, out and in
    reshaped           \* history: ids whose index entries the code may have lost track of

worldVars == <<entities, relationships, index, reshaped>>

Id == {r.id : r \in Relationships}
Touches(r, n) == r.source = n \/ r.target = n
Shape(r) == <<r.source, r.target, r.both>>

-----------------------------------------------------------------------------
\* The mutations of GraphBuilder.
Put(table, n, id, other) == {t \in table : t[1] # n \/ t[2] # id} \cup {<<n, id, other>>}

With(map, id, r) == [e \in DOMAIN map \cup {id} |-> IF e = id THEN r ELSE map[e]]

AddEdge(g, r) ==
    LET out == Put(g.out, r.source, r.id, r.target)
        in == Put(g.in, r.target, r.id, r.source)
    IN  [nodes |-> g.nodes,
         edges |-> With(g.edges, r.id, r),
         out |-> IF r.both THEN Put(out, r.target, r.id, r.source) ELSE out,
         in |-> IF r.both THEN Put(in, r.source, r.id, r.target) ELSE in]

\* Faulty variant of RemoveNode: only the edges that leave the node go with it.
RemoveNodeOut(g, n) ==
    LET gone == {t[2] : t \in {x \in g.out : x[1] = n}}
    IN  IF n \notin g.nodes THEN g
        ELSE [nodes |-> g.nodes \ {n},
              edges |-> [e \in DOMAIN g.edges \ gone |-> g.edges[e]],
              out |-> {t \in g.out : t[1] # n},
              in |-> {t \in g.in : t[1] # n /\ ~(<<n, t[2], t[1]>> \in g.out)}]

RemoveNode(g, n) ==
    LET in == {t \in g.in : ~(<<n, t[2], t[1]>> \in g.out)}
        gone == {t[2] : t \in {x \in g.out \cup in : x[1] = n}}
    IN  IF n \notin g.nodes THEN g
        ELSE [nodes |-> g.nodes \ {n},
              edges |-> [e \in DOMAIN g.edges \ gone |-> g.edges[e]],
              out |-> {t \in g.out : t[1] # n /\ ~(<<n, t[2], t[1]>> \in in)},
              in |-> {t \in in : t[1] # n}]

RemoveEdge(g, id) ==
    IF id \notin DOMAIN g.edges THEN g
    ELSE LET r == g.edges[id]
             Cut(table, ends) == {t \in table : t[1] \notin ends \/ t[2] # id}
         IN  [g EXCEPT !.edges = [e \in DOMAIN g.edges \ {id} |-> g.edges[e]],
                       !.out = Cut(@, {r.source} \cup IF r.both THEN {r.target} ELSE {}),
                       !.in = Cut(@, {r.target} \cup IF r.both THEN {r.source} ELSE {})]

Unlinked(ns) == [nodes |-> ns, edges |-> <<>>, out |-> {}, in |-> {}]
EmptyIndex == Unlinked({})

LoadFromWorldModel(ns, rs) ==
    LET Add(id, g) == AddEdge(g, rs[id])
    IN  FoldSet(Add, Unlinked(ns), DOMAIN rs)

-----------------------------------------------------------------------------
WorldInit ==
    /\ entities = {}
    /\ relationships = <<>>
    /\ index = EmptyIndex
    /\ reshaped = {}

UpdateEntity(n) ==
    /\ entities' = entities \cup {n}
    /\ index' = [index EXCEPT !.nodes = @ \cup {n}]
    /\ UNCHANGED <<relationships, reshaped>>

\* The model drops the relationships of n whether or not n is one of its
\* entities; the graph returns at once when it is not.
RemoveEntity(n) ==
    LET cascade == {e \in DOMAIN relationships : Touches(relationships[e], n)}
    IN  /\ entities' = entities \ {n}
        /\ relationships' = [e \in DOMAIN relationships \ cascade |-> relationships[e]]
        /\ index' = RemoveNode(index, n)
        /\ reshaped' = IF n \in entities THEN reshaped ELSE reshaped \cup cascade

\* addEdge does not take back the entries of an earlier relationship of that id.
UpdateRelationship(r) ==
    /\ relationships' = With(relationships, r.id, r)
    /\ index' = AddEdge(index, r)
    /\ reshaped' =
           IF r.id \in DOMAIN index.edges /\ Shape(index.edges[r.id]) # Shape(r)
           THEN reshaped \cup {r.id} ELSE reshaped
    /\ UNCHANGED entities

RemoveRelationship(id) ==
    /\ relationships' = [e \in DOMAIN relationships \ {id} |-> relationships[e]]
    /\ index' = RemoveEdge(index, id)
    /\ UNCHANGED <<entities, reshaped>>

\* setModel, with the model as it is: a new index is built.
SetModel ==
    /\ index' = LoadFromWorldModel(entities, relationships)
    /\ reshaped' = {}
    /\ UNCHANGED <<entities, relationships>>

WorldNext ==
    \/ \E n \in Entity : UpdateEntity(n) \/ RemoveEntity(n)
    \/ \E r \in Relationships : UpdateRelationship(r)
    \/ \E id \in Id : RemoveRelationship(id)
    \/ SetModel

WorldSpec == WorldInit /\ [][WorldNext]_worldVars

-----------------------------------------------------------------------------
\* Type correctness of the model and its index.
WorldTypeOK ==
    /\ entities \subseteq Entity /\ index.nodes \subseteq Entity
    /\ DOMAIN relationships \subseteq Id /\ DOMAIN index.edges \subseteq Id
    /\ \A e \in DOMAIN relationships : relationships[e] \in Relationships
    /\ \A e \in DOMAIN index.edges : index.edges[e] \in Relationships
    /\ index.out \cup index.in \subseteq Entity \X Id \X Entity
    /\ reshaped \subseteq Id

\* The entries that belong to a relationship in a table, by its near ends.
Ends(r) == {<<r.source, r.id, r.target>>} \cup
               IF r.both THEN {<<r.target, r.id, r.source>>} ELSE {}
Reversed(table) == {<<t[3], t[2], t[1]>> : t \in table}

\* The index that is patched entry by entry, by addNode, addEdge, removeNode
\* and removeEdge, is the one that loading the whole model would build: no
\* entry is left behind by what was removed and none is missing.  This holds of
\* every id that was not given to a relationship of other ends and did not lose
\* an end that was no entity; those are wrong until setModel.
IndexInStep ==
    /\ index.nodes = entities
    /\ \A id \in Id \ reshaped :
           LET of == {e \in {id} : e \in DOMAIN relationships}
               entries == UNION {Ends(relationships[e]) : e \in of}
           IN  /\ {e \in {id} : e \in DOMAIN index.edges} = of
               /\ \A e \in of : index.edges[e] = relationships[e]
               /\ {t \in index.out : t[2] = id} = entries
               /\ {t \in index.in : t[2] = id} = Reversed(entries)
=============================================================================

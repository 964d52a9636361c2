----------------------------- MODULE PlanGraph -----------------------------
(***************************************************************************)
(* The data of an execution graph and the rules by which it changes:       *)
(* packages/contracts/src/plan.ts and the checks of                        *)
(* packages/control-plane/src/graph/ExecutionGraphEngine.ts.  A graph maps *)
(* the nodes it has to their states; of an edge only its ends matter here  *)
(* (conditions are looked at by getNextNodes, which is not modelled).      *)
(***************************************************************************)
CONSTANTS
  Nodes   \* ids a node may have

States == {"CREATED", "QUEUED", "RUNNING", "WAITING", "BLOCKED", "PAUSED",
           "FAILED", "VERIFYING", "COMPLETED", "TERMINATED"}

Graph == [nodes : UNION {[S -> States] : S \in SUBSET Nodes},
          edges : SUBSET (Nodes \X Nodes)]

NodesOf(g) == DOMAIN g.nodes

(* VALID_TRANSITIONS; WAITING and VERIFYING have no entry. *)
ValidTransitions ==
  {<<"CREATED", s>> : s \in {"QUEUED", "RUNNING", "BLOCKED", "COMPLETED", "FAILED", "TERMINATED"}}
  \cup {<<"QUEUED", s>> : s \in {"RUNNING", "BLOCKED", "COMPLETED", "FAILED", "TERMINATED"}}
  \cup {<<"RUNNING", s>> : s \in {"COMPLETED", "FAILED", "PAUSED", "BLOCKED", "TERMINATED"}}
  \cup {<<"PAUSED", s>> : s \in {"RUNNING", "QUEUED", "FAILED", "TERMINATED"}}
  \cup {<<"BLOCKED", s>> : s \in {"QUEUED", "FAILED", "TERMINATED", "RUNNING"}}
  \cup {<<"FAILED", s>> : s \in {"QUEUED", "RUNNING", "TERMINATED"}}
  \cup {<<"COMPLETED", s>> : s \in {"FAILED", "QUEUED", "TERMINATED"}}

ActiveStates == {"RUNNING", "WAITING", "QUEUED", "PAUSED"}

(* Faulty variant of ResolvedStates: a failed node holds its successors. *)
SucceededStates == {"COMPLETED", "TERMINATED"}

ResolvedStates == {"COMPLETED", "FAILED", "TERMINATED"}

Predecessors(g, n) == {m \in Nodes : <<m, n>> \in g.edges}

PredecessorsResolved(g, n) ==
  \A m \in Predecessors(g, n) : m \in NodesOf(g) /\ g.nodes[m] \in ResolvedStates

(* getFrontier: what is in progress or queued, or else what could start. *)
Frontier(g) ==
  LET active == {n \in NodesOf(g) : g.nodes[n] \in ActiveStates}
      ready == {n \in NodesOf(g) : g.nodes[n] = "CREATED" /\ PredecessorsResolved(g, n)}
  IN IF active # {} THEN active ELSE ready

(* The checks of updateNodeState.  A node that is already RUNNING cannot   *)
(* become so by the table of transitions.                                  *)
MayBecome(g, n, s) ==
  /\ <<g.nodes[n], s>> \in ValidTransitions
  /\ s = "RUNNING" =>
       /\ n \in Frontier(g) \/ g.nodes[n] \in {"QUEUED", "PAUSED"}
       /\ g.nodes[n] = "CREATED" => PredecessorsResolved(g, n)

WithState(g, n, s) == [g EXCEPT !.nodes[n] = s]

(* The graph that replan makes of g and the nodes and edges of a plan: a   *)
(* node the plan defines replaces that of g, whatever its state, and       *)
(* terminated nodes are dropped.  No edge is dropped.                      *)
Merge(g, plan) ==
  LET kept == {n \in NodesOf(g) \ NodesOf(plan) : g.nodes[n] # "TERMINATED"}
  IN [nodes |-> [n \in kept \cup NodesOf(plan) |->
                   IF n \in NodesOf(plan) THEN plan.nodes[n] ELSE g.nodes[n]],
      edges |-> g.edges \cup plan.edges]

(* validateGraph.  Cycles are not looked for. *)
IsValid(g) == g.edges \subseteq NodesOf(g) \X NodesOf(g)

-----------------------------------------------------------------------------

(* Every set of nodes has one without a predecessor in it. *)
Acyclic(g) ==
  \A S \in (SUBSET NodesOf(g)) \ {{}} :
    \E n \in S : Predecessors(g, n) \cap S = {}

(* What a planner may rely on between reading a version and replacing it:  *)
(* its nodes and edges, not the states of its nodes.                       *)
Shape(g) == [nodes |-> NodesOf(g), edges |-> g.edges]

=============================================================================

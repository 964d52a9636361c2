--------------------------- MODULE ExecutionGraph ---------------------------
(***************************************************************************)
(* The execution graph of one mission and the files that outlive the       *)
(* process: packages/control-plane/src/graph/ExecutionGraphEngine.ts and   *)
(* GraphStore.ts, with the tools that reach them from                      *)
(* packages/engine-adapter (GraphTools.ts, mcp/SynapseMcpServer.ts).       *)
(*                                                                         *)
(* Every method is synchronous, so calls do not interleave with each       *)
(* other.  What does come between two steps of a call is the end of the    *)
(* process: a call is modelled as its effect on the memory and the list of *)
(* files it has still to write, one by one.  A crash loses the memory and  *)
(* the writes not made, and may leave the file being written torn, because *)
(* writeFileSync truncates it first.  Planners (Cline, an MCP client) run  *)
(* in other processes and keep what they have read.                        *)
(***************************************************************************)
EXTENDS PlanGraph, Naturals, Sequences

CONSTANTS
  Plans,          \* what planners submit: nodes with their states, and edges
  InitialGraphs,  \* graphs a mission may begin with
  Planners,
  Escalations,    \* ids of escalations
  EscalationLevels,
  MaxVersion,     \* bound: versions of the graph
  MaxChanges,     \* bound: calls that change a node or an escalation
  MaxCrashes,     \* bound: crashes
  NoGraph, Torn, None

VARIABLES
  up,           \* is there an engine?
  graphs,       \* the engine's graphs by version
  active,       \* activeVersion
  history,      \* versions in planVersions
  escalations,  \* the engine's escalations
  files,        \* {graphId}_v{n}.json
  latest,       \* {graphId}_latest.json, 0 when there is none
  historyFile,  \* {graphId}_versions.json
  escFiles,     \* escalation_{id}.json
  todo,         \* writes the running call has still to make
  cont,         \* what propose_replan has still to do after marking its node
  base,         \* the version each planner read last
  changes, crashes

memory == <<up, graphs, active, history, escalations>>
disk == <<files, latest, historyFile, escFiles>>
bounds == <<changes, crashes>>
vars == <<memory, disk, todo, cont, base, bounds>>

ASSUME ConfigType ==
  /\ Plans \cup InitialGraphs \subseteq Graph
  /\ MaxVersion \in Nat \ {0}
  /\ {MaxChanges, MaxCrashes} \subseteq Nat

(* The constructor takes the graph it is given without validateGraph; every *)
(* caller gives it one with edges between its nodes, or none at all.       *)
ASSUME InitialGraphsFit == \A g \in InitialGraphs : IsValid(g)

ASSUME NotGraphs == {NoGraph, Torn} \cap Graph = {} /\ NoGraph # Torn

Versions == 1..MaxVersion
Blocking == {"LEVEL_3", "LEVEL_4"}
Escalation == [node : Nodes, level : EscalationLevels,
               status : {"PENDING", "RESOLVED", "REJECTED"}]

(* What a planner keeps of the graph it has read. *)
Base == [version : Versions, shape : [nodes : SUBSET Nodes, edges : SUBSET (Nodes \X Nodes)]]

(* What stands for an unreadable file or for no record is none of those. *)
ASSUME NotRecords ==
  /\ Torn \notin 0..MaxVersion
  /\ \A S \in SUBSET Versions : S # Torn
  /\ \A b \in Base : b # None

GraphWrite == [file : {"graph"}, version : Versions, graph : Graph]
LatestWrite == [file : {"latest"}, version : Versions]
HistoryWrite == [file : {"history"}, version : Versions]
EscalationWrite == [file : {"escalation"}, id : Escalations, record : Escalation]

TypeOK ==
  /\ up \in BOOLEAN
  /\ graphs \in [Versions -> Graph \cup {NoGraph}]
  /\ active \in 0..MaxVersion
  /\ history \in SUBSET Versions
  /\ escalations \in [Escalations -> Escalation \cup {None}]
  /\ files \in [Versions -> Graph \cup {NoGraph, Torn}]
  /\ latest \in 0..MaxVersion \cup {Torn}
  /\ historyFile \in (SUBSET Versions) \cup {Torn}
  /\ escFiles \in [Escalations -> Escalation \cup {None, Torn}]
  /\ todo \in Seq(GraphWrite \cup LatestWrite \cup HistoryWrite \cup EscalationWrite)
  /\ cont \in [by : Planners, plan : Plans] \cup {None}
  /\ base \in [Planners -> Base \cup {None}]
  /\ changes \in 0..MaxChanges
  /\ crashes \in 0..MaxCrashes

NoEngine ==
  /\ up' = FALSE
  /\ graphs' = [v \in Versions |-> NoGraph]
  /\ active' = 0
  /\ history' = {}
  /\ escalations' = [e \in Escalations |-> None]

Init ==
  /\ up = FALSE
  /\ graphs = [v \in Versions |-> NoGraph]
  /\ active = 0
  /\ history = {}
  /\ escalations = [e \in Escalations |-> None]
  /\ files = [v \in Versions |-> NoGraph]
  /\ latest = 0
  /\ historyFile = {}
  /\ escFiles = [e \in Escalations |-> None]
  /\ todo = <<>>
  /\ cont = None
  /\ base = [p \in Planners |-> None]
  /\ changes = 0
  /\ crashes = 0

Current == graphs[active]

(* The event loop is free: no call is running. *)
Idle == up /\ todo = <<>> /\ cont = None

-----------------------------------------------------------------------------
(***************************************************************************)
(* FileGraphStore                                                          *)
(***************************************************************************)

(* Faulty variant of SaveGraph: the pointer is not moved. *)
SaveVersionFile(v, g) == <<[file |-> "graph", version |-> v, graph |-> g]>>

SaveGraph(v, g) ==
  <<[file |-> "graph", version |-> v, graph |-> g], [file |-> "latest", version |-> v]>>

SaveVersion(v) == <<[file |-> "history", version |-> v]>>

SaveEscalation(e, r) == <<[file |-> "escalation", id |-> e, record |-> r]>>

OnDisk(content, torn) == IF torn THEN Torn ELSE content

(* writeFileSync, cut short by the end of the process when torn is TRUE.   *)
(* saveVersion reads its file and adds the version to it.                  *)
Put(w, torn) ==
  \/ /\ w.file = "graph"
     /\ files' = [files EXCEPT ![w.version] = OnDisk(w.graph, torn)]
     /\ UNCHANGED <<latest, historyFile, escFiles>>
  \/ /\ w.file = "latest"
     /\ latest' = OnDisk(w.version, torn)
     /\ UNCHANGED <<files, historyFile, escFiles>>
  \/ /\ w.file = "history"
     /\ historyFile' = OnDisk(historyFile \cup {w.version}, torn)
     /\ UNCHANGED <<files, latest, escFiles>>
  \/ /\ w.file = "escalation"
     /\ escFiles' = [escFiles EXCEPT ![w.id] = OnDisk(w.record, torn)]
     /\ UNCHANGED <<files, latest, historyFile>>

Write ==
  /\ up
  /\ todo # <<>>
  /\ Put(Head(todo), FALSE)
  /\ todo' = Tail(todo)
  /\ UNCHANGED <<memory, cont, base, bounds>>

(* The process ends, between two writes or during one. *)
Crash ==
  /\ up
  /\ crashes < MaxCrashes
  /\ \/ UNCHANGED disk
     \/ todo # <<>> /\ Put(Head(todo), TRUE)
  /\ NoEngine
  /\ todo' = <<>>
  /\ cont' = None
  /\ crashes' = crashes + 1
  /\ UNCHANGED <<base, changes>>

-----------------------------------------------------------------------------
(***************************************************************************)
(* ExecutionGraphEngine: construction and recovery                         *)
(***************************************************************************)

(* The constructor, for a mission nothing is stored of. *)
Create(g) ==
  /\ ~up
  /\ latest = 0
  /\ up' = TRUE
  /\ graphs' = [graphs EXCEPT ![1] = g]
  /\ active' = 1
  /\ history' = {1}
  /\ todo' = SaveGraph(1, g) \o SaveVersion(1)
  /\ UNCHANGED <<escalations, disk, cont, base, bounds>>

(* Can the store be read back? *)
CanRecover ==
  /\ latest \in Versions
  /\ files[latest] \notin {NoGraph, Torn}
  /\ historyFile # Torn
  /\ \A v \in historyFile : files[v] # Torn

(* Faulty variant of Recovered: the newest version listed is the active    *)
(* one.                                                                    *)
RecoveredFromHistory ==
  IF historyFile = {} THEN latest
  ELSE CHOOSE v \in historyFile : \A w \in historyFile : w <= v

(* The version that a recovered engine takes as its active one. *)
Recovered == latest

(* listEscalations leaves out what it cannot read. *)
EscalationFromFile(e) == IF escFiles[e] = Torn THEN None ELSE escFiles[e]

(* loadFromStore *)
Recover ==
  /\ ~up
  /\ CanRecover
  /\ up' = TRUE
  /\ graphs' = [v \in Versions |-> IF v \in historyFile \cup {latest} THEN files[v] ELSE NoGraph]
  /\ active' = Recovered
  /\ history' = IF historyFile = {} THEN {latest} ELSE historyFile
  /\ escalations' = [e \in Escalations |-> EscalationFromFile(e)]
  /\ UNCHANGED <<disk, todo, cont, base, bounds>>

-----------------------------------------------------------------------------
(***************************************************************************)
(* Node states and escalations                                             *)
(***************************************************************************)

(* Faulty variant of SetState: the versions share their nodes, as they     *)
(* would if replan copied the graph and not what is in it.                 *)
SetSharedState(n, s) ==
  LET changed == WithState(Current, n, s) IN
  /\ graphs' = [v \in Versions |->
                  IF graphs[v] # NoGraph /\ n \in NodesOf(graphs[v])
                    THEN WithState(graphs[v], n, s)
                    ELSE graphs[v]]
  /\ todo' = SaveGraph(active, changed)

(* What updateNodeState does once its checks have passed. *)
SetState(n, s) ==
  LET changed == WithState(Current, n, s) IN
  /\ graphs' = [graphs EXCEPT ![active] = changed]
  /\ todo' = SaveGraph(active, changed)

UpdateNodeState(n, s) ==
  /\ Idle
  /\ changes < MaxChanges
  /\ n \in NodesOf(Current)
  /\ MayBecome(Current, n, s)
  /\ SetState(n, s)
  /\ changes' = changes + 1
  /\ UNCHANGED <<up, active, history, escalations, disk, cont, base, crashes>>

(* escalate: the record is saved first; then the node is blocked without   *)
(* any check, or the call fails because the graph does not have it.        *)
Escalate(e, n, l) ==
  LET r == [node |-> n, level |-> l, status |-> "PENDING"]
      blocked == WithState(Current, n, "BLOCKED")
      blocks == l \in Blocking /\ n \in NodesOf(Current)
  IN
  /\ Idle
  /\ changes < MaxChanges
  /\ escalations[e] = None
  /\ escFiles[e] = None
  /\ escalations' = [escalations EXCEPT ![e] = r]
  /\ graphs' = IF blocks THEN [graphs EXCEPT ![active] = blocked] ELSE graphs
  /\ todo' = SaveEscalation(e, r) \o (IF blocks THEN SaveGraph(active, blocked) ELSE <<>>)
  /\ changes' = changes + 1
  /\ UNCHANGED <<up, active, history, disk, cont, base, crashes>>

(* resolveEscalation: of any escalation there is, resolved before or not,  *)
(* and of a node in any state.                                             *)
ResolveEscalation(e, resolution) ==
  LET r == [escalations[e] EXCEPT !.status = resolution]
      queued == WithState(Current, r.node, "QUEUED")
      releases == resolution = "RESOLVED" /\ r.node \in NodesOf(Current)
  IN
  /\ Idle
  /\ changes < MaxChanges
  /\ escalations[e] # None
  /\ escalations' = [escalations EXCEPT ![e] = r]
  /\ graphs' = IF releases THEN [graphs EXCEPT ![active] = queued] ELSE graphs
  /\ todo' = SaveEscalation(e, r) \o (IF releases THEN SaveGraph(active, queued) ELSE <<>>)
  /\ changes' = changes + 1
  /\ UNCHANGED <<up, active, history, disk, cont, base, crashes>>

-----------------------------------------------------------------------------
(***************************************************************************)
(* Planning                                                                *)
(***************************************************************************)

(* A planner reads the graph and remembers the version. *)
Read(p) ==
  /\ Idle
  /\ base' = [base EXCEPT ![p] = [version |-> active, shape |-> Shape(Current)]]
  /\ UNCHANGED <<memory, disk, todo, cont, bounds>>

(* What replan does once its checks have passed. *)
NewVersion(plan) ==
  LET next == Merge(Current, plan) IN
  /\ active < MaxVersion
  /\ IsValid(next)
  /\ active' = active + 1
  /\ graphs' = [graphs EXCEPT ![active + 1] = next]
  /\ history' = history \cup {active + 1}
  /\ todo' = SaveGraph(active + 1, next) \o SaveVersion(active + 1)
  /\ UNCHANGED <<up, escalations, disk, bounds>>

(* submit_execution_plan: the version is read in the call itself. *)
SubmitPlan(plan) ==
  /\ Idle
  /\ NewVersion(plan)
  /\ UNCHANGED <<cont, base>>

(* Faulty variant of IsCurrent: any version read will do. *)
HasRead(p) == base[p] # None

(* The check of baseVersion. *)
IsCurrent(p) == base[p] # None /\ base[p].version = active

(* propose_replan of GraphTools. *)
Replan(p, plan) ==
  /\ Idle
  /\ IsCurrent(p)
  /\ NewVersion(plan)
  /\ base' = [base EXCEPT ![p] = None]
  /\ UNCHANGED cont

(* propose_replan of the MCP server: first it marks the node it replaces   *)
(* as failed, if it can; then it replans.                                  *)
ProposeReplan(p, n, plan) ==
  /\ Idle
  /\ IsCurrent(p)
  /\ active < MaxVersion
  /\ IF n \in NodesOf(Current) /\ MayBecome(Current, n, "FAILED")
       THEN SetState(n, "FAILED")
       ELSE UNCHANGED <<graphs, todo>>
  /\ cont' = [by |-> p, plan |-> plan]
  /\ UNCHANGED <<up, active, history, escalations, disk, base, bounds>>

FinishPropose ==
  /\ up
  /\ cont # None
  /\ todo = <<>>
  /\ NewVersion(cont.plan)
  /\ base' = [base EXCEPT ![cont.by] = None]
  /\ cont' = None

(* The plan does not fit the graph: the mark stays. *)
RefusePropose ==
  /\ up
  /\ cont # None
  /\ todo = <<>>
  /\ ~IsValid(Merge(Current, cont.plan))
  /\ cont' = None
  /\ UNCHANGED <<memory, disk, todo, base, bounds>>

-----------------------------------------------------------------------------

Next ==
  \/ \E g \in InitialGraphs : Create(g)
  \/ Recover
  \/ Write
  \/ Crash
  \/ \E n \in Nodes, s \in States : UpdateNodeState(n, s)
  \/ \E e \in Escalations, n \in Nodes, l \in EscalationLevels : Escalate(e, n, l)
  \/ \E e \in Escalations, d \in {"RESOLVED", "REJECTED"} : ResolveEscalation(e, d)
  \/ \E plan \in Plans : SubmitPlan(plan)
  \/ \E p \in Planners : Read(p)
  \/ \E p \in Planners, plan \in Plans : Replan(p, plan)
  \/ \E p \in Planners, n \in Nodes, plan \in Plans : ProposeReplan(p, n, plan)
  \/ FinishPropose
  \/ RefusePropose

Spec == Init /\ [][Next]_vars

-----------------------------------------------------------------------------
(***************************************************************************)
(* Properties                                                              *)
(***************************************************************************)

(* A version that has been replaced never changes again, in the engine or  *)
(* in its file: not by a change to the versions after it, not by the call  *)
(* that replaces it, not across a crash and a recovery.                    *)
HistoryImmutable ==
  [][/\ latest # Torn =>
          \A v \in Versions : v < latest => files'[v] = files[v]
     /\ up /\ up' =>
          \A v \in Versions : v < active' => graphs'[v] = graphs[v]]_vars

(* When a call has returned, a crash loses nothing of what it did: the     *)
(* store would give back the same active version, node by node, and the    *)
(* same escalations (but one whose file an earlier crash has torn).        *)
ActiveIsDurable ==
  Idle =>
    /\ latest = active
    /\ files[active] = Current
    /\ \A e \in Escalations :
         escFiles[e] = escalations[e] \/ (escFiles[e] = Torn /\ escalations[e] = None)

(* A plan without cycles never runs dry: as long as a node waits to be     *)
(* started and none waits for a person or to be verified, the frontier     *)
(* offers one, which is in progress or may be started at once.             *)
FrontierServes ==
  (Idle /\ Acyclic(Current)) =>
    \/ \A n \in NodesOf(Current) : Current.nodes[n] # "CREATED"
    \/ \E n \in NodesOf(Current) : Current.nodes[n] \in {"BLOCKED", "VERIFYING"}
    \/ \E n \in Frontier(Current) :
         Current.nodes[n] \in ActiveStates \/ MayBecome(Current, n, "RUNNING")

(* A replan that gives its base version is only accepted for the graph its *)
(* planner read: a version number never stands for two graphs, even if a   *)
(* crash came between.                                                     *)
ReplanSeesItsBase ==
  [][\A p \in Planners :
       (base[p] # None /\ base'[p] = None) => base[p].shape = Shape(Current)]_vars

(* docs/runtime_hardening_report.md:54: "All historical graph versions,    *)
(* latest active version, frontier nodes, recorded observations, and       *)
(* escalation records were recovered with zero data loss" - once the       *)
(* constructor has written its files.                                      *)
CrashLosesNothing ==
  [][up /\ ~up' /\ historyFile # {} =>
       CanRecover' /\ \A v \in 1..latest' : v \in historyFile' \cup {latest'}]_vars

=============================================================================

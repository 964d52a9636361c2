----------------------- MODULE ExecutionGraph_proofs -----------------------
(***************************************************************************)
(* Proofs about ExecutionGraph for any nodes, plans, planners and          *)
(* escalations, and any number of versions, changes and crashes.           *)
(*                                                                         *)
(* A call that has not finished is at one of a few points between its      *)
(* writes, and at each of them a different part of the disk lags behind    *)
(* the memory.  The invariant says which: Pending lists those points.      *)
(* What it gives after the last write is durability; that a graph is only  *)
(* ever written under the active version gives an immutable history.       *)
(***************************************************************************)
EXTENDS ExecutionGraph, SequenceTheorems, TLAPS

(* What a call may have still to write. *)
GraphLeft == [file |-> "graph", version |-> active, graph |-> Current]
LatestLeft == [file |-> "latest", version |-> active]
HistoryLeft == [file |-> "history", version |-> active]
EscalationLeft(e) == [file |-> "escalation", id |-> e, record |-> escalations[e]]

GraphSaved == files[active] = Current
LatestSaved == latest = active

EscalationSaved(e) ==
  escFiles[e] = escalations[e] \/ (escFiles[e] = Torn /\ escalations[e] = None)

AllEscalationsSaved == \A e \in Escalations : EscalationSaved(e)

OthersSaved(e) ==
  /\ escalations[e] \in Escalation
  /\ \A d \in Escalations \ {e} : EscalationSaved(d)

(* The points between the writes of a call. *)
BeforeGraph == todo = <<GraphLeft, LatestLeft>> /\ AllEscalationsSaved
BeforeLatest == todo = <<LatestLeft>> /\ GraphSaved /\ AllEscalationsSaved
BeforeNewGraph == todo = <<GraphLeft, LatestLeft, HistoryLeft>> /\ AllEscalationsSaved
BeforeNewLatest == todo = <<LatestLeft, HistoryLeft>> /\ GraphSaved /\ AllEscalationsSaved
BeforeHistory == todo = <<HistoryLeft>> /\ GraphSaved /\ LatestSaved /\ AllEscalationsSaved
BeforeEscalation(e) == todo = <<EscalationLeft(e)>> /\ GraphSaved /\ LatestSaved /\ OthersSaved(e)
BeforeBoth(e) ==
  todo = <<EscalationLeft(e), GraphLeft, LatestLeft>> /\ LatestSaved /\ OthersSaved(e)
Done == todo = <<>> /\ GraphSaved /\ LatestSaved /\ AllEscalationsSaved

Pending ==
  \/ BeforeGraph
  \/ BeforeLatest
  \/ BeforeNewGraph
  \/ BeforeNewLatest
  \/ BeforeHistory
  \/ \E e \in Escalations : BeforeEscalation(e) \/ BeforeBoth(e)
  \/ Done

UpInv ==
  /\ active \in Versions
  /\ Current \in Graph
  /\ latest \in 0..active
  /\ historyFile # Torn
  /\ Pending

DownInv ==
  /\ todo = <<>>
  /\ cont = None
  /\ \A e \in Escalations : escalations[e] = None

(* Nothing is stored of a mission before its first graph. *)
EmptyInv ==
  latest = 0 => historyFile # Torn /\ \A e \in Escalations : escFiles[e] = None

(* A version that has been read is stored, as it was seen. *)
SeesFile(b) ==
  /\ latest # Torn => b.version <= latest
  /\ files[b.version] \in Graph => b.shape = Shape(files[b.version])

SeesGraph(b) ==
  /\ b.version <= active
  /\ graphs[b.version] \in Graph => b.shape = Shape(graphs[b.version])

BaseInv ==
  \A p \in Planners : base[p] # None =>
    /\ SeesFile(base[p])
    /\ up => SeesGraph(base[p])

ContInv == cont # None => IsCurrent(cont.by)

IInv ==
  /\ TypeOK
  /\ up => UpInv
  /\ ~up => DownInv
  /\ EmptyInv
  /\ BaseInv
  /\ ContInv

Writes == GraphWrite \cup LatestWrite \cup HistoryWrite \cup EscalationWrite

-----------------------------------------------------------------------------
(***************************************************************************)
(* Graphs                                                                  *)
(***************************************************************************)

LEMMA GraphForm ==
  ASSUME NEW g \in Graph
  PROVE  /\ NodesOf(g) \subseteq Nodes
         /\ g.nodes \in [NodesOf(g) -> States]
         /\ g.edges \in SUBSET (Nodes \X Nodes)
         /\ g = [nodes |-> g.nodes, edges |-> g.edges]
BY DEF Graph, NodesOf

LEMMA GraphIntro ==
  ASSUME NEW S \in SUBSET Nodes, NEW f \in [S -> States], NEW E \in SUBSET (Nodes \X Nodes)
  PROVE  [nodes |-> f, edges |-> E] \in Graph
BY DEF Graph

(* A new state changes neither the nodes nor the edges.                    *)
LEMMA WithStateGraph ==
  ASSUME NEW g \in Graph, NEW n \in NodesOf(g), NEW s \in States
  PROVE  WithState(g, n, s) \in Graph /\ Shape(WithState(g, n, s)) = Shape(g)
<1> DEFINE f == [g.nodes EXCEPT ![n] = s]
<1>1. f \in [NodesOf(g) -> States] /\ DOMAIN f = NodesOf(g)
  BY GraphForm
<1>2. WithState(g, n, s) = [nodes |-> f, edges |-> g.edges]
  BY GraphForm DEF WithState
<1> HIDE DEF f
<1>3. WithState(g, n, s) \in Graph
  BY <1>1, <1>2, GraphForm, GraphIntro
<1>4. NodesOf(WithState(g, n, s)) = NodesOf(g) /\ WithState(g, n, s).edges = g.edges
  BY <1>1, <1>2 DEF NodesOf
<1> QED
  BY <1>3, <1>4 DEF Shape

LEMMA MergeGraph ==
  ASSUME NEW g \in Graph, NEW plan \in Graph
  PROVE  Merge(g, plan) \in Graph
<1> DEFINE kept == {n \in NodesOf(g) \ NodesOf(plan) : g.nodes[n] # "TERMINATED"}
           f == [n \in kept \cup NodesOf(plan) |->
                   IF n \in NodesOf(plan) THEN plan.nodes[n] ELSE g.nodes[n]]
<1>1. f \in [kept \cup NodesOf(plan) -> States]
  BY GraphForm
<1>2. kept \cup NodesOf(plan) \in SUBSET Nodes /\ g.edges \cup plan.edges \in SUBSET (Nodes \X Nodes)
  BY GraphForm
<1>3. Merge(g, plan) = [nodes |-> f, edges |-> g.edges \cup plan.edges]
  BY DEF Merge
<1> HIDE DEF f, kept
<1> QED
  BY <1>1, <1>2, <1>3, GraphIntro

LEMMA ShapeType ==
  ASSUME NEW g \in Graph
  PROVE  Shape(g) \in [nodes : SUBSET Nodes, edges : SUBSET (Nodes \X Nodes)]
BY GraphForm DEF Shape

-----------------------------------------------------------------------------
(***************************************************************************)
(* The writes of a call                                                    *)
(***************************************************************************)

LEMMA ShortLists ==
  ASSUME NEW S, NEW a \in S, NEW b \in S, NEW c \in S
  PROVE  /\ <<a, b>> \o <<c>> = <<a, b, c>>
         /\ <<a>> \o <<b, c>> = <<a, b, c>>
         /\ <<a>> \o <<>> = <<a>>
<1>1. /\ <<a>> \in Seq(S) /\ <<c>> \in Seq(S)
      /\ <<a, b>> \in Seq(S) /\ <<b, c>> \in Seq(S) /\ <<a, b, c>> \in Seq(S)
  OBVIOUS
<1>2. <<a, b>> \o <<c>> = <<a, b, c>>
  <2> DEFINE s == <<a, b>>
             t == <<c>>
             u == <<a, b, c>>
  <2>1. Len(s) = 2 /\ Len(t) = 1 /\ Len(u) = 3
    OBVIOUS
  <2>2. s[1] = a /\ s[2] = b /\ t[1] = c /\ u[1] = a /\ u[2] = b /\ u[3] = c
    OBVIOUS
  <2>3. s \in Seq(S) /\ t \in Seq(S) /\ u \in Seq(S)
    BY <1>1
  <2> HIDE DEF s, t, u
  <2>4. /\ s \o t \in Seq(S) /\ Len(s \o t) = Len(s) + Len(t)
        /\ \A i \in 1..(Len(s) + Len(t)) :
              (s \o t)[i] = IF i <= Len(s) THEN s[i] ELSE t[i - Len(s)]
    BY <2>3, ConcatProperties
  <2>5. Len(s \o t) = 3 /\ \A i \in 1..3 : (s \o t)[i] = u[i]
    BY <2>1, <2>2, <2>4
  <2>6. s \o t = u
    BY <2>1, <2>3, <2>4, <2>5, SeqEqual
  <2> QED
    BY <2>6 DEF s, t, u
<1>3. <<a>> \o <<b, c>> = <<a, b, c>>
  <2> DEFINE s == <<a>>
             t == <<b, c>>
             u == <<a, b, c>>
  <2>1. Len(s) = 1 /\ Len(t) = 2 /\ Len(u) = 3
    OBVIOUS
  <2>2. s[1] = a /\ t[1] = b /\ t[2] = c /\ u[1] = a /\ u[2] = b /\ u[3] = c
    OBVIOUS
  <2>3. s \in Seq(S) /\ t \in Seq(S) /\ u \in Seq(S)
    BY <1>1
  <2> HIDE DEF s, t, u
  <2>4. /\ s \o t \in Seq(S) /\ Len(s \o t) = Len(s) + Len(t)
        /\ \A i \in 1..(Len(s) + Len(t)) :
              (s \o t)[i] = IF i <= Len(s) THEN s[i] ELSE t[i - Len(s)]
    BY <2>3, ConcatProperties
  <2>5. Len(s \o t) = 3 /\ \A i \in 1..3 : (s \o t)[i] = u[i]
    BY <2>1, <2>2, <2>4
  <2>6. s \o t = u
    BY <2>1, <2>3, <2>4, <2>5, SeqEqual
  <2> QED
    BY <2>6 DEF s, t, u
<1> QED
  BY <1>1, <1>2, <1>3, ConcatEmptySeq

LEMMA SavesGraph ==
  ASSUME NEW v \in Versions, NEW g \in Graph
  PROVE  /\ SaveGraph(v, g) \in Seq(Writes)
         /\ SaveGraph(v, g) \o SaveVersion(v)
              = <<[file |-> "graph", version |-> v, graph |-> g],
                  [file |-> "latest", version |-> v], [file |-> "history", version |-> v]>>
         /\ SaveGraph(v, g) \o SaveVersion(v) \in Seq(Writes)
<1> DEFINE gw == [file |-> "graph", version |-> v, graph |-> g]
           lw == [file |-> "latest", version |-> v]
           hw == [file |-> "history", version |-> v]
<1>1. gw \in Writes /\ lw \in Writes /\ hw \in Writes
  BY DEF Writes, GraphWrite, LatestWrite, HistoryWrite
<1>2. SaveGraph(v, g) = <<gw, lw>> /\ SaveVersion(v) = <<hw>>
  BY DEF SaveGraph, SaveVersion
<1> HIDE DEF gw, lw, hw
<1>3. <<gw, lw>> \in Seq(Writes) /\ <<gw, lw, hw>> \in Seq(Writes)
  BY <1>1
<1>4. <<gw, lw>> \o <<hw>> = <<gw, lw, hw>>
  BY <1>1, ShortLists
<1> QED
  BY <1>2, <1>3, <1>4 DEF gw, lw, hw

LEMMA SavesEscalation ==
  ASSUME NEW e \in Escalations, NEW r \in Escalation, NEW v \in Versions, NEW g \in Graph
  PROVE  /\ SaveEscalation(e, r) \o <<>> = <<[file |-> "escalation", id |-> e, record |-> r]>>
         /\ SaveEscalation(e, r) \o <<>> \in Seq(Writes)
         /\ SaveEscalation(e, r) \o SaveGraph(v, g)
              = <<[file |-> "escalation", id |-> e, record |-> r],
                  [file |-> "graph", version |-> v, graph |-> g], [file |-> "latest", version |-> v]>>
         /\ SaveEscalation(e, r) \o SaveGraph(v, g) \in Seq(Writes)
<1> DEFINE gw == [file |-> "graph", version |-> v, graph |-> g]
           lw == [file |-> "latest", version |-> v]
           ew == [file |-> "escalation", id |-> e, record |-> r]
<1>1. gw \in Writes /\ lw \in Writes /\ ew \in Writes
  BY DEF Writes, GraphWrite, LatestWrite, EscalationWrite
<1>2. SaveGraph(v, g) = <<gw, lw>> /\ SaveEscalation(e, r) = <<ew>>
  BY DEF SaveGraph, SaveEscalation
<1> HIDE DEF gw, lw, ew
<1>3. <<ew>> \in Seq(Writes) /\ <<ew, gw, lw>> \in Seq(Writes)
  BY <1>1
<1>4. <<ew>> \o <<gw, lw>> = <<ew, gw, lw>> /\ <<ew>> \o <<>> = <<ew>>
  BY <1>1, ShortLists
<1> QED
  BY <1>2, <1>3, <1>4 DEF gw, lw, ew

-----------------------------------------------------------------------------
(***************************************************************************)
(* A write, whole or torn                                                  *)
(***************************************************************************)

DiskType ==
  /\ files \in [Versions -> Graph \cup {NoGraph, Torn}]
  /\ latest \in 0..MaxVersion \cup {Torn}
  /\ historyFile \in (SUBSET Versions) \cup {Torn}
  /\ escFiles \in [Escalations -> Escalation \cup {None, Torn}]

LEMMA HeadsAndTails ==
  ASSUME NEW a, NEW b, NEW c
  PROVE  /\ Head(<<a>>) = a /\ Head(<<a, b>>) = a /\ Head(<<a, b, c>>) = a
         /\ Tail(<<a>>) = <<>> /\ Tail(<<a, b>>) = <<b>> /\ Tail(<<a, b, c>>) = <<b, c>>
         /\ <<>> # <<a>> /\ <<>> # <<a, b>> /\ <<>> # <<a, b, c>>
OBVIOUS

LEMMA NumbersOfVersions ==
  /\ MaxVersion \in Nat
  /\ \A v \in Versions : v \in Nat /\ v >= 1 /\ v <= MaxVersion
  /\ Torn \notin Versions
BY ConfigType, NotRecords DEF Versions

(* What a call writes first. *)
LEMMA FirstWrite ==
  ASSUME IInv, up, todo # <<>>
  PROVE  \/ Head(todo) \in {GraphLeft, LatestLeft}
         \/ Head(todo) = HistoryLeft /\ LatestSaved
         \/ \E e \in Escalations :
              /\ Head(todo) = EscalationLeft(e)
              /\ escalations[e] \in Escalation
              /\ LatestSaved
<1>1. Pending /\ TypeOK
  BY DEF IInv, UpInv
<1>2. CASE BeforeGraph \/ BeforeLatest \/ BeforeNewGraph \/ BeforeNewLatest \/ BeforeHistory
  <2> HIDE DEF GraphLeft, LatestLeft, HistoryLeft
  <2> QED
    BY <1>2, HeadsAndTails
    DEF BeforeGraph, BeforeLatest, BeforeNewGraph, BeforeNewLatest, BeforeHistory
<1>3. ASSUME NEW e \in Escalations, BeforeEscalation(e) \/ BeforeBoth(e)
      PROVE  /\ Head(todo) = EscalationLeft(e)
             /\ escalations[e] \in Escalation
             /\ LatestSaved
  <2>1. Head(todo) = EscalationLeft(e)
    BY <1>3, HeadsAndTails DEF BeforeEscalation, BeforeBoth
  <2> QED
    BY <1>1, <1>3, <2>1 DEF BeforeEscalation, BeforeBoth, OthersSaved, TypeOK
<1> QED
  BY <1>1, <1>2, <1>3 DEF Pending, Done

LEMMA PutLeft ==
  ASSUME IInv, up, todo # <<>>, NEW torn \in BOOLEAN, Put(Head(todo), torn)
  PROVE  /\ DiskType'
         /\ EmptyInv'
         /\ \A b \in Base : SeesFile(b) /\ SeesGraph(b) =>
              /\ latest' # Torn => b.version <= latest'
              /\ files'[b.version] \in Graph => b.shape = Shape(files'[b.version])
         /\ \A v \in Versions : v < latest => files'[v] = files[v]
<1>1. /\ DiskType /\ EmptyInv /\ active \in Versions /\ Current \in Graph
      /\ latest \in 0..active /\ latest \in Nat /\ active \in Nat /\ historyFile \in SUBSET Versions
      /\ Current = graphs[active]
  <2>1. DiskType /\ EmptyInv /\ UpInv
    BY DEF IInv, TypeOK, DiskType
  <2>2. active \in Versions /\ active \in Nat /\ latest \in 0..active /\ latest \in Nat
    BY <2>1, NumbersOfVersions DEF UpInv
  <2>3. historyFile \in SUBSET Versions
    BY <2>1, Zenon DEF UpInv, DiskType
  <2>4. Current \in Graph /\ Current = graphs[active]
    BY <2>1 DEF UpInv, Current
  <2> QED
    BY <2>1, <2>2, <2>3, <2>4
<1>2. CASE Head(todo) = GraphLeft
  <2>1. files' = [files EXCEPT ![active] = OnDisk(Current, torn)]
        /\ UNCHANGED <<latest, historyFile, escFiles>>
    BY <1>2 DEF Put, GraphLeft
  <2>2. OnDisk(Current, torn) \in Graph \cup {Torn} /\ (OnDisk(Current, torn) \in Graph => OnDisk(Current, torn) = Current)
    BY <1>1, NotGraphs DEF OnDisk
  <2>3. DiskType'
    BY <1>1, <2>1, <2>2 DEF DiskType
  <2>4. EmptyInv'
    BY <1>1, <2>1 DEF EmptyInv
  <2>5. ASSUME NEW b \in Base, SeesFile(b), SeesGraph(b)
        PROVE  /\ latest' # Torn => b.version <= latest'
               /\ files'[b.version] \in Graph => b.shape = Shape(files'[b.version])
    <3>1. b.version \in Versions
      BY DEF Base
    <3>2. CASE b.version = active
      BY <1>1, <2>1, <2>2, <2>5, <3>1, <3>2 DEF SeesFile, SeesGraph, DiskType
    <3>3. CASE b.version # active
      BY <1>1, <2>1, <2>5, <3>1, <3>3 DEF SeesFile, DiskType
    <3> QED
      BY <3>2, <3>3
  <2>6. \A v \in Versions : v < latest => files'[v] = files[v]
    BY <1>1, <2>1, NumbersOfVersions DEF DiskType
  <2> QED
    BY <2>3, <2>4, <2>5, <2>6
<1>3. CASE Head(todo) = LatestLeft
  <2>1. latest' = OnDisk(active, torn) /\ UNCHANGED <<files, historyFile, escFiles>>
    BY <1>3 DEF Put, LatestLeft
  <2>2. latest' \in {active, Torn}
    BY <2>1 DEF OnDisk
  <2>3. DiskType'
    BY <1>1, <2>1, <2>2, NumbersOfVersions DEF DiskType
  <2>4. EmptyInv'
    BY <2>2, NotRecords, NumbersOfVersions, <1>1 DEF EmptyInv
  <2>5. ASSUME NEW b \in Base, SeesFile(b), SeesGraph(b)
        PROVE  /\ latest' # Torn => b.version <= latest'
               /\ files'[b.version] \in Graph => b.shape = Shape(files'[b.version])
    BY <2>1, <2>2, <2>5 DEF SeesFile, SeesGraph
  <2> QED
    BY <2>1, <2>3, <2>4, <2>5
<1>4. CASE Head(todo) = HistoryLeft /\ LatestSaved
  <2>1. Head(todo).file = "history" /\ Head(todo).version = active
    BY <1>4 DEF HistoryLeft
  <2>2. historyFile' = OnDisk(historyFile \cup {Head(todo).version}, torn)
        /\ UNCHANGED <<files, latest, escFiles>>
    BY <2>1 DEF Put
  <2>3. OnDisk(historyFile \cup {Head(todo).version}, torn) \in (SUBSET Versions) \cup {Torn}
    <3>1. historyFile \cup {Head(todo).version} \in SUBSET Versions
      BY <1>1, <2>1
    <3> QED
      BY <3>1, Zenon DEF OnDisk
  <2>4. DiskType'
    BY <1>1, <2>2, <2>3 DEF DiskType
  <2>5. latest' # 0
    BY <1>1, <1>4, <2>2, NumbersOfVersions DEF LatestSaved
  <2> QED
    BY <1>1, <2>2, <2>4, <2>5 DEF EmptyInv, SeesFile
<1>5. ASSUME NEW e \in Escalations, Head(todo) = EscalationLeft(e),
             escalations[e] \in Escalation, LatestSaved
      PROVE  /\ DiskType'
             /\ EmptyInv'
             /\ UNCHANGED <<files, latest>>
  <2>1. escFiles' = [escFiles EXCEPT ![e] = OnDisk(escalations[e], torn)]
        /\ UNCHANGED <<files, latest, historyFile>>
    BY <1>5 DEF Put, EscalationLeft
  <2>2. DiskType'
    BY <1>1, <1>5, <2>1 DEF DiskType, OnDisk
  <2>3. latest' # 0
    BY <1>1, <1>5, <2>1, NumbersOfVersions DEF LatestSaved
  <2> QED
    BY <2>1, <2>2, <2>3 DEF EmptyInv
<1> QED
  BY <1>2, <1>3, <1>4, <1>5, FirstWrite DEF SeesFile

-----------------------------------------------------------------------------
(***************************************************************************)
(* The steps                                                               *)
(***************************************************************************)

(* The part of TypeOK that is not about the disk. *)
MemoryType ==
  /\ up \in BOOLEAN
  /\ graphs \in [Versions -> Graph \cup {NoGraph}]
  /\ active \in 0..MaxVersion
  /\ history \in SUBSET Versions
  /\ escalations \in [Escalations -> Escalation \cup {None}]

CallType ==
  /\ todo \in Seq(Writes)
  /\ cont \in [by : Planners, plan : Plans] \cup {None}
  /\ base \in [Planners -> Base \cup {None}]
  /\ changes \in 0..MaxChanges
  /\ crashes \in 0..MaxCrashes

LEMMA Types ==
  /\ TypeOK <=> MemoryType /\ DiskType /\ CallType
  /\ TypeOK' <=> MemoryType' /\ DiskType' /\ CallType'
BY DEF TypeOK, MemoryType, DiskType, CallType, Writes

LEMMA InitStep ==
  ASSUME Init
  PROVE  IInv
<1>1. TypeOK
  <2>1. 0 \in 0..MaxVersion /\ 0 \in 0..MaxChanges /\ 0 \in 0..MaxCrashes
    BY ConfigType
  <2>2. MemoryType
    BY <2>1 DEF Init, MemoryType
  <2>3. DiskType
    BY <2>1 DEF Init, DiskType
  <2>4. <<>> \in Seq(Writes)
    OBVIOUS
  <2>5. CallType
    BY <2>1, <2>4 DEF Init, CallType
  <2> QED
    BY <2>2, <2>3, <2>5, Types
<1>2. DownInv /\ EmptyInv /\ BaseInv /\ ContInv
  BY NotRecords DEF Init, DownInv, EmptyInv, BaseInv, ContInv
<1> QED
  BY <1>1, <1>2 DEF Init, IInv

LEMMA CrashStep ==
  ASSUME IInv, Crash
  PROVE  IInv'
<1>1. /\ up /\ ~up' /\ todo' = <<>> /\ cont' = None /\ UNCHANGED base
      /\ \A e \in Escalations : escalations'[e] = None
  BY DEF Crash, NoEngine
<1>2. MemoryType'
  <2>1. 0 \in 0..MaxVersion
    BY ConfigType
  <2> QED
    BY <2>1 DEF Crash, NoEngine, MemoryType
<1>3. CallType'
  <2>1. CallType
    BY Types DEF IInv
  <2>2. crashes' \in 0..MaxCrashes /\ UNCHANGED changes
    BY <2>1, ConfigType DEF Crash, CallType
  <2> QED
    BY <1>1, <2>1, <2>2 DEF CallType
<1>4. /\ DiskType'
      /\ EmptyInv'
      /\ \A b \in Base : SeesFile(b) /\ SeesGraph(b) =>
           /\ latest' # Torn => b.version <= latest'
           /\ files'[b.version] \in Graph => b.shape = Shape(files'[b.version])
  <2>1. CASE UNCHANGED disk
    <3>1. DiskType /\ EmptyInv
      BY Types DEF IInv
    <3> QED
      BY <2>1, <3>1 DEF disk, DiskType, EmptyInv, SeesFile
  <2>2. CASE todo # <<>> /\ Put(Head(todo), TRUE)
    BY <1>1, <2>2, PutLeft
  <2> QED
    BY <2>1, <2>2 DEF Crash
<1>5. BaseInv'
  <2> SUFFICES ASSUME NEW p \in Planners, base[p] # None
               PROVE  SeesFile(base[p])'
    BY <1>1 DEF BaseInv
  <2>1. base[p] \in Base /\ SeesFile(base[p]) /\ SeesGraph(base[p])
    BY <1>1 DEF IInv, TypeOK, BaseInv
  <2> QED
    BY <1>1, <1>4, <2>1 DEF SeesFile
<1> QED
  BY <1>1, <1>2, <1>3, <1>4, <1>5, Types DEF IInv, DownInv, ContInv

LEMMA WriteStep ==
  ASSUME IInv, Write
  PROVE  IInv'
<1>1. /\ up /\ up' /\ todo # <<>> /\ todo' = Tail(todo) /\ Put(Head(todo), FALSE)
      /\ UNCHANGED memory /\ UNCHANGED <<cont, base, bounds>>
  BY DEF Write, memory
<1>2. /\ DiskType'
      /\ EmptyInv'
      /\ \A b \in Base : SeesFile(b) /\ SeesGraph(b) =>
           /\ latest' # Torn => b.version <= latest'
           /\ files'[b.version] \in Graph => b.shape = Shape(files'[b.version])
  BY <1>1, PutLeft
<1>3. TypeOK'
  <2>1. MemoryType /\ CallType
    BY Types DEF IInv
  <2>2. todo' \in Seq(Writes)
    BY <1>1, <2>1, HeadTailProperties DEF CallType
  <2>3. MemoryType' /\ CallType'
    BY <1>1, <2>1, <2>2 DEF MemoryType, CallType, memory, bounds
  <2> QED
    BY <1>2, <2>3, Types
<1>4. BaseInv'
  <2> SUFFICES ASSUME NEW p \in Planners, base[p] # None
               PROVE  SeesFile(base[p])' /\ SeesGraph(base[p])'
    BY <1>1 DEF BaseInv
  <2>1. base[p] \in Base /\ SeesFile(base[p]) /\ SeesGraph(base[p])
    BY <1>1 DEF IInv, TypeOK, BaseInv
  <2> QED
    BY <1>1, <1>2, <2>1 DEF SeesFile, SeesGraph, memory
<1>5. ContInv'
  BY <1>1 DEF IInv, ContInv, IsCurrent, memory
<1>6. UpInv'
  <2>1. /\ UpInv /\ TypeOK
        /\ Current' = Current
        /\ GraphLeft' = GraphLeft /\ LatestLeft' = LatestLeft /\ HistoryLeft' = HistoryLeft
        /\ \A e \in Escalations : escalations'[e] = escalations[e] /\ EscalationLeft(e)' = EscalationLeft(e)
    BY <1>1 DEF IInv, memory, Current, GraphLeft, LatestLeft, HistoryLeft, EscalationLeft
  <2>2. active' \in Versions /\ Current' \in Graph /\ active' = active /\ active \in Nat
    BY <1>1, <2>1, NumbersOfVersions DEF UpInv, memory
  <2>3. ASSUME Head(todo) = GraphLeft
        PROVE  /\ GraphSaved'
               /\ UNCHANGED <<latest, historyFile, escFiles>>
    <3>1. files' = [files EXCEPT ![active] = Current] /\ UNCHANGED <<latest, historyFile, escFiles>>
      BY <1>1, <2>3 DEF Put, GraphLeft, OnDisk
    <3> QED
      BY <2>1, <2>2, <3>1 DEF GraphSaved, TypeOK
  <2>4. ASSUME Head(todo) = LatestLeft
        PROVE  /\ LatestSaved'
               /\ UNCHANGED <<files, historyFile, escFiles>>
    BY <1>1, <2>2, <2>4 DEF Put, LatestLeft, OnDisk, LatestSaved
  <2>5. ASSUME Head(todo) = HistoryLeft
        PROVE  /\ historyFile' # Torn
               /\ UNCHANGED <<files, latest, escFiles>>
    <3>1. Head(todo).file = "history" /\ Head(todo).version = active
      BY <2>5 DEF HistoryLeft
    <3>2. historyFile' = historyFile \cup {active} /\ UNCHANGED <<files, latest, escFiles>>
      BY <1>1, <3>1 DEF Put, OnDisk
    <3>3. historyFile \in SUBSET Versions
      BY <2>1, Zenon DEF UpInv, TypeOK
    <3>4. historyFile \cup {active} \in SUBSET Versions
      BY <2>1, <3>3 DEF UpInv
    <3> QED
      BY <3>2, <3>4, NotRecords
  <2>6. ASSUME NEW e \in Escalations, Head(todo) = EscalationLeft(e), OthersSaved(e)
        PROVE  /\ AllEscalationsSaved'
               /\ UNCHANGED <<files, latest, historyFile>>
    <3>1. escFiles' = [escFiles EXCEPT ![e] = escalations[e]]
          /\ UNCHANGED <<files, latest, historyFile>>
      BY <1>1, <2>6 DEF Put, EscalationLeft, OnDisk
    <3> QED
      BY <2>1, <2>6, <3>1 DEF OthersSaved, AllEscalationsSaved, EscalationSaved, TypeOK
  <2>7. CASE BeforeGraph
    <3>1. Head(todo) = GraphLeft /\ todo' = <<LatestLeft>>
      BY <1>1, <2>7, HeadsAndTails DEF BeforeGraph
    <3>2. BeforeLatest'
      BY <2>1, <2>3, <2>7, <3>1
      DEF BeforeGraph, BeforeLatest, AllEscalationsSaved, EscalationSaved
    <3> QED
      BY <2>1, <2>2, <2>3, <3>1, <3>2 DEF UpInv, Pending
  <2>8. CASE BeforeLatest
    <3>1. Head(todo) = LatestLeft /\ todo' = <<>>
      BY <1>1, <2>8, HeadsAndTails DEF BeforeLatest
    <3>2. Done' /\ latest' \in 0..active'
      BY <2>1, <2>2, <2>4, <2>8, <3>1
      DEF BeforeLatest, Done, GraphSaved, LatestSaved, AllEscalationsSaved, EscalationSaved
    <3> QED
      BY <2>1, <2>2, <2>4, <3>1, <3>2 DEF UpInv, Pending
  <2>9. CASE BeforeNewGraph
    <3>1. Head(todo) = GraphLeft /\ todo' = <<LatestLeft, HistoryLeft>>
      BY <1>1, <2>9, HeadsAndTails DEF BeforeNewGraph
    <3>2. BeforeNewLatest'
      BY <2>1, <2>3, <2>9, <3>1
      DEF BeforeNewGraph, BeforeNewLatest, AllEscalationsSaved, EscalationSaved
    <3> QED
      BY <2>1, <2>2, <2>3, <3>1, <3>2 DEF UpInv, Pending
  <2>10. CASE BeforeNewLatest
    <3>1. Head(todo) = LatestLeft /\ todo' = <<HistoryLeft>>
      BY <1>1, <2>10, HeadsAndTails DEF BeforeNewLatest
    <3>2. BeforeHistory' /\ latest' \in 0..active'
      BY <2>1, <2>2, <2>4, <2>10, <3>1
      DEF BeforeNewLatest, BeforeHistory, GraphSaved, LatestSaved, AllEscalationsSaved, EscalationSaved
    <3> QED
      BY <2>1, <2>2, <2>4, <3>1, <3>2 DEF UpInv, Pending
  <2>11. CASE BeforeHistory
    <3>1. Head(todo) = HistoryLeft /\ todo' = <<>>
      BY <1>1, <2>11, HeadsAndTails DEF BeforeHistory
    <3>2. Done'
      BY <2>1, <2>2, <2>5, <2>11, <3>1
      DEF BeforeHistory, Done, GraphSaved, LatestSaved, AllEscalationsSaved, EscalationSaved
    <3> QED
      BY <2>1, <2>2, <2>5, <3>1, <3>2 DEF UpInv, Pending
  <2>12. ASSUME NEW e \in Escalations, BeforeEscalation(e)
         PROVE  UpInv'
    <3>1. Head(todo) = EscalationLeft(e) /\ todo' = <<>>
      BY <1>1, <2>12, HeadsAndTails DEF BeforeEscalation
    <3>2. AllEscalationsSaved' /\ UNCHANGED <<files, latest, historyFile>>
      BY <2>6, <2>12, <3>1 DEF BeforeEscalation
    <3>3. Done'
      BY <2>1, <2>2, <2>12, <3>1, <3>2 DEF BeforeEscalation, Done, GraphSaved, LatestSaved
    <3> QED
      BY <2>1, <2>2, <3>2, <3>3 DEF UpInv, Pending
  <2>13. ASSUME NEW e \in Escalations, BeforeBoth(e)
         PROVE  UpInv'
    <3>1. Head(todo) = EscalationLeft(e) /\ todo' = <<GraphLeft, LatestLeft>>
      BY <1>1, <2>13, HeadsAndTails DEF BeforeBoth
    <3>2. AllEscalationsSaved' /\ UNCHANGED <<files, latest, historyFile>>
      BY <2>6, <2>13, <3>1 DEF BeforeBoth
    <3>3. BeforeGraph'
      BY <2>1, <3>1, <3>2 DEF BeforeGraph
    <3> QED
      BY <2>1, <2>2, <3>2, <3>3 DEF UpInv, Pending
  <2> QED
    BY <1>1, <2>1, <2>7, <2>8, <2>9, <2>10, <2>11, <2>12, <2>13 DEF UpInv, Pending, Done
<1> QED
  BY <1>1, <1>2, <1>3, <1>4, <1>5, <1>6 DEF IInv

(* A call begins when everything is saved. *)
LEMMA NothingLeft ==
  ASSUME IInv, up, todo = <<>>
  PROVE  /\ MemoryType /\ DiskType /\ CallType /\ EmptyInv /\ BaseInv /\ ContInv
         /\ active \in Versions /\ active \in Nat
         /\ Current \in Graph /\ Current = graphs[active]
         /\ GraphSaved /\ LatestSaved /\ AllEscalationsSaved
         /\ latest \in 0..active /\ historyFile # Torn
<1>1. UpInv /\ MemoryType /\ DiskType /\ CallType /\ EmptyInv /\ BaseInv /\ ContInv
  BY Types DEF IInv
<1>2. GraphSaved /\ LatestSaved /\ AllEscalationsSaved
  BY <1>1, HeadsAndTails
  DEF UpInv, Pending, BeforeGraph, BeforeLatest, BeforeNewGraph, BeforeNewLatest, BeforeHistory,
      BeforeEscalation, BeforeBoth, Done
<1>3. active \in Nat
  BY <1>1, NumbersOfVersions DEF UpInv
<1> QED
  BY <1>1, <1>2, <1>3 DEF UpInv, Current

(* The active version takes a graph of the same shape. *)
LEMMA SameShape ==
  ASSUME IInv, up, up', todo = <<>>, NEW h \in Graph, Shape(h) = Shape(Current),
         graphs' = [graphs EXCEPT ![active] = h],
         UNCHANGED <<active, history, disk, base>>
  PROVE  /\ graphs' \in [Versions -> Graph \cup {NoGraph}]
         /\ Current' = h
         /\ BaseInv'
<1>1. /\ MemoryType /\ CallType /\ BaseInv /\ active \in Versions
      /\ Current \in Graph /\ Current = graphs[active]
  BY NothingLeft
<1>2. graphs' \in [Versions -> Graph \cup {NoGraph}] /\ Current' = h
  BY <1>1 DEF MemoryType, Current
<1>3. BaseInv'
  <2> SUFFICES ASSUME NEW p \in Planners, base[p] # None
               PROVE  SeesFile(base[p])' /\ SeesGraph(base[p])'
    BY DEF BaseInv
  <2>1. base[p] \in Base /\ SeesFile(base[p]) /\ SeesGraph(base[p])
    BY <1>1 DEF BaseInv, CallType
  <2>2. SeesFile(base[p])'
    BY <2>1 DEF SeesFile, disk
  <2>3. base[p].version \in Versions
    BY <2>1 DEF Base
  <2>4. SeesGraph(base[p])'
    BY <1>1, <2>1, <2>3 DEF SeesGraph, MemoryType
  <2> QED
    BY <2>2, <2>4
<1> QED
  BY <1>2, <1>3

LEMMA CreateStep ==
  ASSUME IInv, NEW g \in InitialGraphs, Create(g)
  PROVE  IInv'
<1>1. /\ ~up /\ latest = 0 /\ up' /\ graphs' = [graphs EXCEPT ![1] = g]
      /\ active' = 1 /\ history' = {1}
      /\ todo' = SaveGraph(1, g) \o SaveVersion(1)
      /\ UNCHANGED <<escalations, files, latest, historyFile, escFiles, cont, base, changes, crashes>>
  BY DEF Create, disk, bounds
<1>2. /\ MemoryType /\ DiskType /\ CallType /\ DownInv /\ EmptyInv /\ BaseInv
      /\ 1 \in Versions /\ g \in Graph
  BY <1>1, Types, ConfigType DEF IInv, Versions
<1>3. /\ todo' \in Seq(Writes)
      /\ todo' = <<[file |-> "graph", version |-> 1, graph |-> g],
                   [file |-> "latest", version |-> 1], [file |-> "history", version |-> 1]>>
  BY <1>1, <1>2, SavesGraph
<1>4. MemoryType'
  BY <1>1, <1>2, ConfigType DEF MemoryType, Versions
<1>5. DiskType' /\ CallType' /\ EmptyInv'
  BY <1>1, <1>2, <1>3 DEF DiskType, CallType, EmptyInv
<1>6. \A p \in Planners : base'[p] = None
  <2> SUFFICES ASSUME NEW p \in Planners, base[p] # None
               PROVE  FALSE
    BY <1>1
  <2>1. base[p] \in Base /\ SeesFile(base[p])
    BY <1>2 DEF BaseInv, CallType
  <2>2. base[p].version \in Versions /\ latest # Torn
    BY <1>1, <2>1, NotRecords, ConfigType DEF Base
  <2> QED
    BY <1>1, <2>1, <2>2, NumbersOfVersions DEF SeesFile
<1>7. Current' = g
  BY <1>1, <1>2 DEF Current, MemoryType
<1>8. AllEscalationsSaved'
  BY <1>1, <1>2 DEF AllEscalationsSaved, EscalationSaved, DownInv, EmptyInv
<1>9. BeforeNewGraph'
  BY <1>1, <1>3, <1>7, <1>8 DEF BeforeNewGraph, GraphLeft, LatestLeft, HistoryLeft
<1>10. historyFile' # Torn
  BY <1>1, <1>2 DEF EmptyInv
<1> QED
  BY <1>1, <1>2, <1>4, <1>5, <1>6, <1>7, <1>9, <1>10, Types
  DEF IInv, UpInv, Pending, BaseInv, ContInv, DownInv

LEMMA RecoverStep ==
  ASSUME IInv, Recover
  PROVE  IInv'
<1>1. /\ ~up /\ CanRecover /\ up' /\ active' = latest
      /\ graphs' = [v \in Versions |-> IF v \in historyFile \cup {latest} THEN files[v] ELSE NoGraph]
      /\ history' = IF historyFile = {} THEN {latest} ELSE historyFile
      /\ escalations' = [e \in Escalations |-> EscalationFromFile(e)]
      /\ UNCHANGED <<files, latest, historyFile, escFiles, todo, cont, base, changes, crashes>>
  BY DEF Recover, Recovered, disk, bounds
<1>2. /\ MemoryType /\ DiskType /\ CallType /\ DownInv /\ EmptyInv /\ BaseInv
  BY <1>1, Types DEF IInv
<1>3. /\ latest \in Versions /\ files[latest] \in Graph /\ historyFile # Torn
      /\ latest \in Nat /\ latest \in 0..MaxVersion /\ latest \in 0..latest
  <2>1. latest \in Versions /\ files[latest] \in Graph /\ historyFile # Torn
    BY <1>1, <1>2 DEF CanRecover, DiskType
  <2> QED
    BY <2>1, NumbersOfVersions
<1>4. historyFile \in SUBSET Versions
  BY <1>2, <1>3, Zenon DEF DiskType
<1>5. graphs' \in [Versions -> Graph \cup {NoGraph}]
  <2> SUFFICES ASSUME NEW v \in Versions, v \in historyFile \cup {latest}
               PROVE  files[v] \in Graph \cup {NoGraph}
    BY <1>1
  <2> QED
    BY <1>1, <1>2, <1>3 DEF CanRecover, DiskType
<1>6. escalations' \in [Escalations -> Escalation \cup {None}] /\ AllEscalationsSaved'
  BY <1>1, <1>2 DEF EscalationFromFile, DiskType, AllEscalationsSaved, EscalationSaved
<1>7. history' \in SUBSET Versions
  BY <1>1, <1>3, <1>4
<1>8. MemoryType' /\ DiskType' /\ CallType' /\ EmptyInv'
  BY <1>1, <1>2, <1>3, <1>5, <1>6, <1>7 DEF MemoryType, DiskType, CallType, EmptyInv
<1>9. Current' = files[latest]
  BY <1>1, <1>3 DEF Current
<1>10. BaseInv'
  <2> SUFFICES ASSUME NEW p \in Planners, base[p] # None
               PROVE  SeesFile(base[p])' /\ SeesGraph(base[p])'
    BY <1>1 DEF BaseInv
  <2>1. base[p] \in Base /\ SeesFile(base[p])
    BY <1>2 DEF BaseInv, CallType
  <2>2. SeesFile(base[p])'
    BY <1>1, <2>1 DEF SeesFile
  <2>3. base[p].version \in Versions /\ base[p].version <= latest
    BY <1>3, <2>1, NumbersOfVersions DEF Base, SeesFile
  <2>4. graphs'[base[p].version] \in {files[base[p].version], NoGraph}
    BY <1>1, <2>3
  <2>5. SeesGraph(base[p])'
    BY <1>1, <2>1, <2>3, <2>4, NotGraphs DEF SeesGraph, SeesFile
  <2> QED
    BY <2>2, <2>5
<1>11. Done' /\ UpInv'
  <2>1. Done'
    BY <1>1, <1>2, <1>6, <1>9 DEF Done, DownInv, GraphSaved, LatestSaved
  <2> QED
    BY <1>1, <1>3, <1>9, <2>1 DEF UpInv, Pending
<1> QED
  BY <1>1, <1>2, <1>8, <1>10, <1>11, Types DEF IInv, ContInv, DownInv

(* A call that gives a node of the active version a state. *)
LEMMA SetStateStep ==
  ASSUME IInv, up, todo = <<>>, up' = up, NEW n \in NodesOf(Current), NEW s \in States,
         SetState(n, s), UNCHANGED <<active, history, escalations, disk, base>>
  PROVE  MemoryType' /\ todo' \in Seq(Writes) /\ UpInv' /\ BaseInv'
<1> DEFINE h == WithState(Current, n, s)
<1>1. h \in Graph /\ Shape(h) = Shape(Current)
  BY NothingLeft, WithStateGraph
<1>2. graphs' = [graphs EXCEPT ![active] = h] /\ todo' = SaveGraph(active, h)
  BY DEF SetState
<1> HIDE DEF h
<1>3. graphs' \in [Versions -> Graph \cup {NoGraph}] /\ Current' = h /\ BaseInv'
  BY <1>1, <1>2, SameShape
<1>4. MemoryType'
  BY <1>3, NothingLeft DEF MemoryType
<1>5. todo' \in Seq(Writes) /\ todo' = <<GraphLeft', LatestLeft'>>
  <2>1. todo' = <<[file |-> "graph", version |-> active, graph |-> h],
                  [file |-> "latest", version |-> active]>>
    BY <1>2 DEF SaveGraph
  <2> QED
    BY <1>1, <1>2, <1>3, <2>1, NothingLeft, SavesGraph DEF GraphLeft, LatestLeft
<1>6. AllEscalationsSaved'
  BY NothingLeft DEF AllEscalationsSaved, EscalationSaved, disk
<1>7. BeforeGraph'
  BY <1>5, <1>6 DEF BeforeGraph
<1>8. UpInv'
  BY <1>1, <1>3, <1>7, NothingLeft DEF UpInv, Pending, disk
<1> QED
  BY <1>3, <1>4, <1>5, <1>8

LEMMA UpdateNodeStateStep ==
  ASSUME IInv, NEW n \in Nodes, NEW s \in States, UpdateNodeState(n, s)
  PROVE  IInv'
<1>1. /\ up /\ todo = <<>> /\ cont = None /\ n \in NodesOf(Current) /\ SetState(n, s) /\ changes < MaxChanges
      /\ changes' = changes + 1 /\ up' = up
      /\ UNCHANGED <<active, history, escalations, disk, base, cont, crashes>>
  BY DEF UpdateNodeState, Idle
<1>2. MemoryType' /\ todo' \in Seq(Writes) /\ UpInv' /\ BaseInv'
  BY <1>1, SetStateStep
<1>3. changes' \in 0..MaxChanges
  BY <1>1, NothingLeft, ConfigType DEF CallType
<1>4. CallType' /\ DiskType' /\ EmptyInv' /\ ContInv'
  BY <1>1, <1>2, <1>3, NothingLeft DEF CallType, DiskType, EmptyInv, ContInv, disk
<1> QED
  BY <1>1, <1>2, <1>4, Types DEF IInv

(* A call that gives an escalation a record, and a node of the active      *)
(* version a state if the record says so.                                  *)
LEMMA RecordStep ==
  ASSUME IInv, Idle, up' = up, changes < MaxChanges, changes' = changes + 1,
         NEW e \in Escalations, NEW r \in Escalation, escalations' = [escalations EXCEPT ![e] = r],
         NEW h \in Graph, Shape(h) = Shape(Current),
         \/ graphs' = graphs /\ todo' = SaveEscalation(e, r) \o <<>>
         \/ /\ graphs' = [graphs EXCEPT ![active] = h]
            /\ todo' = SaveEscalation(e, r) \o SaveGraph(active, h),
         UNCHANGED <<active, history, disk, cont, base, crashes>>
  PROVE  IInv'
<1>1. up /\ up' /\ todo = <<>> /\ cont = None /\ cont' = None
  BY DEF Idle
<1>2. /\ MemoryType /\ DiskType /\ CallType /\ EmptyInv /\ BaseInv /\ ContInv
      /\ active \in Versions /\ Current \in Graph /\ Current = graphs[active]
      /\ GraphSaved /\ LatestSaved /\ AllEscalationsSaved
      /\ latest \in 0..active /\ historyFile # Torn
  BY <1>1, NothingLeft
<1>3. escalations' \in [Escalations -> Escalation \cup {None}] /\ escalations'[e] = r
  BY <1>2 DEF MemoryType
<1>4. OthersSaved(e)'
  BY <1>2, <1>3 DEF OthersSaved, AllEscalationsSaved, EscalationSaved, MemoryType, disk
<1>5. changes' \in 0..MaxChanges
  BY <1>2, ConfigType DEF CallType
<1>6. CASE graphs' = graphs /\ todo' = SaveEscalation(e, r) \o <<>>
  <2>1. todo' \in Seq(Writes) /\ todo' = <<[file |-> "escalation", id |-> e, record |-> r]>>
    BY <1>2, <1>6, SavesEscalation
  <2>2. Current' = Current
    BY <1>6 DEF Current
  <2>3. BeforeEscalation(e)'
    BY <1>2, <1>3, <1>4, <2>1, <2>2 DEF BeforeEscalation, EscalationLeft, GraphSaved, LatestSaved, disk
  <2>4. UpInv'
    BY <1>2, <2>2, <2>3 DEF UpInv, Pending, disk
  <2>5. MemoryType' /\ DiskType' /\ CallType' /\ EmptyInv'
    BY <1>1, <1>2, <1>3, <1>5, <1>6, <2>1 DEF MemoryType, DiskType, CallType, EmptyInv, disk
  <2>6. BaseInv' /\ ContInv'
    BY <1>1, <1>2, <1>6 DEF BaseInv, SeesFile, SeesGraph, ContInv, disk
  <2> QED
    BY <1>1, <2>4, <2>5, <2>6, Types DEF IInv
<1>7. CASE /\ graphs' = [graphs EXCEPT ![active] = h]
           /\ todo' = SaveEscalation(e, r) \o SaveGraph(active, h)
  <2>1. todo' \in Seq(Writes)
        /\ todo' = <<[file |-> "escalation", id |-> e, record |-> r],
                     [file |-> "graph", version |-> active, graph |-> h],
                     [file |-> "latest", version |-> active]>>
    BY <1>2, <1>7, SavesEscalation
  <2>2. graphs' \in [Versions -> Graph \cup {NoGraph}] /\ Current' = h /\ BaseInv'
    BY <1>1, <1>7, SameShape
  <2>3. BeforeBoth(e)'
    BY <1>2, <1>3, <1>4, <2>1, <2>2
    DEF BeforeBoth, EscalationLeft, GraphLeft, LatestLeft, LatestSaved, disk
  <2>4. UpInv'
    BY <1>2, <2>2, <2>3 DEF UpInv, Pending, disk
  <2>5. MemoryType' /\ DiskType' /\ CallType' /\ EmptyInv'
    BY <1>1, <1>2, <1>3, <1>5, <2>1, <2>2 DEF MemoryType, DiskType, CallType, EmptyInv, disk
  <2> QED
    BY <1>1, <2>2, <2>4, <2>5, Types DEF IInv, ContInv
<1> QED
  BY <1>6, <1>7

LEMMA EscalateStep ==
  ASSUME IInv, NEW e \in Escalations, NEW n \in Nodes, NEW l \in EscalationLevels, Escalate(e, n, l)
  PROVE  IInv'
<1> DEFINE r == [node |-> n, level |-> l, status |-> "PENDING"]
           blocks == l \in Blocking /\ n \in NodesOf(Current)
           h == IF blocks THEN WithState(Current, n, "BLOCKED") ELSE Current
<1>1. r \in Escalation
  BY DEF Escalation
<1>2. Current \in Graph /\ active \in Versions
  BY NothingLeft DEF Escalate, Idle
<1>3. h \in Graph /\ Shape(h) = Shape(Current)
  BY <1>2, WithStateGraph DEF States
<1>4. \/ graphs' = graphs /\ todo' = SaveEscalation(e, r) \o <<>>
      \/ /\ graphs' = [graphs EXCEPT ![active] = h]
         /\ todo' = SaveEscalation(e, r) \o SaveGraph(active, h)
  BY DEF Escalate
<1> HIDE DEF r, blocks, h
<1>5. /\ Idle /\ up' = up /\ changes < MaxChanges /\ changes' = changes + 1
      /\ escalations' = [escalations EXCEPT ![e] = r]
      /\ UNCHANGED <<active, history, disk, cont, base, crashes>>
  BY DEF Escalate, r
<1> QED
  BY <1>1, <1>3, <1>4, <1>5, RecordStep

LEMMA ResolveEscalationStep ==
  ASSUME IInv, NEW e \in Escalations, NEW d \in {"RESOLVED", "REJECTED"}, ResolveEscalation(e, d)
  PROVE  IInv'
<1> DEFINE r == [escalations[e] EXCEPT !.status = d]
           releases == d = "RESOLVED" /\ r.node \in NodesOf(Current)
           h == IF releases THEN WithState(Current, r.node, "QUEUED") ELSE Current
<1>1. r \in Escalation
  <2>1. escalations[e] \in Escalation
    BY NothingLeft DEF ResolveEscalation, Idle, MemoryType
  <2> QED
    BY <2>1 DEF Escalation
<1>2. Current \in Graph /\ active \in Versions
  BY NothingLeft DEF ResolveEscalation, Idle
<1>3. h \in Graph /\ Shape(h) = Shape(Current)
  <2> HIDE DEF r
  <2> QED
    BY <1>2, WithStateGraph DEF States
<1>4. \/ graphs' = graphs /\ todo' = SaveEscalation(e, r) \o <<>>
      \/ /\ graphs' = [graphs EXCEPT ![active] = h]
         /\ todo' = SaveEscalation(e, r) \o SaveGraph(active, h)
  <2> DEFINE queued == WithState(Current, r.node, "QUEUED")
  <2>1. /\ graphs' = IF releases THEN [graphs EXCEPT ![active] = queued] ELSE graphs
        /\ todo' = SaveEscalation(e, r) \o (IF releases THEN SaveGraph(active, queued) ELSE <<>>)
    BY Zenon DEF ResolveEscalation
  <2>2. h = IF releases THEN queued ELSE Current
    OBVIOUS
  <2> HIDE DEF r, releases, h, queued
  <2> QED
    BY <2>1, <2>2
<1> HIDE DEF r, releases, h
<1>5. /\ Idle /\ up' = up /\ changes < MaxChanges /\ changes' = changes + 1
      /\ escalations' = [escalations EXCEPT ![e] = r]
      /\ UNCHANGED <<active, history, disk, cont, base, crashes>>
  BY DEF ResolveEscalation, r
<1> QED
  BY <1>1, <1>3, <1>4, <1>5, RecordStep

LEMMA NewVersionStep ==
  ASSUME IInv, up, todo = <<>>, NEW plan \in Plans, NewVersion(plan), cont' = None,
         base' \in [Planners -> Base \cup {None}],
         \A p \in Planners : base'[p] \in {base[p], None}
  PROVE  IInv'
<1> DEFINE next == Merge(Current, plan)
           w == active + 1
<1>1. /\ active < MaxVersion /\ active' = w
      /\ graphs' = [graphs EXCEPT ![w] = next]
      /\ history' = history \cup {w}
      /\ todo' = SaveGraph(w, next) \o SaveVersion(w)
      /\ UNCHANGED <<up, escalations, files, latest, historyFile, escFiles, changes, crashes>>
  BY DEF NewVersion, disk, bounds
<1>2. /\ MemoryType /\ DiskType /\ CallType /\ EmptyInv /\ BaseInv
      /\ active \in Versions /\ active \in Nat /\ Current \in Graph
      /\ AllEscalationsSaved /\ latest \in 0..active /\ historyFile # Torn
  BY NothingLeft
<1>3. w \in Versions /\ w \in Nat /\ w \in 0..MaxVersion /\ next \in Graph
  BY <1>1, <1>2, MergeGraph, ConfigType DEF Versions
<1> HIDE DEF next
<1>4. /\ todo' \in Seq(Writes)
      /\ todo' = <<[file |-> "graph", version |-> w, graph |-> next],
                   [file |-> "latest", version |-> w], [file |-> "history", version |-> w]>>
  BY <1>1, <1>3, SavesGraph
<1>5. /\ graphs' \in [Versions -> Graph \cup {NoGraph}]
      /\ Current' = next
      /\ \A v \in Versions : v <= active => graphs'[v] = graphs[v]
  BY <1>1, <1>2, <1>3, NumbersOfVersions DEF MemoryType, Current
<1>6. MemoryType'
  BY <1>1, <1>2, <1>3, <1>5 DEF MemoryType
<1>7. DiskType' /\ CallType' /\ EmptyInv'
  BY <1>1, <1>2, <1>4 DEF DiskType, CallType, EmptyInv
<1>8. BaseInv'
  <2> SUFFICES ASSUME NEW p \in Planners, base'[p] # None
               PROVE  SeesFile(base[p])' /\ SeesGraph(base[p])'
    BY DEF BaseInv
  <2>1. base'[p] = base[p]
    OBVIOUS
  <2>2. base[p] \in Base /\ SeesFile(base[p]) /\ SeesGraph(base[p])
    BY <1>2, <2>1 DEF BaseInv, CallType
  <2>3. base[p].version \in Versions /\ base[p].version \in Nat
    BY <2>2, NumbersOfVersions DEF Base
  <2>4. SeesFile(base[p])'
    BY <1>1, <2>1, <2>2 DEF SeesFile
  <2>5. graphs'[base[p].version] = graphs[base[p].version] /\ base[p].version <= w
    BY <1>2, <1>5, <2>2, <2>3 DEF SeesGraph
  <2>6. SeesGraph(base[p])'
    BY <1>1, <2>1, <2>2, <2>5 DEF SeesGraph
  <2> QED
    BY <2>4, <2>6
<1>9. AllEscalationsSaved'
  BY <1>1, <1>2 DEF AllEscalationsSaved, EscalationSaved
<1>10. BeforeNewGraph'
  BY <1>1, <1>4, <1>5, <1>9 DEF BeforeNewGraph, GraphLeft, LatestLeft, HistoryLeft
<1>11. UpInv'
  <2>1. latest' \in 0..active'
    BY <1>1, <1>2
  <2> QED
    BY <1>1, <1>2, <1>3, <1>5, <1>10, <2>1 DEF UpInv, Pending
<1> QED
  BY <1>1, <1>6, <1>7, <1>8, <1>11, Types DEF IInv, ContInv

LEMMA ReadStep ==
  ASSUME IInv, NEW p \in Planners, Read(p)
  PROVE  IInv'
<1> DEFINE b == [version |-> active, shape |-> Shape(Current)]
<1>1. /\ up /\ todo = <<>> /\ cont = None /\ base' = [base EXCEPT ![p] = b]
      /\ UNCHANGED <<up, graphs, active, history, escalations, files, latest, historyFile, escFiles,
                     todo, cont, changes, crashes>>
  BY DEF Read, Idle, memory, disk, bounds
<1>2. /\ MemoryType /\ DiskType /\ CallType /\ EmptyInv /\ BaseInv
      /\ active \in Versions /\ active \in Nat /\ Current \in Graph /\ Current = graphs[active]
      /\ GraphSaved /\ LatestSaved
  BY <1>1, NothingLeft
<1>3. b \in Base /\ b.version = active /\ b.shape = Shape(Current)
  BY <1>2, ShapeType DEF Base
<1> HIDE DEF b
<1>4. base' \in [Planners -> Base \cup {None}]
  BY <1>1, <1>2, <1>3 DEF CallType
<1>5. MemoryType' /\ DiskType' /\ CallType' /\ EmptyInv'
  BY <1>1, <1>2, <1>4 DEF MemoryType, DiskType, CallType, EmptyInv
<1>6. BaseInv'
  <2> SUFFICES ASSUME NEW q \in Planners, base'[q] # None
               PROVE  SeesFile(base[q])' /\ SeesGraph(base[q])'
    BY DEF BaseInv
  <2>1. CASE q = p
    <3>1. base'[q] = b
      BY <1>1, <1>2, <2>1 DEF CallType
    <3> QED
      BY <1>1, <1>2, <1>3, <3>1 DEF SeesFile, SeesGraph, GraphSaved, LatestSaved
  <2>2. CASE q # p
    <3>1. base'[q] = base[q]
      BY <1>1, <1>2, <2>2 DEF CallType
    <3> QED
      BY <1>1, <1>2, <3>1 DEF BaseInv, SeesFile, SeesGraph
  <2> QED
    BY <2>1, <2>2
<1>7. UpInv'
  <2>1. Current' = Current
    BY <1>1 DEF Current
  <2>2. Done'
    <3>1. AllEscalationsSaved
      BY <1>1, NothingLeft
    <3> QED
      BY <1>1, <1>2, <2>1, <3>1
      DEF Done, GraphSaved, LatestSaved, AllEscalationsSaved, EscalationSaved
  <2> QED
    BY <1>1, <2>1, <2>2 DEF IInv, UpInv, Pending
<1> QED
  BY <1>1, <1>5, <1>6, <1>7, Types DEF IInv, ContInv

(* A call that has returned, or not yet changed anything, leaves it so.    *)
LEMMA NothingChangedStep ==
  ASSUME IInv, up, todo = <<>>, UNCHANGED <<memory, disk, todo, base, bounds>>,
         cont' \in [by : Planners, plan : Plans] \cup {None},
         cont' # None => IsCurrent(cont'.by)
  PROVE  IInv'
<1>1. UNCHANGED <<up, graphs, active, history, escalations, files, latest, historyFile, escFiles,
                  todo, base, changes, crashes>>
  BY DEF memory, disk, bounds
<1>2. MemoryType /\ DiskType /\ CallType /\ EmptyInv /\ BaseInv /\ UpInv
  BY Types DEF IInv
<1>3. MemoryType' /\ DiskType' /\ CallType' /\ EmptyInv'
  BY <1>1, <1>2 DEF MemoryType, DiskType, CallType, EmptyInv
<1>4. BaseInv' /\ ContInv'
  BY <1>1, <1>2 DEF BaseInv, SeesFile, SeesGraph, ContInv, IsCurrent
<1>5. UpInv'
  <2>1. Current' = Current
    BY <1>1 DEF Current
  <2>2. Done'
    BY <1>1, <2>1, NothingLeft
    DEF Done, GraphSaved, LatestSaved, AllEscalationsSaved, EscalationSaved
  <2> QED
    BY <1>1, <1>2, <2>1, <2>2 DEF UpInv, Pending
<1> QED
  BY <1>1, <1>3, <1>4, <1>5, Types DEF IInv

LEMMA ProposeReplanStep ==
  ASSUME IInv, NEW p \in Planners, NEW n \in Nodes, NEW plan \in Plans, ProposeReplan(p, n, plan)
  PROVE  IInv'
<1>1. /\ up /\ todo = <<>> /\ IsCurrent(p) /\ cont' = [by |-> p, plan |-> plan]
      /\ UNCHANGED <<up, active, history, escalations, disk, base, bounds>>
  BY DEF ProposeReplan, Idle
<1>2. cont' \in [by : Planners, plan : Plans] /\ cont'.by = p
  BY <1>1
<1>3. CASE UNCHANGED <<graphs, todo>>
  BY <1>1, <1>2, <1>3, NothingChangedStep DEF memory
<1>4. CASE n \in NodesOf(Current) /\ SetState(n, "FAILED")
  <2>1. MemoryType' /\ todo' \in Seq(Writes) /\ UpInv' /\ BaseInv'
    BY <1>1, <1>4, SetStateStep DEF States
  <2>2. CallType' /\ DiskType' /\ EmptyInv'
    BY <1>1, <1>2, <2>1, NothingLeft DEF CallType, DiskType, EmptyInv, disk, bounds
  <2>3. ContInv'
    BY <1>1, <1>2 DEF ContInv, IsCurrent
  <2> QED
    BY <1>1, <2>1, <2>2, <2>3, Types DEF IInv
<1> QED
  BY <1>3, <1>4 DEF ProposeReplan

LEMMA SubmitPlanStep ==
  ASSUME IInv, NEW plan \in Plans, SubmitPlan(plan)
  PROVE  IInv'
<1>1. up /\ todo = <<>> /\ cont = None /\ NewVersion(plan) /\ UNCHANGED <<cont, base>>
  BY DEF SubmitPlan, Idle
<1>2. base' \in [Planners -> Base \cup {None}]
  BY <1>1, NothingLeft DEF CallType
<1> QED
  BY <1>1, <1>2, NewVersionStep

LEMMA ReplanStep ==
  ASSUME IInv, NEW p \in Planners, NEW plan \in Plans, Replan(p, plan)
  PROVE  IInv'
<1>1. up /\ todo = <<>> /\ cont' = None /\ NewVersion(plan) /\ base' = [base EXCEPT ![p] = None]
  BY DEF Replan, Idle
<1>2. base' \in [Planners -> Base \cup {None}] /\ \A q \in Planners : base'[q] \in {base[q], None}
  BY <1>1, NothingLeft DEF CallType
<1> QED
  BY <1>1, <1>2, NewVersionStep

LEMMA FinishProposeStep ==
  ASSUME IInv, FinishPropose
  PROVE  IInv'
<1>1. /\ up /\ todo = <<>> /\ cont # None /\ cont' = None /\ NewVersion(cont.plan)
      /\ base' = [base EXCEPT ![cont.by] = None]
  BY DEF FinishPropose
<1>2. CallType
  BY <1>1, NothingLeft
<1>3. base' \in [Planners -> Base \cup {None}] /\ \A q \in Planners : base'[q] \in {base[q], None}
  BY <1>1, <1>2 DEF CallType
<1>4. cont.plan \in Plans
  BY <1>1, <1>2 DEF CallType
<1> QED
  BY <1>1, <1>3, <1>4, NewVersionStep

LEMMA RefuseProposeStep ==
  ASSUME IInv, RefusePropose
  PROVE  IInv'
BY NothingChangedStep DEF RefusePropose

LEMMA Invariant ==
  ASSUME IInv, [Next]_vars
  PROVE  IInv'
<1>1. CASE Next
  BY <1>1, CreateStep, RecoverStep, WriteStep, CrashStep, UpdateNodeStateStep, EscalateStep,
     ResolveEscalationStep, SubmitPlanStep, ReadStep, ReplanStep, ProposeReplanStep,
     FinishProposeStep, RefuseProposeStep
  DEF Next
<1>2. CASE UNCHANGED vars
  <2>1. UNCHANGED <<up, graphs, active, history, escalations, files, latest, historyFile, escFiles,
                    todo, cont, base, changes, crashes>>
    BY <1>2 DEF vars, memory, disk, bounds
  <2>2. TypeOK' = TypeOK
    BY <2>1 DEF TypeOK
  <2>3. Current' = Current
    BY <2>1 DEF Current
  <2>4. /\ GraphSaved' = GraphSaved /\ LatestSaved' = LatestSaved
        /\ GraphLeft' = GraphLeft /\ LatestLeft' = LatestLeft /\ HistoryLeft' = HistoryLeft
        /\ \A e \in Escalations :
             EscalationLeft(e)' = EscalationLeft(e) /\ EscalationSaved(e)' = EscalationSaved(e)
    BY <2>1, <2>3
    DEF GraphSaved, LatestSaved, GraphLeft, LatestLeft, HistoryLeft, EscalationLeft, EscalationSaved
  <2>5. Pending' = Pending
    BY <2>1, <2>4
    DEF Pending, BeforeGraph, BeforeLatest, BeforeNewGraph, BeforeNewLatest, BeforeHistory,
        BeforeEscalation, BeforeBoth, Done, OthersSaved, AllEscalationsSaved
  <2>6. UpInv' = UpInv /\ DownInv' = DownInv /\ EmptyInv' = EmptyInv /\ BaseInv' = BaseInv
        /\ ContInv' = ContInv
    BY <2>1, <2>3, <2>5
    DEF UpInv, DownInv, EmptyInv, BaseInv, SeesFile, SeesGraph, ContInv, IsCurrent
  <2> QED
    BY <2>1, <2>2, <2>6 DEF IInv
<1> QED
  BY <1>1, <1>2

-----------------------------------------------------------------------------
(***************************************************************************)
(* The frontier                                                            *)
(***************************************************************************)

(* Every graph, in memory or stored, has passed validateGraph or began so. *)
FitInv ==
  \A v \in Versions :
    /\ graphs[v] \in Graph => IsValid(graphs[v])
    /\ files[v] \in Graph => IsValid(files[v])

(* Only its nodes and edges make a graph valid. *)
LEMMA ValidByShape ==
  ASSUME NEW g, NEW h, Shape(g) = Shape(h), IsValid(g)
  PROVE  IsValid(h)
BY DEF Shape, IsValid

LEMMA InitFit == Init => FitInv
BY NotGraphs DEF Init, FitInv

(* A file gets what is in memory, or is torn. *)
LEMMA FilesFit ==
  ASSUME IInv, FitInv, up, todo # <<>>, NEW torn \in BOOLEAN, Put(Head(todo), torn)
  PROVE  \A v \in Versions : files'[v] \in Graph => IsValid(files'[v])
<1>1. DiskType /\ active \in Versions /\ Current = graphs[active] /\ Current \in Graph
  BY Types DEF IInv, UpInv, Current
<1>2. CASE Head(todo) = GraphLeft
  <2>1. files' = [files EXCEPT ![active] = OnDisk(Current, torn)]
    BY <1>2 DEF Put, GraphLeft
  <2>2. OnDisk(Current, torn) \in Graph => IsValid(OnDisk(Current, torn))
    BY <1>1, NotGraphs DEF FitInv, OnDisk
  <2> QED
    BY <1>1, <2>1, <2>2 DEF FitInv, DiskType
<1>3. CASE Head(todo) # GraphLeft
  <2>1. Head(todo).file # "graph"
    BY <1>3, FirstWrite DEF LatestLeft, HistoryLeft, EscalationLeft
  <2>2. UNCHANGED files
    BY <2>1 DEF Put
  <2> QED
    BY <2>2 DEF FitInv
<1> QED
  BY <1>2, <1>3

(* A node gets another state: the graph stays as valid as it was. *)
LEMMA StateFit ==
  ASSUME IInv, FitInv, up, todo = <<>>, NEW n \in NodesOf(Current), NEW s \in States,
         graphs' = [graphs EXCEPT ![active] = WithState(Current, n, s)]
  PROVE  \A v \in Versions : graphs'[v] \in Graph => IsValid(graphs'[v])
<1>1. MemoryType /\ active \in Versions /\ Current = graphs[active] /\ Current \in Graph
  BY NothingLeft
<1>2. Shape(WithState(Current, n, s)) = Shape(Current)
  BY <1>1, WithStateGraph
<1>3. IsValid(WithState(Current, n, s))
  BY <1>1, <1>2, ValidByShape DEF FitInv
<1> QED
  BY <1>1, <1>3 DEF FitInv, MemoryType

LEMMA NewVersionFit ==
  ASSUME IInv, FitInv, up, todo = <<>>, NEW plan, NewVersion(plan)
  PROVE  \A v \in Versions : graphs'[v] \in Graph => IsValid(graphs'[v])
<1>1. /\ graphs' = [graphs EXCEPT ![active + 1] = Merge(Current, plan)]
      /\ IsValid(Merge(Current, plan))
  BY DEF NewVersion
<1>2. MemoryType
  BY NothingLeft
<1> QED
  BY <1>1, <1>2 DEF FitInv, MemoryType

LEMMA GraphsFit ==
  ASSUME IInv, FitInv, [Next]_vars
  PROVE  \A v \in Versions : graphs'[v] \in Graph => IsValid(graphs'[v])
<1>1. CASE UNCHANGED graphs
  BY <1>1 DEF FitInv
<1>2. ASSUME NEW g \in InitialGraphs, Create(g)
      PROVE  \A v \in Versions : graphs'[v] \in Graph => IsValid(graphs'[v])
  BY <1>2, Types, InitialGraphsFit DEF Create, IInv, FitInv, MemoryType
<1>3. CASE Recover
  BY <1>3, NotGraphs DEF Recover, FitInv
<1>4. CASE Crash
  BY <1>4, NotGraphs DEF Crash, NoEngine
<1>5. ASSUME NEW n \in Nodes, NEW s \in States, UpdateNodeState(n, s)
      PROVE  \A v \in Versions : graphs'[v] \in Graph => IsValid(graphs'[v])
  BY <1>5, StateFit DEF UpdateNodeState, Idle, SetState
<1>6. ASSUME NEW e \in Escalations, NEW n \in Nodes, NEW l \in EscalationLevels, Escalate(e, n, l)
      PROVE  \A v \in Versions : graphs'[v] \in Graph => IsValid(graphs'[v])
  <2>1. /\ up /\ todo = <<>>
        /\ \/ graphs' = graphs
           \/ /\ n \in NodesOf(Current)
              /\ graphs' = [graphs EXCEPT ![active] = WithState(Current, n, "BLOCKED")]
    BY <1>6 DEF Escalate, Idle
  <2> QED
    BY <1>1, <2>1, StateFit DEF States
<1>7. ASSUME NEW e \in Escalations, NEW d \in {"RESOLVED", "REJECTED"}, ResolveEscalation(e, d)
      PROVE  \A v \in Versions : graphs'[v] \in Graph => IsValid(graphs'[v])
  <2>1. /\ up /\ todo = <<>>
        /\ \/ graphs' = graphs
           \/ \E n \in NodesOf(Current) :
                graphs' = [graphs EXCEPT ![active] = WithState(Current, n, "QUEUED")]
    BY <1>7 DEF ResolveEscalation, Idle
  <2> QED
    BY <1>1, <2>1, StateFit DEF States
<1>8. ASSUME NEW plan, up, todo = <<>>, NewVersion(plan)
      PROVE  \A v \in Versions : graphs'[v] \in Graph => IsValid(graphs'[v])
  BY <1>8, NewVersionFit
<1>9. ASSUME NEW p \in Planners, NEW n \in Nodes, NEW plan \in Plans, ProposeReplan(p, n, plan)
      PROVE  \A v \in Versions : graphs'[v] \in Graph => IsValid(graphs'[v])
  <2>1. /\ up /\ todo = <<>>
        /\ \/ graphs' = graphs
           \/ /\ n \in NodesOf(Current)
              /\ graphs' = [graphs EXCEPT ![active] = WithState(Current, n, "FAILED")]
    BY <1>9 DEF ProposeReplan, Idle, SetState
  <2> QED
    BY <1>1, <2>1, StateFit DEF States
<1>10. CASE Write \/ RefusePropose \/ (\E p \in Planners : Read(p)) \/ UNCHANGED vars
  BY <1>1, <1>10 DEF Write, RefusePropose, Read, vars, memory
<1> QED
  BY <1>2, <1>3, <1>4, <1>5, <1>6, <1>7, <1>8, <1>9, <1>10
  DEF Next, SubmitPlan, Replan, FinishPropose, Idle

LEMMA FitStep ==
  ASSUME IInv, FitInv, [Next]_vars
  PROVE  FitInv'
<1>1. \A v \in Versions : files'[v] \in Graph => IsValid(files'[v])
  <2>1. CASE Write
    BY <2>1, FilesFit DEF Write
  <2>2. CASE Crash
    <3>1. UNCHANGED disk \/ (up /\ todo # <<>> /\ Put(Head(todo), TRUE))
      BY <2>2 DEF Crash
    <3> QED
      BY <3>1, FilesFit DEF disk, FitInv
  <2>3. CASE ~Write /\ ~Crash
    <3>1. UNCHANGED files
      BY <2>3
      DEF Next, Create, Recover, UpdateNodeState, Escalate, ResolveEscalation, SubmitPlan, Read, Replan,
          ProposeReplan, FinishPropose, RefusePropose, NewVersion, vars, disk
    <3> QED
      BY <3>1 DEF FitInv
  <2> QED
    BY <2>1, <2>2, <2>3
<1> QED
  BY <1>1, GraphsFit DEF FitInv

(* When nothing is in progress and nothing is held, a node that waits has  *)
(* only predecessors that are resolved or wait themselves; without cycles  *)
(* one of those that wait has none of the latter.                          *)
LEMMA AcyclicServes ==
  ASSUME NEW g \in Graph, IsValid(g), Acyclic(g),
         NEW w \in NodesOf(g), g.nodes[w] = "CREATED",
         \A n \in NodesOf(g) : g.nodes[n] \notin {"BLOCKED", "VERIFYING"}
  PROVE  \E n \in Frontier(g) : g.nodes[n] \in ActiveStates \/ MayBecome(g, n, "RUNNING")
<1> DEFINE inProgress == {n \in NodesOf(g) : g.nodes[n] \in ActiveStates}
           waiting == {n \in NodesOf(g) : g.nodes[n] = "CREATED"}
<1>1. CASE inProgress # {}
  BY <1>1 DEF Frontier
<1>2. CASE inProgress = {}
  <2>1. waiting \in (SUBSET NodesOf(g)) \ {{}}
    OBVIOUS
  <2>2. PICK n \in waiting : Predecessors(g, n) \cap waiting = {}
    BY <2>1 DEF Acyclic
  <2>3. ASSUME NEW m \in Predecessors(g, n)
        PROVE  m \in NodesOf(g) /\ g.nodes[m] \in ResolvedStates
    <3>1. m \in NodesOf(g)
      BY DEF Predecessors, IsValid
    <3>2. g.nodes[m] \in States
      BY <3>1, GraphForm
    <3>3. g.nodes[m] \notin ActiveStates /\ g.nodes[m] # "CREATED"
      BY <1>2, <2>2, <3>1
    <3> QED
      BY <3>1, <3>2, <3>3 DEF States, ActiveStates, ResolvedStates
  <2>4. PredecessorsResolved(g, n)
    BY <2>3 DEF PredecessorsResolved
  <2>5. n \in Frontier(g)
    BY <1>2, <2>4 DEF Frontier
  <2>6. MayBecome(g, n, "RUNNING")
    BY <2>4, <2>5 DEF MayBecome, ValidTransitions
  <2> QED
    BY <2>5, <2>6
<1> QED
  BY <1>1, <1>2

-----------------------------------------------------------------------------
(***************************************************************************)
(* What is proved                                                          *)
(***************************************************************************)

(* The strengthened invariant: at every point between two writes, what     *)
(* differs between the memory and the files is what is still to be         *)
(* written (FileGraphStore and its callers in ExecutionGraphEngine).       *)
THEOREM Inductive == Spec => []IInv
BY InitStep, Invariant, PTL DEF Spec

(* Engine, files, running call and planners keep their types.              *)
THEOREM TypeCorrect == Spec => []TypeOK
<1>1. IInv => TypeOK
  BY DEF IInv
<1> QED
  BY <1>1, Inductive, PTL

(* When a call of the engine has returned, the store would give back the   *)
(* version and the escalations that are in memory.                         *)
THEOREM Durable == Spec => []ActiveIsDurable
<1>1. IInv => ActiveIsDurable
  BY NothingLeft
  DEF ActiveIsDurable, Idle, GraphSaved, LatestSaved, AllEscalationsSaved, EscalationSaved
<1> QED
  BY <1>1, Inductive, PTL

LEMMA FilesOfHistoryKept ==
  ASSUME IInv, [Next]_vars
  PROVE  \A v \in Versions : v < latest => files'[v] = files[v]
<1>1. CASE Write
  BY <1>1, PutLeft DEF Write
<1>2. CASE Crash
  <2>1. UNCHANGED disk \/ (up /\ todo # <<>> /\ Put(Head(todo), TRUE))
    BY <1>2 DEF Crash
  <2> QED
    BY <2>1, PutLeft DEF disk
<1>3. CASE ~Write /\ ~Crash
  <2>1. UNCHANGED files
    BY <1>3
    DEF Next, Create, Recover, UpdateNodeState, Escalate, ResolveEscalation, SubmitPlan, Read, Replan,
        ProposeReplan, FinishPropose, RefusePropose, NewVersion, vars, disk
  <2> QED
    BY <2>1
<1> QED
  BY <1>1, <1>2, <1>3

LEMMA GraphsOfHistoryKept ==
  ASSUME IInv, [Next]_vars, up, up'
  PROVE  \A v \in Versions : v < active' => graphs'[v] = graphs[v]
<1>1. MemoryType /\ active \in Versions /\ active \in Nat
  BY Types, NumbersOfVersions DEF IInv, UpInv
<1>2. \/ UNCHANGED <<graphs, active>>
      \/ UNCHANGED active /\ \E h : graphs' = [graphs EXCEPT ![active] = h]
      \/ active' = active + 1 /\ \E h : graphs' = [graphs EXCEPT ![active + 1] = h]
  <2>1. CASE Write \/ RefusePropose \/ (\E p \in Planners : Read(p)) \/ UNCHANGED vars
    BY <2>1 DEF Write, RefusePropose, Read, vars, memory
  <2>2. CASE \E n \in Nodes, s \in States : UpdateNodeState(n, s)
    BY <2>2 DEF UpdateNodeState, SetState
  <2>3. CASE \E e \in Escalations, n \in Nodes, l \in EscalationLevels : Escalate(e, n, l)
    BY <2>3 DEF Escalate
  <2>4. CASE \E e \in Escalations, d \in {"RESOLVED", "REJECTED"} : ResolveEscalation(e, d)
    BY <2>4 DEF ResolveEscalation
  <2>5. CASE \E plan : NewVersion(plan)
    BY <2>5 DEF NewVersion
  <2>6. CASE \E p \in Planners, n \in Nodes, plan \in Plans : ProposeReplan(p, n, plan)
    BY <2>6 DEF ProposeReplan, SetState
  <2>7. ~Crash /\ ~Recover /\ \A g \in InitialGraphs : ~Create(g)
    BY DEF Crash, NoEngine, Recover, Create
  <2> QED
    BY <2>1, <2>2, <2>3, <2>4, <2>5, <2>6, <2>7 DEF Next, SubmitPlan, Replan, FinishPropose
<1>3. ASSUME NEW v \in Versions, v < active'
      PROVE  graphs'[v] = graphs[v]
  <2>1. v \in Nat
    BY NumbersOfVersions
  <2>2. CASE UNCHANGED active /\ \E h : graphs' = [graphs EXCEPT ![active] = h]
    BY <1>1, <1>3, <2>1, <2>2 DEF MemoryType
  <2>3. CASE active' = active + 1 /\ \E h : graphs' = [graphs EXCEPT ![active + 1] = h]
    BY <1>1, <1>3, <2>1, <2>3 DEF MemoryType
  <2> QED
    BY <1>2, <2>2, <2>3
<1> QED
  BY <1>3

(* A version that has been replaced (replan) never changes again, in the   *)
(* engine or in its file, whatever is written or torn later.               *)
THEOREM HistoryIsImmutable == Spec => HistoryImmutable
<1> DEFINE Kept ==
      /\ latest # Torn => \A v \in Versions : v < latest => files'[v] = files[v]
      /\ up /\ up' => \A v \in Versions : v < active' => graphs'[v] = graphs[v]
<1>1. IInv /\ [Next]_vars => [Kept]_vars
  BY FilesOfHistoryKept, GraphsOfHistoryKept
<1>2. Spec => [][Kept]_vars
  BY <1>1, Inductive, PTL DEF Spec
<1> QED
  BY <1>2 DEF HistoryImmutable

(* A replan is only accepted for the graph its planner read (the check of  *)
(* baseVersion in propose_replan), also across crashes and recoveries.     *)
THEOREM ReplansAreCurrent == Spec => ReplanSeesItsBase
<1> DEFINE Seen ==
      \A p \in Planners :
        (base[p] # None /\ base'[p] = None) => base[p].shape = Shape(Current)
<1>1. IInv /\ [Next]_vars => [Seen]_vars
  <2> SUFFICES ASSUME IInv, Next, NEW p \in Planners, base[p] # None, base'[p] = None
               PROVE  base[p].shape = Shape(Current)
    OBVIOUS
  <2>1. CallType
    BY Types DEF IInv
  <2>2. up /\ IsCurrent(p)
    <3>1. ASSUME NEW q \in Planners, NEW plan \in Plans, Replan(q, plan)
          PROVE  up /\ IsCurrent(p)
      BY <2>1, <3>1 DEF Replan, Idle, CallType
    <3>2. CASE FinishPropose
      BY <2>1, <3>2 DEF FinishPropose, IInv, ContInv, CallType
    <3>3. ASSUME NEW q \in Planners, Read(q)
          PROVE  FALSE
      <4> DEFINE b == [version |-> active, shape |-> Shape(Current)]
      <4>1. up /\ todo = <<>> /\ base' = [base EXCEPT ![q] = b]
        BY <3>3 DEF Read, Idle
      <4>2. b \in Base
        BY <4>1, NothingLeft, ShapeType DEF Base
      <4> HIDE DEF b
      <4> QED
        BY <2>1, <4>1, <4>2, NotRecords DEF CallType
    <3>4. UNCHANGED base \/ FinishPropose \/ (\E q \in Planners : Read(q))
             \/ \E q \in Planners, plan \in Plans : Replan(q, plan)
      BY DEF Next, Create, Recover, Write, Crash, UpdateNodeState, Escalate, ResolveEscalation,
             SubmitPlan, ProposeReplan, RefusePropose
    <3> QED
      BY <3>1, <3>2, <3>3, <3>4
  <2>3. SeesGraph(base[p]) /\ active \in Versions /\ Current \in Graph
    BY <2>2 DEF IInv, BaseInv, UpInv
  <2> QED
    BY <2>2, <2>3 DEF IsCurrent, SeesGraph, Current
<1>2. Spec => [][Seen]_vars
  BY <1>1, Inductive, PTL DEF Spec
<1> QED
  BY <1>2 DEF ReplanSeesItsBase

(* Every graph the engine has or has stored has its edges between its own  *)
(* nodes (validateGraph), across crashes, torn files and recoveries.       *)
THEOREM GraphsStayValid == Spec => []FitInv
BY InitFit, FitStep, Inductive, PTL DEF Spec

(* A plan without cycles never runs dry, whatever its size: when a call    *)
(* has returned, getFrontier offers a node in progress or one that         *)
(* updateNodeState would start, unless no node waits or one is held.       *)
THEOREM FrontierNeverDry == Spec => []FrontierServes
<1>1. IInv /\ FitInv => FrontierServes
  <2> SUFFICES ASSUME IInv, FitInv, Idle, Acyclic(Current),
                      NEW w \in NodesOf(Current), Current.nodes[w] = "CREATED",
                      \A n \in NodesOf(Current) :
                        Current.nodes[n] \notin {"BLOCKED", "VERIFYING"}
               PROVE  \E n \in Frontier(Current) :
                        \/ Current.nodes[n] \in ActiveStates
                        \/ MayBecome(Current, n, "RUNNING")
    BY DEF FrontierServes
  <2>1. active \in Versions /\ Current \in Graph /\ Current = graphs[active]
    BY NothingLeft DEF Idle
  <2>2. IsValid(Current)
    BY <2>1 DEF FitInv
  <2> QED
    BY <2>1, <2>2, AcyclicServes
<1> QED
  BY <1>1, Inductive, GraphsStayValid, PTL

=============================================================================

------------------------- MODULE ControlPlane_proofs -------------------------
(***************************************************************************)
(* Proofs about TaskController for any set of tasks, any retry limit and   *)
(* any statuses callers ask for, and about AgentController for any agents  *)
(* and sessions and any number of endings in flight.                       *)
(*                                                                         *)
(* Tasks.  The invariant is type correctness, soundness of the graph,      *)
(* StartsAfterPrerequisites and that finitely many tasks have been         *)
(* created.  The graph is what makes the statuses sound: that a task is    *)
(* not among its own prerequisites is why the completion of one task can   *)
(* queue others without touching itself.  That the graph stays free of     *)
(* cycles rests on what the search of validateNoCycles finds, which is     *)
(* proved in Search_proofs for every finite graph.                         *)
(*                                                                         *)
(* Agents.  Everything rests on one fact: a session is created once, so at *)
(* most one start is ever on its way in it, and that start is over before  *)
(* a record of an agent can lead to the session.  However old the record   *)
(* is that an ending works with, the runtime it names has been there, and  *)
(* when it has been terminated nothing brings it back.  For the agents     *)
(* whose commands never overlapped a second invariant is built on it:      *)
(* their sessions are their own, and the record, the session and the       *)
(* runtime move together.                                                  *)
(***************************************************************************)
EXTENDS TaskController, AgentController, Search_proofs

(***************************************************************************)
(* Tasks.                                                                  *)
(***************************************************************************)

TaskInv == TypeOK /\ GraphSound /\ StartsAfterPrerequisites /\ IsFiniteSet(Created)

-----------------------------------------------------------------------------
(* Appending to a list of dependents adds one entry and keeps the others.  *)
LEMMA AppendKeeps ==
  ASSUME NEW list \in Seq(Task), NEW t \in Task
  PROVE  /\ Append(list, t) \in Seq(Task)
         /\ \A u \in Task : Listed(Append(list, t), u) <=> (u = t \/ Listed(list, u))
<1> DEFINE more == Append(list, t)
<1>1. /\ more \in Seq(Task) /\ Len(list) \in Nat /\ Len(more) = Len(list) + 1
      /\ \A i \in 1..Len(list) : more[i] = list[i]
      /\ more[Len(list) + 1] = t
      /\ DOMAIN list = 1..Len(list) /\ DOMAIN more = 1..Len(more)
  OBVIOUS
<1> HIDE DEF more
<1>2. ASSUME NEW u \in Task, NEW i \in DOMAIN more, more[i] = u
      PROVE  u = t \/ \E j \in DOMAIN list : list[j] = u
  <2>1. CASE i = Len(list) + 1
    BY <1>1, <1>2, <2>1
  <2>2. CASE i \in 1..Len(list)
    BY <1>1, <1>2, <2>2
  <2> QED
    BY <1>1, <2>1, <2>2
<1>3. ASSUME NEW u \in Task, u = t \/ \E j \in DOMAIN list : list[j] = u
      PROVE  \E i \in DOMAIN more : more[i] = u
  <2>1. CASE u = t
    <3>1. Len(list) + 1 \in DOMAIN more
      BY <1>1
    <3> QED
      BY <1>1, <2>1, <3>1
  <2>2. CASE \E j \in DOMAIN list : list[j] = u
    BY <1>1, <2>2
  <2> QED
    BY <1>3, <2>1, <2>2
<1> QED
  BY <1>1, <1>2, <1>3 DEF more, Listed

(* What a status change does: the task itself gets the new status, and a   *)
(* completion may queue PLANNED tasks all of whose prerequisites are       *)
(* complete.  Nothing leaves COMPLETED this way.                           *)
LEMMA AdvanceMeans ==
  ASSUME TypeOK, NEW t \in Task, NEW s \in TaskStatus, Advance(t, s)
  PROVE  /\ t \in Created /\ status[t] # "COMPLETED"
         /\ status' \in [Task -> TaskStatus \cup {Absent}]
         /\ status'[t] = s
         /\ \A d \in Task : d # t =>
               \/ status'[d] = status[d]
               \/ /\ status[d] = "PLANNED" /\ status'[d] = "QUEUED"
                  /\ \A q \in dependencies[d] : status'[q] = "COMPLETED"
         /\ s \in {"QUEUED", "RUNNING"} => \A q \in dependencies[t] : status[q] = "COMPLETED"
         /\ late' = {e \in late : status'[e[1]] = status[e[1]]}
         /\ reopened' = {p \in reopened : status'[p] # "COMPLETED"}
<1> DEFINE st == [status EXCEPT ![t] = s]
<1>1. /\ st \in [Task -> TaskStatus \cup {Absent}]
      /\ st[t] = s
      /\ \A d \in Task : d # t => st[d] = status[d]
  BY DEF TypeOK
<1>2. status' = StatusAfter(t, s) /\ Record(StatusAfter(t, s)) /\ MayAdvance(t, s)
  BY DEF Advance
<1>3. /\ t \in Created /\ status[t] # "COMPLETED"
      /\ s \in {"QUEUED", "RUNNING"} => \A q \in dependencies[t] : status[q] = "COMPLETED"
  BY <1>2, Zenon DEF MayAdvance, CanTransition, Created, Absent, Resolved
<1>4. /\ late' = {e \in late : status'[e[1]] = status[e[1]]}
      /\ reopened' = {p \in reopened : status'[p] # "COMPLETED"}
  BY <1>2 DEF Record
<1>5. CASE s # "COMPLETED"
  <2>1. status' = st
    BY <1>2, <1>5 DEF StatusAfter
  <2> QED
    BY <1>1, <1>3, <1>4, <2>1
<1>6. CASE s = "COMPLETED"
  <2>1. status' = [d \in Task |-> IF d \in Woken(st, t) THEN "QUEUED" ELSE st[d]]
    BY <1>2, <1>6 DEF StatusAfter
  <2>2. \A d \in Woken(st, t) : st[d] = "PLANNED" /\ Resolved(st, d)
    BY DEF Woken
  <2>3. \A q \in Task : st[q] = "COMPLETED" => status'[q] = "COMPLETED"
    BY <2>1, <2>2
  <2>4. status'[t] = s
    BY <1>1, <1>6, <2>3
  <2>5. \A d \in Task : dependencies[d] \subseteq Task
    BY DEF TypeOK
  <2>6. ASSUME NEW d \in Task, d # t, status'[d] # status[d]
        PROVE  /\ status[d] = "PLANNED" /\ status'[d] = "QUEUED"
               /\ \A q \in dependencies[d] : status'[q] = "COMPLETED"
    <3>1. d \in Woken(st, t)
      BY <1>1, <2>1, <2>6
    <3>2. status'[d] = "QUEUED" /\ status[d] = "PLANNED"
      BY <1>1, <2>1, <2>2, <2>6, <3>1
    <3> QED
      BY <2>2, <2>3, <2>5, <3>1, <3>2 DEF Resolved
  <2>7. status' \in [Task -> TaskStatus \cup {Absent}]
    <3>1. "QUEUED" \in TaskStatus \cup {Absent}
      BY DEF TaskStatus
    <3> QED
      BY <1>1, <2>1, <3>1
  <2> QED
    BY <1>3, <1>4, <2>4, <2>6, <2>7
<1> QED
  BY <1>5, <1>6

(* A status change keeps every part of the invariant, the graph being left *)
(* alone.                                                                  *)
LEMMA AdvanceKeeps ==
  ASSUME TaskInv, NEW t \in Task, NEW s \in TaskStatus, Advance(t, s), UNCHANGED graphVars
  PROVE  /\ status' \in [Task -> TaskStatus \cup {Absent}]
         /\ late' \subseteq Task \X Task /\ reopened' \subseteq Task
         /\ GraphSound' /\ StartsAfterPrerequisites' /\ Created' = Created
<1> USE DEF TaskInv
<1>1. /\ t \in Created /\ status[t] # "COMPLETED"
      /\ status' \in [Task -> TaskStatus \cup {Absent}]
      /\ status'[t] = s
      /\ \A d \in Task : d # t =>
            \/ status'[d] = status[d]
            \/ /\ status[d] = "PLANNED" /\ status'[d] = "QUEUED"
               /\ \A q \in dependencies[d] : status'[q] = "COMPLETED"
      /\ s \in {"QUEUED", "RUNNING"} => \A q \in dependencies[t] : status[q] = "COMPLETED"
      /\ late' = {e \in late : status'[e[1]] = status[e[1]]}
      /\ reopened' = {p \in reopened : status'[p] # "COMPLETED"}
  BY AdvanceMeans
<1>2. dependencies' = dependencies /\ dependents' = dependents
  BY DEF graphVars
<1>3. late' \subseteq Task \X Task /\ reopened' \subseteq Task
  BY <1>1 DEF TypeOK
<1>4. GraphSound'
  <2>1. Created \subseteq Created'
    BY <1>1 DEF Created, Absent, TaskStatus
  <2>2. Mirrored' /\ ~Cyclic(dependencies)'
    BY <1>2 DEF GraphSound, Mirrored
  <2>3. /\ \A u \in Task : dependencies'[u] \subseteq Created' \ {u}
        /\ \A u \in Task \ Created' : dependencies'[u] = {}
    BY <1>2, <2>1 DEF GraphSound
  <2> QED
    BY <2>2, <2>3 DEF GraphSound
<1>5. StartsAfterPrerequisites'
  <2> SUFFICES ASSUME NEW u \in Task, status'[u] \in {"QUEUED", "RUNNING"},
                      NEW p \in dependencies[u],
                      status'[p] # "COMPLETED"
               PROVE  <<u, p>> \in late' \/ p \in reopened'
    BY <1>2 DEF StartsAfterPrerequisites
  <2>1. p \in Task
    BY DEF TypeOK
  <2>2. status[p] # "COMPLETED"
    BY <1>1, <2>1
  <2>3. status'[u] = status[u]
    BY <1>1, <2>2
  <2>4. <<u, p>> \in late \/ p \in reopened
    BY <2>2, <2>3 DEF StartsAfterPrerequisites
  <2>5. CASE <<u, p>> \in late
    <3>1. <<u, p>>[1] = u
      OBVIOUS
    <3> QED
      BY <1>1, <2>3, <2>5, <3>1
  <2>6. CASE p \in reopened
    BY <1>1, <2>6
  <2> QED
    BY <2>4, <2>5, <2>6
<1>6. Created' = Created
  <2>1. ASSUME NEW u \in Task PROVE status'[u] = Absent <=> status[u] = Absent
    <3>1. CASE u = t
      BY <1>1, <3>1 DEF Created, Absent, TaskStatus
    <3>2. CASE u # t
      BY <1>1, <3>2 DEF Absent
    <3> QED
      BY <3>1, <3>2
  <2> QED
    BY <2>1 DEF Created
<1> QED
  BY <1>1, <1>3, <1>4, <1>5, <1>6

-----------------------------------------------------------------------------
(* A cycle of the graph is a cycle among the created tasks, the ones the   *)
(* searches go through: no other has or is a prerequisite.                 *)
LEMMA CyclicAmongTasks ==
  ASSUME NEW d \in [Task -> SUBSET Task]
  PROVE  Cyclic(d) <=> \E S \in SUBSET Task : S # {} /\ \A t \in S : \E p \in S : p \in d[t]
<1>1. DOMAIN d = Task
  OBVIOUS
<1> QED
  BY <1>1 DEF Cyclic

LEMMA LinksAreGraph ==
  ASSUME NEW d \in [Task -> SUBSET Task], IsFiniteSet(Created),
         \A t \in Task : d[t] \subseteq Created, \A t \in Task \ Created : d[t] = {}
  PROVE  /\ IsGraph(Links(d))
         /\ Cyclic(Links(d)) <=> Cyclic(d)
<1> DEFINE g == Links(d)
<1>1. DOMAIN g = Created /\ (\A t \in Created : g[t] = d[t]) /\ Created \subseteq Task
  BY DEF Links, Created
<1> HIDE DEF g
<1>2. IsGraph(g)
  BY <1>1 DEF IsGraph
<1>3. ASSUME NEW S \in SUBSET Task, \A t \in S : \E p \in S : p \in d[t]
      PROVE  S \in SUBSET Created
  BY <1>3
<1>4. Cyclic(g) <=> Cyclic(d)
  <2>1. ASSUME Cyclic(g) PROVE Cyclic(d)
    <3>1. PICK S \in SUBSET Created : S # {} /\ \A t \in S : \E p \in S : p \in g[t]
      BY <1>1, <2>1 DEF Cyclic
    <3>2. S \in SUBSET Task /\ \A t \in S : \E p \in S : p \in d[t]
      BY <1>1, <3>1
    <3> QED
      BY <3>1, <3>2, CyclicAmongTasks
  <2>2. ASSUME Cyclic(d) PROVE Cyclic(g)
    <3>1. PICK S \in SUBSET Task : S # {} /\ \A t \in S : \E p \in S : p \in d[t]
      BY <2>2, CyclicAmongTasks
    <3>2. S \in SUBSET Created
      BY <1>3, <3>1
    <3>3. \A t \in S : \E p \in S : p \in g[t]
      BY <1>1, <3>1, <3>2
    <3> QED
      BY <1>1, <3>1, <3>2, <3>3 DEF Cyclic
  <2> QED
    BY <2>1, <2>2
<1> QED
  BY <1>2, <1>4 DEF g

LEMMA TaskInitHolds == TaskInit => TaskInv
<1> SUFFICES ASSUME TaskInit PROVE TaskInv
  OBVIOUS
<1>1. TypeOK
  BY DEF TaskInit, TypeOK
<1>2. GraphSound
  <2>1. \A t \in Task : dependencies[t] = {} /\ dependents[t] = <<>>
    BY DEF TaskInit
  <2>2. \A t \in Task : ~Listed(<<>>, t)
    BY DEF Listed
  <2>3. Mirrored
    BY <2>1, <2>2 DEF Mirrored
  <2>4. ~Cyclic(dependencies)
    BY <2>1, CyclicAmongTasks DEF TaskInit
  <2> QED
    BY <2>1, <2>3, <2>4 DEF GraphSound
<1>3. StartsAfterPrerequisites
  BY DEF TaskInit, StartsAfterPrerequisites
<1>4. IsFiniteSet(Created)
  <2>1. Created = {}
    BY DEF TaskInit, Created
  <2> QED
    BY <2>1, FS_EmptySet
<1> QED
  BY <1>1, <1>2, <1>3, <1>4 DEF TaskInv

(* A new task has prerequisites and no dependents: it closes no cycle, as  *)
(* a cycle through it would go on without it.                              *)
LEMMA CreateKeeps ==
  ASSUME TaskInv, NEW t \in Task, NEW deps \in SUBSET Task, CreateTask(t, deps)
  PROVE  TaskInv'
<1> USE DEF TaskInv
<1>1. /\ t \notin Created /\ deps \subseteq Created /\ t \notin deps
      /\ status \in [Task -> TaskStatus \cup {Absent}]
      /\ dependencies \in [Task -> SUBSET Task]
      /\ dependents \in [Task -> Seq(Task)]
  BY DEF CreateTask, Created, TypeOK
<1>2. /\ dependencies' = [dependencies EXCEPT ![t] = deps]
      /\ dependencies'[t] = deps
      /\ \A u \in Task : u # t => dependencies'[u] = dependencies[u]
  BY <1>1 DEF CreateTask
<1>3. /\ \A u \in Task : u # t => status'[u] = status[u]
      /\ status'[t] \in {"QUEUED", "PLANNED"}
      /\ status'[t] = "QUEUED" => deps = {}
      /\ status' \in [Task -> TaskStatus \cup {Absent}]
      /\ late' = late /\ reopened' = reopened
      /\ currentRetry' = currentRetry /\ timers' = timers
  BY <1>1 DEF CreateTask, TaskStatus
<1>4. /\ dependents' \in [Task -> Seq(Task)]
      /\ \A d \in Task : dependents'[d] = IF d \in deps THEN Append(dependents[d], t)
                                                         ELSE dependents[d]
  <2>1. \A d \in Task : dependents[d] \in Seq(Task) /\ Append(dependents[d], t) \in Seq(Task)
    BY <1>1, AppendKeeps
  <2> QED
    BY <2>1 DEF CreateTask
<1>5. TypeOK'
  BY <1>1, <1>2, <1>3, <1>4 DEF TypeOK
<1>6. Created' = Created \cup {t}
  BY <1>1, <1>3 DEF Created, Absent
<1>7. /\ \A u \in Task : dependencies'[u] \subseteq Created' \ {u}
      /\ \A u \in Task \ Created' : dependencies'[u] = {}
  BY <1>1, <1>2, <1>6 DEF GraphSound
<1>8. Mirrored'
  <2> SUFFICES ASSUME NEW u \in Task, NEW p \in Task, u # p
               PROVE  p \in dependencies'[u] <=> Listed(dependents'[p], u)
    BY DEF Mirrored
  <2>1. p \in dependencies[u] <=> Listed(dependents[p], u)
    BY DEF GraphSound, Mirrored
  <2>2. dependents[p] \in Seq(Task)
    BY <1>1
  <2>3. u = t => p \notin dependencies[u]
    BY <1>1 DEF GraphSound
  <2>4. CASE p \in deps
    <3>1. Listed(dependents'[p], u) <=> (u = t \/ Listed(dependents[p], u))
      BY <1>4, <2>2, <2>4, AppendKeeps
    <3> QED
      BY <1>2, <2>1, <2>4, <3>1
  <2>5. CASE p \notin deps
    <3>1. dependents'[p] = dependents[p]
      BY <1>4, <2>5
    <3>2. u = t => p \notin dependencies'[u]
      BY <1>2, <2>5
    <3> QED
      BY <1>2, <2>1, <2>3, <3>1, <3>2
  <2> QED
    BY <2>4, <2>5
<1>9. ~Cyclic(dependencies')
  <2> SUFFICES ASSUME NEW S \in SUBSET Task, S # {},
                      \A u \in S : \E p \in S : p \in dependencies'[u]
               PROVE  FALSE
    BY <1>5, CyclicAmongTasks DEF TypeOK
  <2> DEFINE R == S \ {t}
  <2>1. \A u \in R : \E p \in R : p \in dependencies[u]
    <3> TAKE u \in R
    <3>1. PICK p \in S : p \in dependencies[u]
      BY <1>2
    <3>2. p # t
      BY <1>1, <3>1 DEF GraphSound
    <3> QED
      BY <3>1, <3>2
  <2>2. R # {}
    <3>1. CASE t \in S
      <4>1. PICK p \in S : p \in deps
        BY <1>2, <3>1
      <4> QED
        BY <1>1, <4>1
    <3> QED
      BY <3>1
  <2>3. Cyclic(dependencies)
    <3>1. R \in SUBSET Task
      OBVIOUS
    <3> HIDE DEF R
    <3> QED
      BY <1>1, <2>1, <2>2, <3>1, CyclicAmongTasks
  <2> QED
    BY <2>3 DEF GraphSound
<1>10. StartsAfterPrerequisites'
  <2> SUFFICES ASSUME NEW u \in Task, status'[u] \in {"QUEUED", "RUNNING"},
                      NEW p \in dependencies'[u]
               PROVE  status'[p] = "COMPLETED" \/ <<u, p>> \in late' \/ p \in reopened'
    BY DEF StartsAfterPrerequisites
  <2>1. u # t
    BY <1>2, <1>3
  <2>2. p \in dependencies[u] /\ p \in Created /\ p \in Task
    BY <1>2, <2>1 DEF GraphSound, Created
  <2>3. status'[p] = status[p] /\ status'[u] = status[u]
    BY <1>1, <1>3, <2>1, <2>2
  <2> QED
    BY <1>3, <2>2, <2>3 DEF StartsAfterPrerequisites
<1>11. IsFiniteSet(Created)'
  BY <1>6, FS_AddElement
<1> QED
  BY <1>5, <1>7, <1>8, <1>9, <1>10, <1>11 DEF GraphSound

LEMMA AddKeeps ==
  ASSUME TaskInv, NEW t \in Task, NEW p \in Task, AddDependency(t, p)
  PROVE  TaskInv'
<1> USE DEF TaskInv
<1>1. /\ t \in Created /\ p \in Created /\ t # p
      /\ dependencies \in [Task -> SUBSET Task]
      /\ dependents \in [Task -> Seq(Task)]
  BY DEF AddDependency, TypeOK
<1>2. /\ dependencies' = [dependencies EXCEPT ![t] = dependencies[t] \cup {p}]
      /\ dependencies' \in [Task -> SUBSET Task]
      /\ ~FindsCycle(Links(dependencies'))
      /\ dependencies'[t] = dependencies[t] \cup {p}
      /\ \A u \in Task : u # t => dependencies'[u] = dependencies[u]
  BY <1>1 DEF AddDependency
<1>3. /\ dependents' = [dependents EXCEPT ![p] = Append(dependents[p], t)]
      /\ Append(dependents[p], t) \in Seq(Task)
      /\ dependents'[p] = Append(dependents[p], t)
      /\ \A u \in Task : u # p => dependents'[u] = dependents[u]
  BY <1>1, AppendKeeps DEF AddDependency
<1>4. /\ status' = status /\ reopened' = reopened /\ late \subseteq late'
      /\ currentRetry' = currentRetry /\ timers' = timers
      /\ status[t] \in {"QUEUED", "RUNNING"} => <<t, p>> \in late'
      /\ late' \subseteq Task \X Task
  BY SMTT(30) DEF AddDependency, TypeOK
<1>5. TypeOK'
  BY <1>1, <1>2, <1>3, <1>4 DEF TypeOK
<1>6. /\ \A u \in Task : dependencies'[u] \subseteq Created' \ {u}
      /\ \A u \in Task \ Created' : dependencies'[u] = {}
  <2>1. Created' = Created
    BY <1>4 DEF Created
  <2> QED
    BY <1>1, <1>2, <2>1 DEF GraphSound
<1>7. Mirrored'
  <2> SUFFICES ASSUME NEW u \in Task, NEW q \in Task, u # q
               PROVE  q \in dependencies'[u] <=> Listed(dependents'[q], u)
    BY DEF Mirrored
  <2>1. q \in dependencies[u] <=> Listed(dependents[q], u)
    BY DEF GraphSound, Mirrored
  <2>2. CASE q = p
    <3>1. Listed(dependents'[q], u) <=> (u = t \/ Listed(dependents[q], u))
      BY <1>1, <1>3, <2>2, AppendKeeps
    <3> QED
      BY <1>2, <2>1, <2>2, <3>1
  <2>3. CASE q # p
    BY <1>2, <1>3, <2>1, <2>3
  <2> QED
    BY <2>2, <2>3
<1>8. ~Cyclic(dependencies')
  <2>1. /\ \A u \in Task : dependencies'[u] \subseteq Created
        /\ \A u \in Task \ Created : dependencies'[u] = {}
    BY <1>1, <1>2 DEF GraphSound
  <2>2. IsGraph(Links(dependencies')) /\ (Cyclic(Links(dependencies')) <=> Cyclic(dependencies'))
    BY <1>2, <2>1, LinksAreGraph
  <2> QED
    BY <1>2, <2>2, FindsEveryCycle
<1>9. IsFiniteSet(Created)'
  BY <1>4 DEF Created
<1>10. StartsAfterPrerequisites'
  <2> SUFFICES ASSUME NEW u \in Task, status[u] \in {"QUEUED", "RUNNING"},
                      NEW q \in dependencies'[u]
               PROVE  status[q] = "COMPLETED" \/ <<u, q>> \in late' \/ q \in reopened
    BY <1>4 DEF StartsAfterPrerequisites
  <2>1. CASE u = t /\ q = p
    BY <1>4, <2>1
  <2>2. CASE q \in dependencies[u]
    BY <1>4, <2>2 DEF StartsAfterPrerequisites
  <2> QED
    BY <1>2, <2>1, <2>2
<1> QED
  BY <1>5, <1>6, <1>7, <1>8, <1>9, <1>10 DEF GraphSound

LEMMA AddSelfKeeps ==
  ASSUME TaskInv, NEW t \in Task, AddSelfDependency(t)
  PROVE  TaskInv'
<1> USE DEF TaskInv
<1>1. /\ dependents' = [dependents EXCEPT ![t] = Append(dependents[t], t)]
      /\ dependents \in [Task -> Seq(Task)]
      /\ status' = status /\ dependencies' = dependencies /\ currentRetry' = currentRetry
      /\ timers' = timers /\ late' = late /\ reopened' = reopened
  BY DEF AddSelfDependency, TypeOK
<1>2. /\ Append(dependents[t], t) \in Seq(Task)
      /\ dependents'[t] = Append(dependents[t], t)
      /\ \A u \in Task : u # t => dependents'[u] = dependents[u]
  BY <1>1, AppendKeeps
<1>3. TypeOK'
  BY <1>1, <1>2 DEF TypeOK
<1>4. Mirrored'
  <2> SUFFICES ASSUME NEW u \in Task, NEW q \in Task, u # q
               PROVE  q \in dependencies[u] <=> Listed(dependents'[q], u)
    BY <1>1 DEF Mirrored
  <2>1. q \in dependencies[u] <=> Listed(dependents[q], u)
    BY DEF GraphSound, Mirrored
  <2>2. CASE q = t
    BY <1>1, <1>2, <2>1, <2>2, AppendKeeps
  <2>3. CASE q # t
    BY <1>2, <2>1, <2>3
  <2> QED
    BY <2>2, <2>3
<1>5. StartsAfterPrerequisites' /\ ~Cyclic(dependencies') /\ Created' = Created
  BY <1>1 DEF StartsAfterPrerequisites, GraphSound, Created
<1> QED
  BY <1>1, <1>3, <1>4, <1>5 DEF GraphSound

LEMMA RetryKeeps ==
  ASSUME TaskInv, NEW t \in Task, NEW force, RetryTask(t, force)
  PROVE  TaskInv'
<1> USE DEF TaskInv
<1>1. /\ t \in Created
      /\ status' = [status EXCEPT ![t] = "RETRY"]
      /\ status'[t] = "RETRY"
      /\ \A u \in Task : u # t => status'[u] = status[u]
      /\ dependencies' = dependencies /\ dependents' = dependents
      /\ late' = {e \in late : e[1] # t}
      /\ reopened \subseteq reopened'
      /\ status[t] = "COMPLETED" => t \in reopened'
  BY DEF RetryTask, TypeOK, graphVars
<1>2. TypeOK'
  <2>1. status' \in [Task -> TaskStatus \cup {Absent}]
    BY <1>1 DEF TypeOK, TaskStatus
  <2>2. currentRetry' \in [Task -> Nat] /\ timers' \in [Task -> Nat]
    BY DEF RetryTask, TypeOK
  <2>3. late' \subseteq Task \X Task /\ reopened' \subseteq Task
    BY <1>1 DEF RetryTask, TypeOK
  <2> QED
    BY <1>1, <2>1, <2>2, <2>3 DEF TypeOK
<1>3. GraphSound'
  <2>1. Created \subseteq Created'
    BY <1>1 DEF Created, Absent
  <2>2. Mirrored' /\ ~Cyclic(dependencies)'
    BY <1>1 DEF GraphSound, Mirrored
  <2> QED
    BY <1>1, <2>1, <2>2 DEF GraphSound
<1>4. StartsAfterPrerequisites'
  <2> SUFFICES ASSUME NEW u \in Task, status'[u] \in {"QUEUED", "RUNNING"},
                      NEW p \in dependencies[u]
               PROVE  status'[p] = "COMPLETED" \/ <<u, p>> \in late' \/ p \in reopened'
    BY <1>1 DEF StartsAfterPrerequisites
  <2>1. u # t /\ status'[u] = status[u] /\ p \in Task
    BY <1>1 DEF TypeOK
  <2>2. <<u, p>>[1] = u
    OBVIOUS
  <2>3. status[p] = "COMPLETED" \/ <<u, p>> \in late \/ p \in reopened
    BY <2>1 DEF StartsAfterPrerequisites
  <2> QED
    BY <1>1, <2>1, <2>2, <2>3
<1>5. IsFiniteSet(Created)'
  BY <1>1 DEF Created, Absent
<1> QED
  BY <1>2, <1>3, <1>4, <1>5

(* The other actions advance one task and leave the graph alone.           *)
LEMMA StatusStepKeeps ==
  ASSUME TaskInv, NEW t \in Task, NEW s \in TaskStatus, Advance(t, s), UNCHANGED graphVars,
         currentRetry' \in [Task -> Nat], timers' \in [Task -> Nat]
  PROVE  TaskInv'
<1>1. /\ status' \in [Task -> TaskStatus \cup {Absent}]
      /\ late' \subseteq Task \X Task /\ reopened' \subseteq Task
      /\ GraphSound' /\ StartsAfterPrerequisites' /\ Created' = Created
  BY AdvanceKeeps
<1>2. dependencies' = dependencies /\ dependents' = dependents
  BY DEF graphVars
<1>3. dependencies \in [Task -> SUBSET Task] /\ dependents \in [Task -> Seq(Task)]
  BY DEF TaskInv, TypeOK
<1>4. TypeOK'
  BY <1>1, <1>2, <1>3 DEF TypeOK
<1>5. IsFiniteSet(Created)'
  BY <1>1 DEF TaskInv
<1> QED
  BY <1>1, <1>4, <1>5 DEF TaskInv

(* The counters are free as long as nothing else changes.                  *)
LEMMA SameIsKept ==
  ASSUME TaskInv,
         status' = status, dependencies' = dependencies, dependents' = dependents,
         late' = late, reopened' = reopened,
         currentRetry' \in [Task -> Nat], timers' \in [Task -> Nat]
  PROVE  TaskInv'
<1>1. TypeOK'
  BY DEF TaskInv, TypeOK
<1>2. Mirrored' /\ ~Cyclic(dependencies') /\ Created' = Created
  BY DEF TaskInv, GraphSound, Mirrored, Created
<1>3. GraphSound'
  BY <1>2 DEF TaskInv, GraphSound
<1>4. StartsAfterPrerequisites'
  BY DEF TaskInv, StartsAfterPrerequisites
<1>5. IsFiniteSet(Created)'
  BY <1>2 DEF TaskInv
<1> QED
  BY <1>1, <1>3, <1>4, <1>5 DEF TaskInv

LEMMA TimerKeeps ==
  ASSUME TaskInv, NEW t \in Task, RetryTimer(t)
  PROVE  TaskInv'
<1>1. currentRetry' \in [Task -> Nat] /\ timers' \in [Task -> Nat] /\ UNCHANGED graphVars
  BY DEF RetryTimer, TaskInv, TypeOK
<1>2. CASE Advance(t, "QUEUED")
  BY <1>1, <1>2, StatusStepKeeps DEF TaskStatus
<1>3. CASE UNCHANGED <<status, late, reopened>>
  <2>1. /\ status' = status /\ late' = late /\ reopened' = reopened
        /\ dependencies' = dependencies /\ dependents' = dependents
    BY <1>1, <1>3 DEF graphVars
  <2> QED
    BY <1>1, <2>1, SameIsKept
<1> QED
  BY <1>2, <1>3 DEF RetryTimer

LEMMA TaskNextKeeps == TaskInv /\ [TaskNext]_taskVars => TaskInv'
<1> SUFFICES ASSUME TaskInv, [TaskNext]_taskVars PROVE TaskInv'
  OBVIOUS
<1>1. ASSUME NEW t \in Task, NEW deps \in SUBSET Task, CreateTask(t, deps) PROVE TaskInv'
  BY <1>1, CreateKeeps
<1>2. ASSUME NEW t \in Task, NEW p \in Task, AddDependency(t, p) PROVE TaskInv'
  BY <1>2, AddKeeps
<1>3. ASSUME NEW t \in Task, AddSelfDependency(t) PROVE TaskInv'
  BY <1>3, AddSelfKeeps
<1>4. \A t \in Task : UNCHANGED retryVars =>
        currentRetry' \in [Task -> Nat] /\ timers' \in [Task -> Nat]
  BY DEF TaskInv, TypeOK, retryVars
<1>5. ASSUME NEW t \in Task, NEW s \in Asked, SetTaskStatus(t, s) PROVE TaskInv'
  BY <1>4, <1>5, StatusStepKeeps, TaskControllerAssumption DEF SetTaskStatus
<1>6. ASSUME NEW t \in Task, NEW passed \in BOOLEAN, RecordVerification(t, passed) PROVE TaskInv'
  <2>1. PICK s \in TaskStatus : Advance(t, s)
    BY <1>6 DEF RecordVerification, TaskStatus
  <2> QED
    BY <1>4, <1>6, <2>1, StatusStepKeeps DEF RecordVerification
<1>7. ASSUME NEW t \in Task, ExecuteTask(t) PROVE TaskInv'
  BY <1>4, <1>7, StatusStepKeeps DEF ExecuteTask, TaskStatus
<1>8. ASSUME NEW t \in Task, NEW force \in BOOLEAN, RetryTask(t, force) PROVE TaskInv'
  BY <1>8, RetryKeeps
<1>9. ASSUME NEW t \in Task, RetryTimer(t) PROVE TaskInv'
  BY <1>9, TimerKeeps
<1>10. CASE UNCHANGED taskVars
  <2>1. /\ status' = status /\ dependencies' = dependencies /\ dependents' = dependents
        /\ currentRetry' = currentRetry /\ timers' = timers
        /\ late' = late /\ reopened' = reopened
    BY <1>10 DEF taskVars
  <2>2. currentRetry' \in [Task -> Nat] /\ timers' \in [Task -> Nat]
    BY <2>1 DEF TaskInv, TypeOK
  <2> QED
    BY <2>1, <2>2, SameIsKept
<1> QED
  BY <1>1, <1>2, <1>3, <1>5, <1>6, <1>7, <1>8, <1>9, <1>10 DEF TaskNext

LEMMA TaskInvariance == TaskSpec => []TaskInv
<1> QED
  BY TaskInitHolds, TaskNextKeeps, PTL DEF TaskSpec

(* The records of the tasks and the histories stay well typed.             *)
THEOREM TypeCorrect == TaskSpec => []TypeOK
<1>1. TaskInv => TypeOK
  BY DEF TaskInv
<1> QED
  BY <1>1, TaskInvariance, PTL

(* Whatever createTask and addDependency are called with, the two          *)
(* directions of the graph agree and it has no cycle.                      *)
THEOREM GraphIsSound == TaskSpec => []GraphSound
<1>1. TaskInv => GraphSound
  BY DEF TaskInv
<1> QED
  BY <1>1, TaskInvariance, PTL

(* Of the graph there is, and of the graph a link more would make of it,   *)
(* the two searches compute what they are for: an order after the          *)
(* prerequisites, and a cycle exactly when there is one.                   *)
THEOREM SearchesAreSound == TaskSpec => []OrderSound
<1>1. ASSUME TaskInv PROVE OrderSound
  <2>1. /\ dependencies \in [Task -> SUBSET Task] /\ IsFiniteSet(Created)
        /\ \A t \in Task : dependencies[t] \subseteq Created
        /\ \A t \in Task \ Created : dependencies[t] = {}
        /\ ~Cyclic(dependencies) /\ Created \subseteq Task
    BY <1>1 DEF TaskInv, TypeOK, GraphSound, Created
  <2>2. IsOrderOf(TopologicalOrder(Links(dependencies)), Links(dependencies))
    BY <2>1, LinksAreGraph, OrdersAcyclic
  <2>3. ASSUME NEW t \in Created, NEW p \in Created
        PROVE  LET g == Links([dependencies EXCEPT ![t] = @ \cup {p}])
               IN  /\ FindsCycle(g) <=> Cyclic(g)
                   /\ FindsCycle(g) => IsCycleOf(FoundCycle(g), g)
    <3> DEFINE d == [dependencies EXCEPT ![t] = @ \cup {p}]
    <3>1. /\ d \in [Task -> SUBSET Task] /\ \A u \in Task : d[u] \subseteq Created
          /\ \A u \in Task \ Created : d[u] = {}
      BY <2>1
    <3> HIDE DEF d
    <3>2. IsGraph(Links(d))
      BY <2>1, <3>1, LinksAreGraph
    <3>3. /\ FindsCycle(Links(d)) <=> Cyclic(Links(d))
          /\ FindsCycle(Links(d)) => IsCycleOf(FoundCycle(Links(d)), Links(d))
      BY <3>2, FindsEveryCycle
    <3> QED
      BY <3>3 DEF d
  <2> QED
    BY <2>2, <2>3 DEF OrderSound
<1> QED
  BY <1>1, TaskInvariance, PTL

(* No task is queued or runs before its prerequisites are complete, except *)
(* for edges added late and prerequisites reopened by a forced retry.      *)
THEOREM PrerequisitesFirst == TaskSpec => []StartsAfterPrerequisites
<1>1. TaskInv => StartsAfterPrerequisites
  BY DEF TaskInv
<1> QED
  BY <1>1, TaskInvariance, PTL

-----------------------------------------------------------------------------
(* A completion queues the PLANNED tasks that waited for nothing else: they *)
(* are listed as dependents because the graph is mirrored, and the loop    *)
(* reaches them unless one in BACKLOG, itself freed, makes it throw.       *)
LEMMA AdvanceWakes ==
  ASSUME TaskInv, NEW t \in Task, NEW s \in TaskStatus, Advance(t, s)
  PROVE  WakesDependents
<1> DEFINE st == [status EXCEPT ![t] = s]
<1> DEFINE list == dependents[t]
<1>1. /\ st \in [Task -> TaskStatus \cup {Absent}]
      /\ st[t] = s
      /\ \A d \in Task : d # t => st[d] = status[d]
      /\ list \in Seq(Task)
      /\ \A d \in Task : dependencies[d] \subseteq Task
  BY DEF TaskInv, TypeOK
<1>2. \A d \in Task : d # t => (status'[d] = status[d] \/ status'[d] = "QUEUED")
  BY AdvanceMeans DEF TaskInv
<1> SUFFICES ASSUME NEW p \in Task, status[p] # "COMPLETED", status'[p] = "COMPLETED",
                    \A v \in Freed(p) : status[v] # "BACKLOG",
                    NEW u \in Freed(p), status[u] = "PLANNED"
             PROVE  status'[u] = "QUEUED"
  BY DEF WakesDependents
<1>3. p = t /\ s = "COMPLETED"
  <2>1. p = t
    BY <1>2
  <2> QED
    BY <2>1, AdvanceMeans DEF TaskInv
<1>4. status' = [d \in Task |-> IF d \in Woken(st, t) THEN "QUEUED" ELSE st[d]]
  BY <1>3 DEF Advance, StatusAfter
<1>5. \A d \in Woken(st, t) : st[d] = "PLANNED"
  BY DEF Woken
<1>6. \A q \in Task : status'[q] = "COMPLETED" <=> st[q] = "COMPLETED"
  BY <1>4, <1>5
<1>7. /\ u \in Task /\ t \in dependencies[u] /\ u # t
      /\ \A q \in dependencies[u] : status'[q] = "COMPLETED"
  BY <1>3 DEF Freed, TaskInv, GraphSound
<1>8. st[u] = "PLANNED" /\ Resolved(st, u)
  BY <1>1, <1>6, <1>7 DEF Resolved
<1>9. PICK k \in DOMAIN list : list[k] = u
  BY <1>7 DEF TaskInv, GraphSound, Mirrored, Listed
<1>10. ASSUME NEW j \in DOMAIN list, st[list[j]] = "BACKLOG", Resolved(st, list[j])
       PROVE  FALSE
  <2>1. list[j] \in Task /\ list[j] # t
    BY <1>1, <1>3, <1>10
  <2>2. Listed(list, list[j])
    BY DEF Listed
  <2>3. t \in dependencies[list[j]]
    BY <2>1, <2>2 DEF TaskInv, GraphSound, Mirrored
  <2>4. \A q \in dependencies[list[j]] : status'[q] = "COMPLETED"
    BY <1>1, <1>6, <1>10, <2>1 DEF Resolved
  <2>5. list[j] \in Freed(p)
    BY <1>3, <2>1, <2>3, <2>4 DEF Freed
  <2> QED
    BY <1>1, <1>10, <2>1, <2>5
<1>11. u \in Woken(st, t)
  BY <1>8, <1>9, <1>10 DEF Woken
<1> QED
  BY <1>4, <1>7, <1>11

LEMMA StepWakes == TaskInv /\ [TaskNext]_taskVars => WakesDependents
<1> SUFFICES ASSUME TaskInv, [TaskNext]_taskVars PROVE WakesDependents
  OBVIOUS
<1>1. ASSUME \A p \in Task : status'[p] = "COMPLETED" => status[p] = "COMPLETED"
      PROVE  WakesDependents
  BY <1>1 DEF WakesDependents
<1>2. ASSUME status' = status PROVE WakesDependents
  BY <1>1, <1>2
<1>3. ASSUME NEW t \in Task, NEW s \in TaskStatus, s # "COMPLETED",
             status' = [status EXCEPT ![t] = s]
      PROVE  WakesDependents
  BY <1>1, <1>3 DEF TaskInv, TypeOK
<1>4. ASSUME NEW t \in Task, NEW deps \in SUBSET Task, CreateTask(t, deps)
      PROVE  WakesDependents
  <2>1. PICK s \in {"QUEUED", "PLANNED"} : status' = [status EXCEPT ![t] = s]
    BY <1>4 DEF CreateTask
  <2> QED
    BY <1>3, <2>1 DEF TaskStatus
<1>5. ASSUME NEW t \in Task, NEW force \in BOOLEAN, RetryTask(t, force)
      PROVE  WakesDependents
  BY <1>3, <1>5 DEF RetryTask, TaskStatus
<1>6. ASSUME NEW t \in Task, NEW s \in Asked, SetTaskStatus(t, s) PROVE WakesDependents
  BY <1>6, AdvanceWakes, TaskControllerAssumption DEF SetTaskStatus
<1>7. ASSUME NEW t \in Task, NEW passed \in BOOLEAN, RecordVerification(t, passed)
      PROVE  WakesDependents
  <2>1. PICK s \in TaskStatus : Advance(t, s)
    BY <1>7 DEF RecordVerification, TaskStatus
  <2> QED
    BY <2>1, AdvanceWakes
<1>8. ASSUME NEW t \in Task, ExecuteTask(t) PROVE WakesDependents
  BY <1>8, AdvanceWakes DEF ExecuteTask, TaskStatus
<1>9. ASSUME NEW t \in Task, RetryTimer(t) PROVE WakesDependents
  <2>1. CASE Advance(t, "QUEUED")
    BY <2>1, AdvanceWakes DEF TaskStatus
  <2>2. CASE status' = status
    BY <1>2, <2>2
  <2> QED
    BY <1>9, <2>1, <2>2 DEF RetryTimer
<1>10. ASSUME NEW t \in Task, NEW p \in Task, AddDependency(t, p) PROVE WakesDependents
  BY <1>2, <1>10 DEF AddDependency
<1>11. ASSUME NEW t \in Task, AddSelfDependency(t) PROVE WakesDependents
  BY <1>2, <1>11 DEF AddSelfDependency
<1>12. CASE UNCHANGED taskVars
  BY <1>2, <1>12 DEF taskVars
<1> QED
  BY <1>4, <1>5, <1>6, <1>7, <1>8, <1>9, <1>10, <1>11, <1>12 DEF TaskNext

(* No completion forgets a task that waited for nothing else.              *)
THEOREM CompletionsWake == TaskSpec => CompletionWakes
<1> QED
  BY TaskInvariance, StepWakes, PTL DEF TaskSpec, CompletionWakes

-----------------------------------------------------------------------------
(***************************************************************************)
(* Agents.                                                                 *)
(***************************************************************************)

Ended == {"COMPLETED", "ABORTED", "FAILED"}

\* startAgent has made the session and has not returned.
OnItsWay(a, s) == starts[a][s] \in {"waiting", "created"}

\* A session a record leads to.
Reached(s) == s = NoSession \/ (runtimes[s] # "NONE" /\ \A a \in Agent : ~OnItsWay(a, s))

StartsSound ==
    \A s \in Session : \A a \in Agent :
        /\ OnItsWay(a, s) => sessions[s].status # "NONE"
        /\ OnItsWay(a, s) => \A b \in Agent : OnItsWay(b, s) => b = a
        /\ starts[a][s] = "waiting" => runtimes[s] = "NONE"
        /\ starts[a][s] = "created" => runtimes[s] # "NONE"

RuntimesSound == \A s \in Session : runtimes[s] # "NONE" => sessions[s].status # "NONE"

RecordsSound == \A a \in Agent : Reached(agents[a].session)

EndingsSound ==
    \A e \in endings :
        /\ e.session # NoSession
        /\ Reached(e.session)
        /\ e.at = "terminated" => runtimes[e.session] = "GONE"

OverSound ==
    \A s \in Session : sessions[s].status \in Ended => runtimes[s] = "GONE"

AgentInv ==
    /\ AgentTypeOK
    /\ StartsSound
    /\ RuntimesSound
    /\ RecordsSound
    /\ EndingsSound
    /\ OverSound

-----------------------------------------------------------------------------
LEMMA AgentInitHolds == AgentInit => AgentInv
<1> SUFFICES ASSUME AgentInit PROVE AgentInv
  OBVIOUS
<1> USE DEF AgentInit
<1>1. AgentTypeOK
  BY DEF AgentTypeOK, AgentStatus, SessionStatus, RuntimeStatus
<1>2. \A a \in Agent, s \in Session : ~OnItsWay(a, s) /\ starts[a][s] = "idle"
  BY DEF OnItsWay
<1>3. StartsSound
  BY <1>2 DEF StartsSound
<1>4. RuntimesSound /\ EndingsSound
  BY DEF RuntimesSound, EndingsSound
<1>5. RecordsSound
  BY DEF RecordsSound, Reached
<1>6. OverSound
  BY DEF OverSound, Ended
<1> QED
  BY <1>1, <1>3, <1>4, <1>5, <1>6 DEF AgentInv

(* A step that starts nothing keeps the invariant when it brings back no   *)
(* runtime, makes no session, closes only sessions whose runtime is gone,  *)
(* and uses only records that lead to runtimes that have been there.       *)
LEMMA FrameKeeps ==
  ASSUME AgentInv, AgentTypeOK', starts' = starts,
         \A s \in Session : /\ runtimes'[s] = "NONE" <=> runtimes[s] = "NONE"
                            /\ runtimes[s] = "GONE" => runtimes'[s] = "GONE",
         \A s \in Session : /\ sessions'[s].status = "NONE" <=> sessions[s].status = "NONE"
                            /\ sessions'[s].status \in Ended =>
                                  sessions[s].status \in Ended \/ runtimes'[s] = "GONE",
         \A a \in Agent : Reached(agents'[a].session),
         \A e \in endings' : /\ e.session # NoSession
                             /\ Reached(e.session)
                             /\ e.at = "terminated" => runtimes'[e.session] = "GONE"
  PROVE  AgentInv'
<1>1. \A a \in Agent, s \in Session : OnItsWay(a, s)' <=> OnItsWay(a, s)
  BY DEF OnItsWay
<1>2. StartsSound'
  BY <1>1 DEF AgentInv, StartsSound
<1>3. RuntimesSound'
  BY DEF AgentInv, RuntimesSound
<1>4. RecordsSound'
  <2> SUFFICES ASSUME NEW a \in Agent
               PROVE  \/ agents'[a].session = NoSession
                      \/ /\ runtimes'[agents'[a].session] # "NONE"
                         /\ \A b \in Agent : starts'[b][agents'[a].session] \notin {"waiting", "created"}
    BY DEF RecordsSound, Reached, OnItsWay
  <2>1. agents'[a].session \in Session \cup {NoSession}
    BY DEF AgentTypeOK
  <2> QED
    BY <2>1 DEF Reached, OnItsWay
<1>5. EndingsSound'
  <2> SUFFICES ASSUME NEW e \in endings'
               PROVE  /\ e.session # NoSession
                      /\ runtimes'[e.session] # "NONE"
                      /\ \A b \in Agent : starts'[b][e.session] \notin {"waiting", "created"}
                      /\ e.at = "terminated" => runtimes'[e.session] = "GONE"
    BY DEF EndingsSound, Reached, OnItsWay
  <2>1. e \in Ending
    BY DEF AgentTypeOK
  <2>2. e.session \in Session
    BY <2>1 DEF Ending
  <2> QED
    BY <2>2 DEF Reached, OnItsWay
<1>6. OverSound'
  BY DEF AgentInv, OverSound
<1> QED
  BY <1>2, <1>3, <1>4, <1>5, <1>6 DEF AgentInv

-----------------------------------------------------------------------------
(* Records and endings stay sound when no runtime they lead to is undone   *)
(* and no start comes back to one.                                         *)
LEMMA ReachedKeeps ==
  ASSUME AgentInv, AgentTypeOK', endings' = endings,
         \A t \in Session : Reached(t) =>
            /\ runtimes'[t] # "NONE"
            /\ runtimes[t] = "GONE" => runtimes'[t] = "GONE"
            /\ \A b \in Agent : starts'[b][t] \notin {"waiting", "created"},
         \A a \in Agent : agents'[a].session = agents[a].session
  PROVE  RecordsSound' /\ EndingsSound'
<1>1. RecordsSound'
  <2> SUFFICES ASSUME NEW a \in Agent, NEW t, t = agents[a].session, t # NoSession
               PROVE  /\ runtimes'[t] # "NONE"
                      /\ \A b \in Agent : starts'[b][t] \notin {"waiting", "created"}
    BY DEF RecordsSound, Reached, OnItsWay
  <2>1. t \in Session /\ Reached(t)
    BY DEF AgentInv, AgentTypeOK, RecordsSound
  <2> QED
    BY <2>1
<1>2. EndingsSound'
  <2> SUFFICES ASSUME NEW e \in endings
               PROVE  /\ e.session # NoSession
                      /\ runtimes'[e.session] # "NONE"
                      /\ \A b \in Agent : starts'[b][e.session] \notin {"waiting", "created"}
                      /\ e.at = "terminated" => runtimes'[e.session] = "GONE"
    BY DEF EndingsSound, Reached, OnItsWay
  <2>1. e.session \in Session /\ Reached(e.session)
    BY DEF AgentInv, AgentTypeOK, Ending, EndingsSound
  <2>2. e.at = "terminated" => runtimes[e.session] = "GONE"
    BY DEF AgentInv, EndingsSound
  <2> QED
    BY <2>1, <2>2, AgentAssumption
<1> QED
  BY <1>1, <1>2

(* The parts of startAgent.                                                *)
LEMMA StartKeeps ==
  ASSUME AgentInv, NEW a \in Agent, NEW s \in Session, StartAgent(a, s)
  PROVE  AgentInv'
<1> USE DEF AgentInv
<1>1. /\ starts[a][s] = "idle"
      /\ \A b \in Agent, t \in Session :
            starts'[b][t] = IF b = a /\ t = s THEN "provisioning" ELSE starts[b][t]
      /\ starts' \in [Agent -> [Session -> {"idle", "provisioning", "waiting", "created"}]]
  BY DEF StartAgent, AgentTypeOK
<1>2. /\ agents' \in [Agent -> [status : AgentStatus, session : Session \cup {NoSession}]]
      /\ \A b \in Agent : agents'[b].session = agents[b].session
  <2>1. \A b \in Agent : agents[b] \in [status : AgentStatus, session : Session \cup {NoSession}]
    BY DEF AgentTypeOK
  <2> QED
    BY <2>1 DEF StartAgent, AgentTypeOK, AgentStatus
<1>3. /\ sessions' = sessions /\ runtimes' = runtimes /\ locks' = locks /\ endings' = endings
      /\ emergency' = emergency /\ doomed' = doomed /\ disturbed' \subseteq Agent
  BY DEF StartAgent, emergencyVars, Accepted, AgentTypeOK
<1>4. AgentTypeOK'
  BY <1>1, <1>2, <1>3 DEF AgentTypeOK
<1>5. \A b \in Agent, t \in Session : OnItsWay(b, t)' <=> OnItsWay(b, t)
  BY <1>1 DEF OnItsWay
<1>6. StartsSound'
  BY <1>1, <1>3, <1>5 DEF StartsSound
<1>7. RecordsSound' /\ EndingsSound'
  <2>1. \A t \in Session : Reached(t) =>
           /\ runtimes'[t] # "NONE"
           /\ runtimes[t] = "GONE" => runtimes'[t] = "GONE"
           /\ \A b \in Agent : starts'[b][t] \notin {"waiting", "created"}
    BY <1>3, <1>5, AgentAssumption DEF Reached, OnItsWay
  <2> QED
    BY <1>2, <1>3, <1>4, <2>1, ReachedKeeps
<1>8. RuntimesSound' /\ OverSound'
  BY <1>3 DEF RuntimesSound, OverSound
<1> QED
  BY <1>4, <1>6, <1>7, <1>8

(* The start that is refused, or that fails, is over.                      *)
LEMMA ThrowKeeps ==
  ASSUME AgentInv, NEW a \in Agent, NEW s \in Session, StartThrows(a, s),
         locks' \in [Session -> Agent \cup {NoAgent}],
         UNCHANGED <<sessions, runtimes, endings, emergencyVars, disturbed>>
  PROVE  AgentInv'
<1> USE DEF AgentInv
<1>1. /\ \A b \in Agent, t \in Session :
            starts'[b][t] = IF b = a /\ t = s THEN "idle" ELSE starts[b][t]
      /\ starts' \in [Agent -> [Session -> {"idle", "provisioning", "waiting", "created"}]]
  BY DEF StartThrows, AgentTypeOK
<1>2. /\ agents' \in [Agent -> [status : AgentStatus, session : Session \cup {NoSession}]]
      /\ \A b \in Agent : agents'[b].session = agents[b].session
  <2>1. \A b \in Agent : agents[b] \in [status : AgentStatus, session : Session \cup {NoSession}]
    BY DEF AgentTypeOK
  <2> QED
    BY <2>1 DEF StartThrows, AgentTypeOK, AgentStatus
<1>3. /\ sessions' = sessions /\ runtimes' = runtimes /\ endings' = endings
      /\ emergency' = emergency /\ doomed' = doomed /\ disturbed' = disturbed
  BY DEF emergencyVars
<1>4. AgentTypeOK'
  BY <1>1, <1>2, <1>3 DEF AgentTypeOK
<1>5. \A b \in Agent, t \in Session : OnItsWay(b, t)' => OnItsWay(b, t)
  BY <1>1 DEF OnItsWay
<1>6. StartsSound'
  BY <1>1, <1>3, <1>5 DEF StartsSound
<1>7. RecordsSound' /\ EndingsSound'
  <2>1. \A t \in Session : Reached(t) =>
           /\ runtimes'[t] # "NONE"
           /\ runtimes[t] = "GONE" => runtimes'[t] = "GONE"
           /\ \A b \in Agent : starts'[b][t] \notin {"waiting", "created"}
    BY <1>3, <1>5, AgentAssumption DEF Reached, OnItsWay
  <2> QED
    BY <1>2, <1>3, <1>4, <2>1, ReachedKeeps
<1>8. RuntimesSound' /\ OverSound'
  BY <1>3 DEF RuntimesSound, OverSound
<1> QED
  BY <1>4, <1>6, <1>7, <1>8

LEMMA WorkspaceKeeps ==
  ASSUME AgentInv, NEW a \in Agent, NEW s \in Session, StartInWorkspace(a, s)
  PROVE  AgentInv'
<1> USE DEF AgentInv
<1>1. locks' \in [Session -> Agent \cup {NoAgent}]
  BY DEF StartInWorkspace, AgentTypeOK
<1>2. CASE sessions[s].status # "NONE"
  BY <1>1, <1>2, ThrowKeeps DEF StartInWorkspace
<1>3. CASE sessions[s].status = "NONE"
  <2>1. /\ \A b \in Agent, t \in Session :
              starts'[b][t] = IF b = a /\ t = s THEN "waiting" ELSE starts[b][t]
        /\ starts' \in [Agent -> [Session -> {"idle", "provisioning", "waiting", "created"}]]
    <3>1. starts' = [starts EXCEPT ![a][s] = "waiting"]
      BY <1>3 DEF StartInWorkspace
    <3> QED
      BY <3>1 DEF AgentTypeOK
  <2>2. /\ sessions' \in [Session -> [status : SessionStatus, agent : Agent \cup {NoAgent}]]
        /\ sessions'[s].status = "ACTIVE"
        /\ \A t \in Session : t # s => sessions'[t] = sessions[t]
    BY <1>3 DEF StartInWorkspace, AgentTypeOK, SessionStatus
  <2>3. /\ agents' = agents /\ runtimes' = runtimes /\ endings' = endings
        /\ emergency' = emergency /\ doomed' = doomed /\ disturbed' = disturbed
    BY <1>3 DEF StartInWorkspace, emergencyVars
  <2>4. AgentTypeOK'
    BY <1>1, <2>1, <2>2, <2>3 DEF AgentTypeOK
  <2>5. /\ \A b \in Agent : ~OnItsWay(b, s)
        /\ runtimes[s] = "NONE"
    BY <1>3 DEF StartsSound, RuntimesSound
  <2>6. \A b \in Agent, t \in Session :
           OnItsWay(b, t)' <=> (OnItsWay(b, t) \/ (b = a /\ t = s))
    BY <2>1, <2>5 DEF OnItsWay
  <2>7. StartsSound'
    <3> SUFFICES ASSUME NEW t \in Session, NEW b \in Agent
                 PROVE  /\ OnItsWay(b, t)' => sessions'[t].status # "NONE"
                        /\ OnItsWay(b, t)' => \A c \in Agent : OnItsWay(c, t)' => c = b
                        /\ starts'[b][t] = "waiting" => runtimes'[t] = "NONE"
                        /\ starts'[b][t] = "created" => runtimes'[t] # "NONE"
      BY DEF StartsSound
    <3>1. CASE t = s
      BY <2>1, <2>2, <2>3, <2>5, <2>6, <3>1 DEF OnItsWay
    <3>2. CASE t # s
      BY <2>1, <2>2, <2>3, <2>6, <3>2 DEF StartsSound
    <3> QED
      BY <3>1, <3>2
  <2>8. RecordsSound' /\ EndingsSound'
    <3>1. \A t \in Session : Reached(t) =>
             /\ runtimes'[t] # "NONE"
             /\ runtimes[t] = "GONE" => runtimes'[t] = "GONE"
             /\ \A b \in Agent : starts'[b][t] \notin {"waiting", "created"}
      BY <2>3, <2>5, <2>6, AgentAssumption DEF Reached, OnItsWay
    <3> QED
      BY <2>3, <2>4, <3>1, ReachedKeeps
  <2>9. RuntimesSound' /\ OverSound'
    BY <2>2, <2>3, <2>5 DEF RuntimesSound, OverSound, Ended
  <2> QED
    BY <2>4, <2>7, <2>8, <2>9
<1> QED
  BY <1>2, <1>3

LEMMA CreatedKeeps ==
  ASSUME AgentInv, NEW a \in Agent, NEW s \in Session, RuntimeCreated(a, s)
  PROVE  AgentInv'
<1> USE DEF AgentInv
<1>1. /\ starts[a][s] = "waiting"
      /\ \A b \in Agent, t \in Session :
            starts'[b][t] = IF b = a /\ t = s THEN "created" ELSE starts[b][t]
      /\ starts' \in [Agent -> [Session -> {"idle", "provisioning", "waiting", "created"}]]
  BY DEF RuntimeCreated, AgentTypeOK
<1>2. /\ runtimes' \in [Session -> RuntimeStatus]
      /\ runtimes'[s] = "READY"
      /\ \A t \in Session : t # s => runtimes'[t] = runtimes[t]
  BY DEF RuntimeCreated, AgentTypeOK, RuntimeStatus
<1>3. /\ agents' = agents /\ sessions' = sessions /\ endings' = endings /\ locks' = locks
      /\ emergency' = emergency /\ doomed' = doomed /\ disturbed' = disturbed
  BY DEF RuntimeCreated, emergencyVars
<1>4. AgentTypeOK'
  BY <1>1, <1>2, <1>3 DEF AgentTypeOK
<1>5. \A b \in Agent, t \in Session : OnItsWay(b, t)' <=> OnItsWay(b, t)
  BY <1>1 DEF OnItsWay
<1>6. OnItsWay(a, s) /\ ~Reached(s) /\ runtimes[s] = "NONE"
  BY <1>1, AgentAssumption DEF OnItsWay, StartsSound, Reached
<1>7. StartsSound'
  <2> SUFFICES ASSUME NEW t \in Session, NEW b \in Agent
               PROVE  /\ OnItsWay(b, t)' => sessions'[t].status # "NONE"
                      /\ OnItsWay(b, t)' => \A c \in Agent : OnItsWay(c, t)' => c = b
                      /\ starts'[b][t] = "waiting" => runtimes'[t] = "NONE"
                      /\ starts'[b][t] = "created" => runtimes'[t] # "NONE"
    BY DEF StartsSound
  <2>1. /\ OnItsWay(b, t)' => sessions'[t].status # "NONE"
        /\ OnItsWay(b, t)' => \A c \in Agent : OnItsWay(c, t)' => c = b
    BY <1>3, <1>5 DEF StartsSound
  <2>2. CASE t = s
    <3>1. b # a => ~OnItsWay(b, s)
      BY <1>6 DEF StartsSound
    <3> QED
      BY <1>1, <1>2, <2>1, <2>2, <3>1 DEF OnItsWay
  <2>3. CASE t # s
    BY <1>1, <1>2, <2>1, <2>3 DEF StartsSound
  <2> QED
    BY <2>2, <2>3
<1>8. RecordsSound' /\ EndingsSound'
  <2>1. \A t \in Session : Reached(t) =>
           /\ runtimes'[t] # "NONE"
           /\ runtimes[t] = "GONE" => runtimes'[t] = "GONE"
           /\ \A b \in Agent : starts'[b][t] \notin {"waiting", "created"}
    BY <1>2, <1>5, <1>6, AgentAssumption DEF Reached, OnItsWay
  <2> QED
    BY <1>3, <1>4, <2>1, ReachedKeeps
<1>9. RuntimesSound' /\ OverSound'
  BY <1>2, <1>3, <1>6 DEF RuntimesSound, OverSound, StartsSound
<1> QED
  BY <1>4, <1>7, <1>8, <1>9

LEMMA ReturnKeeps ==
  ASSUME AgentInv, NEW a \in Agent, NEW s \in Session, StartReturns(a, s)
  PROVE  AgentInv'
<1> USE DEF AgentInv
<1>1. /\ starts[a][s] = "created"
      /\ \A b \in Agent, t \in Session :
            starts'[b][t] = IF b = a /\ t = s THEN "idle" ELSE starts[b][t]
      /\ starts' \in [Agent -> [Session -> {"idle", "provisioning", "waiting", "created"}]]
  BY DEF StartReturns, AgentTypeOK
<1>2. /\ agents' \in [Agent -> [status : AgentStatus, session : Session \cup {NoSession}]]
      /\ agents'[a].session = s
      /\ \A b \in Agent : b # a => agents'[b] = agents[b]
  BY DEF StartReturns, AgentTypeOK, AgentStatus
<1>3. /\ runtimes' = runtimes /\ sessions' = sessions /\ endings' = endings /\ locks' = locks
      /\ emergency' = emergency /\ doomed' = doomed /\ disturbed' = disturbed
  BY DEF StartReturns, emergencyVars
<1>4. AgentTypeOK'
  BY <1>1, <1>2, <1>3 DEF AgentTypeOK
<1>5. \A b \in Agent, t \in Session : OnItsWay(b, t)' => OnItsWay(b, t)
  BY <1>1 DEF OnItsWay
<1>6. /\ runtimes[s] # "NONE"
      /\ \A b \in Agent : starts'[b][s] \notin {"waiting", "created"}
  <2>1. OnItsWay(a, s)
    BY <1>1 DEF OnItsWay
  <2>2. \A b \in Agent : b # a => ~OnItsWay(b, s)
    BY <2>1 DEF StartsSound
  <2> QED
    BY <1>1, <2>2 DEF OnItsWay, StartsSound
<1>7. StartsSound'
  BY <1>1, <1>3, <1>5 DEF StartsSound
<1>8. \A t \in Session : Reached(t) =>
         \A b \in Agent : starts'[b][t] \notin {"waiting", "created"}
  BY <1>5, AgentAssumption DEF Reached, OnItsWay
<1>9. RecordsSound'
  <2> SUFFICES ASSUME NEW b \in Agent, NEW t, t = agents'[b].session, t # NoSession
               PROVE  /\ runtimes'[t] # "NONE"
                      /\ \A c \in Agent : starts'[c][t] \notin {"waiting", "created"}
    BY DEF RecordsSound, Reached, OnItsWay
  <2>1. CASE b = a
    BY <1>2, <1>3, <1>6, <2>1
  <2>2. CASE b # a
    <3>1. t \in Session /\ Reached(t)
      BY <1>2, <2>2 DEF AgentTypeOK, RecordsSound
    <3> QED
      BY <1>3, <1>8, <3>1 DEF Reached
  <2> QED
    BY <2>1, <2>2
<1>10. EndingsSound'
  <2> SUFFICES ASSUME NEW e \in endings
               PROVE  /\ e.session # NoSession
                      /\ runtimes[e.session] # "NONE"
                      /\ \A b \in Agent : starts'[b][e.session] \notin {"waiting", "created"}
                      /\ e.at = "terminated" => runtimes[e.session] = "GONE"
    BY <1>3 DEF EndingsSound, Reached, OnItsWay
  <2>1. e.session \in Session /\ Reached(e.session)
    BY DEF AgentTypeOK, Ending, EndingsSound
  <2> QED
    BY <1>8, <2>1 DEF EndingsSound, Reached
<1>11. RuntimesSound' /\ OverSound'
  BY <1>3 DEF RuntimesSound, OverSound
<1> QED
  BY <1>4, <1>7, <1>9, <1>10, <1>11

-----------------------------------------------------------------------------
(* Commands on an agent that runs, and what becomes of runtimes: all of    *)
(* them keep the frame.                                                    *)
LEMMA SwitchKeeps ==
  ASSUME AgentInv, NEW a \in Agent, NEW to \in {"PAUSED", "RUNNING"},
         NEW into \in {"READY", "PAUSED"}, NEW from \in SUBSET {"READY", "PAUSED"},
         NEW during \in {"ACTIVE", "PAUSED"},
         Switch(a, to, from, into, during)
  PROVE  AgentInv'
<1> USE DEF AgentInv
<1> DEFINE s == agents[a].session
<1>1. /\ locks' = locks /\ starts' = starts /\ endings' = endings /\ emergency' = emergency
      /\ doomed' = doomed /\ disturbed' \subseteq Agent
  BY DEF Switch, emergencyVars, Accepted, AgentTypeOK
<1>2. \A b \in Agent : agents[b] \in [status : AgentStatus, session : Session \cup {NoSession}]
  BY DEF AgentTypeOK
<1>3. agents' = agents \/ agents' = [agents EXCEPT ![a].status = to]
  BY DEF Switch
<1>4. /\ agents' \in [Agent -> [status : AgentStatus, session : Session \cup {NoSession}]]
      /\ \A b \in Agent : agents'[b].session = agents[b].session
  <2>1. CASE agents' = agents
    BY <2>1 DEF AgentTypeOK
  <2>2. CASE agents' = [agents EXCEPT ![a].status = to]
    <3>1. to \in AgentStatus
      BY DEF AgentStatus
    <3>2. agents \in [Agent -> [status : AgentStatus, session : Session \cup {NoSession}]]
      BY DEF AgentTypeOK
    <3> QED
      BY <1>2, <2>2, <3>1, <3>2
  <2> QED
    BY <1>3, <2>1, <2>2
<1>5. \/ UNCHANGED <<sessions, runtimes>>
      \/ /\ s \in Session /\ runtimes[s] \in {"READY", "PAUSED"}
         /\ runtimes' = [runtimes EXCEPT ![s] = into]
         /\ \/ sessions' = sessions
            \/ /\ SessionMay(sessions[s].status, during)
               /\ sessions' = [sessions EXCEPT ![s].status = during]
  BY <1>2 DEF Switch
<1>6. /\ runtimes' \in [Session -> RuntimeStatus]
      /\ \A t \in Session : /\ runtimes'[t] = "NONE" <=> runtimes[t] = "NONE"
                            /\ runtimes[t] = "GONE" => runtimes'[t] = "GONE"
  BY <1>5 DEF AgentTypeOK, RuntimeStatus
<1>7. /\ sessions' \in [Session -> [status : SessionStatus, agent : Agent \cup {NoAgent}]]
      /\ \A t \in Session : /\ sessions'[t].status = "NONE" <=> sessions[t].status = "NONE"
                            /\ sessions'[t].status \in Ended => sessions[t].status \in Ended
  <2>1. \A t \in Session : sessions[t] \in [status : SessionStatus, agent : Agent \cup {NoAgent}]
    BY DEF AgentTypeOK
  <2>2. during \in SessionStatus /\ during \notin Ended /\ during # "NONE"
    BY DEF SessionStatus, Ended
  <2>3. ~SessionMay("NONE", during)
    BY DEF SessionMay
  <2>4. CASE sessions' = sessions
    BY <2>1, <2>4 DEF AgentTypeOK
  <2>5. CASE /\ s \in Session /\ SessionMay(sessions[s].status, during)
             /\ sessions' = [sessions EXCEPT ![s].status = during]
    BY <2>1, <2>2, <2>3, <2>5 DEF AgentTypeOK
  <2> QED
    BY <1>5, <2>4, <2>5
<1>8. AgentTypeOK'
  BY <1>1, <1>4, <1>6, <1>7 DEF AgentTypeOK
<1>9. \A b \in Agent : Reached(agents'[b].session)
  BY <1>4 DEF RecordsSound
<1>10. \A e \in endings' : /\ e.session # NoSession
                           /\ Reached(e.session)
                           /\ e.at = "terminated" => runtimes'[e.session] = "GONE"
  BY <1>1, <1>6 DEF EndingsSound, AgentTypeOK, Ending
<1> QED
  BY <1>1, <1>6, <1>7, <1>8, <1>9, <1>10, FrameKeeps

(* A runtime that ends or is recovered.                                    *)
LEMMA RuntimeKeeps ==
  ASSUME AgentInv, AgentTypeOK', starts' = starts, sessions' = sessions, agents' = agents,
         endings' = endings,
         \A s \in Session : /\ runtimes'[s] = "NONE" <=> runtimes[s] = "NONE"
                            /\ runtimes[s] = "GONE" => runtimes'[s] = "GONE"
  PROVE  AgentInv'
<1>1. \A a \in Agent : Reached(agents'[a].session)
  BY DEF AgentInv, RecordsSound
<1>2. \A e \in endings' : /\ e.session # NoSession
                          /\ Reached(e.session)
                          /\ e.at = "terminated" => runtimes'[e.session] = "GONE"
  BY DEF AgentInv, EndingsSound, AgentTypeOK, Ending
<1>3. \A s \in Session : /\ sessions'[s].status = "NONE" <=> sessions[s].status = "NONE"
                         /\ sessions'[s].status \in Ended =>
                               sessions[s].status \in Ended \/ runtimes'[s] = "GONE"
  OBVIOUS
<1> QED
  BY <1>1, <1>2, <1>3, FrameKeeps

(* The write of an ending whose runtime is gone.                           *)
LEMMA WriteMeans ==
  ASSUME AgentInv, NEW e \in Ending, Reached(e.session), EndWrite(e),
         e.session # NoSession => runtimes'[e.session] = "GONE"
  PROVE  /\ agents' \in [Agent -> [status : AgentStatus, session : Session \cup {NoSession}]]
         /\ sessions' \in [Session -> [status : SessionStatus, agent : Agent \cup {NoAgent}]]
         /\ \A a \in Agent : Reached(agents'[a].session)
         /\ \A s \in Session : /\ sessions'[s].status = "NONE" <=> sessions[s].status = "NONE"
                               /\ sessions'[s].status \in Ended =>
                                     sessions[s].status \in Ended \/ runtimes'[s] = "GONE"
<1> USE DEF AgentInv
<1>1. /\ e.agent \in Agent /\ e.to \in {"STOPPED", "ABORTED", "KILLED"}
      /\ e.session \in Session \cup {NoSession}
  BY DEF Ending
<1>2. /\ Closed(e.to) \in SessionStatus /\ Closed(e.to) # "NONE"
      /\ ~SessionMay("NONE", Closed(e.to))
  BY <1>1 DEF Closed, SessionStatus, SessionMay
<1>3. \/ agents' = agents
      \/ agents' = [agents EXCEPT ![e.agent] = [status |-> e.to, session |-> e.session]]
  BY DEF EndWrite
<1>4. \/ sessions' = sessions
      \/ /\ e.session \in Session /\ SessionMay(sessions[e.session].status, Closed(e.to))
         /\ sessions' = [sessions EXCEPT ![e.session].status = Closed(e.to)]
  BY <1>1 DEF EndWrite
<1>5. /\ agents' \in [Agent -> [status : AgentStatus, session : Session \cup {NoSession}]]
      /\ \A a \in Agent : Reached(agents'[a].session)
  <2>1. [status |-> e.to, session |-> e.session]
           \in [status : AgentStatus, session : Session \cup {NoSession}]
    BY <1>1 DEF AgentStatus
  <2>2. CASE agents' = agents
    BY <2>2 DEF AgentTypeOK, RecordsSound
  <2>3. CASE agents' = [agents EXCEPT ![e.agent] = [status |-> e.to, session |-> e.session]]
    <3>1. agents \in [Agent -> [status : AgentStatus, session : Session \cup {NoSession}]]
      BY DEF AgentTypeOK
    <3>2. agents'[e.agent].session = e.session
      BY <1>1, <2>3, <3>1
    <3>3. \A a \in Agent : a # e.agent => agents'[a] = agents[a]
      BY <2>3, <3>1
    <3>4. \A a \in Agent : Reached(agents'[a].session)
      BY <3>2, <3>3 DEF RecordsSound
    <3> QED
      BY <1>1, <2>1, <2>3, <3>1, <3>4
  <2> QED
    BY <1>3, <2>2, <2>3
<1>6. \A s \in Session : sessions[s] \in [status : SessionStatus, agent : Agent \cup {NoAgent}]
  BY DEF AgentTypeOK
<1>7. CASE sessions' = sessions
  BY <1>5, <1>6, <1>7 DEF AgentTypeOK
<1>8. CASE /\ e.session \in Session /\ SessionMay(sessions[e.session].status, Closed(e.to))
           /\ sessions' = [sessions EXCEPT ![e.session].status = Closed(e.to)]
  <2>1. sessions' \in [Session -> [status : SessionStatus, agent : Agent \cup {NoAgent}]]
    BY <1>2, <1>6, <1>8 DEF AgentTypeOK
  <2>2. /\ sessions'[e.session].status = Closed(e.to)
        /\ \A s \in Session : s # e.session => sessions'[s] = sessions[s]
    BY <1>6, <1>8 DEF AgentTypeOK
  <2>3. sessions[e.session].status # "NONE" /\ runtimes'[e.session] = "GONE"
    BY <1>2, <1>8, AgentAssumption
  <2>4. \A s \in Session : /\ sessions'[s].status = "NONE" <=> sessions[s].status = "NONE"
                           /\ sessions'[s].status \in Ended =>
                                 sessions[s].status \in Ended \/ runtimes'[s] = "GONE"
    BY <1>2, <2>2, <2>3
  <2> QED
    BY <1>5, <2>1, <2>4
<1> QED
  BY <1>4, <1>7, <1>8

(* From the release of the lock to the await of terminateRuntime.          *)
LEMMA TerminateKeeps ==
  ASSUME AgentInv, NEW e \in Ending, Reached(e.session), EndTerminate(e),
         starts' = starts, emergency' \in {"off", "killed", "killing"},
         doomed' \subseteq Agent, disturbed' \subseteq Agent
  PROVE  AgentInv'
<1> USE DEF AgentInv
<1>1. e.agent \in Agent /\ e.session \in Session \cup {NoSession}
  BY DEF Ending
<1>2. locks' \in [Session -> Agent \cup {NoAgent}]
  BY <1>1 DEF EndTerminate, Released, AgentTypeOK
<1>3. /\ runtimes' \in [Session -> RuntimeStatus]
      /\ \A s \in Session : /\ runtimes'[s] = "NONE" <=> runtimes[s] = "NONE"
                            /\ runtimes[s] = "GONE" => runtimes'[s] = "GONE"
      /\ e.session # NoSession => runtimes'[e.session] = "GONE"
  <2>1. e.session # NoSession => runtimes[e.session] # "NONE"
    BY DEF Reached
  <2>2. \A s \in Session : runtimes[s] \in RuntimeStatus
    BY DEF AgentTypeOK
  <2>3. runtimes' = Terminated(e.session)
    BY DEF EndTerminate
  <2>4. CASE e.session # NoSession /\ Live(e.session)
    <3>1. runtimes' = [runtimes EXCEPT ![e.session] = "GONE"]
      BY <2>3, <2>4 DEF Terminated
    <3> QED
      BY <1>1, <2>4, <3>1 DEF AgentTypeOK, RuntimeStatus, Live
  <2>5. CASE ~(e.session # NoSession /\ Live(e.session))
    <3>1. runtimes' = runtimes
      BY <2>3, <2>5 DEF Terminated
    <3> QED
      BY <1>1, <2>1, <2>2, <2>5, <3>1 DEF AgentTypeOK, RuntimeStatus, Live
  <2> QED
    BY <2>4, <2>5
<1>4. /\ agents' \in [Agent -> [status : AgentStatus, session : Session \cup {NoSession}]]
      /\ sessions' \in [Session -> [status : SessionStatus, agent : Agent \cup {NoAgent}]]
      /\ \A a \in Agent : Reached(agents'[a].session)
      /\ \A s \in Session : /\ sessions'[s].status = "NONE" <=> sessions[s].status = "NONE"
                            /\ sessions'[s].status \in Ended =>
                                  sessions[s].status \in Ended \/ runtimes'[s] = "GONE"
  <2>1. CASE e.session = NoSession
    <3>1. EndWrite(e)
      BY <2>1 DEF EndTerminate
    <3> QED
      BY <1>3, <3>1, WriteMeans
  <2>2. CASE e.session # NoSession
    <3>1. agents' = agents /\ sessions' = sessions
      BY <2>2 DEF EndTerminate
    <3> QED
      BY <3>1 DEF AgentTypeOK, RecordsSound
  <2> QED
    BY <2>1, <2>2
<1>5. /\ endings' \subseteq Ending
      /\ \A f \in endings' : /\ f.session # NoSession
                             /\ Reached(f.session)
                             /\ f.at = "terminated" => runtimes'[f.session] = "GONE"
  <2>1. \A f \in endings : /\ f.session \in Session /\ f.session # NoSession
                           /\ Reached(f.session)
                           /\ f.at = "terminated" => runtimes'[f.session] = "GONE"
    BY <1>3 DEF EndingsSound, AgentTypeOK, Ending
  <2>2. CASE e.session = NoSession
    <3>1. endings' = endings \ {e}
      BY <2>2 DEF EndTerminate
    <3> QED
      BY <2>1, <3>1 DEF AgentTypeOK
  <2>3. CASE e.session # NoSession
    <3> DEFINE f == [e EXCEPT !.at = "terminated"]
    <3>1. f \in Ending /\ f.session = e.session /\ f.at = "terminated"
      BY DEF Ending
    <3>2. endings' = (endings \ {e}) \cup {f}
      BY <2>3 DEF EndTerminate
    <3> HIDE DEF f
    <3> QED
      BY <1>3, <2>1, <2>3, <3>1, <3>2 DEF AgentTypeOK
  <2> QED
    BY <2>2, <2>3
<1>6. AgentTypeOK'
  BY <1>2, <1>3, <1>4, <1>5 DEF AgentTypeOK
<1> QED
  BY <1>3, <1>4, <1>5, <1>6, FrameKeeps

(* An ending that begins works with the record of its agent.               *)
LEMMA BegunMeans ==
  ASSUME AgentInv, NEW a \in Agent, NEW to \in {"STOPPED", "ABORTED", "KILLED"}, NEW all \in BOOLEAN
  PROVE  /\ Begun(a, to, all) \in Ending
         /\ Begun(a, to, all).session = agents[a].session
         /\ Begun(a, to, all).at = "snapshot"
         /\ Reached(Begun(a, to, all).session)
<1>1. agents[a].session \in Session \cup {NoSession} /\ Reached(agents[a].session)
  BY DEF AgentInv, AgentTypeOK, RecordsSound
<1>2. Begun(a, to, all).session = agents[a].session
  BY DEF Begun
<1>3. Begun(a, to, all) \in Ending /\ Begun(a, to, all).at = "snapshot"
  BY <1>1 DEF Begun, Ending
<1> QED
  BY <1>1, <1>2, <1>3

LEMMA EndKeeps ==
  ASSUME AgentInv, NEW a \in Agent, NEW to \in {"STOPPED", "ABORTED", "KILLED"}, EndAgent(a, to)
  PROVE  AgentInv'
<1>1. EndTerminate(Begun(a, to, FALSE)) /\ starts' = starts
      /\ emergency' = emergency /\ doomed' = doomed /\ Accepted(a)
  BY DEF EndAgent, emergencyVars
<1>2. /\ emergency' \in {"off", "killed", "killing"} /\ doomed' \subseteq Agent
      /\ disturbed' \subseteq Agent
  BY <1>1 DEF Accepted, AgentInv, AgentTypeOK
<1> QED
  BY <1>1, <1>2, BegunMeans, TerminateKeeps

LEMMA CheckpointKeeps ==
  ASSUME AgentInv, NEW a \in Agent, StopWithCheckpoint(a)
  PROVE  AgentInv'
<1> USE DEF AgentInv
<1> DEFINE e == Begun(a, "STOPPED", FALSE)
<1>1. /\ e \in Ending /\ e.session # NoSession /\ Reached(e.session) /\ e.at # "terminated"
  BY BegunMeans DEF StopWithCheckpoint
<1>2. /\ endings' = endings \cup {e} /\ starts' = starts /\ sessions' = sessions
      /\ agents' = agents /\ runtimes' = runtimes /\ locks' = locks
      /\ emergency' = emergency /\ doomed' = doomed /\ disturbed' \subseteq Agent
  BY DEF StopWithCheckpoint, emergencyVars, Accepted, AgentTypeOK
<1> HIDE DEF e
<1>3. AgentTypeOK'
  BY <1>1, <1>2 DEF AgentTypeOK
<1>4. \A f \in endings' : /\ f.session # NoSession
                          /\ Reached(f.session)
                          /\ f.at = "terminated" => runtimes'[f.session] = "GONE"
  BY <1>1, <1>2 DEF EndingsSound
<1>5. \A b \in Agent : Reached(agents'[b].session)
  BY <1>2 DEF RecordsSound
<1> QED
  BY <1>2, <1>3, <1>4, <1>5, FrameKeeps

LEMMA SnapshotFailsKeeps ==
  ASSUME AgentInv, NEW e \in endings, SnapshotFails(e)
  PROVE  AgentInv'
<1> USE DEF AgentInv
<1>1. /\ endings' = endings \ {e} /\ starts' = starts /\ sessions' = sessions
      /\ agents' = agents /\ runtimes' = runtimes /\ locks' = locks
      /\ emergency' = emergency /\ doomed' = doomed /\ disturbed' = disturbed
  BY DEF SnapshotFails, emergencyVars
<1>2. AgentTypeOK'
  BY <1>1 DEF AgentTypeOK
<1>3. /\ \A f \in endings' : /\ f.session # NoSession
                             /\ Reached(f.session)
                             /\ f.at = "terminated" => runtimes'[f.session] = "GONE"
      /\ \A b \in Agent : Reached(agents'[b].session)
  BY <1>1 DEF EndingsSound, RecordsSound
<1> QED
  BY <1>1, <1>2, <1>3, FrameKeeps

LEMMA SnapshotTakenKeeps ==
  ASSUME AgentInv, NEW e \in endings, SnapshotTaken(e)
  PROVE  AgentInv'
<1>1. e \in Ending /\ Reached(e.session)
  BY DEF AgentInv, AgentTypeOK, EndingsSound
<1>2. /\ EndTerminate(e) /\ starts' = starts
      /\ emergency' \in {"off", "killed", "killing"} /\ doomed' \subseteq Agent
      /\ disturbed' \subseteq Agent
  BY DEF SnapshotTaken, emergencyVars, AgentInv, AgentTypeOK
<1> QED
  BY <1>1, <1>2, TerminateKeeps

LEMMA FinishKeeps ==
  ASSUME AgentInv, NEW e \in endings, EndFinish(e)
  PROVE  AgentInv'
<1> USE DEF AgentInv
<1>1. e \in Ending /\ Reached(e.session)
  BY DEF AgentTypeOK, EndingsSound
<1>2. /\ endings' = endings \ {e} /\ starts' = starts /\ runtimes' = runtimes /\ locks' = locks
      /\ disturbed' = disturbed /\ EndWrite(e)
      /\ emergency' \in {"off", "killed", "killing"} /\ doomed' \subseteq Agent
  BY DEF EndFinish, emergencyVars, AgentTypeOK
<1>3. runtimes'[e.session] = "GONE"
  BY <1>2 DEF EndFinish, EndingsSound
<1>4. /\ agents' \in [Agent -> [status : AgentStatus, session : Session \cup {NoSession}]]
      /\ sessions' \in [Session -> [status : SessionStatus, agent : Agent \cup {NoAgent}]]
      /\ \A a \in Agent : Reached(agents'[a].session)
      /\ \A s \in Session : /\ sessions'[s].status = "NONE" <=> sessions[s].status = "NONE"
                            /\ sessions'[s].status \in Ended =>
                                  sessions[s].status \in Ended \/ runtimes'[s] = "GONE"
  BY <1>1, <1>2, <1>3, WriteMeans
<1>5. AgentTypeOK'
  BY <1>2, <1>4 DEF AgentTypeOK
<1>6. \A f \in endings' : /\ f.session # NoSession
                          /\ Reached(f.session)
                          /\ f.at = "terminated" => runtimes'[f.session] = "GONE"
  BY <1>2 DEF EndingsSound
<1> QED
  BY <1>2, <1>4, <1>5, <1>6, FrameKeeps

LEMMA EmergencyKillKeeps ==
  ASSUME AgentInv, NEW a \in Agent, EmergencyKill(a)
  PROVE  AgentInv'
<1>1. EndTerminate(Begun(a, "KILLED", TRUE)) /\ starts' = starts
      /\ emergency' = emergency /\ doomed' \subseteq doomed /\ Accepted(a)
  BY DEF EmergencyKill
<1>2. /\ emergency' \in {"off", "killed", "killing"} /\ doomed' \subseteq Agent
      /\ disturbed' \subseteq Agent
  BY <1>1 DEF Accepted, AgentInv, AgentTypeOK
<1> QED
  BY <1>1, <1>2, BegunMeans, TerminateKeeps

(* The steps that only touch runtimes or the loop of emergencyStopAll.     *)
LEMMA OtherKeeps ==
  ASSUME AgentInv,
         \/ EmergencyStop \/ EmergencyList \/ EmergencyReturns
         \/ \E s \in Session : RuntimeEnds(s) \/ RuntimeRecovered(s)
  PROVE  AgentInv'
<1>1. /\ starts' = starts /\ sessions' = sessions /\ agents' = agents /\ endings' = endings
      /\ locks' = locks /\ disturbed' = disturbed
      /\ emergency' \in {"off", "killed", "killing"} /\ doomed' \subseteq Agent
  BY DEF EmergencyStop, EmergencyList, EmergencyReturns, RuntimeEnds, RuntimeRecovered,
         emergencyVars, AgentInv, AgentTypeOK
<1>2. /\ runtimes' \in [Session -> RuntimeStatus]
      /\ \A s \in Session : /\ runtimes'[s] = "NONE" <=> runtimes[s] = "NONE"
                            /\ runtimes[s] = "GONE" => runtimes'[s] = "GONE"
  <2>1. runtimes \in [Session -> RuntimeStatus]
    BY DEF AgentInv, AgentTypeOK
  <2>2. CASE EmergencyStop
    BY <2>1, <2>2 DEF EmergencyStop, Live, RuntimeStatus
  <2>3. CASE EmergencyList \/ EmergencyReturns
    BY <2>1, <2>3 DEF EmergencyList, EmergencyReturns
  <2>4. ASSUME NEW s \in Session, RuntimeEnds(s) \/ RuntimeRecovered(s)
        PROVE  /\ runtimes' \in [Session -> RuntimeStatus]
               /\ \A t \in Session : /\ runtimes'[t] = "NONE" <=> runtimes[t] = "NONE"
                                     /\ runtimes[t] = "GONE" => runtimes'[t] = "GONE"
    BY <2>1, <2>4 DEF RuntimeEnds, RuntimeRecovered, Live, RuntimeStatus
  <2> QED
    BY <2>2, <2>3, <2>4
<1>3. AgentTypeOK'
  BY <1>1, <1>2 DEF AgentInv, AgentTypeOK
<1> QED
  BY <1>1, <1>2, <1>3, RuntimeKeeps

LEMMA AgentNextKeeps == AgentInv /\ [AgentNext]_agentVars => AgentInv'
<1> SUFFICES ASSUME AgentInv, [AgentNext]_agentVars PROVE AgentInv'
  OBVIOUS
<1>1. ASSUME NEW a \in Agent, NEW s \in Session, StartAgent(a, s) \/ StartSteps(a, s)
      PROVE  AgentInv'
  <2>1. CASE StartFails(a, s)
    BY <2>1, ThrowKeeps DEF StartFails, AgentInv, AgentTypeOK
  <2> QED
    BY <1>1, <2>1, StartKeeps, WorkspaceKeeps, CreatedKeeps, ReturnKeeps DEF StartSteps
<1>2. ASSUME NEW a \in Agent, PauseAgent(a) \/ ResumeAgent(a)
      PROVE  AgentInv'
  BY <1>2, SwitchKeeps DEF PauseAgent, ResumeAgent
<1>3. ASSUME NEW a \in Agent, NEW to \in {"STOPPED", "ABORTED", "KILLED"}, EndAgent(a, to)
      PROVE  AgentInv'
  BY <1>3, EndKeeps
<1>4. ASSUME NEW a \in Agent, StopWithCheckpoint(a) PROVE AgentInv'
  BY <1>4, CheckpointKeeps
<1>5. ASSUME NEW e \in endings, EndSteps(e) PROVE AgentInv'
  BY <1>5, SnapshotFailsKeeps, SnapshotTakenKeeps, FinishKeeps DEF EndSteps
<1>6. CASE EmergencyStop \/ EmergencySteps
  BY <1>6, EmergencyKillKeeps, OtherKeeps DEF EmergencySteps
<1>7. ASSUME NEW s \in Session, RuntimeEnds(s) \/ RuntimeRecovered(s) PROVE AgentInv'
  BY <1>7, OtherKeeps
<1>8. CASE UNCHANGED agentVars
  <2>1. /\ starts' = starts /\ sessions' = sessions /\ agents' = agents /\ endings' = endings
        /\ locks' = locks /\ disturbed' = disturbed /\ runtimes' = runtimes
        /\ emergency' = emergency /\ doomed' = doomed
    BY <1>8 DEF agentVars
  <2>2. AgentTypeOK'
    BY <2>1 DEF AgentInv, AgentTypeOK
  <2> QED
    BY <2>1, <2>2, RuntimeKeeps
<1> QED
  BY <1>1, <1>2, <1>3, <1>4, <1>5, <1>6, <1>7, <1>8 DEF AgentNext, AgentStep

LEMMA AgentInvariance == AgentSpec => []AgentInv
<1> QED
  BY AgentInitHolds, AgentNextKeeps, PTL DEF AgentSpec

(* The records, the sessions and the calls in flight stay well typed.      *)
THEOREM AgentTypeCorrect == AgentSpec => []AgentTypeOK
<1>1. AgentInv => AgentTypeOK
  BY DEF AgentInv
<1> QED
  BY <1>1, AgentInvariance, PTL

(* However the commands on any agents overlap, a session that is over has  *)
(* no runtime and gets none.                                               *)
THEOREM NoRuntimeOutlivesItsSession == AgentSpec => []OverMeansGone
<1>1. AgentInv => OverMeansGone
  BY DEF AgentInv, OverMeansGone, OverSound, StartsSound, Ended
<1> QED
  BY <1>1, AgentInvariance, PTL

-----------------------------------------------------------------------------
(* An ending gives up a lock and ends the runtime in one go, and no start  *)
(* is on its way in a session that a record leads to.                      *)
LEMMA TerminateKeepsWorkspaces ==
  ASSUME AgentInv, NEW e \in Ending, Reached(e.session), EndTerminate(e), starts' = starts
  PROVE  KeepsWorkspaces
<1> SUFFICES ASSUME NEW s \in Session, InUse(s)', locks[s] # NoAgent, locks'[s] = NoAgent
             PROVE  FALSE
  BY DEF KeepsWorkspaces
<1>1. e.session # NoSession /\ s = e.session
  BY DEF EndTerminate, Released, AgentInv, AgentTypeOK
<1>2. runtimes'[s] = "GONE"
  <2>1. runtimes[s] # "NONE" /\ runtimes[s] \in RuntimeStatus
    BY <1>1 DEF Reached, AgentInv, AgentTypeOK
  <2>2. runtimes' = IF Live(s) THEN [runtimes EXCEPT ![s] = "GONE"] ELSE runtimes
    BY <1>1 DEF EndTerminate, Terminated
  <2> QED
    BY <2>1, <2>2 DEF Live, RuntimeStatus, AgentInv, AgentTypeOK
<1>3. \A a \in Agent : starts'[a][s] \notin {"waiting", "created"}
  BY <1>1 DEF Reached, OnItsWay
<1> QED
  BY <1>2, <1>3 DEF InUse, Live

LEMMA StepKeepsWorkspaces == AgentInv /\ [AgentNext]_agentVars => KeepsWorkspaces
<1> SUFFICES ASSUME AgentInv, [AgentNext]_agentVars PROVE KeepsWorkspaces
  OBVIOUS
<1>1. ASSUME locks' = locks PROVE KeepsWorkspaces
  BY <1>1 DEF KeepsWorkspaces
<1>2. ASSUME NEW a \in Agent, NEW s \in Session, StartAgent(a, s) \/ StartSteps(a, s)
      PROVE  KeepsWorkspaces
  <2>1. CASE StartInWorkspace(a, s)
    BY <2>1, AgentAssumption DEF StartInWorkspace, KeepsWorkspaces, AgentInv, AgentTypeOK
  <2>2. CASE StartAgent(a, s) \/ StartFails(a, s) \/ RuntimeCreated(a, s) \/ StartReturns(a, s)
    BY <1>1, <2>2 DEF StartAgent, StartFails, RuntimeCreated, StartReturns
  <2> QED
    BY <1>2, <2>1, <2>2 DEF StartSteps
<1>3. ASSUME NEW a \in Agent, PauseAgent(a) \/ ResumeAgent(a) \/ StopWithCheckpoint(a)
      PROVE  KeepsWorkspaces
  BY <1>1, <1>3 DEF PauseAgent, ResumeAgent, Switch, StopWithCheckpoint
<1>4. ASSUME NEW a \in Agent, NEW to \in {"STOPPED", "ABORTED", "KILLED"}, EndAgent(a, to)
      PROVE  KeepsWorkspaces
  BY <1>4, BegunMeans, TerminateKeepsWorkspaces DEF EndAgent
<1>5. ASSUME NEW e \in endings, EndSteps(e) PROVE KeepsWorkspaces
  <2>1. CASE SnapshotTaken(e)
    <3>1. e \in Ending /\ Reached(e.session)
      BY DEF AgentInv, AgentTypeOK, EndingsSound
    <3> QED
      BY <2>1, <3>1, TerminateKeepsWorkspaces DEF SnapshotTaken
  <2>2. CASE SnapshotFails(e) \/ EndFinish(e)
    BY <1>1, <2>2 DEF SnapshotFails, EndFinish
  <2> QED
    BY <1>5, <2>1, <2>2 DEF EndSteps
<1>6. ASSUME NEW a \in Agent, EmergencyKill(a) PROVE KeepsWorkspaces
  BY <1>6, BegunMeans, TerminateKeepsWorkspaces DEF EmergencyKill
<1>7. CASE EmergencyStop \/ EmergencyList \/ EmergencyReturns
  BY <1>1, <1>7 DEF EmergencyStop, EmergencyList, EmergencyReturns
<1>8. ASSUME NEW s \in Session, RuntimeEnds(s) \/ RuntimeRecovered(s) PROVE KeepsWorkspaces
  BY <1>1, <1>8 DEF RuntimeEnds, RuntimeRecovered
<1>9. CASE UNCHANGED agentVars
  BY <1>1, <1>9 DEF agentVars
<1> QED
  BY <1>2, <1>3, <1>4, <1>5, <1>6, <1>7, <1>8, <1>9 DEF AgentNext, AgentStep, EmergencySteps

(* No command of any agent gives up the lock on a workspace in which a     *)
(* runtime works or is about to.                                           *)
THEOREM WorkspacesAreKept == AgentSpec => WorkspaceKept
<1> QED
  BY AgentInvariance, StepKeepsWorkspaces, PTL DEF AgentSpec, WorkspaceKept

-----------------------------------------------------------------------------
(* Agents whose commands never overlapped.                                 *)

\* A session on its way, a record and an ending belong to the agent they name.
Owned ==
    /\ \A a \in Agent, s \in Session :
          OnItsWay(a, s) => sessions[s].agent = a /\ sessions[s].status = "ACTIVE"
    /\ \A a \in Agent :
          agents[a].session # NoSession => sessions[agents[a].session].agent = a
    /\ \A e \in endings : sessions[e.session].agent = e.agent

\* One start or one ending at a time, and an ending works with the record there is.
OneCommand(a) ==
    /\ \A s, t \in Session : starts[a][s] # "idle" /\ starts[a][t] # "idle" => s = t
    /\ \A e \in endings : e.agent = a =>
          /\ \A s \in Session : starts[a][s] = "idle"
          /\ \A d \in endings : d.agent = a => d = e
          /\ e.session = agents[a].session

\* What InStep says of one agent, and what holds during its next start.
RecordInStep(a) ==
    LET s == agents[a].session
        st == agents[a].status
    IN  /\ st = "INITIALIZING" <=> \E t \in Session : starts[a][t] # "idle"
        /\ st = "IDLE" => s = NoSession
        /\ st = "RUNNING" /\ s # NoSession => sessions[s].status = "ACTIVE"
        /\ st = "PAUSED" /\ s # NoSession => sessions[s].status = "PAUSED"
        /\ st \notin {"RUNNING", "PAUSED"} /\ s # NoSession => runtimes[s] = "GONE"
        /\ \A t \in Session :
              Live(t) /\ sessions[t].agent = a =>
                  starts[a][t] = "created" \/ (s = t /\ st \in {"RUNNING", "PAUSED"})

Calm(a) == OneCommand(a) /\ RecordInStep(a)

CalmInv == Owned /\ \A a \in Agent \ disturbed : Calm(a)

LEMMA InitCalm == AgentInit => CalmInv
<1> SUFFICES ASSUME AgentInit PROVE CalmInv
  OBVIOUS
<1>1. \A a \in Agent, s \in Session : starts[a][s] = "idle" /\ ~OnItsWay(a, s)
  BY DEF AgentInit, OnItsWay
<1>2. /\ endings = {} /\ \A s \in Session : ~Live(s)
      /\ \A a \in Agent : agents[a].status = "IDLE" /\ agents[a].session = NoSession
  BY DEF AgentInit, Live
<1>3. Owned
  BY <1>1, <1>2 DEF Owned
<1>4. \A a \in Agent : OneCommand(a)
  BY <1>1, <1>2 DEF OneCommand
<1>5. \A a \in Agent : RecordInStep(a)
  BY <1>1, <1>2 DEF RecordInStep
<1> QED
  BY <1>3, <1>4, <1>5 DEF CalmInv, Calm

\* Records and endings lead to sessions that have been made.
LEMMA ReachedSessions ==
  ASSUME AgentInv
  PROVE  /\ \A a \in Agent : agents[a].session # NoSession =>
               agents[a].session \in Session /\ sessions[agents[a].session].status # "NONE"
         /\ \A e \in endings : /\ e \in Ending /\ e.session \in Session /\ e.agent \in Agent
                               /\ sessions[e.session].status # "NONE"
<1>1. ASSUME NEW a \in Agent, agents[a].session # NoSession
      PROVE  agents[a].session \in Session /\ sessions[agents[a].session].status # "NONE"
  <2>1. agents[a].session \in Session
    BY <1>1 DEF AgentInv, AgentTypeOK
  <2> QED
    BY <1>1, <2>1 DEF AgentInv, RecordsSound, Reached, RuntimesSound
<1>2. ASSUME NEW e \in endings
      PROVE  /\ e \in Ending /\ e.session \in Session /\ e.agent \in Agent
             /\ sessions[e.session].status # "NONE"
  <2>1. e \in Ending /\ e.session # NoSession
    BY DEF AgentInv, AgentTypeOK, EndingsSound
  <2>2. e.session \in Session /\ e.agent \in Agent
    BY <2>1 DEF Ending
  <2> QED
    BY <2>1, <2>2 DEF AgentInv, EndingsSound, Reached, RuntimesSound
<1> QED
  BY <1>1, <1>2

(* Nothing changes hands when sessions keep their agents, and records and  *)
(* endings are passed on as they were.                                     *)
LEMMA OwnedKeeps ==
  ASSUME AgentInv, Owned,
         \A s \in Session : sessions[s].status # "NONE" => sessions'[s].agent = sessions[s].agent,
         \A a \in Agent, s \in Session : OnItsWay(a, s)' =>
            \/ OnItsWay(a, s) /\ sessions'[s] = sessions[s]
            \/ sessions'[s].agent = a /\ sessions'[s].status = "ACTIVE",
         \A a \in Agent :
            \/ agents'[a].session \in {agents[a].session, NoSession}
            \/ agents'[a].session \in Session /\ sessions'[agents'[a].session].agent = a
            \/ \E e \in endings : e.agent = a /\ e.session = agents'[a].session,
         \A e \in endings' :
            \/ \E d \in endings : d.agent = e.agent /\ d.session = e.session
            \/ /\ e.session # NoSession /\ e.agent \in Agent
               /\ e.session = agents[e.agent].session
  PROVE  Owned'
<1>1. \A a \in Agent, s \in Session :
         OnItsWay(a, s)' => sessions'[s].agent = a /\ sessions'[s].status = "ACTIVE"
  BY DEF Owned
<1>2. ASSUME NEW e \in endings
      PROVE  sessions'[e.session].agent = e.agent
  BY ReachedSessions DEF Owned
<1>3. ASSUME NEW a \in Agent, agents[a].session # NoSession
      PROVE  sessions'[agents[a].session].agent = a
  BY <1>3, ReachedSessions DEF Owned
<1>4. \A a \in Agent : agents'[a].session # NoSession => sessions'[agents'[a].session].agent = a
  BY <1>2, <1>3
<1>5. \A e \in endings' : sessions'[e.session].agent = e.agent
  BY <1>2, <1>3
<1> QED
  BY <1>1, <1>4, <1>5 DEF Owned

(* A step of others: it leaves the agent's record, its start, its ending   *)
(* and its sessions alone, and brings back none of its runtimes.           *)
LEMMA OthersCalm ==
  ASSUME AgentInv, Owned, NEW a \in Agent, Calm(a),
         agents'[a] = agents[a], \A s \in Session : starts'[a][s] = starts[a][s],
         \A e : e.agent = a => (e \in endings' <=> e \in endings),
         \A s \in Session : sessions[s].agent = a => sessions'[s] = sessions[s],
         \A s \in Session : sessions'[s].agent = a => sessions[s].agent = a,
         \A s \in Session : sessions[s].agent = a =>
            (Live(s)' => Live(s)) /\ (runtimes[s] = "GONE" => runtimes'[s] = "GONE")
  PROVE  Calm(a)'
<1>1. OneCommand(a)'
  BY DEF Calm, OneCommand
<1>2. agents[a].session # NoSession =>
         agents[a].session \in Session /\ sessions[agents[a].session].agent = a
  BY ReachedSessions DEF Owned
<1>3. RecordInStep(a)'
  BY <1>2 DEF Calm, RecordInStep
<1> QED
  BY <1>1, <1>3 DEF Calm

(* The agent that a command disturbs is no longer spoken of; a command     *)
(* that is accepted finds none in flight.                                  *)
LEMMA AcceptedCalm ==
  ASSUME NEW a \in Agent, Accepted(a), a \notin disturbed'
  PROVE  /\ a \notin disturbed
         /\ \A s \in Session : starts[a][s] = "idle"
         /\ \A e \in endings : e.agent # a
BY DEF Accepted, InFlight

LEMMA AcceptedOthers ==
  ASSUME NEW a \in Agent, Accepted(a)
  PROVE  disturbed \subseteq disturbed'
BY DEF Accepted

LEMMA Typed ==
  ASSUME AgentInv
  PROVE  /\ agents \in [Agent -> [status : AgentStatus, session : Session \cup {NoSession}]]
         /\ sessions \in [Session -> [status : SessionStatus, agent : Agent \cup {NoAgent}]]
         /\ runtimes \in [Session -> RuntimeStatus]
         /\ starts \in [Agent -> [Session -> {"idle", "provisioning", "waiting", "created"}]]
         /\ endings \subseteq Ending
BY DEF AgentInv, AgentTypeOK

LEMMA StartCalm ==
  ASSUME AgentInv, CalmInv, NEW a \in Agent, NEW s \in Session, StartAgent(a, s)
  PROVE  CalmInv'
<1>1. /\ \A b \in Agent, t \in Session :
            starts'[b][t] = IF b = a /\ t = s THEN "provisioning" ELSE starts[b][t]
      /\ starts[a][s] = "idle"
  BY Typed DEF StartAgent
<1>2. /\ agents'[a].status = "INITIALIZING" /\ agents'[a].session = agents[a].session
      /\ \A b \in Agent : b # a => agents'[b] = agents[b]
      /\ agents[a].status \in {"IDLE", "STOPPED", "ABORTED", "FAILED"}
  BY Typed DEF StartAgent, AgentMay
<1>3. /\ sessions' = sessions /\ runtimes' = runtimes /\ endings' = endings /\ Accepted(a)
  BY DEF StartAgent
<1>4. Owned'
  <2>1. \A b \in Agent, t \in Session : OnItsWay(b, t)' => OnItsWay(b, t)
    BY <1>1 DEF OnItsWay
  <2>2. \A b \in Agent : agents'[b].session = agents[b].session
    BY <1>2
  <2> QED
    BY <1>3, <2>1, <2>2, OwnedKeeps DEF CalmInv
<1>5. ASSUME NEW b \in Agent, b \notin disturbed', b # a
      PROVE  Calm(b)'
  <2>1. Calm(b) /\ Owned
    BY <1>3, <1>5, AcceptedOthers DEF CalmInv
  <2> QED
    BY <1>1, <1>2, <1>3, <1>5, <2>1, OthersCalm DEF Live
<1>6. ASSUME a \notin disturbed'
      PROVE  Calm(a)'
  <2>1. /\ \A t \in Session : starts[a][t] = "idle"
        /\ \A e \in endings : e.agent # a
        /\ RecordInStep(a)
    BY <1>3, <1>6, AcceptedCalm DEF CalmInv, Calm
  <2>2. OneCommand(a)'
    BY <1>1, <1>3, <2>1 DEF OneCommand
  <2>3. RecordInStep(a)'
    <3>1. \A t \in Session : ~(Live(t) /\ sessions[t].agent = a)
      BY <1>2, <2>1 DEF RecordInStep
    <3>2. agents[a].session # NoSession => runtimes[agents[a].session] = "GONE"
      BY <1>2, <2>1 DEF RecordInStep
    <3> QED
      BY <1>1, <1>2, <1>3, <3>1, <3>2 DEF RecordInStep, Live
  <2> QED
    BY <2>2, <2>3 DEF Calm
<1> QED
  BY <1>4, <1>5, <1>6 DEF CalmInv

LEMMA ThrowCalm ==
  ASSUME AgentInv, CalmInv, NEW a \in Agent, NEW s \in Session, StartThrows(a, s),
         starts[a][s] \in {"provisioning", "waiting"},
         UNCHANGED <<sessions, runtimes, endings, disturbed>>
  PROVE  CalmInv'
<1>1. /\ \A b \in Agent, t \in Session :
            starts'[b][t] = IF b = a /\ t = s THEN "idle" ELSE starts[b][t]
      /\ agents'[a].status = "FAILED" /\ agents'[a].session = agents[a].session
      /\ \A b \in Agent : b # a => agents'[b] = agents[b]
  BY Typed DEF StartThrows
<1>2. Owned'
  <2>1. \A b \in Agent, t \in Session : OnItsWay(b, t)' => OnItsWay(b, t)
    BY <1>1 DEF OnItsWay
  <2>2. \A b \in Agent : agents'[b].session = agents[b].session
    BY <1>1
  <2> QED
    BY <2>1, <2>2, OwnedKeeps DEF CalmInv
<1>3. ASSUME NEW b \in Agent, b \notin disturbed', b # a
      PROVE  Calm(b)'
  <2>1. Calm(b) /\ Owned
    BY <1>3 DEF CalmInv
  <2> QED
    BY <1>1, <1>3, <2>1, OthersCalm DEF Live
<1>4. ASSUME a \notin disturbed'
      PROVE  Calm(a)'
  <2>1. OneCommand(a) /\ RecordInStep(a)
    BY <1>4 DEF CalmInv, Calm
  <2>2. /\ \A t \in Session : starts'[a][t] = "idle"
        /\ \A e \in endings : e.agent # a
    BY <1>1, <2>1 DEF OneCommand
  <2>3. OneCommand(a)'
    BY <2>2 DEF OneCommand
  <2>4. agents[a].status = "INITIALIZING"
    BY <2>1 DEF RecordInStep
  <2>5. \A t \in Session : ~(Live(t) /\ sessions[t].agent = a)
    BY <2>1, <2>4 DEF RecordInStep, OneCommand
  <2>6. RecordInStep(a)'
    BY <1>1, <2>1, <2>2, <2>4, <2>5 DEF RecordInStep, Live
  <2> QED
    BY <2>3, <2>6 DEF Calm
<1> QED
  BY <1>2, <1>3, <1>4 DEF CalmInv

LEMMA WorkspaceCalm ==
  ASSUME AgentInv, CalmInv, NEW a \in Agent, NEW s \in Session, StartInWorkspace(a, s)
  PROVE  CalmInv'
<1>1. CASE sessions[s].status # "NONE"
  BY <1>1, ThrowCalm DEF StartInWorkspace
<1>2. CASE sessions[s].status = "NONE"
  <2>1. /\ starts[a][s] = "provisioning"
        /\ \A b \in Agent, t \in Session :
              starts'[b][t] = IF b = a /\ t = s THEN "waiting" ELSE starts[b][t]
    BY <1>2, Typed DEF StartInWorkspace
  <2>2. /\ sessions'[s].status = "ACTIVE" /\ sessions'[s].agent = a
        /\ \A t \in Session : t # s => sessions'[t] = sessions[t]
    BY <1>2, Typed DEF StartInWorkspace
  <2>3. agents' = agents /\ runtimes' = runtimes /\ endings' = endings /\ disturbed' = disturbed
    BY <1>2 DEF StartInWorkspace
  <2>4. runtimes[s] = "NONE" /\ ~Live(s)
    BY <1>2 DEF AgentInv, RuntimesSound, Live
  <2>5. Owned'
    <3>1. \A b \in Agent, t \in Session : OnItsWay(b, t)' =>
             \/ OnItsWay(b, t) /\ sessions'[t] = sessions[t]
             \/ sessions'[t].agent = b /\ sessions'[t].status = "ACTIVE"
      BY <1>2, <2>1, <2>2 DEF OnItsWay, AgentInv, StartsSound
    <3> QED
      BY <1>2, <2>2, <2>3, <3>1, OwnedKeeps DEF CalmInv
  <2>6. ASSUME NEW b \in Agent, b \notin disturbed'
        PROVE  Calm(b)'
    <3>1. OneCommand(b) /\ RecordInStep(b)
      BY <2>3, <2>6 DEF CalmInv, Calm
    <3>2. OneCommand(b)'
      BY <2>1, <2>3, <3>1 DEF OneCommand
    <3>3. agents[b].session # s
      BY <1>2, ReachedSessions, AgentAssumption
    <3>4. agents[b].session # NoSession => agents[b].session \in Session
      BY ReachedSessions
    <3>5. RecordInStep(b)'
      BY <2>1, <2>2, <2>3, <2>4, <3>1, <3>3, <3>4 DEF RecordInStep, Live
    <3> QED
      BY <3>2, <3>5 DEF Calm
  <2> QED
    BY <2>5, <2>6 DEF CalmInv
<1> QED
  BY <1>1, <1>2

LEMMA CreatedCalm ==
  ASSUME AgentInv, CalmInv, NEW a \in Agent, NEW s \in Session, RuntimeCreated(a, s)
  PROVE  CalmInv'
<1>1. /\ starts[a][s] = "waiting"
      /\ \A b \in Agent, t \in Session :
            starts'[b][t] = IF b = a /\ t = s THEN "created" ELSE starts[b][t]
  BY Typed DEF RuntimeCreated
<1>2. /\ runtimes'[s] = "READY" /\ \A t \in Session : t # s => runtimes'[t] = runtimes[t]
      /\ agents' = agents /\ sessions' = sessions /\ endings' = endings /\ disturbed' = disturbed
  BY Typed DEF RuntimeCreated
<1>3. OnItsWay(a, s) /\ sessions[s].agent = a
  BY <1>1 DEF OnItsWay, CalmInv, Owned
<1>4. Owned'
  <2>1. \A b \in Agent, t \in Session : OnItsWay(b, t)' => OnItsWay(b, t)
    BY <1>1 DEF OnItsWay
  <2> QED
    BY <1>2, <2>1, OwnedKeeps DEF CalmInv
<1>5. ASSUME NEW b \in Agent, b \notin disturbed'
      PROVE  Calm(b)'
  <2>1. OneCommand(b) /\ RecordInStep(b)
    BY <1>2, <1>5 DEF CalmInv, Calm
  <2>2. OneCommand(b)'
    BY <1>1, <1>2, <2>1 DEF OneCommand
  <2>3. agents[b].session # s
    BY <1>3, AgentAssumption DEF AgentInv, RecordsSound, Reached
  <2>4. agents[b].session # NoSession => agents[b].session \in Session
    BY ReachedSessions
  <2>5. RecordInStep(b)'
    BY <1>1, <1>2, <1>3, <2>1, <2>3, <2>4 DEF RecordInStep, Live
  <2> QED
    BY <2>2, <2>5 DEF Calm
<1> QED
  BY <1>4, <1>5 DEF CalmInv

LEMMA ReturnCalm ==
  ASSUME AgentInv, CalmInv, NEW a \in Agent, NEW s \in Session, StartReturns(a, s)
  PROVE  CalmInv'
<1>1. /\ starts[a][s] = "created"
      /\ \A b \in Agent, t \in Session :
            starts'[b][t] = IF b = a /\ t = s THEN "idle" ELSE starts[b][t]
      /\ agents'[a].status = "RUNNING" /\ agents'[a].session = s
      /\ \A b \in Agent : b # a => agents'[b] = agents[b]
  BY Typed DEF StartReturns
<1>2. sessions' = sessions /\ runtimes' = runtimes /\ endings' = endings /\ disturbed' = disturbed
  BY DEF StartReturns
<1>3. sessions[s].agent = a /\ sessions[s].status = "ACTIVE"
  BY <1>1 DEF OnItsWay, CalmInv, Owned
<1>4. Owned'
  <2>1. \A b \in Agent, t \in Session : OnItsWay(b, t)' => OnItsWay(b, t)
    BY <1>1 DEF OnItsWay
  <2> QED
    BY <1>1, <1>2, <1>3, <2>1, OwnedKeeps DEF CalmInv
<1>5. ASSUME NEW b \in Agent, b \notin disturbed', b # a
      PROVE  Calm(b)'
  <2>1. Calm(b) /\ Owned
    BY <1>2, <1>5 DEF CalmInv
  <2> QED
    BY <1>1, <1>2, <1>5, <2>1, OthersCalm DEF Live
<1>6. ASSUME a \notin disturbed'
      PROVE  Calm(a)'
  <2>1. OneCommand(a) /\ RecordInStep(a)
    BY <1>2, <1>6 DEF CalmInv, Calm
  <2>2. /\ \A t \in Session : starts'[a][t] = "idle"
        /\ \A e \in endings : e.agent # a
    BY <1>1, <2>1 DEF OneCommand
  <2>3. OneCommand(a)'
    BY <1>2, <2>2 DEF OneCommand
  <2>4. agents[a].status = "INITIALIZING"
    BY <1>1, <2>1 DEF RecordInStep
  <2>5. \A t \in Session : Live(t) /\ sessions[t].agent = a => t = s
    BY <1>1, <2>1, <2>4 DEF RecordInStep, OneCommand
  <2>6. RecordInStep(a)'
    BY <1>1, <1>2, <1>3, <2>2, <2>5 DEF RecordInStep, Live
  <2> QED
    BY <2>3, <2>6 DEF Calm
<1> QED
  BY <1>4, <1>5, <1>6 DEF CalmInv

(* A command that is accepted for an agent without another in flight finds *)
(* its record in step, so the runtime that works is the one it leads to.   *)
LEMMA SwitchCalm ==
  ASSUME AgentInv, CalmInv, NEW a \in Agent, PauseAgent(a) \/ ResumeAgent(a)
  PROVE  CalmInv'
<1> DEFINE s == agents[a].session
           st == agents[a].status
<1>1. /\ starts' = starts /\ endings' = endings /\ Accepted(a)
      /\ \A b \in Agent : agents'[b].session = agents[b].session
      /\ \A b \in Agent : b # a => agents'[b] = agents[b]
      /\ agents'[a].status \in {st, "PAUSED", "RUNNING"}
  BY Typed DEF PauseAgent, ResumeAgent, Switch
<1>2. /\ \A t \in Session : /\ sessions'[t].agent = sessions[t].agent
                            /\ t # s => sessions'[t] = sessions[t] /\ runtimes'[t] = runtimes[t]
      /\ \A t \in Session : /\ Live(t)' <=> Live(t)
                            /\ runtimes[t] = "GONE" => runtimes'[t] = "GONE"
  BY Typed DEF PauseAgent, ResumeAgent, Switch, Live
<1>3. Owned'
  <2>1. ASSUME NEW b \in Agent, NEW t \in Session, OnItsWay(b, t)'
        PROVE  OnItsWay(b, t) /\ sessions'[t] = sessions[t]
    <3>1. OnItsWay(b, t)
      BY <1>1, <2>1 DEF OnItsWay
    <3>2. t # s
      BY <3>1, AgentAssumption DEF AgentInv, RecordsSound, Reached
    <3> QED
      BY <1>2, <3>1, <3>2
  <2> QED
    BY <1>1, <1>2, <2>1, OwnedKeeps DEF CalmInv
<1>4. ASSUME NEW b \in Agent, b \notin disturbed', b # a
      PROVE  Calm(b)'
  <2>1. Calm(b) /\ Owned
    BY <1>1, <1>4, AcceptedOthers DEF CalmInv
  <2>2. \A t \in Session : sessions[t].agent = b => sessions'[t] = sessions[t]
    <3>1. s # NoSession => sessions[s].agent = a
      BY <2>1 DEF Owned
    <3> QED
      BY <1>2, <1>4, <3>1, AgentAssumption
  <2> QED
    BY <1>1, <1>2, <1>4, <2>1, <2>2, OthersCalm
<1>5. ASSUME a \notin disturbed'
      PROVE  Calm(a)'
  <2>1. /\ \A t \in Session : starts[a][t] = "idle"
        /\ \A e \in endings : e.agent # a
        /\ RecordInStep(a) /\ Owned
    BY <1>1, <1>5, AcceptedCalm DEF CalmInv, Calm
  <2>2. OneCommand(a)'
    BY <1>1, <2>1 DEF OneCommand
  <2>3. st # "INITIALIZING" /\ st # "IDLE"
    BY <2>1 DEF RecordInStep, PauseAgent, ResumeAgent, Known
  <2>4. CASE s = NoSession
    <3>1. \A t \in Session : ~(Live(t) /\ sessions[t].agent = a)
      BY <2>1, <2>4, AgentAssumption DEF RecordInStep
    <3> QED
      BY <1>1, <1>2, <2>1, <2>2, <2>3, <2>4, <3>1 DEF Calm, RecordInStep
  <2>5. CASE s # NoSession
    <3>1. s \in Session /\ sessions[s].agent = a /\ runtimes[s] \in {"READY", "PAUSED"}
      BY <2>1, <2>5, ReachedSessions DEF Owned, PauseAgent, ResumeAgent, Switch
    <3>2. st \in {"RUNNING", "PAUSED"}
      BY <2>1, <3>1 DEF RecordInStep, Live
    <3>3. \A t \in Session : Live(t) /\ sessions[t].agent = a => t = s
      BY <2>1 DEF RecordInStep
    <3>4. CASE PauseAgent(a)
      <4>1. st = "RUNNING" /\ sessions[s].status = "ACTIVE"
        BY <2>1, <2>5, <3>2, <3>4 DEF RecordInStep, PauseAgent, Switch, AgentMay
      <4>2. sessions'[s].status = "PAUSED" /\ agents'[a].status = "PAUSED"
        BY <2>5, <3>1, <3>4, <4>1, Typed DEF PauseAgent, Switch, SessionMay
      <4> QED
        BY <1>1, <1>2, <2>1, <2>2, <3>3, <4>2 DEF Calm, RecordInStep
    <3>5. CASE ResumeAgent(a)
      <4>1. st = "PAUSED" /\ sessions[s].status = "PAUSED"
        BY <2>1, <2>5, <3>2, <3>5 DEF RecordInStep, ResumeAgent, Switch, AgentMay
      <4>2. sessions'[s].status = "ACTIVE" /\ agents'[a].status = "RUNNING"
        BY <2>5, <3>1, <3>5, <4>1, Typed DEF ResumeAgent, Switch, SessionMay
      <4> QED
        BY <1>1, <1>2, <2>1, <2>2, <3>3, <4>2 DEF Calm, RecordInStep
    <3> QED
      BY <3>4, <3>5
  <2> QED
    BY <2>4, <2>5
<1> QED
  BY <1>3, <1>4, <1>5 DEF CalmInv

(* The runtime an ending terminates is the one of its session, and no      *)
(* other is touched.                                                       *)
LEMMA TerminatedMeans ==
  ASSUME AgentInv, NEW e, EndTerminate(e), Reached(e.session),
         e.session \in Session \cup {NoSession}
  PROVE  /\ e.session # NoSession => runtimes'[e.session] = "GONE"
         /\ \A t \in Session : t # e.session => runtimes'[t] = runtimes[t]
         /\ \A t \in Session : /\ Live(t)' => Live(t)
                               /\ runtimes[t] = "GONE" => runtimes'[t] = "GONE"
<1>1. runtimes' = Terminated(e.session) /\ runtimes \in [Session -> RuntimeStatus]
  BY Typed DEF EndTerminate
<1>2. CASE e.session # NoSession /\ Live(e.session)
  <2>1. runtimes' = [runtimes EXCEPT ![e.session] = "GONE"]
    BY <1>1, <1>2 DEF Terminated
  <2> QED
    BY <1>1, <1>2, <2>1 DEF Live
<1>3. CASE ~(e.session # NoSession /\ Live(e.session))
  <2>1. runtimes' = runtimes
    BY <1>1, <1>3 DEF Terminated
  <2>2. e.session # NoSession => runtimes[e.session] = "GONE"
    BY <1>1, <1>3 DEF Reached, Live, RuntimeStatus
  <2> QED
    BY <2>1, <2>2 DEF Live
<1> QED
  BY <1>2, <1>3

(* An ending, begun or woken, up to the await of terminateRuntime.         *)
LEMMA TerminateCalm ==
  ASSUME AgentInv, CalmInv, NEW e \in Ending, EndTerminate(e), starts' = starts,
         disturbed \subseteq disturbed',
         \/ e \in endings
         \/ e.session = agents[e.agent].session /\ e.agent \in disturbed'
         \/ /\ e.session = agents[e.agent].session
            /\ \A s \in Session : starts[e.agent][s] = "idle"
            /\ \A d \in endings : d.agent # e.agent
  PROVE  CalmInv'
<1> DEFINE a == e.agent
           s == e.session
           f == [e EXCEPT !.at = "terminated"]
<1>1. /\ a \in Agent /\ s \in Session \cup {NoSession}
      /\ f.agent = a /\ f.session = s
      /\ e.to \in {"STOPPED", "ABORTED", "KILLED"}
  BY DEF Ending
<1>2. /\ e \in endings => s # NoSession
      /\ Reached(s)
      /\ s # NoSession => sessions[s].status # "NONE" /\ sessions[s].agent = a
  BY <1>1, ReachedSessions DEF AgentInv, EndingsSound, RecordsSound, CalmInv, Owned
<1>3. /\ s # NoSession => runtimes'[s] = "GONE"
      /\ \A t \in Session : t # s => runtimes'[t] = runtimes[t]
      /\ \A t \in Session : (Live(t)' => Live(t)) /\ (runtimes[t] = "GONE" => runtimes'[t] = "GONE")
  BY <1>1, <1>2, TerminatedMeans
<1> HIDE DEF f
<1>4. CASE s = NoSession
  <2>1. /\ agents' = [agents EXCEPT ![a] = [status |-> e.to, session |-> NoSession]]
        /\ endings' = endings /\ sessions' = sessions
    BY <1>2, <1>4 DEF EndTerminate, EndWrite
  <2>2. /\ agents'[a].status = e.to /\ agents'[a].session = NoSession
        /\ \A b \in Agent : b # a => agents'[b] = agents[b]
    BY <1>1, <2>1, Typed
  <2>3. Owned'
    <3>1. \A b \in Agent, t \in Session : OnItsWay(b, t)' => OnItsWay(b, t)
      BY DEF OnItsWay
    <3> QED
      BY <2>1, <2>2, <3>1, OwnedKeeps DEF CalmInv
  <2>4. ASSUME NEW b \in Agent, b \notin disturbed', b # a
        PROVE  Calm(b)'
    <3>1. Calm(b) /\ Owned
      BY <2>4 DEF CalmInv
    <3> QED
      BY <1>3, <2>1, <2>2, <2>4, <3>1, OthersCalm
  <2>5. ASSUME a \notin disturbed'
        PROVE  Calm(a)'
    <3>1. /\ \A t \in Session : starts[a][t] = "idle"
          /\ \A d \in endings : d.agent # a
          /\ agents[a].session = NoSession
      BY <1>2, <1>4, <2>5
    <3>2. RecordInStep(a)
      BY <1>1, <2>5 DEF CalmInv, Calm
    <3>3. OneCommand(a)'
      BY <2>1, <3>1 DEF OneCommand
    <3>4. \A t \in Session : ~(Live(t)' /\ sessions[t].agent = a)
      BY <1>3, <3>1, <3>2, AgentAssumption DEF RecordInStep
    <3>5. RecordInStep(a)'
      BY <1>1, <2>1, <2>2, <3>1, <3>4 DEF RecordInStep
    <3> QED
      BY <3>3, <3>5 DEF Calm
  <2> QED
    BY <2>3, <2>4, <2>5 DEF CalmInv
<1>5. CASE s # NoSession
  <2>1. endings' = (endings \ {e}) \cup {f} /\ agents' = agents /\ sessions' = sessions
    BY <1>5 DEF EndTerminate, f
  <2>2. Owned'
    <3>1. \A b \in Agent, t \in Session : OnItsWay(b, t)' => OnItsWay(b, t)
      BY DEF OnItsWay
    <3>2. \A g \in endings' :
            \/ \E d \in endings : d.agent = g.agent /\ d.session = g.session
            \/ g.session # NoSession /\ g.agent \in Agent /\ g.session = agents[g.agent].session
      BY <1>1, <1>5, <2>1
    <3> QED
      BY <2>1, <3>1, <3>2, OwnedKeeps DEF CalmInv
  <2>3. ASSUME NEW b \in Agent, b \notin disturbed', b # a
        PROVE  Calm(b)'
    <3>1. Calm(b) /\ Owned
      BY <2>3 DEF CalmInv
    <3>2. \A d : d.agent = b => (d \in endings' <=> d \in endings)
      BY <1>1, <2>1, <2>3
    <3> QED
      BY <1>3, <2>1, <3>1, <3>2, OthersCalm
  <2>4. ASSUME a \notin disturbed'
        PROVE  Calm(a)'
    <3>1. OneCommand(a) /\ RecordInStep(a)
      BY <1>1, <2>4 DEF CalmInv, Calm
    <3>2. /\ \A t \in Session : starts[a][t] = "idle"
          /\ \A d \in endings : d.agent = a => d = e
          /\ agents[a].session = s
      BY <2>4, <3>1 DEF OneCommand
    <3>3. OneCommand(a)'
      BY <1>1, <2>1, <3>2 DEF OneCommand
    <3>4. RecordInStep(a)'
      BY <1>3, <2>1, <3>1, <3>2 DEF RecordInStep
    <3> QED
      BY <3>3, <3>4 DEF Calm
  <2> QED
    BY <2>2, <2>3, <2>4 DEF CalmInv
<1> QED
  BY <1>4, <1>5

LEMMA BegunCalm ==
  ASSUME AgentInv, CalmInv, NEW a \in Agent, NEW to \in {"STOPPED", "ABORTED", "KILLED"},
         NEW all \in BOOLEAN, EndTerminate(Begun(a, to, all)), starts' = starts, Accepted(a)
  PROVE  CalmInv'
<1> DEFINE e == Begun(a, to, all)
<1>1. e \in Ending /\ e.agent = a /\ e.session = agents[a].session
  BY BegunMeans DEF Begun
<1>2. \/ a \in disturbed'
      \/ (\A s \in Session : starts[a][s] = "idle") /\ (\A d \in endings : d.agent # a)
  BY AcceptedCalm
<1> HIDE DEF e
<1>3. EndTerminate(e)
  BY DEF e
<1> QED
  BY <1>1, <1>2, <1>3, AcceptedOthers, TerminateCalm

LEMMA CheckpointCalm ==
  ASSUME AgentInv, CalmInv, NEW a \in Agent, StopWithCheckpoint(a)
  PROVE  CalmInv'
<1> DEFINE e == Begun(a, "STOPPED", FALSE)
<1>1. e \in Ending /\ e.agent = a /\ e.session = agents[a].session /\ e.session # NoSession
  BY BegunMeans DEF Begun, StopWithCheckpoint
<1>2. /\ endings' = endings \cup {e} /\ starts' = starts /\ sessions' = sessions
      /\ agents' = agents /\ runtimes' = runtimes /\ Accepted(a)
  BY DEF StopWithCheckpoint
<1> HIDE DEF e
<1>3. Owned'
  <2>1. \A b \in Agent, t \in Session : OnItsWay(b, t)' => OnItsWay(b, t)
    BY <1>2 DEF OnItsWay
  <2> QED
    BY <1>1, <1>2, <2>1, OwnedKeeps DEF CalmInv
<1>4. ASSUME NEW b \in Agent, b \notin disturbed', b # a
      PROVE  Calm(b)'
  <2>1. Calm(b) /\ Owned
    BY <1>2, <1>4, AcceptedOthers DEF CalmInv
  <2> QED
    BY <1>1, <1>2, <1>4, <2>1, OthersCalm DEF Live
<1>5. ASSUME a \notin disturbed'
      PROVE  Calm(a)'
  <2>1. /\ \A t \in Session : starts[a][t] = "idle"
        /\ \A d \in endings : d.agent # a
        /\ RecordInStep(a)
    BY <1>2, <1>5, AcceptedCalm DEF CalmInv, Calm
  <2>2. OneCommand(a)'
    BY <1>1, <1>2, <2>1 DEF OneCommand
  <2>3. RecordInStep(a)'
    BY <1>2, <2>1 DEF RecordInStep, Live
  <2> QED
    BY <2>2, <2>3 DEF Calm
<1> QED
  BY <1>3, <1>4, <1>5 DEF CalmInv

LEMMA SnapshotFailsCalm ==
  ASSUME AgentInv, CalmInv, NEW e \in endings, SnapshotFails(e)
  PROVE  CalmInv'
<1>1. /\ endings' \subseteq endings /\ starts' = starts /\ sessions' = sessions
      /\ agents' = agents /\ runtimes' = runtimes /\ disturbed' = disturbed
  BY DEF SnapshotFails
<1>2. Owned'
  <2>1. \A b \in Agent, t \in Session : OnItsWay(b, t)' => OnItsWay(b, t)
    BY <1>1 DEF OnItsWay
  <2> QED
    BY <1>1, <2>1, OwnedKeeps DEF CalmInv
<1>3. ASSUME NEW b \in Agent, b \notin disturbed'
      PROVE  Calm(b)'
  <2>1. OneCommand(b) /\ RecordInStep(b)
    BY <1>1, <1>3 DEF CalmInv, Calm
  <2>2. OneCommand(b)'
    BY <1>1, <2>1 DEF OneCommand
  <2>3. RecordInStep(b)'
    BY <1>1, <2>1 DEF RecordInStep, Live
  <2> QED
    BY <2>2, <2>3 DEF Calm
<1> QED
  BY <1>2, <1>3 DEF CalmInv

(* The record that an ending writes back is the one there is.              *)
LEMMA FinishCalm ==
  ASSUME AgentInv, CalmInv, NEW e \in endings, EndFinish(e)
  PROVE  CalmInv'
<1> DEFINE a == e.agent
           s == e.session
<1>1. /\ e \in Ending /\ a \in Agent /\ s \in Session /\ s # NoSession
      /\ sessions[s].agent = a /\ runtimes[s] = "GONE" /\ sessions[s].status # "NONE"
      /\ e.to \in {"STOPPED", "ABORTED", "KILLED"}
  BY ReachedSessions DEF AgentInv, EndingsSound, CalmInv, Owned, EndFinish, Ending
<1>2. /\ endings' = endings \ {e} /\ starts' = starts /\ runtimes' = runtimes
      /\ disturbed' = disturbed
  BY DEF EndFinish
<1>3. \/ UNCHANGED <<agents, sessions>>
      \/ /\ sessions' = [sessions EXCEPT ![s].status = Closed(e.to)]
         /\ agents' = [agents EXCEPT ![a] = [status |-> e.to, session |-> s]]
  BY <1>1 DEF EndFinish, EndWrite
<1>4. /\ \A t \in Session : /\ sessions'[t].agent = sessions[t].agent
                            /\ t # s => sessions'[t] = sessions[t]
      /\ \A b \in Agent : b # a => agents'[b] = agents[b]
      /\ \/ UNCHANGED <<agents, sessions>>
         \/ agents'[a].status = e.to /\ agents'[a].session = s
  <2>1. CASE UNCHANGED <<agents, sessions>>
    BY <2>1
  <2>2. CASE /\ sessions' = [sessions EXCEPT ![s].status = Closed(e.to)]
             /\ agents' = [agents EXCEPT ![a] = [status |-> e.to, session |-> s]]
    <3>1. /\ agents'[a] = [status |-> e.to, session |-> s]
          /\ \A b \in Agent : b # a => agents'[b] = agents[b]
      BY <1>1, <2>2, Typed
    <3>2. \A t \in Session : /\ sessions'[t].agent = sessions[t].agent
                             /\ t # s => sessions'[t] = sessions[t]
      BY <1>1, <2>2, Typed
    <3> QED
      BY <3>1, <3>2
  <2> QED
    BY <1>3, <2>1, <2>2
<1>5. Owned'
  <2>1. ASSUME NEW b \in Agent, NEW t \in Session, OnItsWay(b, t)'
        PROVE  OnItsWay(b, t) /\ sessions'[t] = sessions[t]
    <3>1. OnItsWay(b, t)
      BY <1>2, <2>1 DEF OnItsWay
    <3>2. t # s
      BY <1>1, <3>1 DEF AgentInv, EndingsSound, Reached
    <3> QED
      BY <1>4, <3>1, <3>2
  <2>2. \A b \in Agent :
           \/ agents'[b].session \in {agents[b].session, NoSession}
           \/ agents'[b].session \in Session /\ sessions'[agents'[b].session].agent = b
    BY <1>1, <1>4
  <2> QED
    BY <1>2, <1>4, <2>1, <2>2, OwnedKeeps DEF CalmInv
<1>6. ASSUME NEW b \in Agent, b \notin disturbed', b # a
      PROVE  Calm(b)'
  <2>1. Calm(b) /\ Owned
    BY <1>2, <1>6 DEF CalmInv
  <2>2. \A d : d.agent = b => (d \in endings' <=> d \in endings)
    BY <1>2, <1>6
  <2> QED
    BY <1>1, <1>2, <1>4, <1>6, <2>1, <2>2, OthersCalm DEF Live
<1>7. ASSUME a \notin disturbed'
      PROVE  Calm(a)'
  <2>1. OneCommand(a) /\ RecordInStep(a)
    BY <1>1, <1>2, <1>7 DEF CalmInv, Calm
  <2>2. /\ \A t \in Session : starts[a][t] = "idle"
        /\ \A d \in endings' : d.agent # a
        /\ agents[a].session = s
    BY <1>2, <2>1 DEF OneCommand
  <2>3. OneCommand(a)'
    BY <1>2, <2>2 DEF OneCommand
  <2>4. \A t \in Session : ~(Live(t) /\ sessions[t].agent = a)
    BY <1>1, <2>1, <2>2 DEF RecordInStep, Live
  <2>5. CASE UNCHANGED <<agents, sessions>>
    <3>1. RecordInStep(a)'
      BY <1>2, <2>1, <2>5 DEF RecordInStep, Live
    <3> QED
      BY <2>3, <3>1 DEF Calm
  <2>6. CASE agents'[a].status = e.to /\ agents'[a].session = s
    <3>1. RecordInStep(a)'
      BY <1>1, <1>2, <1>4, <2>2, <2>4, <2>6 DEF RecordInStep, Live
    <3> QED
      BY <2>3, <3>1 DEF Calm
  <2> QED
    BY <1>4, <2>5, <2>6
<1> QED
  BY <1>5, <1>6, <1>7 DEF CalmInv

LEMMA RuntimeCalm ==
  ASSUME AgentInv, CalmInv,
         UNCHANGED <<agents, sessions, starts, endings, disturbed>>,
         \A s \in Session : (Live(s)' => Live(s)) /\ (runtimes[s] = "GONE" => runtimes'[s] = "GONE")
  PROVE  CalmInv'
<1>1. Owned'
  <2>1. \A b \in Agent, t \in Session : OnItsWay(b, t)' => OnItsWay(b, t)
    BY DEF OnItsWay
  <2> QED
    BY <2>1, OwnedKeeps DEF CalmInv
<1>2. ASSUME NEW b \in Agent, b \notin disturbed'
      PROVE  Calm(b)'
  <2>1. Calm(b) /\ Owned
    BY <1>2 DEF CalmInv
  <2> QED
    BY <2>1, OthersCalm
<1> QED
  BY <1>1, <1>2 DEF CalmInv

LEMMA NextCalm == AgentInv /\ CalmInv /\ [AgentNext]_agentVars => CalmInv'
<1> SUFFICES ASSUME AgentInv, CalmInv, [AgentNext]_agentVars PROVE CalmInv'
  OBVIOUS
<1>1. ASSUME NEW a \in Agent, NEW s \in Session, StartAgent(a, s) \/ StartSteps(a, s)
      PROVE  CalmInv'
  <2>1. CASE StartFails(a, s)
    BY <2>1, ThrowCalm DEF StartFails
  <2> QED
    BY <1>1, <2>1, StartCalm, WorkspaceCalm, CreatedCalm, ReturnCalm DEF StartSteps
<1>2. ASSUME NEW a \in Agent, PauseAgent(a) \/ ResumeAgent(a) PROVE CalmInv'
  BY <1>2, SwitchCalm
<1>3. ASSUME NEW a \in Agent, NEW to \in {"STOPPED", "ABORTED", "KILLED"}, EndAgent(a, to)
      PROVE  CalmInv'
  BY <1>3, BegunCalm DEF EndAgent
<1>4. ASSUME NEW a \in Agent, StopWithCheckpoint(a) PROVE CalmInv'
  BY <1>4, CheckpointCalm
<1>5. ASSUME NEW e \in endings, EndSteps(e) PROVE CalmInv'
  <2>1. CASE SnapshotTaken(e)
    <3>1. e \in Ending /\ EndTerminate(e) /\ starts' = starts /\ disturbed' = disturbed
      BY <2>1, ReachedSessions DEF SnapshotTaken
    <3> QED
      BY <3>1, TerminateCalm
  <2> QED
    BY <1>5, <2>1, SnapshotFailsCalm, FinishCalm DEF EndSteps
<1>6. ASSUME NEW a \in Agent, EmergencyKill(a) PROVE CalmInv'
  BY <1>6, BegunCalm DEF EmergencyKill
<1>7. CASE \/ EmergencyStop \/ EmergencyList \/ EmergencyReturns
           \/ \E s \in Session : RuntimeEnds(s) \/ RuntimeRecovered(s)
  <2>1. UNCHANGED <<agents, sessions, starts, endings, disturbed>>
    BY <1>7 DEF EmergencyStop, EmergencyList, EmergencyReturns, RuntimeEnds, RuntimeRecovered
  <2>2. \A s \in Session : (Live(s)' => Live(s)) /\ (runtimes[s] = "GONE" => runtimes'[s] = "GONE")
    BY <1>7, Typed
    DEF EmergencyStop, EmergencyList, EmergencyReturns, RuntimeEnds, RuntimeRecovered, Live
  <2> QED
    BY <2>1, <2>2, RuntimeCalm
<1>8. CASE UNCHANGED agentVars
  BY <1>8, RuntimeCalm DEF agentVars, Live
<1> QED
  BY <1>1, <1>2, <1>3, <1>4, <1>5, <1>6, <1>7, <1>8 DEF AgentNext, AgentStep, EmergencySteps

(* As long as nobody sends an agent a command while one is in flight, its  *)
(* record, its session and its runtime are in step: whatever the other     *)
(* agents do, whatever runtimes end, and whatever emergencyStopAll kills.  *)
THEOREM UndisturbedInStep == AgentSpec => []InStep
<1>1. CalmInv => InStep
  <2> SUFFICES ASSUME NEW a \in Agent \ disturbed, RecordInStep(a)
               PROVE  LET s == agents[a].session
                          st == agents[a].status
                      IN  /\ st = "INITIALIZING" <=> \E t \in Session : starts[a][t] # "idle"
                          /\ st = "RUNNING" /\ s # NoSession => sessions[s].status = "ACTIVE"
                          /\ st = "PAUSED" /\ s # NoSession => sessions[s].status = "PAUSED"
                          /\ st \in {"STOPPED", "ABORTED", "KILLED", "FAILED"} /\ s # NoSession
                               => runtimes[s] = "GONE"
                          /\ \A t \in Session :
                                Live(t) /\ sessions[t].agent = a =>
                                    starts[a][t] = "created" \/ (s = t /\ st \in {"RUNNING", "PAUSED"})
    BY DEF InStep, CalmInv, Calm
  <2> QED
    BY DEF RecordInStep
<1> QED
  BY <1>1, InitCalm, NextCalm, AgentInvariance, PTL DEF AgentSpec
=============================================================================

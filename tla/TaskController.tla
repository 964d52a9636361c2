--------------------------- MODULE TaskController ---------------------------
(***************************************************************************)
(* packages/control-plane/src/TaskController.ts with the transition table  *)
(* of state/TaskState.ts: the tasks of a control plane, the graph of their *)
(* prerequisites, the queueing of dependents when a task completes, and    *)
(* the retries with their timers.  Every method runs to its end without an *)
(* await, so each is one action; what runs concurrently is the callers and *)
(* the timers.  Titles, priorities, attempts, artifacts and the recorded   *)
(* verifications are left out: nothing here depends on them.               *)
(***************************************************************************)
EXTENDS TaskOrder, FiniteSetsExt

CONSTANTS
    Task,             \* the identifiers tasks are created with
    MaxRetries,       \* retryPolicy.maxRetries
    Asked,            \* the statuses callers of setTaskStatus ask for
    MaxRetryCalls,    \* bound: calls of retryTask that go through, in all
    MaxLinks          \* bound: addDependency adds no link beyond this many

TaskStatus ==
    { "DRAFT", "UNDERSTANDING", "AWAITING_CLARIFICATION", "PLANNING",
      "AWAITING_APPROVAL", "BACKLOG", "PLANNED", "QUEUED", "RUNNING",
      "EXECUTING", "PAUSED", "VERIFYING", "BLOCKED", "RETRY", "COMPLETED",
      "FAILED", "CANCELLED" }

Absent == "ABSENT"    \* not in the map of tasks

ASSUME TaskControllerAssumption ==
    /\ MaxRetries \in Nat
    /\ MaxRetryCalls \in Nat
    /\ MaxLinks \in Nat
    /\ Asked \subseteq TaskStatus

VARIABLES
    status,           \* the status of each task
    dependencies,     \* the tasks that must complete before this one starts
    dependents,       \* the tasks this one blocks, in the order they came
    currentRetry,     \* retryPolicy.currentRetry
    timers,           \* retry timers that have not fired
    late,             \* history: <<t, p>> added while t was queued or running
    reopened          \* history: tasks taken out of COMPLETED by a retry

taskVars ==
    <<status, dependencies, dependents, currentRetry, timers, late, reopened>>
graphVars == <<dependencies, dependents>>
retryVars == <<currentRetry, timers>>

-----------------------------------------------------------------------------
Listed(list, u) == \E i \in DOMAIN list : list[i] = u

Listings == {e \in Task \X (1..MaxLinks) : e[2] \in DOMAIN dependents[e[1]]}

Created == {t \in Task : status[t] # Absent}

\* VALID_TRANSITIONS.
CanTransition(from, to) ==
    \/ from = "DRAFT" /\ to \in {"UNDERSTANDING", "PLANNING", "BACKLOG", "CANCELLED"}
    \/ from = "UNDERSTANDING"
       /\ to \in {"PLANNING", "AWAITING_CLARIFICATION", "FAILED", "CANCELLED"}
    \/ from = "AWAITING_CLARIFICATION" /\ to \in {"UNDERSTANDING", "PLANNING", "CANCELLED"}
    \/ from = "PLANNING"
       /\ to \in {"AWAITING_APPROVAL", "PLANNED", "QUEUED", "BLOCKED", "FAILED", "CANCELLED"}
    \/ from = "AWAITING_APPROVAL"
       /\ to \in {"QUEUED", "PLANNED", "BLOCKED", "FAILED", "CANCELLED"}
    \/ from = "BACKLOG" /\ to \in {"PLANNING", "PLANNED", "CANCELLED"}
    \/ from = "PLANNED" /\ to \in {"QUEUED", "CANCELLED", "BACKLOG", "BLOCKED"}
    \/ from = "QUEUED" /\ to \in {"RUNNING", "EXECUTING", "CANCELLED", "PLANNED", "BLOCKED"}
    \/ from = "RUNNING" /\ to = "EXECUTING"
    \/ from \in {"RUNNING", "EXECUTING"}
       /\ to \in {"PAUSED", "VERIFYING", "FAILED", "RETRY", "CANCELLED", "COMPLETED", "BLOCKED"}
    \/ from = "PAUSED" /\ to \in {"RUNNING", "EXECUTING", "CANCELLED", "FAILED"}
    \/ from = "VERIFYING" /\ to \in {"COMPLETED", "FAILED", "RETRY", "RUNNING", "EXECUTING"}
    \/ from = "BLOCKED" /\ to \in {"PLANNING", "QUEUED", "RETRY", "CANCELLED", "FAILED"}
    \/ from = "RETRY" /\ to \in {"QUEUED", "RUNNING", "EXECUTING", "FAILED", "CANCELLED"}
    \/ from = "FAILED" /\ to \in {"RETRY", "PLANNING", "PLANNED"}
    \/ from = "CANCELLED" /\ to \in {"PLANNING", "PLANNED"}

\* getUnfulfilledDependencies returns nothing, with the statuses st.
Resolved(st, t) == \A p \in dependencies[t] : st[p] = "COMPLETED"

\* What the searches go through: the tasks in the map, with the prerequisites d.
Links(d) == [t \in Created |-> d[t]]

\* Faulty variant of Woken: the other prerequisites are not looked at.
WokenUnchecked(st, t) ==
    {d \in Task : st[d] = "PLANNED" /\ Listed(dependents[t], d)}

\* Faulty variant of Woken: the loop ends at the first that has to wait.
WokenUntilWaiting(st, t) ==
    LET list == dependents[t]
    IN  {list[i] : i \in {k \in DOMAIN list :
            \A j \in 1..k : st[list[j]] = "PLANNED" /\ Resolved(st, list[j])}}

\* checkAndQueueDependents goes through the dependents in their order.  One in
\* BACKLOG may not be queued: setTaskStatus throws and the loop ends there.
Woken(st, t) ==
    LET list == dependents[t]
        Throws(j) == st[list[j]] = "BACKLOG" /\ Resolved(st, list[j])
    IN  {list[i] : i \in {k \in DOMAIN list :
            /\ st[list[k]] = "PLANNED"
            /\ Resolved(st, list[k])
            /\ \A j \in DOMAIN list : j < k => ~Throws(j)}}

\* What setTaskStatus(t, s) leaves in the map when it gets past its checks.
StatusAfter(t, s) ==
    LET st == [status EXCEPT ![t] = s]
    IN  IF s = "COMPLETED"
        THEN [d \in Task |-> IF d \in Woken(st, t) THEN "QUEUED" ELSE st[d]]
        ELSE st

\* The checks of setTaskStatus.
MayAdvance(t, s) ==
    /\ CanTransition(status[t], s)
    /\ s \in {"QUEUED", "RUNNING"} => Resolved(status, t)

\* What a change to new statuses means for the histories: a check passed
\* ends an excuse, and so does completing again.
Record(new) ==
    /\ late' = {e \in late : new[e[1]] = status[e[1]]}
    /\ reopened' = {p \in reopened : new[p] # "COMPLETED"}

Advance(t, s) ==
    /\ MayAdvance(t, s)
    /\ status' = StatusAfter(t, s)
    /\ Record(StatusAfter(t, s))

-----------------------------------------------------------------------------
TaskInit ==
    /\ status = [t \in Task |-> Absent]
    /\ dependencies = [t \in Task |-> {}]
    /\ dependents = [t \in Task |-> <<>>]
    /\ currentRetry = [t \in Task |-> 0]
    /\ timers = [t \in Task |-> 0]
    /\ late = {}
    /\ reopened = {}

\* createTask: PLANNED, and QUEUED at once only without prerequisites.  That a
\* new task closes no cycle is part of GraphSound, so validateNoCycles does not throw.
\* Identifiers mean nothing, so the next one is any fixed one not in use.
CreateTask(t, deps) ==
    /\ status[t] = Absent
    /\ t = CHOOSE u \in Task : status[u] = Absent
    /\ deps \subseteq Created
    /\ status' = [status EXCEPT ![t] = IF deps = {} THEN "QUEUED" ELSE "PLANNED"]
    /\ dependencies' = [dependencies EXCEPT ![t] = deps]
    /\ dependents' = [d \in Task |-> IF d \in deps THEN Append(dependents[d], t)
                                                   ELSE dependents[d]]
    /\ UNCHANGED <<currentRetry, timers, late, reopened>>

\* Faulty variant of AddDependency: on a cycle only the record of t is put back.
AddDependencyHalfUndone(t, p) ==
    /\ {t, p} \subseteq Created /\ t # p
    /\ p \notin dependencies[t]
    /\ Cardinality(Listings) < MaxLinks
    /\ LET g == [dependencies EXCEPT ![t] = @ \cup {p}]
       IN  dependencies' = IF FindsCycle(Links(g)) THEN dependencies ELSE g
    /\ dependents' = [dependents EXCEPT ![p] = Append(@, t)]
    /\ late' = IF status[t] \in {"QUEUED", "RUNNING"} THEN late \cup {<<t, p>>} ELSE late
    /\ UNCHANGED <<status, currentRetry, timers, reopened>>

\* addDependency of another task; on a cycle both records are put back.
AddDependency(t, p) ==
    /\ {t, p} \subseteq Created /\ t # p
    /\ p \notin dependencies[t]
    /\ Cardinality(Listings) < MaxLinks
    /\ LET g == [dependencies EXCEPT ![t] = @ \cup {p}]
       IN  /\ ~FindsCycle(Links(g))
           /\ dependencies' = g
    /\ dependents' = [dependents EXCEPT ![p] = Append(@, t)]
    /\ late' = IF status[t] \in {"QUEUED", "RUNNING"} THEN late \cup {<<t, p>>} ELSE late
    /\ UNCHANGED <<status, currentRetry, timers, reopened>>

\* addDependency of the task itself: the second write puts the record read
\* before back, with the dependent added and without the prerequisite, so no
\* cycle is found.  Bounds: once per task, and MaxLinks.
AddSelfDependency(t) ==
    /\ t \in Created
    /\ ~Listed(dependents[t], t)
    /\ Cardinality(Listings) < MaxLinks
    /\ dependents' = [dependents EXCEPT ![t] = Append(@, t)]
    /\ UNCHANGED <<status, dependencies, currentRetry, timers, late, reopened>>

SetTaskStatus(t, s) ==
    /\ Advance(t, s)
    /\ UNCHANGED <<graphVars, retryVars>>

\* recordVerification of a task under verification.
RecordVerification(t, passed) ==
    /\ status[t] = "VERIFYING"
    /\ Advance(t, IF passed THEN "COMPLETED" ELSE "FAILED")
    /\ UNCHANGED <<graphVars, retryVars>>

\* ControlPlane.executeTask up to its await: a PLANNED task passes the first
\* check and fails the transition.  When startAgent then throws, the task
\* stays RUNNING.
ExecuteTask(t) ==
    /\ status[t] \in {"QUEUED", "PLANNED"}
    /\ Advance(t, "RUNNING")
    /\ UNCHANGED <<graphVars, retryVars>>

\* retryTask: the status is set to RETRY without a look at the transitions.
RetryTask(t, force) ==
    /\ t \in Created
    /\ force \/ (status[t] = "FAILED" /\ currentRetry[t] < MaxRetries)
    /\ MapThenSumSet(LAMBDA u : currentRetry[u], Task) < MaxRetryCalls
    /\ status' = [status EXCEPT ![t] = "RETRY"]
    /\ currentRetry' = [currentRetry EXCEPT ![t] = @ + 1]
    /\ timers' = [timers EXCEPT ![t] = @ + 1]
    /\ late' = {e \in late : e[1] # t}
    /\ reopened' = IF status[t] = "COMPLETED" THEN reopened \cup {t} ELSE reopened
    /\ UNCHANGED graphVars

\* Faulty variant of RetryTimer: it looks for the status before the retry.
RetryTimerOfFailed(t) ==
    /\ timers[t] > 0
    /\ timers' = [timers EXCEPT ![t] = @ - 1]
    /\ IF status[t] = "FAILED" /\ MayAdvance(t, "QUEUED")
       THEN Advance(t, "QUEUED")
       ELSE UNCHANGED <<status, late, reopened>>
    /\ UNCHANGED <<graphVars, currentRetry>>

\* A timer of retryTask fires.  A prerequisite that is not complete makes
\* setTaskStatus throw, which is caught: the task stays in RETRY.
RetryTimer(t) ==
    /\ timers[t] > 0
    /\ timers' = [timers EXCEPT ![t] = @ - 1]
    /\ IF status[t] = "RETRY" /\ MayAdvance(t, "QUEUED")
       THEN Advance(t, "QUEUED")
       ELSE UNCHANGED <<status, late, reopened>>
    /\ UNCHANGED <<graphVars, currentRetry>>

TaskNext ==
    \E t \in Task :
        \/ \E deps \in SUBSET Task : CreateTask(t, deps)
        \/ \E p \in Task : AddDependency(t, p)
        \/ AddSelfDependency(t)
        \/ \E s \in Asked : SetTaskStatus(t, s)
        \/ \E passed \in BOOLEAN : RecordVerification(t, passed)
        \/ ExecuteTask(t)
        \/ \E force \in BOOLEAN : RetryTask(t, force)
        \/ RetryTimer(t)

\* A timer that was set fires; nobody has to call anything.
TaskFairness == \A t \in Task : WF_taskVars(RetryTimer(t))

TaskSpec == TaskInit /\ [][TaskNext]_taskVars /\ TaskFairness

-----------------------------------------------------------------------------
\* Type correctness of the maps of tasks and of the two histories.
TypeOK ==
    /\ status \in [Task -> TaskStatus \cup {Absent}]
    /\ dependencies \in [Task -> SUBSET Task]
    /\ dependents \in [Task -> Seq(Task)]
    /\ currentRetry \in [Task -> Nat]
    /\ timers \in [Task -> Nat]
    /\ late \subseteq Task \X Task
    /\ reopened \subseteq Task

\* The two directions in which a prerequisite is stored agree (a task made its
\* own prerequisite apart), only created tasks take part, and no sequence of
\* createTask and addDependency closes a cycle.
Mirrored ==
    \A t \in Task, p \in Task :
        t # p => (p \in dependencies[t] <=> Listed(dependents[p], t))
GraphSound ==
    /\ Mirrored
    /\ \A t \in Task : dependencies[t] \subseteq Created \ {t}
    /\ \A t \in Task \ Created : dependencies[t] = {}
    /\ ~Cyclic(dependencies)

\* Of the graph there is, getTopologicalOrder lists every task once and after its
\* prerequisites.  Of the graph that one more link would make of it,
\* validateNoCycles reports a cycle exactly when there is one, and what it
\* reports is one.
OrderSound ==
    /\ IsOrderOf(TopologicalOrder(Links(dependencies)), Links(dependencies))
    /\ \A t, p \in Created :
          LET g == Links([dependencies EXCEPT ![t] = @ \cup {p}])
              path == FoundCycle(g)
          IN  /\ FindsCycle(g) <=> Cyclic(g)
              /\ FindsCycle(g) => IsCycleOf(path, g)

\* A task that is queued or running has only completed prerequisites, except
\* those added after it was queued and those a forced retry has reopened
\* since.  Nothing else takes a task out of COMPLETED, and no way into QUEUED
\* (creation, completion of a prerequisite, retry timer, caller) forgets the
\* check.
StartsAfterPrerequisites ==
    \A t \in Task : status[t] \in {"QUEUED", "RUNNING"} =>
        \A p \in dependencies[t] :
            status[p] = "COMPLETED" \/ <<t, p>> \in late \/ p \in reopened

\* When a task completes, every PLANNED task that waited for nothing else is
\* queued by the same call, unless a BACKLOG dependent waits for nothing else
\* either: that one makes the loop throw.
Freed(p) ==
    {t \in Task : p \in dependencies[t]
                   /\ \A q \in dependencies[t] : status'[q] = "COMPLETED"}
WakesDependents ==
    \A p \in Task :
        (status[p] # "COMPLETED" /\ status'[p] = "COMPLETED") =>
            \/ \E t \in Freed(p) : status[t] = "BACKLOG"
            \/ \A t \in Freed(p) : status[t] = "PLANNED" => status'[t] = "QUEUED"
CompletionWakes == [][WakesDependents]_taskVars

\* A task that waits in RETRY with a timer leaves RETRY, unless a prerequisite
\* is not complete when the timer fires.
RetryEnds ==
    \A t \in Task :
        (status[t] = "RETRY" /\ timers[t] > 0)
            ~> (status[t] # "RETRY" \/ ~Resolved(status, t))
=============================================================================

--------------------------- MODULE AgentController ---------------------------
(***************************************************************************)
(* packages/control-plane/src: the life of agents (AgentController), their *)
(* sessions (SessionController), the locks on their workspaces             *)
(* (WorkspaceController) and ControlPlane.emergencyStopAll.                *)
(*                                                                         *)
(* Every command is cut where it awaits: startAgent after its validation,  *)
(* after the workspace is there and after the runtime is there; stopAgent, *)
(* abortAgent and killAgent after the snapshot and after terminateRuntime. *)
(* What a command read before an await it still uses afterwards: an ending *)
(* writes back the record of the agent that it read at its beginning.      *)
(*                                                                         *)
(* A session stands for its workspace (the path is made of its identifier) *)
(* and for its runtime (inst-<session>).  The runtime manager is what its  *)
(* callers see of it: createRuntime waits and then succeeds or throws, and *)
(* runtimes end or are recovered at any time.                              *)
(***************************************************************************)
EXTENDS Naturals, FiniteSets

CONSTANTS
    Agent, Session,
    NoAgent, NoSession,
    Askings,           \* bound: the sessions each agent is started in, a set of choices
    MaxEndings         \* bound: endings in flight at a time

ASSUME AgentAssumption ==
    /\ NoAgent \notin Agent
    /\ NoSession \notin Session
    /\ Askings \subseteq [Agent -> SUBSET Session]

VARIABLES
    agents,       \* status and current session of each agent
    sessions,     \* status and agent of each session
    runtimes,     \* status of the runtime of each session
    locks,        \* holder of the lock on each workspace
    starts,       \* where startAgent is, for an agent and a session
    endings,      \* stopAgent, abortAgent and killAgent calls in an await
    emergency,    \* where emergencyStopAll is
    doomed,       \* agents its loop has still to kill
    disturbed,    \* history: agents that got a command while one was in flight
    asked         \* the choice made from Askings

agentVars == <<agents, sessions, runtimes, locks, starts, endings, emergency,
               doomed, disturbed, asked>>
emergencyVars == <<emergency, doomed>>

AgentStatus == {"IDLE", "INITIALIZING", "RUNNING", "PAUSED", "STOPPED", "ABORTED",
                "KILLED", "FAILED"}
SessionStatus == {"NONE", "ACTIVE", "PAUSED", "COMPLETED", "ABORTED", "FAILED"}
RuntimeStatus == {"NONE", "READY", "PAUSED", "GONE"}

\* An ending in an await: the outcome, the session of the record it read, and
\* whether emergencyStopAll waits for it.
Ending == [agent : Agent, to : {"STOPPED", "ABORTED", "KILLED"},
           session : Session \cup {NoSession},
           at : {"snapshot", "terminated"}, all : BOOLEAN]

-----------------------------------------------------------------------------
\* VALID_TRANSITIONS of AgentState.ts, for the statuses asked about.
AgentMay(from, to) ==
    \/ to = "INITIALIZING" /\ from \in {"IDLE", "STOPPED", "ABORTED", "FAILED"}
    \/ to = "PAUSED" /\ from = "RUNNING"
    \/ to = "RUNNING" /\ from \in {"IDLE", "INITIALIZING", "PAUSED", "STOPPED", "FAILED"}

\* VALID_TRANSITIONS of SessionState.ts.
SessionMay(from, to) ==
    \/ from = "ACTIVE" /\ to \in {"PAUSED", "COMPLETED", "ABORTED", "FAILED"}
    \/ from = "PAUSED" /\ to \in {"ACTIVE", "ABORTED", "FAILED"}

\* The session status an ending asks for.
Closed(to) == CASE to = "STOPPED" -> "COMPLETED"
                [] to = "ABORTED" -> "ABORTED"
                [] to = "KILLED"  -> "FAILED"

\* Nobody registers an agent before its first start, so an agent that is IDLE
\* has no record and getAgentStateOrThrow throws.
Known(a) == agents[a].status # "IDLE"

Live(s) == runtimes[s] \in {"READY", "PAUSED"}

InFlight(a) == \/ \E s \in Session : starts[a][s] # "idle"
               \/ \E e \in endings : e.agent = a

\* What a command that is accepted means for the history.
Accepted(a) == disturbed' = IF InFlight(a) THEN disturbed \cup {a} ELSE disturbed

-----------------------------------------------------------------------------
AgentInit ==
    /\ agents = [a \in Agent |-> [status |-> "IDLE", session |-> NoSession]]
    /\ sessions = [s \in Session |-> [status |-> "NONE", agent |-> NoAgent]]
    /\ runtimes = [s \in Session |-> "NONE"]
    /\ locks = [s \in Session |-> NoAgent]
    /\ starts = [a \in Agent |-> [s \in Session |-> "idle"]]
    /\ endings = {}
    /\ emergency = "off"
    /\ doomed = {}
    /\ disturbed = {}
    /\ asked \in Askings

\* startAgent up to its first await.  Called for the session that runs already
\* it returns at once; that changes nothing.
StartAgent(a, s) ==
    /\ s \in asked[a] /\ starts[a][s] = "idle"
    /\ AgentMay(agents[a].status, "INITIALIZING")
    /\ agents' = [agents EXCEPT ![a].status = "INITIALIZING"]
    /\ starts' = [starts EXCEPT ![a][s] = "provisioning"]
    /\ Accepted(a)
    /\ UNCHANGED <<sessions, runtimes, locks, endings, emergencyVars>>

\* The catch of startAgent: the record is read again, its status is not.
StartThrows(a, s) ==
    /\ agents' = [agents EXCEPT ![a].status = "FAILED"]
    /\ starts' = [starts EXCEPT ![a][s] = "idle"]

\* Faulty variant of StartInWorkspace: a session that is over is made anew.
StartInUsedSession(a, s) ==
    /\ starts[a][s] = "provisioning"
    /\ locks' = [locks EXCEPT ![s] = a]
    /\ IF sessions[s].status \notin {"ACTIVE", "PAUSED"}
       THEN /\ sessions' = [sessions EXCEPT ![s] = [status |-> "ACTIVE", agent |-> a]]
            /\ starts' = [starts EXCEPT ![a][s] = "waiting"]
            /\ agents' = agents
       ELSE StartThrows(a, s) /\ UNCHANGED sessions
    /\ UNCHANGED <<runtimes, endings, emergencyVars, disturbed>>

\* provisionWorkspace is over: the lock, then the session, then createRuntime.
\* A session that exists makes createSession throw with the lock taken.  A lock
\* of another agent is taken over when its lease of five minutes, which nobody
\* renews, has run out; while it runs, acquireLock throws (StartFails).
StartInWorkspace(a, s) ==
    /\ starts[a][s] = "provisioning"
    /\ locks' = [locks EXCEPT ![s] = a]
    /\ IF sessions[s].status = "NONE"
       THEN /\ sessions' = [sessions EXCEPT ![s] = [status |-> "ACTIVE", agent |-> a]]
            /\ starts' = [starts EXCEPT ![a][s] = "waiting"]
            /\ agents' = agents
       ELSE StartThrows(a, s) /\ UNCHANGED sessions
    /\ UNCHANGED <<runtimes, endings, emergencyVars, disturbed>>

\* The workspace cannot be made or is locked, or createRuntime throws.
StartFails(a, s) ==
    /\ starts[a][s] \in {"provisioning", "waiting"}
    /\ StartThrows(a, s)
    /\ UNCHANGED <<sessions, runtimes, locks, endings, emergencyVars, disturbed>>

\* createRuntime has its slot and registers the instance.
RuntimeCreated(a, s) ==
    /\ starts[a][s] = "waiting"
    /\ starts' = [starts EXCEPT ![a][s] = "created"]
    /\ runtimes' = [runtimes EXCEPT ![s] = "READY"]
    /\ UNCHANGED <<agents, sessions, locks, endings, emergencyVars, disturbed>>

\* The last part of startAgent: RUNNING, whatever has become of the agent.
StartReturns(a, s) ==
    /\ starts[a][s] = "created"
    /\ agents' = [agents EXCEPT ![a] = [status |-> "RUNNING", session |-> s]]
    /\ starts' = [starts EXCEPT ![a][s] = "idle"]
    /\ UNCHANGED <<sessions, runtimes, locks, endings, emergencyVars, disturbed>>

-----------------------------------------------------------------------------
\* pauseAgent and resumeAgent, from and to a status of the runtime: the runtime
\* first, which throws when it is not there or not in the right status, then
\* the session, which may throw too and leaves the runtime as it is by then.
Switch(a, to, from, into, during) ==
    LET s == agents[a].session
    IN  /\ AgentMay(agents[a].status, to)
        /\ IF s = NoSession
           THEN /\ agents' = [agents EXCEPT ![a].status = to]
                /\ UNCHANGED <<sessions, runtimes>>
           ELSE /\ runtimes[s] \in from
                /\ runtimes' = [runtimes EXCEPT ![s] = into]
                /\ IF SessionMay(sessions[s].status, during)
                   THEN /\ sessions' = [sessions EXCEPT ![s].status = during]
                        /\ agents' = [agents EXCEPT ![a].status = to]
                   ELSE UNCHANGED <<sessions, agents>>
        /\ Accepted(a)
        /\ UNCHANGED <<locks, starts, endings, emergencyVars>>

PauseAgent(a) == Known(a) /\ Switch(a, "PAUSED", {"READY", "PAUSED"}, "PAUSED", "PAUSED")

ResumeAgent(a) == Known(a) /\ Switch(a, "RUNNING", {"PAUSED"}, "READY", "ACTIVE")

-----------------------------------------------------------------------------
\* releaseLock does nothing for a lock of somebody else.
Released(a, s) ==
    IF s # NoSession /\ locks[s] = a THEN [locks EXCEPT ![s] = NoAgent] ELSE locks

\* Faulty variant of Terminated: a paused runtime is left alone.
TerminatedIfReady(s) ==
    IF s # NoSession /\ runtimes[s] = "READY" THEN [runtimes EXCEPT ![s] = "GONE"] ELSE runtimes

\* terminateRuntime does nothing for an instance that is not registered.
Terminated(s) ==
    IF s # NoSession /\ Live(s) THEN [runtimes EXCEPT ![s] = "GONE"] ELSE runtimes

\* The end of an ending: the session's transition is validated, the agent's is
\* not.  Without a session there is nothing to wait for.
EndWrite(e) ==
    IF e.session = NoSession
    THEN /\ agents' = [agents EXCEPT ![e.agent] = [status |-> e.to, session |-> NoSession]]
         /\ UNCHANGED sessions
    ELSE IF SessionMay(sessions[e.session].status, Closed(e.to))
    THEN /\ sessions' = [sessions EXCEPT ![e.session].status = Closed(e.to)]
         /\ agents' = [agents EXCEPT ![e.agent] = [status |-> e.to, session |-> e.session]]
    ELSE UNCHANGED <<agents, sessions>>

\* The ending e from the release of the lock to the await of terminateRuntime.
EndTerminate(e) ==
    /\ locks' = Released(e.agent, e.session)
    /\ runtimes' = Terminated(e.session)
    /\ IF e.session = NoSession
       THEN EndWrite(e) /\ endings' = endings \ {e}
       ELSE /\ endings' = (endings \ {e}) \cup {[e EXCEPT !.at = "terminated"]}
            /\ UNCHANGED <<agents, sessions>>

Begun(a, to, all) ==
    [agent |-> a, to |-> to, session |-> agents[a].session, at |-> "snapshot", all |-> all]

RoomToEnd == Cardinality(endings) < MaxEndings

\* stopAgent (without a checkpoint), abortAgent and killAgent.
EndAgent(a, to) ==
    /\ Known(a)
    /\ RoomToEnd
    /\ EndTerminate(Begun(a, to, FALSE))
    /\ Accepted(a)
    /\ UNCHANGED <<starts, emergencyVars>>

\* Faulty variant of StopWithCheckpoint: the lock is released first.
StopReleasingFirst(a) ==
    /\ Known(a) /\ agents[a].session # NoSession
    /\ RoomToEnd
    /\ endings' = endings \cup {Begun(a, "STOPPED", FALSE)}
    /\ locks' = Released(a, agents[a].session)
    /\ Accepted(a)
    /\ UNCHANGED <<agents, sessions, runtimes, starts, emergencyVars>>

\* stopAgent with a checkpoint waits for createSnapshot first.
StopWithCheckpoint(a) ==
    /\ Known(a) /\ agents[a].session # NoSession
    /\ RoomToEnd
    /\ endings' = endings \cup {Begun(a, "STOPPED", FALSE)}
    /\ Accepted(a)
    /\ UNCHANGED <<agents, sessions, runtimes, locks, starts, emergencyVars>>

\* createSnapshot throws, or the rest of the stop goes on.
SnapshotFails(e) ==
    /\ e.at = "snapshot"
    /\ endings' = endings \ {e}
    /\ UNCHANGED <<agents, sessions, runtimes, locks, starts, emergencyVars, disturbed>>

SnapshotTaken(e) ==
    /\ e.at = "snapshot"
    /\ EndTerminate(e)
    /\ UNCHANGED <<starts, emergencyVars, disturbed>>

\* terminateRuntime has returned.  A session that may not be closed this way
\* makes the ending throw, and with it the loop of emergencyStopAll.
EndFinish(e) ==
    /\ e.at = "terminated"
    /\ EndWrite(e)
    /\ endings' = endings \ {e}
    /\ IF e.all /\ ~SessionMay(sessions[e.session].status, Closed(e.to))
       THEN emergency' = "off" /\ doomed' = {}
       ELSE UNCHANGED emergencyVars
    /\ UNCHANGED <<runtimes, locks, starts, disturbed>>

-----------------------------------------------------------------------------
\* emergencyStopAll.  Bound: one call at a time.
EmergencyStop ==
    /\ emergency = "off"
    /\ emergency' = "killed"
    /\ runtimes' = [s \in Session |-> IF Live(s) THEN "GONE" ELSE runtimes[s]]
    /\ UNCHANGED <<agents, sessions, locks, starts, endings, doomed, disturbed>>

\* The list is taken once, the statuses in it are not looked at again.
EmergencyList ==
    /\ emergency = "killed"
    /\ emergency' = "killing"
    /\ doomed' = {a \in Agent : agents[a].status \in {"RUNNING", "PAUSED", "INITIALIZING"}}
    /\ UNCHANGED <<agents, sessions, runtimes, locks, starts, endings, disturbed>>

NextKill == emergency = "killing" /\ \A e \in endings : ~e.all

\* Faulty variant of EmergencyKill: the loop does not get past an agent.
EmergencyKillSame(a) ==
    /\ NextKill /\ a \in doomed
    /\ EndTerminate(Begun(a, "KILLED", TRUE))
    /\ Accepted(a)
    /\ UNCHANGED <<starts, emergencyVars>>

EmergencyKill(a) ==
    /\ NextKill /\ a \in doomed
    /\ EndTerminate(Begun(a, "KILLED", TRUE))
    /\ doomed' = doomed \ {a}
    /\ Accepted(a)
    /\ UNCHANGED <<starts, emergency>>

EmergencyReturns ==
    /\ NextKill /\ doomed = {}
    /\ emergency' = "off"
    /\ UNCHANGED <<agents, sessions, runtimes, locks, starts, endings, doomed, disturbed>>

-----------------------------------------------------------------------------
\* A limit, an anomaly or the manager's shutdown ends a runtime.  Nobody tells
\* the agent.
RuntimeEnds(s) ==
    /\ Live(s)
    /\ runtimes' = [runtimes EXCEPT ![s] = "GONE"]
    /\ UNCHANGED <<agents, sessions, locks, starts, endings, emergencyVars, disturbed>>

\* A runtime paused for longer than the health monitor waits for a sign of
\* life is recovered: restartRoutine makes it READY.
RuntimeRecovered(s) ==
    /\ runtimes[s] = "PAUSED"
    /\ runtimes' = [runtimes EXCEPT ![s] = "READY"]
    /\ UNCHANGED <<agents, sessions, locks, starts, endings, emergencyVars, disturbed>>

StartSteps(a, s) ==
    \/ StartInWorkspace(a, s)
    \/ StartFails(a, s)
    \/ RuntimeCreated(a, s)
    \/ StartReturns(a, s)

EndSteps(e) == SnapshotFails(e) \/ SnapshotTaken(e) \/ EndFinish(e)

EmergencySteps ==
    EmergencyList \/ (\E a \in Agent : EmergencyKill(a)) \/ EmergencyReturns

AgentStep ==
    \/ \E a \in Agent, s \in Session : StartAgent(a, s) \/ StartSteps(a, s)
    \/ \E a \in Agent :
          \/ PauseAgent(a)
          \/ ResumeAgent(a)
          \/ \E to \in {"STOPPED", "ABORTED", "KILLED"} : EndAgent(a, to)
          \/ StopWithCheckpoint(a)
    \/ \E e \in endings : EndSteps(e)
    \/ EmergencyStop
    \/ EmergencySteps
    \/ \E s \in Session : RuntimeEnds(s) \/ RuntimeRecovered(s)

AgentNext == AgentStep /\ UNCHANGED asked

\* What a command waits for answers, and its continuation runs: the file system
\* returns, and createRuntime gets a slot or its request times out.
AgentFairness ==
    /\ \A a \in Agent, s \in Session : WF_agentVars(StartSteps(a, s) /\ UNCHANGED asked)
    /\ \A all \in BOOLEAN :
          WF_agentVars((\E e \in endings : e.all = all /\ EndSteps(e)) /\ UNCHANGED asked)
    /\ WF_agentVars(EmergencySteps /\ UNCHANGED asked)

AgentSpec == AgentInit /\ [][AgentNext]_agentVars /\ AgentFairness

-----------------------------------------------------------------------------
\* Type correctness of the records, the locks and the calls in flight.
AgentTypeOK ==
    /\ agents \in [Agent -> [status : AgentStatus, session : Session \cup {NoSession}]]
    /\ sessions \in [Session -> [status : SessionStatus, agent : Agent \cup {NoAgent}]]
    /\ runtimes \in [Session -> RuntimeStatus]
    /\ locks \in [Session -> Agent \cup {NoAgent}]
    /\ starts \in [Agent -> [Session -> {"idle", "provisioning", "waiting", "created"}]]
    /\ endings \subseteq Ending
    /\ emergency \in {"off", "killed", "killing"}
    /\ doomed \subseteq Agent
    /\ disturbed \subseteq Agent

\* A session that is reported over has no runtime that still works for it, and
\* none on its way, whatever commands overlapped and however stale the record
\* was that ended it.
OverMeansGone ==
    \A s \in Session :
        sessions[s].status \in {"COMPLETED", "ABORTED", "FAILED"} =>
            /\ runtimes[s] = "GONE"
            /\ \A a \in Agent : starts[a][s] # "waiting"

\* Agents whose commands never overlapped: the record, the session and the
\* runtime are in step.  A running agent has an active session, a paused one a
\* paused session, one that has ended has no runtime, INITIALIZING means that a
\* start is in flight, and no runtime works that no record leads to.
InStep ==
    \A a \in Agent \ disturbed :
        LET s == agents[a].session
            st == agents[a].status
        IN  /\ st = "INITIALIZING" <=> \E t \in Session : starts[a][t] # "idle"
            /\ st = "RUNNING" /\ s # NoSession => sessions[s].status = "ACTIVE"
            /\ st = "PAUSED" /\ s # NoSession => sessions[s].status = "PAUSED"
            /\ st \in {"STOPPED", "ABORTED", "KILLED", "FAILED"} /\ s # NoSession
                 => runtimes[s] = "GONE"
            /\ \A t \in Session :
                  Live(t) /\ sessions[t].agent = a =>
                      starts[a][t] = "created" \/ (s = t /\ st \in {"RUNNING", "PAUSED"})

\* The lock on a workspace is not given up while a runtime works in it or is
\* on its way, however the commands of its agent and of others overlap: only
\* the end of the lease lets somebody else in.
InUse(s) == Live(s) \/ \E a \in Agent : starts[a][s] \in {"waiting", "created"}
KeepsWorkspaces ==
    \A s \in Session : InUse(s) /\ InUse(s)' /\ locks[s] # NoAgent => locks'[s] # NoAgent
WorkspaceKept == [][KeepsWorkspaces]_agentVars

\* Every call of startAgent comes to its end whatever ends the agent meanwhile,
\* and emergencyStopAll returns, also when one of its kills throws.
NothingHangs ==
    /\ \A a \in Agent, s \in Session : starts[a][s] # "idle" ~> starts[a][s] = "idle"
    /\ emergency # "off" ~> emergency = "off"
=============================================================================

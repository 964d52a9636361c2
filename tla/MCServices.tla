----------------------------- MODULE MCServices -----------------------------
(***************************************************************************)
(* The components that serve the core and share no state with it or with   *)
(* each other: the job queue, the scheduler, the audit writer, the world   *)
(* graph, chat sessions, the event bus, realtime connections, simulations  *)
(* and the registry of agents.  Each behaviour is one of a single          *)
(* component, the one that focus names; the others stay in one of their    *)
(* initial states.                                                         *)
(***************************************************************************)
EXTENDS JobQueue, Scheduler, AuditChain, WorldGraph, ChatSession, EventBus, Realtime,
        Simulation, AgentRegistry, TLC

CONSTANTS j1, j2, w1, w2, x1, x2, c1, c2, n1, n2, n3, t1, t2, s1, la, lb, ld, page, approvals,
          k1, k2, k3, a1, a2, u1, u2, u3, team

VARIABLE focus

vars == <<jobVars, scheduleVars, auditVars, worldVars, chatVars, busVars, realtimeVars,
          simulationVars, registryVars, focus>>

-----------------------------------------------------------------------------
\* The job queue and the scheduler.
Apart == j1 :> 1 @@ j2 :> 2
Same == j1 :> 1 @@ j2 :> 1

Two == {w1, w2}

MCSettings == {[workers |-> Two, key |-> Apart, retries |-> 1, faults |-> 1],
               [workers |-> Two, key |-> Same, retries |-> 1, faults |-> 1],
               [workers |-> {w1}, key |-> Same, retries |-> 1, faults |-> 2],
               [workers |-> Two, key |-> Apart, retries |-> 2, faults |-> 0]}

MCScopes == {[schedules |-> {x1}, byHand |-> {x1}, chains |-> {c1, c2}],
             [schedules |-> {x2}, byHand |-> {}, chains |-> {c1, c2}],
             [schedules |-> {x1, x2}, byHand |-> {x2}, chains |-> {c1}]}

\* The world graph: light and heavy, one-way and two-way, parallel and cyclic.
R(id, s, t, w, b) == [id |-> id, source |-> s, target |-> t, weight |-> w, both |-> b]

MCRelationships == {R(1, n1, n2, 1, FALSE), R(1, n1, n2, 1, TRUE), R(1, n1, n2, 3, FALSE),
                    R(2, n2, n3, 1, FALSE), R(2, n2, n3, 1, TRUE),
                    R(3, n1, n3, 3, FALSE), R(3, n3, n1, 1, FALSE)}

\* The event bus and realtime connections.
MCWants == s1 :> t1

MCTenantChannel == [l \in {la, lb, ld} |-> l]
MCAdmits == [l \in {la, lb, ld} |-> {l}] @@ page :> {la, lb, ld} @@ approvals :> {la}

Case(validating, sockets, beats, underWay, pages) ==
    [validating |-> validating, sockets |-> sockets, beats |-> beats, underWay |-> underWay,
     pages |-> pages]
MCCases == {Case(FALSE, 3, 0, 1, {}), Case(FALSE, 2, 0, 1, {page}),
            Case(FALSE, 1, 0, 2, {page, approvals}), Case(FALSE, 1, 3, 1, {page}),
            Case(TRUE, 2, 0, 1, {}), Case(TRUE, 1, 0, 1, {approvals}), Case(TRUE, 1, 2, 1, {})}

\* Simulations: two mutations and an event on two properties, at the same or at
\* different times, the last of which the steps may not reach.
MCRules == <<[key |-> k1, value |-> 2, updates |-> k3 :> 1],
             [key |-> k2, value |-> 2, updates |-> k3 :> 2]>>

Times == {0, 1, 3}
Mutations(v) == {[time |-> t, updates |-> k :> v] : t \in Times, k \in {k1, k2}}
Injected == {[time |-> t, results |-> r, children |-> c] :
                t \in Times, r \in {<<>>, <<k1 :> 3>>, <<k1 :> 3, k2 :> 3>>}, c \in {0, 1}}
NoScenario == [mutations |-> <<>>, events |-> <<>>, duration |-> 3, delta |-> 3]
MCScenarios == {NoScenario} \cup
               {[mutations |-> <<m, n>>, events |-> <<e>>, duration |-> 3, delta |-> d] :
                   m \in Mutations(1), n \in Mutations(2), e \in Injected, d \in {1, 2}}

\* The registry: private, shared and public agents, and people of two tenants.
Owned(u, t, v) == [owner |-> u, tenant |-> t, visibility |-> v, team |-> team, acl |-> {}]
Member(t, u, roles, teams) == [tenant |-> t, user |-> u, roles |-> roles, teams |-> teams]

MCContexts == {Member(t1, u1, {"DEVELOPER"}, {}), Member(t1, u2, {"ADMIN"}, {team}),
               Member(t1, u3, {}, {team}), Member(t2, u2, {"ADMIN"}, {}),
               Member(t2, u3, {"SYSTEM_ADMIN"}, {})}

MCAclEntry == {[type |-> "ROLE", id |-> "ADMIN", role |-> "OWNER"],
            [type |-> "TEAM", id |-> team, role |-> "DEVELOPER"],
            [type |-> "TENANT", id |-> t1, role |-> "VIEWER"]}

Shared == Owned(u1, t1, "TENANT_SHARED")
Reader == [allowed |-> {"read"}, provider |-> "other"]
Developer == [allowed |-> {"read", "bash"}, provider |-> "anthropic"]

MCErrands == {[tools |-> {"read"}, provider |-> "anthropic"], [tools |-> {"bash"}, provider |-> "other"]}

MCPlans == {[changes |-> 4, calls |-> 0, offers |-> {Reader},
             owned |-> {Shared, Owned(u1, t1, "PRIVATE"), Owned(u3, t2, "PUBLIC_SYSTEM")}],
            [changes |-> 3, calls |-> 0, offers |-> {Reader},
             owned |-> {Owned(u2, t1, "TEAM_SHARED"), Owned(u2, t2, "PRIVATE")}],
            [changes |-> 3, calls |-> 1, offers |-> {Developer}, owned |-> {Shared}],
            [changes |-> 2, calls |-> 2, offers |-> {Reader, Developer}, owned |-> {Shared}],
            [changes |-> 1, calls |-> 4, offers |-> {Developer}, owned |-> {Shared}]}

-----------------------------------------------------------------------------
\* A component that has no turn is not asked to choose its bounds either.
Init ==
    /\ focus \in {"jobs", "schedules", "audit", "world", "chat", "bus", "realtime", "simulation",
                "registry"}
    /\ scenario \in IF focus = "simulation" THEN MCScenarios ELSE {NoScenario}
    /\ JobInit /\ (focus # "jobs" => setting = CHOOSE x \in Settings : TRUE)
    /\ ScheduleInit
    /\ focus # "schedules" => (due = {} /\ scope = CHOOSE x \in Scopes : TRUE)
    /\ RealtimeInit
    /\ focus # "realtime" => (login = NoLogin /\ case = CHOOSE x \in Cases : TRUE)
    /\ RegistryInit /\ (focus # "registry" => plan = CHOOSE p \in Plans : TRUE)
    /\ AuditInit /\ WorldInit /\ ChatInit /\ BusInit /\ SimulationInit

Jobs(step) ==
    /\ focus = "jobs" /\ step
    /\ UNCHANGED <<scheduleVars, auditVars, worldVars, chatVars, busVars, realtimeVars,
                   simulationVars, registryVars, focus>>
Schedules(step) ==
    /\ focus = "schedules" /\ step
    /\ UNCHANGED <<jobVars, auditVars, worldVars, chatVars, busVars, realtimeVars,
                   simulationVars, registryVars, focus>>
Audit(step) ==
    /\ focus = "audit" /\ step
    /\ UNCHANGED <<jobVars, scheduleVars, worldVars, chatVars, busVars, realtimeVars,
                   simulationVars, registryVars, focus>>
World(step) ==
    /\ focus = "world" /\ step
    /\ UNCHANGED <<jobVars, scheduleVars, auditVars, chatVars, busVars, realtimeVars,
                   simulationVars, registryVars, focus>>
Chat(step) ==
    /\ focus = "chat" /\ step
    /\ UNCHANGED <<jobVars, scheduleVars, auditVars, worldVars, busVars, realtimeVars,
                   simulationVars, registryVars, focus>>
Bus(step) ==
    /\ focus = "bus" /\ step
    /\ UNCHANGED <<jobVars, scheduleVars, auditVars, worldVars, chatVars, realtimeVars,
                   simulationVars, registryVars, focus>>
Connections(step) ==
    /\ focus = "realtime" /\ step
    /\ UNCHANGED <<jobVars, scheduleVars, auditVars, worldVars, chatVars, busVars,
                   simulationVars, registryVars, focus>>
Simulations(step) ==
    /\ focus = "simulation" /\ step
    /\ UNCHANGED <<jobVars, scheduleVars, auditVars, worldVars, chatVars, busVars,
                   realtimeVars, registryVars, focus>>
Agents(step) ==
    /\ focus = "registry" /\ step
    /\ UNCHANGED <<jobVars, scheduleVars, auditVars, worldVars, chatVars, busVars,
                   realtimeVars, simulationVars, focus>>

Next ==
    \/ Jobs(JobNext) \/ Schedules(ScheduleNext) \/ Audit(AuditNext) \/ World(WorldNext)
    \/ Chat(ChatNext) \/ Bus(BusNext) \/ Connections(RealtimeNext)
    \/ Simulations(SimulationNext) \/ Agents(RegistryNext)

\* JobFairness and that of AuditSpec, for the component that has the turn.
Fairness ==
    /\ \A c \in Caller : /\ WF_jobVars(focus = "jobs" /\ LoadSteps(c))
                        /\ WF_jobVars(focus = "jobs" /\ WriteSteps(c))
    /\ \A w \in Worker : /\ WF_jobVars(focus = "jobs" /\ Begin(w))
                        /\ WF_jobVars(focus = "jobs" /\ WorkSteps(w))
    /\ WF_auditVars(focus = "audit" /\ AuditStep)

Spec == Init /\ [][Next]_vars /\ Fairness
=============================================================================

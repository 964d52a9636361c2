----------------------------- MODULE AgentRegistry -----------------------------
(***************************************************************************)
(* The catalog of agents: AgentRegistry, AgentRegistration, AgentOwnership,*)
(* AgentHealthTracker and the ranking of AgentDiscovery, all of            *)
(* packages/agent-registry.  Every method is synchronous, so an action is  *)
(* a whole call; a call that throws changes nothing and has no action.     *)
(*                                                                         *)
(* AgentController records the starts and the failures of sessions at the  *)
(* tracker it looked up before its awaits.  When an update has replaced it *)
(* meanwhile, the record reaches a tracker nobody reads, so the actions    *)
(* below are the calls on the current one.                                 *)
(*                                                                         *)
(* Left out: prompts, models and their validation; the events of the       *)
(* registry, which nothing in the repository listens to; the id inside a   *)
(* registration (a clone's is <id>-copy, and only register reads it);      *)
(* the filters of list other than tenant and context; the window of 50     *)
(* latency samples, which the bound on calls does not fill.                *)
(***************************************************************************)
EXTENDS Integers, SequencesExt

CONSTANTS
    AgentId,           \* ids of agents
    NoAgent,           \* an id without a registration, and a ranking without candidates
    NoTeam,            \* ownership without a primary team
    Contexts,          \* who may call: [tenant, user, roles, teams]
    NoContext,         \* a call inside the program, without access context
    AclEntry,          \* entries of access lists: [type, id, role]
    Errands,           \* what agents are looked up for: [tools, provider]
    Seconds,           \* latencies of completed sessions
    MaxStreak,         \* maxConsecutiveFailures
    MaxActive,         \* maxActiveSessions
    MinSample,         \* executions before the error rate counts
    Plans              \* bounds and inputs of a behaviour: [changes, calls, owned, offers]

Tenants == {c.tenant : c \in Contexts}
Offers == UNION {p.offers : p \in Plans}

\* The ownerships and registrations there can be.
OwnedEver == UNION {p.owned : p \in Plans}
Ownership ==
    [owner : {o.owner : o \in OwnedEver}, tenant : Tenants,
     visibility : {"PRIVATE", "TEAM_SHARED", "TENANT_SHARED", "PUBLIC_SYSTEM"},
     team : {o.team : o \in OwnedEver}, acl : SUBSET AclEntry]
Registration == [ownership : Ownership, offer : Offers, deprecated : BOOLEAN]

ASSUME RegistryAssumption ==
    /\ NoAgent \notin AgentId \cup Registration
    /\ {MaxStreak, MaxActive, MinSample} \subseteq Nat \ {0} /\ Seconds \subseteq Nat
    /\ \A p \in Plans : {p.changes, p.calls} \subseteq Nat
    /\ OwnedEver \subseteq Ownership

VARIABLES
    catalog,           \* agents: the registration of each id, or NoAgent
    order,             \* the order of the ids in that map
    tenantIndex,       \* the ids listed for each tenant
    tracker,           \* the health tracker of each registration
    log,               \* history: what was recorded at each tracker
    moved,             \* history: ids an update has taken to another tenant
    changes,           \* calls that changed the catalog so far
    plan               \* the plan of this behaviour

registryVars == <<catalog, order, tenantIndex, tracker, log, moved, changes, plan>>

Registered == {a \in AgentId : catalog[a] # NoAgent}

-----------------------------------------------------------------------------
(* Who may do what: AgentOwnership.  o is an ownership, c a context.       *)

InAcl(o, c, roles) ==
    \E e \in o.acl :
        /\ e.role \in roles
        /\ \/ e.type = "USER" /\ e.id = c.user
           \/ e.type = "TEAM" /\ e.id \in c.teams
           \/ e.type = "ROLE" /\ e.id \in c.roles
           \/ e.type = "TENANT" /\ e.id = c.tenant

CanRead(o, c) ==
    \/ o.visibility = "PUBLIC_SYSTEM"
    \/ /\ c.tenant = o.tenant
       /\ \/ c.user = o.owner
          \/ o.visibility = "TENANT_SHARED"
          \/ o.visibility = "TEAM_SHARED" /\ o.team # NoTeam /\ o.team \in c.teams
          \/ InAcl(o, c, {"OWNER", "ADMIN", "OPERATOR", "DEVELOPER", "VIEWER"})

CanExecute(o, c) ==
    /\ CanRead(o, c)
    /\ \/ o.visibility = "PUBLIC_SYSTEM"
       \/ c.user = o.owner
       \/ c.roles \cap {"ADMIN", "OPERATOR", "DEVELOPER"} # {}
       \/ InAcl(o, c, {"OWNER", "ADMIN", "OPERATOR", "DEVELOPER"})

CanModify(o, c) ==
    IF o.visibility = "PUBLIC_SYSTEM" THEN "SYSTEM_ADMIN" \in c.roles
    ELSE /\ c.tenant = o.tenant
         /\ c.user = o.owner \/ "ADMIN" \in c.roles \/ InAcl(o, c, {"OWNER", "ADMIN"})

CanDelete(o, c) ==
    IF o.visibility = "PUBLIC_SYSTEM" THEN "SYSTEM_ADMIN" \in c.roles
    ELSE /\ c.tenant = o.tenant
         /\ c.user = o.owner \/ ("ADMIN" \in c.roles /\ InAcl(o, c, {"OWNER"}))

SamePrincipal(e, f) == e.type = f.type /\ e.id = f.id

\* grantAccess: a principal has one entry.
Granted(o, e) == [o EXCEPT !.acl = {f \in @ : ~SamePrincipal(e, f)} \cup {e}]
Revoked(o, e) == [o EXCEPT !.acl = {f \in @ : ~SamePrincipal(e, f)}]

\* get, and the checks of update and delete after it, for a call with context c.
Gets(a, c) == c = NoContext \/ CanRead(catalog[a].ownership, c)
MayUpdate(a, c) == Gets(a, c) /\ (c = NoContext \/ CanModify(catalog[a].ownership, c))
MayDelete(a, c) == Gets(a, c) /\ (c = NoContext \/ CanDelete(catalog[a].ownership, c))

-----------------------------------------------------------------------------
(* The health of an agent: AgentHealthTracker.                             *)

NewTracker == [status |-> "HEALTHY", fresh |-> TRUE, active |-> 0, total |-> 0, failed |-> 0,
               streak |-> 0, latency |-> 0, samples |-> 0]

\* The status evaluateHealth computes; a tracker that drains keeps draining.
Health(h) ==
    IF h.status = "DRAINING" THEN "DRAINING"
    ELSE IF ~h.fresh THEN "OFFLINE"
    ELSE IF h.streak >= MaxStreak THEN "UNHEALTHY"
    ELSE IF h.active >= MaxActive THEN "DEGRADED"
    ELSE IF h.total >= MinSample /\ h.failed * 100 > 25 * h.total THEN "DEGRADED"
    ELSE "HEALTHY"

Evaluated(h) == [h EXCEPT !.status = Health(h)]

Less(n) == IF n = 0 THEN 0 ELSE n - 1

Failed(h) == [h EXCEPT !.total = @ + 1, !.failed = @ + 1, !.streak = @ + 1, !.active = Less(@)]

Completed(h, s) == [h EXCEPT !.total = @ + 1, !.streak = 0, !.active = Less(@),
                             !.latency = @ + s, !.samples = @ + 1]

-----------------------------------------------------------------------------
(* findBestAgent: rankCandidatesForTask over the map in its order.         *)

Eligible(a, t) ==
    /\ ~catalog[a].deprecated
    /\ Health(tracker[a]) \notin {"OFFLINE", "UNHEALTHY", "DRAINING"}
    /\ t.tools \subseteq catalog[a].offer.allowed

Slowness(latency, samples) ==
    IF samples = 0 THEN 0 ELSE LET s == latency \div samples IN IF s > 20 THEN 20 ELSE s

Score(a, t) ==
    LET h == tracker[a] IN
    100 + (IF Health(h) = "HEALTHY" THEN 50 ELSE 10)
        + (IF catalog[a].offer.provider = t.provider THEN 30 ELSE 0)
        - 10 * h.active - Slowness(h.latency, h.samples)

\* The first of the best, since the sort is stable.
FindBest(t) ==
    LET ranked == {i \in DOMAIN order : Eligible(order[i], t)}
        best == {i \in ranked : \A j \in ranked : Score(order[j], t) <= Score(order[i], t)}
    IN  IF ranked = {} THEN NoAgent ELSE order[Min(best)]

\* list with a tenant, or with a context, and deprecated agents included.
DiscoverTenant(t) ==
    {a \in Registered : \/ catalog[a].ownership.tenant = t
                        \/ catalog[a].ownership.visibility = "PUBLIC_SYSTEM"}

DiscoverFor(c) == {a \in Registered : CanRead(catalog[a].ownership, c)}

ListByTenant(t) == tenantIndex[t] \cap Registered

-----------------------------------------------------------------------------
RegistryInit ==
    /\ plan \in Plans
    /\ catalog = [a \in AgentId |-> NoAgent]
    /\ order = <<>>
    /\ tenantIndex = [t \in Tenants |-> {}]
    /\ tracker = [a \in AgentId |-> NewTracker]
    /\ log = [a \in AgentId |-> <<>>]
    /\ moved = {} /\ changes = 0

Changes == changes < plan.changes /\ changes' = changes + 1 /\ UNCHANGED plan

\* register, the templates of seedDefaultTemplates included: any ownership may
\* be asked for, and the id is new.
RegisterAgent(a, o, f) ==
    /\ Changes
    /\ catalog[a] = NoAgent
    /\ catalog' = [catalog EXCEPT ![a] = [ownership |-> o, offer |-> f, deprecated |-> FALSE]]
    /\ order' = Append(order, a)
    /\ tenantIndex' = [tenantIndex EXCEPT ![o.tenant] = @ \cup {a}]
    /\ tracker' = [tracker EXCEPT ![a] = NewTracker]
    /\ log' = [log EXCEPT ![a] = <<>>]
    /\ UNCHANGED moved

\* What update and deprecate can make of a registration r.
Overridden(r) ==
    {[r EXCEPT !.deprecated = d] : d \in BOOLEAN}
    \cup {[r EXCEPT !.ownership = o] : o \in plan.owned}
    \cup {[r EXCEPT !.ownership = Granted(@, e)] : e \in AclEntry}
    \cup {[r EXCEPT !.ownership = Revoked(@, e)] : e \in AclEntry}
    \cup {[r EXCEPT !.offer = f] : f \in plan.offers}

\* update and deprecate: a clone takes the place of the registration, with a
\* tracker of its own.  The index of tenants stays as it is.
UpdateAgent(a, c) ==
    /\ Changes
    /\ a \in Registered /\ MayUpdate(a, c)
    /\ \E r \in Overridden(catalog[a]) :
           /\ catalog' = [catalog EXCEPT ![a] = r]
           /\ moved' = IF r.ownership.tenant = catalog[a].ownership.tenant THEN moved
                       ELSE moved \cup {a}
    /\ tracker' = [tracker EXCEPT ![a] = NewTracker]
    /\ log' = [log EXCEPT ![a] = <<>>]
    /\ UNCHANGED <<order, tenantIndex>>

\* Faulty variant of Unlisted: the index keeps the id, which it does not find then.
UnlistedNever(a) == tenantIndex

\* delete takes the id out of the index of the tenant the agent has now.
Unlisted(a) == [tenantIndex EXCEPT ![catalog[a].ownership.tenant] = @ \ {a}]

DeleteAgent(a, c) ==
    /\ Changes
    /\ a \in Registered /\ MayDelete(a, c)
    /\ catalog' = [catalog EXCEPT ![a] = NoAgent]
    /\ order' = RemoveAt(order, CHOOSE i \in DOMAIN order : order[i] = a)
    /\ tenantIndex' = Unlisted(a)
    /\ tracker' = [tracker EXCEPT ![a] = NewTracker]
    /\ log' = [log EXCEPT ![a] = <<>>]
    /\ UNCHANGED moved

ClearAgents ==
    /\ Changes
    /\ catalog' = [a \in AgentId |-> NoAgent]
    /\ order' = <<>>
    /\ tenantIndex' = [t \in Tenants |-> {}]
    /\ tracker' = [a \in AgentId |-> NewTracker]
    /\ log' = [a \in AgentId |-> <<>>]
    /\ moved' = {}

-----------------------------------------------------------------------------
Recorded(a, what, s, h) ==
    /\ a \in Registered
    /\ Len(log[a]) < plan.calls
    /\ tracker' = [tracker EXCEPT ![a] = h]
    /\ log' = [log EXCEPT ![a] = Append(@, [what |-> what, seconds |-> s])]
    /\ UNCHANGED <<catalog, order, tenantIndex, moved, changes, plan>>

Watched(a, h) ==
    /\ a \in Registered
    /\ tracker' = [tracker EXCEPT ![a] = h]
    /\ UNCHANGED <<catalog, order, tenantIndex, log, moved, changes, plan>>

\* recordSessionStarted, when startAgent has its runtime.
SessionStarted(a) == Recorded(a, "start", 0, Evaluated([tracker[a] EXCEPT !.active = @ + 1]))

\* recordSessionFailed, when startAgent throws: also for a start that was never
\* recorded, which then takes an active session off the count.
SessionFailed(a) == Recorded(a, "fail", 0, Evaluated(Failed(tracker[a])))

\* recordSessionCompleted, which the program does not call.
SessionCompleted(a, s) == Recorded(a, "done", s, Evaluated(Completed(tracker[a], s)))

\* setDraining(true); setDraining(false) only evaluates, which keeps DRAINING.
StartDraining(a) == Recorded(a, "drain", 0, [tracker[a] EXCEPT !.status = "DRAINING"])
StopDraining(a) == Watched(a, Evaluated(tracker[a]))

Beat(a) ==
    Watched(a, [tracker[a] EXCEPT !.fresh = TRUE,
                                  !.status = IF @ = "OFFLINE" THEN "HEALTHY" ELSE @])

\* heartbeatTimeoutMs have passed since the last heartbeat.
BeatTimesOut(a) == Watched(a, [tracker[a] EXCEPT !.fresh = FALSE])

\* findBestAgent evaluates the trackers it looks at.
LookUp ==
    /\ tracker' = [a \in AgentId |-> IF a \in Registered /\ ~catalog[a].deprecated
                                     THEN Evaluated(tracker[a]) ELSE tracker[a]]
    /\ UNCHANGED <<catalog, order, tenantIndex, log, moved, changes, plan>>

CatalogSteps ==
    \/ \E a \in AgentId, o \in plan.owned, f \in plan.offers : RegisterAgent(a, o, f)
    \/ \E a \in AgentId, c \in Contexts : UpdateAgent(a, c) \/ DeleteAgent(a, c)
    \/ ClearAgents

HealthSteps(a) ==
    \/ SessionStarted(a) \/ SessionFailed(a) \/ \E s \in Seconds : SessionCompleted(a, s)
    \/ StartDraining(a) \/ StopDraining(a) \/ Beat(a) \/ BeatTimesOut(a)

RegistryNext == CatalogSteps \/ (\E a \in AgentId : HealthSteps(a)) \/ LookUp

RegistrySpec == RegistryInit /\ [][RegistryNext]_registryVars

-----------------------------------------------------------------------------
\* Type correctness of the catalog, its index and the trackers.
RegistryTypeOK ==
    /\ \A a \in Registered : /\ catalog[a].deprecated \in BOOLEAN
                             /\ catalog[a].ownership.tenant \in Tenants
                             /\ catalog[a].ownership.acl \subseteq AclEntry
    /\ Len(order) = Cardinality(Registered)
    /\ tenantIndex \in [Tenants -> SUBSET AgentId]
    /\ \A a \in AgentId :
           /\ tracker[a].status \in {"HEALTHY", "DEGRADED", "UNHEALTHY", "OFFLINE", "DRAINING"}
           /\ {tracker[a].active, tracker[a].total, tracker[a].streak} \subseteq Nat
    /\ moved \subseteq AgentId

(* What the records of an agent amount to, said without the tracker's      *)
(* counters: how many failures came last, and the sessions active, a count *)
(* that does not go below zero.                                            *)
Failures(a) == {i \in DOMAIN log[a] : log[a][i].what = "fail"}
Completions(a) == {i \in DOMAIN log[a] : log[a][i].what = "done"}

FailuresInARow(a) ==
    Cardinality({i \in Failures(a) : \A j \in Completions(a) : j < i})

SessionsActive(a) ==
    Max({Cardinality({i \in k..Len(log[a]) : log[a][i].what = "start"})
             - Cardinality({i \in k..Len(log[a]) : log[a][i].what \in {"fail", "done"}}) :
         k \in 1..(Len(log[a]) + 1)})

\* The seconds of the completed sessions, counted one by one.
SecondsSpent(a) ==
    Cardinality(UNION {{i} \X (1..log[a][i].seconds) : i \in Completions(a)})

ErrorProne(a) ==
    LET ended == Cardinality(Failures(a) \cup Completions(a)) IN
    ended >= MinSample /\ 4 * Cardinality(Failures(a)) > ended

Suited(t) ==
    {a \in Registered :
        /\ ~catalog[a].deprecated /\ t.tools \subseteq catalog[a].offer.allowed
        /\ tracker[a].fresh /\ FailuresInARow(a) < MaxStreak
        /\ \A i \in DOMAIN log[a] : log[a][i].what # "drain"}

Worth(a, t) ==
    (IF SessionsActive(a) >= MaxActive \/ ErrorProne(a) THEN 0 ELSE 40)
        + (IF catalog[a].offer.provider = t.provider THEN 30 ELSE 0) - 10 * SessionsActive(a)
        - Slowness(SecondsSpent(a), Cardinality(Completions(a)))

\* Whatever was recorded, evaluated, timed out and replaced before, the agent
\* found for an errand is none that drains, is silent or failed too often, and
\* no other is worth more: the statuses kept in the trackers are never stale.
BestServes ==
    \A t \in Errands :
        LET best == FindBest(t) IN
        IF Suited(t) = {} THEN best = NoAgent
        ELSE best \in Suited(t) /\ \A a \in Suited(t) : Worth(a, t) <= Worth(best, t)

\* The two ways to list a tenant's agents, by index and by ownership, agree,
\* except on agents an update has taken to another tenant: the index keeps
\* them where they were, and they stay listed there when they are deleted and
\* registered anew for somebody else.
IndexAgrees ==
    \A t \in Tenants, a \in Registered \ moved :
        a \in ListByTenant(t) <=> (a \in DiscoverTenant(t) /\ catalog[a].ownership.tenant = t)

\* Whoever may execute, update or delete an agent finds it, whoever may delete it
\* may update it, and only a public agent shows to another tenant.
RightsNested ==
    \A a \in Registered, c \in Contexts :
        LET o == catalog[a].ownership IN
        /\ CanExecute(o, c) => a \in DiscoverFor(c)
        /\ MayDelete(a, c) => MayUpdate(a, c)
        /\ (a \in DiscoverFor(c) /\ o.visibility # "PUBLIC_SYSTEM") => c.tenant = o.tenant

\* The catalog stays what its readers take it for, through every sequence of
\* registrations, changes of owner, deletions and records of health.
RegistryServes == BestServes /\ IndexAgrees /\ RightsNested
=============================================================================

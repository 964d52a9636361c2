# Verification of SYNAPSE-OS

SYNAPSE-OS governs autonomous coding agents: it decides whether an agent's tool call may run, asks people when it may
not decide alone, limits how many agents run at once, keeps the plan an agent works along, and has a task graph, job
queues, an audit chain, a scheduler, an event bus and a world model around it. This directory holds TLA+ models of the
parts that keep state and must agree with each other, TLC configurations that check them on small instances, and TLAPS
proofs of their main properties for every value of the constants.

Paths below are relative to `packages/` of the repository unless they begin with `apps/`, `docs/` or `tests/`.

1. [Inventory](#1-inventory) - the system's parts, their state, operations, interactions and hazards
2. [Plan](#2-plan) - which modules there are, how they are composed, what is left
3. [The models](#3-the-models) - module by module, how state and actions correspond to the code
4. [The runs](#4-the-runs) - what each checks, its bounds, and why they are enough
5. [Fairness](#5-fairness)
6. [The proofs](#6-the-proofs)
7. [Findings](#7-findings) - where the code disagrees with what the repository says of it
8. [What is not modelled](#8-what-is-not-modelled)

How to run: `tlc -workers 2 -config MCToolGateway.cfg MCToolGateway`, and likewise for every `.cfg`;
`tlapm ToolGateway_proofs.tla`, and likewise for every `*_proofs.tla`.

## 1. Inventory

The system is one Node.js process per node: TypeScript packages around a single event loop. What interleaves are
asynchronous functions at their `await`s, timers (`setTimeout`, `setInterval`) and event callbacks. Almost all state is
in in-memory maps; only the graph store and the durable job queue write files. Agents (Cline) and MCP clients are other
processes that call in.

| Part | State | Operations | Talks to | Hard behaviour | Correct when |
|---|---|---|---|---|---|
| **Approval engine** `approval-engine/src` | stored requests with status and decisions, `pendingDeferreds` | `requestApproval`, `processDecision`, `checkExpiredRequests` | tool gateway (waits on it), audit | three kinds of calls interleave at awaits over a store of shallow copies; the time-out monitor works on a stale list and overlaps itself | an answer is justified by the decisions recorded and by the audit trail; each waiting caller gets one |
| **Tool gateway** `tool-gateway/src` | issued tokens, `consumedTokens` | `evaluateAndAuthorizeToolCall`, `executeTool` | safety, policy, capabilities, kill switch, approval engine, evidence, audit | minutes pass between evaluation and execution; tokens expire, are consumed, and forgotten when the map is cut back; recording fails | nothing runs unauthorized, twice, or - at high risk - unrecorded |
| **Kill switch** `safety-engine/src/KillSwitch.ts` | stopped contexts, workspace lock | four levels of halt, granular stops, unlock, reset | read by the gateway's pipeline | halts race with calls already authorized | no tool starts in a stopped session |
| **Runtime manager** `runtime-manager/src` | runtimes, slots, per-tenant and per-agent counters, a priority queue | `createRuntime`, `terminateRuntime`, `emergencyKillAll`, `shutdown`, pause, resume, recovery | agent controller, health monitor | a release serves several queued requests; instances end in four ways; shutdown and recovery race with everything | limits hold, no slot leaks, no request waits beside a free slot, the queue is served in order |
| **Execution graph** `control-plane/src/graph` | graphs by version, active version, escalations; files of each | `replan`, `updateNodeState`, `escalate`, `resolveEscalation`, `loadFromStore` | planners through `engine-adapter` tools, `FileGraphStore` | planners in other processes act on versions read earlier; crashes between and during file writes | history is immutable, acknowledged changes survive, stale plans are refused, the frontier does not run dry |
| **Task controller** `control-plane/src/TaskController.ts` | tasks, both directions of their dependencies, retries | create, add dependency, set status, verify, retry, execute | control plane, retry timers | dependents are queued by a completion; timers of earlier retries still fire | a task starts only after its prerequisites; a completion wakes who waits; a retry ends |
| **Agents, sessions, workspaces** `control-plane/src` | agents, sessions, workspace locks | start, pause, resume, stop, abort, kill, emergency stop | runtime manager | every command awaits in the middle and writes back a record it read before | no runtime outlives its session, locks stay while somebody works, no call hangs |
| **Worker queues** `apps/worker/src/queues` | jobs in memory and on disk, leases | enqueue, reserve, ack, nack, dead-letter, recover | worker poll loops | leases that expire, late acknowledgements, several writes of a file at once, crashes, late recoveries | an accepted job is processed or is a dead letter; one worker holds it at a time |
| **Audit engine** `audit-engine/src` | queue, sequence number, previous hash | append, flush, initialize | everything, a storage adapter | storage fails after the chain has advanced; appends come before `initialize` is over | the chain breaks only where an append was rejected; every append is answered |
| **Scheduler** `scheduler/src` | schedules, locks with leases | start, stop, tick, recover, trigger, run | a policy, a handler | a run outlives its 60 s lease; `stop` does not wait for the chain it stops | one run of a schedule within a lease, one run of an occurrence |
| **Event bus** `event-bus/src` | ring buffer, sequence numbers, subscribers | publish, subscribe, start, stop, replay | realtime app | a replay reads by offset from a buffer that evicts from the front | events come in order; a replay misses no more than was evicted |
| **Realtime connections** `apps/realtime/src`, `apps/web/src/realtime` | connections, subscriptions, the client's socket and timer | connect, authenticate, subscribe, heartbeat, reconnect, log in and out | event bus, pages | a replaced socket still closes; messages come before the handlers; timers of old closures | one connection, subscribed to what was asked for; nothing is left of one that has gone |
| **Engine adapter, chat** `engine-adapter/src`, `apps/backend/src/controllers` | pending tool calls, handles of Cline sessions, the session's row | approve, execute, send a message | gateway, graph, Cline, database | tokens held between two callbacks of Cline; overlapping messages | one authorization, one run; one session of the core; a row that keeps up |
| **World engine** `world-engine/src` | an immutable model and an index patched beside it | add, update, remove entities and relationships, searches | simulation, twins | an index entry forgotten by one of the mutations | the index is that of the model, and searches find what they are meant to |
| **Simulation engine** `simulation-engine/src` | virtual clock, task queue, a copy of the model | run a scenario | world engine | insertion into a sorted queue that is being worked off | every write due is applied, in the order of virtual time |
| **Agent registry** `agent-registry/src` | the catalog, an index by tenant, health trackers | register, update, deprecate, delete, look up, record sessions | agent controller | an update replaces registration and tracker; statuses are computed when looked at | the best agent found is the best, lists and rights agree with the catalog |

Also in the repository: safety and policy scoring, the twin engine, tenancy, security, secrets, capabilities, database
repositories, connectors, observability, external agents, verification runners, and the front ends. Section 8 says why
each is left out. `PROJECT.json` lists the hazards found, at their lines, each with the properties that cover it.

## 2. Plan

Modules are written so that they can be checked and proved about alike: parameters are constants with named
assumptions, operations are actions, invariants are conjunctions of named parts. No module declares a `RECURSIVE`
operator. A search of the code is a step that is repeated, with the calls that have not returned as part of its state;
other recursion is written as a recursive function or a fold.

| Module | Models | State |
|---|---|---|
| `ApprovalPolicy` | the rules for who may decide | done |
| `ApprovalContract` | abstract: what the approval engine promises | done |
| `ApprovalEngine` | the engine, refining `ApprovalContract` | done, proved |
| `ToolGateway` | the gateway with the kill switch, composed with `ApprovalContract` | done, proved |
| `RuntimeManager` | runtimes, slots and queue | done, proved |
| `PlanGraph`, `ExecutionGraph` | graph rules; engine, store, crashes, planners | done, proved |
| `TaskController` | dependencies, queueing of dependents, retries with their timers | done, proved |
| `TaskOrder` | the two depth-first searches of the task controller | done, proved |
| `AgentController` | agents, sessions, workspace locks, the commands cut at their awaits | done, proved |
| `JobContract` | abstract: what a queue promises its producers and workers | done |
| `JobQueue` | files, leases, late acknowledgements, crashes and recovery, refining `JobContract` | done, proved |
| `Scheduler` | chains of ticks, recovery, runs under leases | done, proved |
| `AuditChain` | the hash chain over a failing storage | done, proved |
| `WorldIndex` | the world model with its index | done, proved |
| `GraphQuery`, `WorldGraph` | the searches over the index; what they are meant to find | done, proved |
| `ChatSession` | overlapping messages to a session, the core, the row | done, proved |
| `EventBus` | publication, ring buffer, replay | done, proved |
| `Realtime` | both ends of a websocket | done, proved |
| `Simulation` | a scenario on the virtual clock | done, proved |
| `AgentRegistry` | the catalog of agents, their rights and their health | done, proved |

Composition:

- `ToolGateway` uses the approval engine through its contract, which `ApprovalEngine` is proved to implement, so what
  holds of the gateway with the contract holds of it with the engine. The detailed engine inside the gateway would
  multiply two large state spaces to no use.
- `AgentController` uses the runtime manager as its callers see it: a call waits and then succeeds or throws, runtimes
  end by themselves and are recovered. `RuntimeManager` is the other side of this border: it shows that every waiting
  call ends (`EveryCallEnds`), which `AgentController` assumes.
- `MCServices` puts the nine components that share no state with the core or with each other into one specification. A
  behaviour belongs to one of them, which the variable `focus` names; the others keep an initial state. Their product
  would have no behaviours of interest that the components do not have alone.

*Proved* means every invariant and action property of the component that a run checks, and the refinement where one is
named; liveness is checked by TLC only. The approval engine, the gateway, the runtime manager and the execution graph
have proof modules of their own; those of the task and agent controllers are in `ControlPlane_proofs`, those of the
others in `Background_proofs` and `Delivery_proofs`, and what the searches of `TaskOrder` and `GraphQuery` compute is in
`Search_proofs`, which two of these use.

What is left: the conditions of edges in the execution graph.

## 3. The models

Each module names the files it is translated from in its header. Some modules hold definitions marked *faulty variant*:
they are what a plausible mistake in the code would look like, are used by no specification, and serve to confirm that
the properties notice the mistake when one takes the place of the definition beside it (`PROJECT.json`, `mutants`).

### ApprovalPolicy, ApprovalContract, ApprovalEngine

`ApprovalPolicy` holds the rules of `ApprovalPolicy.ts`: the roles a risk level needs, how many approvers, which levels
are approved automatically, and why a person may not decide on their own high-risk request.

`ApprovalContract` is what a caller of the engine may rely on, without any of its mechanics: requests are opened once, a
person casts at most one vote on each and only if the policy lets them, and a reply is given once and only when the
votes of that moment justify it.

`ApprovalEngine` is the code. A variable stands for each map or field (`status`, `decisions`, `deferred`, `audit`), and
one for the position of each asynchronous call (`phase` of `requestApproval`, `op` of `processDecision`, `mon` of
`checkExpiredRequests`). An action is what runs between two awaits:

| Function | Actions |
|---|---|
| `requestApproval` | `RequestCall` (save), `RequestAudit`, then `RequestReturn` if auto-approved or `RequestRegister` |
| `processDecision` | `ReadRequest` (load a copy), `RefuseDecision` or `AcceptDecision` (check and write), `AuditDecision`, `FinishDecision` (resolve the caller) |
| `checkExpiredRequests` | `MonitorList`, `MonitorSelect`, and for each request `MonitorUpdate`, `MonitorAudit`, `MonitorCallback` |
| the clock | `Expire` |

The store copies shallowly. The status a call has read grows stale, but all copies of a request share one `decisions`
array, so a vote appended by one call is seen by another that read before it. Both facts are in the model: the copied
status lives in `op`, the array in `decisions`. The interval starts a monitor run whether or not the last has ended, so
there are several.

### ToolGateway

The gateway, the part of the kill switch it consults, and the map of pending calls of `ClineEngine`. What the safety
engine, the policy engine and the capability registry say of a call is an input (`Assessments`); their order of
precedence in `SafetyPolicyPipeline` is the operator `Verdict`. `Evaluate` is the whole of
`evaluateAndAuthorizeToolCall` up to the await on the approval engine, `ResumeApproved` and `ResumeDenied` what follows
it. `ApprovalStep` is a step of `ApprovalContract`.

A call reaches `executeTool` in one of three ways, and the differences matter: *inline* (MCP server: no token, the
gateway authorizes in the same call and sees edited arguments), *cline* (the token waits in `pendingToolCalls`, which is
cleaned up beyond `PendingCap`), *direct* (a caller of the public interface, who may present the token again).
`ValidToken` is the validation; `Consume` adds the token to `consumedTokens` and cuts the map back to its newest
entries; `Start` begins the run; `Finish` decides what the caller is told, from the result of the tool and from whether
evidence and audit could be written. `StopSession`, `LockWorkspace`, `UnlockWorkspace` and `Reset` are the kill switch.

### RuntimeManager

`RuntimeManager`, `RuntimeAllocator`, `RuntimeInstance` and what `RuntimeRecovery` does to an instance. `pool` holds the
allocator's slots and counters, `queue` and `arrival` its queue. `CreateRuntime` asks for a slot; `RequestTimeout` and
`Register` are the two ways the wait ends. `Release` gives slots back and `ProcessQueue` serves the queue, one request
after the other, by priority and then by arrival. The set it serves is a fixpoint: `Served` is the set in which every
request was granted beside those granted before it, and which leaves out only requests that did not fit.
`End` is `terminateRuntime` and whatever calls it; `EmergencyKillAll`/`KillNext` and `Shutdown`/`ShutdownEnd` are loops
over the instances; `Recover` and `FinishRecovery` are the two sides of the backoff.

### PlanGraph, ExecutionGraph

`PlanGraph` holds the rules that need no state: the table of transitions, the frontier, the checks of
`updateNodeState`, the merge of `replan` and `validateGraph`.

`ExecutionGraph` is the engine of one mission, the files of `FileGraphStore`, and the planners. Every method of the
engine is synchronous, so calls do not interleave with each other; a process that ends does interleave with the writes of
a call. An action therefore changes the memory and appends the files to be written to `todo`; `Write` makes the next
write; `Crash` loses memory and `todo` and may leave the file being written torn, because `writeFileSync` truncates
before it writes. `Recover` is `loadFromStore`. Planners are other processes: `base` is the version a planner has read,
which outlives crashes, and `Replan` and `ProposeReplan` are the tools that present it. `propose_replan` of the MCP
server marks a node as failed and then replans; `cont` stands between the two halves, so that a crash can separate them
and a refusal of the second leaves the mark of the first.

### TaskController, TaskOrder

Every method runs to its end without an await, so each is one action: `CreateTask`, `AddDependency`, `SetTaskStatus`,
`RecordVerification`, `ExecuteTask` (of `ControlPlane`, up to its await), `RetryTask`, and `RetryTimer` for the callback
of a `setTimeout`, which nobody cancels: `timers` counts those that have not fired. `Advance` is a status change with the
loop over the dependents behind it (`Woken`): the loop throws at a dependent in BACKLOG, which may not become QUEUED,
after the completion has been recorded, and those behind it are not reached. `AddSelfDependency` is `addDependency` of a
task to itself, which writes the record it read before over the link it has just added and leaves half of it behind.
The history variables `late` and `reopened` name the two ways in which a queued task can have an open prerequisite:
links added after it was queued, and prerequisites taken out of COMPLETED by a forced retry.

`TaskOrder` translates `validateNoCycles` and `getTopologicalOrder` step by step: `calls` are the calls of `dfs` or
`visit` that have not returned, each with the prerequisites it has still to look at, and a step is a call, a return or a
look at the next prerequisite. `TaskController!OrderSound` compares both searches with their definitions on every graph the controller
reaches, and on each of these with one more edge.

### AgentController

Agents, sessions, workspace locks and `ControlPlane.emergencyStopAll`. A session stands for its workspace and its
runtime too, whose names are made of its own. `startAgent` is cut after its validation, its workspace and its runtime
(`StartAgent`, `StartInWorkspace` or `StartFails`, `RuntimeCreated`, `StartReturns`); `stopAgent`, `abortAgent` and
`killAgent` after the snapshot and after `terminateRuntime` (`EndAgent`, `SnapshotTaken` or `SnapshotFails`,
`EndFinish`). An ending in flight is a record in `endings` with the session of the agent's record as it was read at
the beginning, and writes that back. `EmergencyStop`, `EmergencyList`, `EmergencyKill` and `EmergencyReturns` are the
loop that kills one agent after the other from a list made before, and ends early when a kill throws. `disturbed`
names agents that were given a command while another one was in flight.

### JobQueue

`DurableJobQueue` under the poll loop of `agent-worker`. A call is cut at its awaits, which are all on files: a caller
first takes part in `recoverOrphanedJobs` (`ReadFile`, `LoadJob`), one of the several that run when callers come at once
after a start; `Enqueue`, `Take`, `Ack` and `Nack` change the cache and begin a write; `WriteEnds`, `WriteMixes` and
`WriteFails` are how it ends. What a write puts into the file is fixed when it begins; two writes of one file at once, or
a crash in the middle, may leave one that holds no JSON (`TORN`), at which recovery stops without a word. `Lapse` is a
lease that runs out. A lease is not named in acknowledgements, so a worker may acknowledge what another one holds by
then. `spoilt` and `loose` name the jobs a write of which went wrong, and those whose lease ran out or that a late
recovery put back.

`JobContract` is what `IQueue` promises those who use it, without caches, files or leases: an accepted job stays on record
until a worker that was given it is done with it, it may be given out any number of times before, and two workers have
jobs of one key only when one of these is in doubt; the end of the process takes jobs from the workers, never from the
record. `JobQueue!PromiseKept` is the contract with the parts of the queue in the place of its variables.

### Scheduler

Each call of `start` begins a chain: the recovery of missed schedules one after the other, then ticks that wait for
all they run. `stop` clears the timer that was set last and does not wait for the chain, so that `start` may begin a
second one beside it; `tickTimer` is the chain within reach of `stop`. A run waits for the policy (`PolicyAllows`,
`PolicyDenies`) and for its handler (`HandlerEnds`), under a lock that `LeaseExpires` may take from it.
`triggerManually` is a run by `Manual`. `outlived` names runs whose lease ran out, `late` schedules such a run fired,
`stale` schedules on the list of a recovery that had another chain beside it.

### AuditChain

`AppendEvent` numbers and queues an event and flushes at once unless a flush is under way; `RecordsStored` and
`BlockStored` are the two awaits of a flush; `StorageFails` leaves any part of the batch behind and rejects it,
although sequence number and hash have advanced; `RestartAudit` loses everything but the storage, and
`InitializeRecord` and `InitializeBlock` find the last record and block again. A hash is modelled by what is hashed,
so that different contents have different hashes. `early` says that something was flushed before `initialize` was
over, which starts the numbers at 1 again and is excepted from what is claimed of the chain.

### WorldIndex, GraphQuery, WorldGraph

The model is replaced as a whole by every mutation and the index is patched entry by entry: `UpdateEntity`,
`RemoveEntity`, `UpdateRelationship`, `RemoveRelationship` do both, `SetModel` builds the index anew. `reshaped` names the
ids whose entries the code may have lost track of: relationships replaced by one of other ends, and those of an entity
that was removed without being one. `IndexInStep` says that the index is that of the model. `GraphQuery` translates the
searches - shortest path, Dijkstra, cycles, topological order, neighbourhood, blast radius - each as a round that is
repeated as often as is enough (`Repeat`): `SpreadRound` takes a node off the queue of a search breadth first, which
`ShortestPath` and `Neighborhood` share; `SettleRound` visits the nearest node; `DfsStep` is a call, a look or a return of
`dfs`; `DrainRound` takes a node off the queue of `topologicalSort`; the climb back along what a node was found from
is repeated too. `WorldGraph!QueriesSound` compares the answers with definitions by paths (`Routes`, `Hops`, `Cost`).

### ChatSession

`AppController.sendMessage` for one session, cut at its awaits: `SendMessage`, `StartSession` or `FollowUp`, the wait for
the end of the session (`WaitIsOver`, at the end or after 120 s), `Fetch` from the core's files, `Update` of the row. The
core is external: `CoreStarts`, `CoreWrites`, `CoreEnds`. `Restart` loses the handles and keeps files and row.
`overlapped` and `unread` say that a call has read while another was about to write, and that a read has failed.

### EventBus

`Publish` takes a sequence number, `Store` puts the event into the ring buffer and posts a microtask, `Dispatch` is that
microtask. `StopBus` takes the driver's callback away and `StartBus` does not give it back. A replay reads batches by an
offset from the oldest event kept (`QueryBatch`, `GiveEvent`, `GiveFails`) while events go on being published and
evicted. `logged` keeps what the buffer forgets, to compare with.

### Realtime

Both ends of a websocket. Client: `Connect` (also from `Reconnect` and `ReconnectTimer`), `Opens` with the
resubscriptions, `Closes` with the timer that reconnects by the closure of that time, `Subscribe`, `Leave`, `SetLogin`.
Server: `Accept`, `Verified` (after the await of an `AuthValidator`, if there is one), `Message`, `Close`, `Heartbeat`,
`Pong`. `Receivers` is the routing of an event. A case fixes whether there is a validator, and the bounds. `deaf` and
`missed` name sockets that had a message, or their close, before the server's handlers were registered.

### Simulation

`runScenario`: mutations and injected events are put on the clock (`Scheduled`) by insertion into a sorted queue
(`InsertIndex`, `Insert`), `RunTask` works it off up to the end of a step, `EndStep` fires the rules and goes on. A task
has a time and the place of its mutation or event in the list of both (`Items`), or place 0 for a child event.
Behaviours and rules are all applied to the entity as it was before the pass, so of several results the last replaces the
others (`AfterPass`), and of several rules that hold only the last takes effect (`AfterRules`).

### AgentRegistry

`catalog` with its order, `tenantIndex` and a `tracker` for each registration. `UpdateAgent` puts a clone with a tracker
of its own in the place of the registration and leaves the index alone; `DeleteAgent` takes the id out of the index of
the tenant the agent has then. The trackers count what they are told (`SessionStarted`, `SessionFailed`,
`SessionCompleted`), and compute a status when somebody looks (`LookUp`), which need not have happened before
`findBestAgent`. `log` keeps what was recorded, from which `BestServes` says again, without the counters, which agent is
the best; `moved` names agents an update has taken to another tenant.

### MCServices

The composition described in section 2. `Jobs(step)`, `Schedules(step)` and so on are a step of one component when
`focus` names it.

## 4. The runs

Deadlock is not checked: each of the systems may really stop, when all requests are answered, no call is left, or the
store cannot be read back.

| Run | Instance | States | Shows |
|---|---|---|---|
| `approvals` | 1 request, users `adm1`, `adm2`, `opr` and `alien` (of another tenant), 2 submissions and 2 monitor runs in flight | 499,199 | the engine implements `ApprovalContract`, `AnswerIsAudited`, `RegisteredIsAnswered` |
| `approvals_hang` | 1 request, 2 users, 1 submission, 1 monitor run | stops at the counterexample | finding 1 |
| `gateway` | 3 calls, one for each path; TTL 0, Cap 1, Drop 1, PendingCap 0, MaxRuns 3, MaxTime 1 | 1,355,808 | `RunsAreAuthorized`, `NoEarlyReplay`, `GovernedCallsRunOnce`, `HighRiskIsRecorded` |
| `gateway_high`, `gateway_halt` | the same | stop at the counterexample | findings 2 and 3 |
| `runtime` | 4 calls of 3 agents and 2 tenants; limits 2 in all, 2 of a tenant, 1 of an agent; MaxRecoveries 1 | 484,782 | `LimitsRespected`, `NoIdleRoom`, `SlotsAccountedFor`, `NoOvertaking`, `EveryCallEnds` |
| `runtime_defaults` | the same without a limit per agent | stops at the counterexample | finding 4 |
| `graph` | a chain of 2 nodes, 2 plans (one redoes the second node, one appends a third), 1 planner, 1 escalation at level 2 or 3; MaxVersion 3, MaxChanges 2, MaxCrashes 2 | 6,334,284 | `ActiveIsDurable`, `FrontierServes`, `HistoryImmutable`, `ReplanSeesItsBase` |
| `graph_torn` | the same with 1 change and 1 crash | stops at the counterexample | finding 5 |
| `tasks` | 3 tasks; MaxRetries 1, MaxRetryCalls 1, MaxLinks 2; callers ask for BACKLOG, PLANNED, QUEUED and VERIFYING, and verify | 305,221 | `GraphSound`, `StartsAfterPrerequisites`, `OrderSound`, `CompletionWakes`, `RetryEnds` |
| `agents` | 2 agents and 2 sessions in three choices: one agent in both, both agents in one, each in its own; MaxEndings 1 | 313,963 | `OverMeansGone`, `InStep`, `WorkspaceKept`, `NothingHangs` |
| `services` | nine components, one in each behaviour; see below | 377,035 | the properties named below |

`PromiseKept` says that the queue implements `JobContract`, of which it is a part that the workers' jobs exclude each
other (`OnePerKey`); `LeaseExclusive`, which includes the leases that are being written, is a theorem. `approvals` names
its contract and not `AnswerJustified`, which is an invariant of the contract. The type invariant of every component is a
theorem (section 6), and no run repeats it.

In `services`:

| Component | Instance | States | Properties |
|---|---|---|---|
| `JobQueue` | 2 jobs, 2 workers and a producer; four settings: same or different keys, 1 or 2 retries, 0 to 2 faults | 111,028 | `NeverForgotten`, `PromiseKept`, `EveryJobEnds` |
| `Scheduler` | 2 schedules, 2 chains and runs by hand, in three scopes | 46,571 | `OneRunPerLease`, `OccurrenceOnce` |
| `AuditChain` | 4 events; BatchSize 2, MaxQueueSize 2, MaxStorageFaults 2 | 34,868 | `ChainExplained`, `EveryAppendAnswered` |
| `WorldIndex` | 3 entities, 7 relationships under 3 ids: light, heavy, one-way, two-way, parallel, cyclic | 19,712 | `IndexInStep`, `QueriesSound` |
| `ChatSession` | 2 messages at a time; MaxMessages 2, MaxReadFaults 1, MaxStops 1 | 9,541 | `OneHandle`, `RowKeepsUp` |
| `EventBus` | 2 tenants, 1 subscriber; Capacity 2, ReplayBatch 1, MaxEvents 3 | 38,912 | `DeliveryInOrder` |
| `Realtime` | 2 logins and the default one; seven cases of up to 3 sockets, 3 heartbeats, 2 messages under way, 2 channels | 58,422 | `ConnectionKept` |
| `Simulation` | about 1,300 scenarios of 2 mutations and an event, duration 3, steps of 1, 2 or 3 | 8,859 | `ScenarioPlaysOut` |
| `AgentRegistry` | 2 agents, 5 contexts of 2 tenants, 3 entries of access lists, five plans of up to 4 changes and 4 records | 49,122 | `RegistryServes` |

Why the bounds are enough:

- *approvals*. Requests share no state in the engine, so one suffices. Four users give two approvers of a CRITICAL
  request, one of too low a role, who is also the requester, and one of another tenant. Two submissions are
  the least that can both hold a stale copy, two monitor runs the least that overlap. `Submissions` and `Monitors` bound
  what is in flight at once, not in total: both are used again after they end.
- *gateway*. A replay needs a token to be forgotten, which takes more runs than the cap holds: with Cap 1 and Drop 1,
  MaxRuns 3 is the least number in which the same token may run again. A TTL of 0 with MaxTime 1 lets every wait outlive
  the token. With PendingCap 0 every further call cleans up the map of pending calls. What the proofs say of these
  properties holds for all values.
- *runtime*. Four calls over two slots let one release pass over a request that does not fit, and serve a later one;
  three agents and two tenants make the limit per agent binding for some calls and not for others. The limit per tenant
  equals the global one here and never binds by itself; the theorems cover it.
- *graph*. Version 3 gives a version that has been history for two replans. Two crashes let one tear a file and another
  follow its recovery; two changes let an escalation be raised and resolved, or a node fail and be redone. MaxVersion is
  needed because a planner can always replan; MaxChanges and MaxCrashes because their calls can always be made again.

- *tasks*. Three tasks give a prerequisite of two dependents, a chain, and the triangle; a throw of the waking loop
  needs two dependents. Two links may close a cycle with the prerequisites of `createTask`. One retry call and one
  automatic retry are the least for an old timer to fire while another one waits. The statuses asked for lead to all
  others that matter here through verification, execution and retry.
- *agents*. What can go wrong takes two sessions of an agent, or two agents in a session, or an emergency stop over
  two agents; the choices are these. One ending in flight overlaps with starts, pauses, an emergency stop and runtimes
  that end; two that overlap are covered by the theorems, which bound nothing.
- *services*. Two jobs with one key is what an idempotency key is about; two workers are the least for a late
  acknowledgement; two retries with no faults show the way through RETRY to a dead letter. Two chains are the least
  that stand beside each other. Four events in batches of two leave a batch waiting behind a failing one; two mishaps
  are a failure and a restart. Three entities have every shape of cycle, parallel way and detour that the searches
  tell apart. A buffer of two overflows with three events, and batches of one let it do so between two of them. Three
  sockets are one that is replaced, one that replaces it and one that a stale timer opens. Two mutations and an event
  can stand in every order, at one time or at several, inside and outside a step. Two agents give the ranking
  something to choose, and limits of two failures and two sessions (three and ten in the code) are passed by four
  records.

Names of the bounds: `MaxTime`, `MaxRuns` (`ToolGateway`), `MaxVersion`, `MaxChanges`, `MaxCrashes`
(`ExecutionGraph`), `MaxRetryCalls`, `MaxLinks` (`TaskController`), `Askings`, `MaxEndings` (`AgentController`),
`Settings` (`JobQueue`), `Scopes` (`Scheduler`), `MaxStorageFaults` (`AuditChain`), `MaxMessages`, `MaxReadFaults`,
`MaxStops` (`ChatSession`), `MaxEvents` (`EventBus`), `MaxSockets`, `Cases` (`Realtime`), `Plans` (`AgentRegistry`).
`MaxRecoveries`, `TTL`, `Cap`, `Drop`, `PendingCap` and the limits of the allocator are not bounds of
the models but settings of the code, with small values.

## 5. Fairness

- *approvals* (`ApprovalEngine!Fairness`). A call that is running goes on: its awaits are on in-process stores and
  sinks whose promises resolve. Time passes, so a request expires in the end. `setInterval` keeps firing and its
  callback keeps going. Nothing is assumed of those who ask and those who decide: a request may never be made, and
  nobody need vote.
- *runtime* (`RuntimeManager!Fairness`). The timer of a queued request fires (`setTimeout` in the allocator), a
  resolved await goes on to register its instance, and the loop of `emergencyKillAll`, which awaits nothing that may
  hang, comes to its end. Nothing is assumed of terminations: no runtime need ever end.
- *tasks* (`TaskFairness`). A retry timer fires. Nobody need ask for anything, and verification need not come.
- *agents* (`AgentFairness`). Starts, endings and the loop of `emergencyStopAll` go on after their awaits. That
  `createRuntime` returns or throws is what `EveryCallEnds` shows of the runtime manager; that a snapshot ends is the
  file system's. No command need be given, and no runtime need end by itself.
- *services* (`MCServices!Fairness`). The job queue (`JobFairness`): files answer, the poll loop of each worker goes
  on, and a worker comes to an end with its job. The audit writer: its storage answers, with a success or a failure,
  and `initialize` goes on. Each condition holds when `focus` names its component. Leases, crashes and failures are
  not fair: they may never come.
- *gateway*, *graph* and the other services check safety only and assume none.

## 6. The proofs

TLAPS proves the following for every value of the constants: every type invariant, safety invariant and action property
that a passing run checks, and both refinements. A proof module extends the modules it is about, states for each
component an inductive invariant and shows, one lemma or step for each action, that it is kept. In a module about one
component that invariant is called `IInv`; the modules about several name them for the components (`TaskInv`, `AgentInv`,
`ScheduleInv`, `JobInv`, `AuditInv`, `RegistryInv`, `SimulationInv`, `WorldInv`, `BusInv`, `RealtimeInv`, `ChatInv`).

Where an argument goes by induction on a number, it takes the least counterexample, which exists because the order of the
naturals is well-founded (`LeastExists`, from `NatLessThanWellFounded`). So the queue a scenario is unrolled into
(`AllScheduled`) is reasoned about as a recursive function, the load of the world model, a fold (`LoadMeans`), by
naming the index it yields, and a search as a run of its step (`IterationExists`, `IterationEnds`).

Assumptions on the constants are named in the module that declares them and are evaluated in every run: that there are
finitely many users and that each has a role (`UsersFinite`, `RoleOfType`, `RequesterType`), and that settings and bounds
are numbers and inputs are what their types say (`ConfigType` and the like). `NotGraphs` and `NotRecords` only say that
the values standing for a torn file, for no graph and for no record are none of the real ones. Three say something of
the callers:

- `InitialGraphsFit`: the graph an engine is constructed with would pass `validateGraph`, which does not look for cycles.
  The constructor does not ask; every caller gives it one whose edges lie between its nodes, or none.
- `RealtimeAssumption`: a tenant's own channel admits that tenant only and is no channel of a page. The pages subscribe to
  kinds of events (`apps/web/src/hooks/useSessionTimeline.ts:121`,
  `apps/web/src/features/escalations/EscalationsPage.tsx:26`), never to the one the server subscribes them to itself.
- `RegistryAssumption`: an agent is only ever registered for, or moved to, a tenant some caller belongs to.

**ApprovalEngine_proofs.** Proved: `TypeOK`, `AnswerIsAudited`, `AnswerJustified`, and that the engine implements its
contract. The invariant adds to the types: the decisions of a request come from distinct people (`DistinctDeciders`); how
status, decisions, audit and the position of `requestApproval` fit together (`RequestInv`); that a submission about to
resolve a caller has an outcome the decisions justify and has recorded it (`SubmissionInv`), and likewise a monitor run
(`MonitorInv`). These are needed because a submission decides in one step and answers two awaits later: that its outcome
still holds then must be carried along. Votes only grow, which keeps a justification valid. `ContractStep` shows that
each step of the engine is a vote, an opening, a reply, or nothing to the contract.

**ToolGateway_proofs.** Proved: `TypeOK`, `RunsAreAuthorized`, `NoEarlyReplay`, `GovernedCallsRunOnce`,
`HighRiskIsRecorded`. The invariant relates each run to the call it is of (`RunInv`), says what a call in each state has
behind it (`CallInv`), and ties `consumedTokens` to the runs (`TokenInv`): an entry names the last run of its token, and a
used token without an entry has expired or has at least Cap + 1 - Drop runs behind it. `CutTokenIsOld` counts the entries
that are newer than the one cut.

**RuntimeManager_proofs.** Proved: `TypeOK`, `LimitsRespected`, `NoIdleRoom`, `SlotsAccountedFor`, `NoOvertaking`. The
allocator compares counters with limits, so `PoolInv` says that each counter is the number of slots it stands for. That
one pass over the queue keeps the limits however many requests it grants is `ServedWithinLimits`: the last request
granted, in all, of a tenant or of an agent, fitted beside all others. That one pass is enough is `NoIdleRoom`, an
invariant because slots granted never make room (`MoreIsNoRoom`).

**ExecutionGraph_proofs.** Proved: `TypeOK`, `ActiveIsDurable`, `HistoryImmutable`, `ReplanSeesItsBase`. The invariant
lists the points at which a call can be between its writes (`Pending`), and for each the part of the disk that already
agrees with the memory; after the last write they agree altogether, which is durability. A graph is only ever written
under the active version, and the pointer in `latest` never exceeds it, which makes history immutable. `BaseInv` says
that a version a planner has read is still stored with the shape the planner saw, unless torn; together with a pointer
that never moves back it follows that no version number stands for two graphs.

Also proved: `FrontierServes`. `FitInv`: every graph in memory or stored has passed `validateGraph` or began so; an update
of a node leaves nodes and edges alone (`ValidByShape`). Among the nodes still to run of a graph without cycles there is
one with no predecessor among them (`AcyclicServes`), and that one the frontier offers, unless a node is blocked or is
being verified.

**ControlPlane_proofs, the task controller.** Proved: `TypeOK`, `GraphSound`, `StartsAfterPrerequisites`, `CompletionWakes`. The first
three are inductive together. The graph is what makes the statuses sound: no task is among its own prerequisites, so a
completion queues others without touching itself. No cycle closes because `addDependency` refuses those that would,
and a new task has no dependents through which a cycle could return (`CreateKeeps`). A completion reaches all who wait
because the two directions agree.

Also proved: `OrderSound`, from the types alone: the tasks are finitely many and every prerequisite is a task, so the
graph is one of those `Search_proofs` speaks of, and so is the graph with one more link.

**Search_proofs.** What the searches compute on every finite graph. A search is a step repeated from a first state. It is
reasoned about as a state machine is: an invariant of its states, and a measure of what is left to do, which falls with
every step until the search is over; that as many steps as the model takes are enough follows from the measure of the
first state (`IterationEnds`).

- *Depth first* (`TaskOrder`). `DfsInv`: grey are the nodes in `calls`, each was called by the one before it, and black are
  those in the order, all after what they point to; so a look at a grey node closes a cycle made of the calls from that
  node on, and if there was none the order is one (`SearchEnds`). A graph that has an order has no cycle
  (`OrderedIsAcyclic`), hence `FindsEveryCycle` and `OrdersAcyclic`.
- *Cycles of the world model* (`FindCyclesFinds`). As long as `detectCycles` has found none, its states are those of the
  search above without the order (`SameTrace`, `SameStep`), so it misses a cycle only if that one does. What it reports
  is a cycle because the chain of parents leads up the calls (`IsStack`, `CircleCloses`). The code looks along outgoing
  edges and the definition at predecessors: `Reversal` says that a finite graph has a cycle both ways or neither way.
- *Breadth first* (`SpreadInv`). Every node found was found from another, one step nearer; the queue is sorted by distance
  and spans two distances at most; what has left the queue has had all its ways taken. So a walk to a node is never
  shorter than the distance at which it was found (`SpreadReaches`).
- *Least weight* (`SettleInv`). Visited nodes are no farther than unvisited ones, and nothing is nearer by way of them
  (`SettleReaches`). Edges may weigh nothing, so distances do not order the nodes along the way back; the order of visits
  does (`RankedBy`).
- *The way back* (`PathBackLeads`): through a tree with ranks the loop ends at the start, and the weights add up. Ranks
  rise along it, so no node comes twice.
- *Topological order* (`DrainInv`). A node counts its edges from what is not in the order yet, and is in the queue or the
  order exactly when it counts none; among nodes that are left over each has another of them before it (`SortsAcyclic`).

**ControlPlane_proofs, the agent controller.** Proved: `AgentTypeOK`, `OverMeansGone`, `WorkspaceKept`, for any number of endings in flight.
Everything rests on one fact: a session is created once, so at most one start is on its way in it (`StartsSound`), and is
over before any record leads to the session (`RecordsSound`, `EndingsSound`). However old the record is that an ending
works with, the runtime it names has been there, and when it has been terminated nothing brings it back (`OverSound`).

Also proved: `InStep`, of the agents whose commands have never overlapped. Such an agent has one start or one ending under
way, never both, and that ending works with the record there is (`OneCommand`), so its status, its session and its
runtime move together (`RecordInStep`). Sessions, records and endings belong to the agent they name (`Owned`); this
keeps the commands of the other agents from disturbing it.

**Background_proofs, the scheduler.** Proved: `ScheduleTypeOK`, `OneRunPerLease`, `OccurrenceOnce`. `LockHeld`: a run within its lease is
the one its lock names, and the lock is valid. `FiredInv`: what is due has not been fired, and neither has what a run
within its lease is about to fire nor what a recovery has still on its list, unless that list may be old.

**Background_proofs, the job queue.** Proved: `JobTypeOK`, `NeverForgotten`, `LeaseExclusive`, for any number of jobs, workers, crashes and
failed writes. The invariant follows the files (`FileInv`): while a caller loads, each is on its list, in its hands or in
the cache (`LoadingRest`), and when the queue is ready each is in the cache, or else a file is dead: torn, and in
nobody's hands, which stays so for ever (`DeadStays`). Leases exclude each other (`LeaseInv`) because a job that is held
is LEASED in the cache, and because the jobs around have different keys.

Also proved: `PromiseKept`, the refinement of `JobContract`. The record is what the files hold, the jobs of a worker are
those it holds. Each step of the queue is a step of the contract or one it does not see, which rests on the invariants
above: on `FileInv` for what is on record, on `LeaseInv` for a delivery and for the jobs that workers have at a time.

**Background_proofs, the audit writer.** Proved: `AuditTypeOK`, `ChainExplained`. A record is chained when it is numbered
and stored three steps later, so `TieInv` carries along that the next record to be stored may follow the last one stored:
the first of the batch, or else the one the counters stand for. May follow means: the next number and its hash, or a
number whose predecessor went to an append that was rejected. `BatchInv` says that the batch is a piece of chain and, once
its records are written, the end of the store; `PendingInv` that nobody waits twice or with an answer; `StoredInv` that
who was told it is stored is in a block.

**Background_proofs, the registry.** Proved: `RegistryTypeOK`, `RegistryServes`. `IndexInv`: the index of a tenant lists an
agent when it is registered there, as long as no update has taken it to another tenant. `TrackerInv`: the counters of an
agent's health are what the records of its executions add up to; the number of active executions, which is kept from
falling below zero, is the largest balance of any end of the log. `BestIsFound`: the routing answers an agent than which
none is better.

**Background_proofs, the simulation.** Proved: `SimulationTypeOK`, `ScenarioPlaysOut`. `QueueOf`: the queue is sorted by time,
and within one time by the place in the scenario, whatever the rules of the model have added. `ClockInv`: the clock lies
between what has run and what is queued. `ModelInv`: a property that no rule writes has the value of the last task that
wrote it.

**Background_proofs, the index of the world model.** Proved: `WorldTypeOK`, `IndexInStep`. The invariant says, id by id, that
the index and the model agree on the relationship with this id (`IdInStep`), unless an update has given the id another
shape. `PutMeans`, `AddEdgeMeans`, `RemoveEdgeMeans` and `RemoveNodeMeans` say which entries an operation of the index
leaves, `LoadMeans` that a load builds the index of what is stored.

**Background_proofs, the searches over that index.** Proved: `QueriesSound`, for any finite set of entities. From `WorldInv`
the entries at a node of an index in step are the relationships that lead on from it (`InStep`), so the ways of each
search are the arcs of the definition (`FollowsArcs`, `WeightsNet`), the routes between two entities are the walks of the
search that meet no node twice (`RouteIsWalk`), and what `Search_proofs` says of walks, totals and graphs holds of them.
An edge that goes both ways is a loop by definition; `detectCycles` finds one because such an edge is in the list of
its target too (`LoopsAreCycles`).

**Delivery_proofs, the event bus.** Proved: `BusTypeOK`, `DeliveryInOrder`. `NumberInv`: an event's number is its place among
those of its tenant, counting those about to be stored. `BufferInv` says which slot of the ring holds which event.
`HeardInv`: a wired subscriber has heard what matches up to the last call-back, in order. `ReplayInv`: a replay has given
rising numbers, with no gap but for what the ring has dropped; its offset counts from the oldest event still there, so
the invariant bounds where the next batch can begin (`GivenInv`, and for a batch half given `BatchInv`).

**Delivery_proofs, the realtime connections.** Proved: `RealtimeTypeOK`, `ConnectionKept`. What a page has asked for and what the
server holds differ while messages are under way. `Agreed` says how: the last message under way about a channel is what
the pages want of it, and where there is none the server has it right. It holds of the current socket as long as neither
side has lost it (`Attended`). `ServerInv` and `GoneInv` say what the server holds of a socket, and that it lets go of it
all.

**Delivery_proofs, the chat.** Proved: `ChatTypeOK`, `OneHandle`, `RowKeepsUp`. `HandleInv`: a process has asked for a start
exactly when it has a handle. `RowInv`: while reads and writes do not overlap and reads succeed, what a call is about to
write lies between the row and what is in the files.

Only model-checked:

- the liveness properties (`RegisteredIsAnswered`, `EveryCallEnds`, `RetryEnds`, `NothingHangs`, `EveryJobEnds`,
  `EveryAppendAnswered`): liveness under fairness is out of the prover's reach. That the searches end is no liveness
  property here, and is proved.

## 7. Findings

Each has a run in which TLC shows the behaviour.

1. `approvals_hang`: `requestApproval` saves the request, awaits its audit record, and only then registers the caller
   (`approval-engine/src/ApprovalEngine.ts:87`). A decision or a time-out in between finds nobody to resolve, and the
   caller waits for ever. The comment at line 93 promises an answer.
2. `gateway_high`: a call the safety engine rates HIGH is approved automatically when policy asks for approval and the
   total risk comes out LOW (`tool-gateway/src/SafetyPolicyPipeline.ts:176`). `README.md:110` of the repository promises
   human approval for high-risk actions.
3. `gateway_halt`: stopping a session does not touch calls that hold a token or wait for approval, and `executeTool` does
   not ask the kill switch; `safety-engine/src/KillSwitch.ts:70` says that a halt cancels pending tool invocations.
4. `runtime_defaults`: `RuntimeManager.ts:52` hands undefined limits to the allocator, which spreads them over its
   defaults (`RuntimeAllocator.ts:57`). The default limit per agent never applies, and `ControlPlane` sets none.
5. `graph_torn`: `saveGraph` overwrites the active version in place (`control-plane/src/graph/GraphStore.ts:30`); a crash
   during the write leaves the mission's graph unreadable. `docs/runtime_hardening_report.md:54` reports recovery with
   zero data loss.

Modelling showed the following too. No document contradicts them, so no run refutes one; the models contain them, and
properties except what follows from them by the history variables of section 3.

- Tasks: a dependent in BACKLOG ends the loop that queues dependents (`TaskController.ts:299`); a task made when its
  prerequisites are complete already waits in PLANNED for a completion that has been; half a self-dependency stays
  behind.
- Agents: an abort or kill during a start is undone when the start returns; a stop of a paused agent terminates its
  runtime and then throws; one kill that throws ends `emergencyStopAll`.
- Jobs: one file that cannot be parsed ends the recovery of all those behind it, silently.
- Scheduler: `start` right after `stop` leaves two chains, one of which `stop` no longer reaches.
- Audit: an append before `initialize` is over numbers from 1 and forks the chain.
- World: an edge replaced by one of the same id and other ends leaves its old entries in the index.
- Chat: a failed read of the core's files empties the row of the session; a start that fails leaves its handle behind.
- Event bus: a bus that is stopped and started delivers nothing any more; `EventPublisher.publish` copies no `missionId`,
  so channels `mission:<id>` of the realtime router get nothing.
- Realtime: without an `AuthValidator`, as in `apps/realtime/src/main.ts`, every client is of the default tenant. The
  function that `subscribe` of the client returns removes the listener and leaves the channel.
- Simulation: child events are put on a clock that is worked off no more, and never take effect.
- Registry: draining cannot be undone; sessions are recorded as started and failed and never as completed, so three
  failed starts in all make an agent UNHEALTHY until it is updated; an update leaves the agent in the index of its old
  tenant.

## 8. What is not modelled

- *Within the modelled parts.* Errors of storage where the code has no path for them. Redaction of parameters, wording
  of reasons, telemetry. In the execution graph observations, facts, claims and `getNextNodes`, which evaluates
  conditions of edges over them. Of the kill switch what happens outside the program (killing processes) and the soft
  pause, which changes nothing the gateway reads. Of sessions the streaming of chunks, which has no caller (its cursor
  is the length of the buffer and stands still at 5001 once chunks are evicted,
  `control-plane/src/SessionController.ts:140`). Of the queues `InMemoryQueue` and `RedisQueue` (no files to lose, the
  same interface) and the other workers (the same loop). Of the audit engine retention and Merkle roots, which nothing
  compares. Of the scheduler the calculation of cron times: an occurrence comes at any time. Of the world engine
  constraints, behaviours, `dispatchEvent` (no caller), ingestion and projections. Of simulations Monte Carlo sweeps
  (runs with other values) and reports. Of the chat `markVerified` and `restartSession` (no callers). Of the registry
  the other filters, sort orders and pages of `list`.
- *Pure judgement over text and numbers*: safety and policy engines, prompt-injection and secret detection, the rules
  of capabilities, resource counters, path checks. The models take every combination of their verdicts as input; a
  model of them would be a copy of their tables.
- *Twin engine*: copies, diffs and weighted averages of world models; its snapshots are restored by tests only.
- *Tenancy, security, secrets*: look-ups, limits without concurrency, and cryptography.
- *Teams* (`TeamController`): members, budgets and delegations that nothing in the program calls.
- *Input and output*: database repositories, connectors, observability, external agents, the HTTP routes and the
  controllers behind them, which read and write rows; verification runs external commands, and the task model takes
  its verdict as an input.
- *The web pages*: what they show of the rows they fetch. Their one part with state of its own, the websocket
  provider, is in `Realtime`.

The map names about a tenth of the implementation. Most of the rest is of the last four kinds: pages, routes,
repositories, data types and text rules, which keep no state across two steps, and of which a faithful model would
restate the code line by line without a property to check.

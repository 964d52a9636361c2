--------------------------- MODULE RuntimeManager ---------------------------
(***************************************************************************)
(* Runtimes and the slots they occupy: packages/runtime-manager/src        *)
(* (RuntimeManager, RuntimeAllocator, RuntimeInstance and what             *)
(* RuntimeRecovery does to an instance).                                   *)
(*                                                                         *)
(* createRuntime asks the allocator for a slot, waits for it if a limit is *)
(* reached, and only then registers an instance; releasing a slot serves   *)
(* the queue.  What runs between two awaits is one action, except that     *)
(* emergencyKillAll kills one instance per step: nothing else happens      *)
(* while it is at it (killing # {}).                                       *)
(*                                                                         *)
(* A call of createRuntime stands for its request, its slot, its session   *)
(* and its instance: SessionController refuses a sessionId that has been   *)
(* used before.  instanceToSlot and the health monitor's map always have   *)
(* the keys of the map of runtimes and are not told apart from it.         *)
(***************************************************************************)
EXTENDS Naturals, FiniteSets

CONSTANTS
  Calls,         \* calls of createRuntime
  Tenants, Agents, TenantOf, AgentOf,
  PriorityOf,    \* 1 (LOW) to 4 (CRITICAL)
  MaxGlobal, MaxPerTenant, MaxPerAgent,  \* limits the manager was given
  Undefined,     \* a limit that it was not given
  DefaultPerAgent,  \* maxPerAgentConcurrency of an allocator without config (4)
  MaxRecoveries  \* maxRecoveryAttempts

VARIABLES
  req,         \* where each call of createRuntime stands
  inst,        \* status of its instance, "none" before there is one
  pool,        \* activeSlots, tenantSlotCounts, agentSlotCounts
  queue,       \* requests waiting for a slot
  arrival,     \* order in which requests came to the queue, 0 for the others
  runtimes,    \* instances the manager has registered
  killing,     \* instances emergencyKillAll has not come to yet
  phase,       \* isShuttingDown: "up" before, "down" when shutdown has ended
  attempts,    \* recovery attempts for each instance
  recovering   \* instances in the backoff of a recovery

instanceVars == <<attempts, recovering>>
vars == <<req, inst, pool, queue, arrival, runtimes, killing, phase, attempts, recovering>>

Limits == Nat \cup {Undefined}

ASSUME ConfigType ==
  /\ IsFiniteSet(Calls)
  /\ TenantOf \in [Calls -> Tenants]
  /\ AgentOf \in [Calls -> Agents]
  /\ PriorityOf \in [Calls -> 1..4]
  /\ Undefined \notin Nat
  /\ {MaxGlobal, MaxPerTenant, MaxPerAgent} \subseteq Limits
  /\ {DefaultPerAgent, MaxRecoveries} \subseteq Nat

Pool == [slots : SUBSET Calls, tenants : [Tenants -> Nat], agents : [Agents -> Nat]]

TypeOK ==
  /\ req \in [Calls -> {"idle", "queued", "granted", "created", "failed"}]
  /\ inst \in [Calls -> {"none", "READY", "PAUSED", "TERMINATED"}]
  /\ pool \in Pool
  /\ queue \in SUBSET Calls
  /\ arrival \in [Calls -> Nat]
  /\ runtimes \in SUBSET Calls
  /\ killing \in SUBSET Calls
  /\ phase \in {"up", "stopping", "down"}
  /\ attempts \in [Calls -> 0..MaxRecoveries]
  /\ recovering \in SUBSET Calls

Init ==
  /\ req = [c \in Calls |-> "idle"]
  /\ inst = [c \in Calls |-> "none"]
  /\ pool = [slots |-> {}, tenants |-> [t \in Tenants |-> 0], agents |-> [a \in Agents |-> 0]]
  /\ queue = {}
  /\ arrival = [c \in Calls |-> 0]
  /\ runtimes = {}
  /\ killing = {}
  /\ phase = "up"
  /\ attempts = [c \in Calls |-> 0]
  /\ recovering = {}

(***************************************************************************)
(* RuntimeAllocator: the pool and the queue                                *)
(***************************************************************************)

(* Faulty variant of Reached: one too many. *)
Passed(n, limit) == limit # Undefined /\ n > limit

(* RuntimeManager passes on every limit it was given, also the undefined   *)
(* ones, which hide the defaults of the allocator; and a comparison with   *)
(* an undefined limit is false.                                            *)
Reached(n, limit) == limit # Undefined /\ n >= limit

(* canAllocateImmediately *)
CanAllocate(p, c) ==
  /\ ~Reached(Cardinality(p.slots), MaxGlobal)
  /\ ~Reached(p.tenants[TenantOf[c]], MaxPerTenant)
  /\ ~Reached(p.agents[AgentOf[c]], MaxPerAgent)

OfTenant(S, t) == {c \in S : TenantOf[c] = t}
OfAgent(S, a) == {c \in S : AgentOf[c] = a}

(* grantSlot, for each of G. *)
Grant(p, G) ==
  [slots |-> p.slots \cup G,
   tenants |-> [t \in Tenants |-> p.tenants[t] + Cardinality(OfTenant(G, t))],
   agents |-> [a \in Agents |-> p.agents[a] + Cardinality(OfAgent(G, a))]]

(* decrementCount, k times: a counter is deleted when it comes to 0. *)
Less(n, k) == IF n <= k THEN 0 ELSE n - k

(* The first half of releaseSlot, for each of R. *)
Release(p, R) ==
  [slots |-> p.slots \ R,
   tenants |-> [t \in Tenants |-> Less(p.tenants[t], Cardinality(OfTenant(R, t)))],
   agents |-> [a \in Agents |-> Less(p.agents[a], Cardinality(OfAgent(R, a)))]]

(* sortQueue: by priority, then in order of arrival.                       *)
Before(c, d) ==
  \/ PriorityOf[c] > PriorityOf[d]
  \/ PriorityOf[c] = PriorityOf[d] /\ arrival[c] < arrival[d]

(* Faulty variant of Served: the queue is gone through from its end. *)
ServedFromTheEnd(p, G) ==
  \A c \in queue : c \in G <=> CanAllocate(Grant(p, {d \in G : Before(c, d)}), c)

(* processQueue goes through the queue from the front and grants each      *)
(* request that still fits beside those it granted before.                 *)
Served(p, G) ==
  \A c \in queue : c \in G <=> CanAllocate(Grant(p, {d \in G : Before(d, c)}), c)

(* Faulty variant of ProcessQueue: it stops at the first that does not fit. *)
ProcessQueueHead(p) ==
  \E G \in SUBSET queue :
    /\ G = IF phase = "up"
             THEN {c \in queue : ~\E d \in queue : Before(d, c) /\ ~CanAllocate(p, d)}
                    \cap {c \in queue : CanAllocate(p, c)}
             ELSE {}
    /\ pool' = Grant(p, G)
    /\ queue' = queue \ G
    /\ req' = [c \in Calls |-> IF c \in G THEN "granted" ELSE req[c]]

ProcessQueue(p) ==
  \E G \in SUBSET queue :
    /\ IF phase = "up" THEN Served(p, G) ELSE G = {}
    /\ pool' = Grant(p, G)
    /\ queue' = queue \ G
    /\ req' = [c \in Calls |-> IF c \in G THEN "granted" ELSE req[c]]

(***************************************************************************)
(* createRuntime                                                           *)
(***************************************************************************)

(* Up to its await: refused, given a slot at once, or put on the queue.    *)
CreateRuntime(c) ==
  /\ killing = {}
  /\ req[c] = "idle"
  /\ \/ /\ phase # "up"
        /\ req' = [req EXCEPT ![c] = "failed"]
        /\ UNCHANGED <<pool, queue, arrival>>
     \/ /\ phase = "up"
        /\ CanAllocate(pool, c)
        /\ req' = [req EXCEPT ![c] = "granted"]
        /\ pool' = Grant(pool, {c})
        /\ UNCHANGED <<queue, arrival>>
     \/ /\ phase = "up"
        /\ ~CanAllocate(pool, c)
        /\ req' = [req EXCEPT ![c] = "queued"]
        /\ queue' = queue \cup {c}
        /\ arrival' = [arrival EXCEPT ![c] =
                         Cardinality({d \in Calls : arrival[d] # 0}) + 1]
        /\ UNCHANGED pool
  /\ UNCHANGED <<inst, runtimes, killing, phase, instanceVars>>

(* Faulty variant of RequestTimeout: the promise is not rejected. *)
RequestForgotten(c) ==
  /\ killing = {}
  /\ c \in queue
  /\ queue' = queue \ {c}
  /\ UNCHANGED <<req, inst, pool, arrival, runtimes, killing, phase, instanceVars>>

(* queueTimeoutMs have passed. *)
RequestTimeout(c) ==
  /\ killing = {}
  /\ c \in queue
  /\ queue' = queue \ {c}
  /\ req' = [req EXCEPT ![c] = "failed"]
  /\ UNCHANGED <<inst, pool, arrival, runtimes, killing, phase, instanceVars>>

(* After the await: isShuttingDown is not looked at again.                 *)
Register(c) ==
  /\ killing = {}
  /\ req[c] = "granted"
  /\ req' = [req EXCEPT ![c] = "created"]
  /\ inst' = [inst EXCEPT ![c] = "READY"]
  /\ runtimes' = runtimes \cup {c}
  /\ UNCHANGED <<pool, queue, arrival, killing, phase, instanceVars>>

(***************************************************************************)
(* The end of an instance                                                  *)
(***************************************************************************)

(* Faulty variant of End: a paused instance keeps its slot. *)
EndOfReady(c) ==
  /\ inst' = [inst EXCEPT ![c] = "TERMINATED"]
  /\ runtimes' = runtimes \ {c}
  /\ IF c \in runtimes /\ c \in pool.slots /\ inst[c] = "READY"
       THEN ProcessQueue(Release(pool, {c}))
       ELSE UNCHANGED <<pool, queue, req>>

(* RuntimeInstance.terminate and handleInstanceTerminated, which it calls  *)
(* through the 'terminated' event and which does nothing for an instance   *)
(* that is not registered.                                                 *)
End(c) ==
  /\ inst' = [inst EXCEPT ![c] = "TERMINATED"]
  /\ runtimes' = runtimes \ {c}
  /\ IF c \in runtimes /\ c \in pool.slots
       THEN ProcessQueue(Release(pool, {c}))
       ELSE UNCHANGED <<pool, queue, req>>

(* terminateRuntime, called by the agent controller or for a runaway loop, *)
(* or a hard limit of the instance itself.                                 *)
Terminate(c) ==
  /\ killing = {}
  /\ inst[c] \in {"READY", "PAUSED"}
  /\ End(c)
  /\ UNCHANGED <<arrival, killing, phase, instanceVars>>

(* emergencyKillAll, of one tenant or of all, and one turn of its loop.    *)
EmergencyKillAll(T) ==
  /\ killing = {}
  /\ killing' = {c \in runtimes : TenantOf[c] \in T}
  /\ UNCHANGED <<req, inst, pool, queue, arrival, runtimes, phase, instanceVars>>

KillNext(c) ==
  /\ c \in killing
  /\ killing' = killing \ {c}
  /\ End(c)
  /\ UNCHANGED <<arrival, phase, instanceVars>>

(* shutdown, up to its await: new requests are refused, the queue is no    *)
(* longer served, every registered instance ends.                          *)
Shutdown ==
  /\ killing = {}
  /\ phase = "up"
  /\ phase' = "stopping"
  /\ inst' = [c \in Calls |-> IF c \in runtimes THEN "TERMINATED" ELSE inst[c]]
  /\ pool' = Release(pool, runtimes \cap pool.slots)
  /\ runtimes' = {}
  /\ UNCHANGED <<req, queue, arrival, killing, instanceVars>>

(* After the await the maps are cleared.                                   *)
ShutdownEnd ==
  /\ killing = {}
  /\ phase = "stopping"
  /\ phase' = "down"
  /\ runtimes' = {}
  /\ UNCHANGED <<req, inst, pool, queue, arrival, killing, instanceVars>>

(***************************************************************************)
(* Pausing, and recovery by the health monitor                             *)
(***************************************************************************)

Pause(c) ==
  /\ killing = {}
  /\ c \in runtimes
  /\ inst[c] # "TERMINATED"
  /\ inst' = [inst EXCEPT ![c] = "PAUSED"]
  /\ UNCHANGED <<req, pool, queue, arrival, runtimes, killing, phase, instanceVars>>

Resume(c) ==
  /\ killing = {}
  /\ c \in runtimes
  /\ inst[c] = "PAUSED"
  /\ inst' = [inst EXCEPT ![c] = "READY"]
  /\ UNCHANGED <<req, pool, queue, arrival, runtimes, killing, phase, instanceVars>>

(* An anomaly of a registered instance starts a recovery, unless too many  *)
(* have been tried.  One that comes during a recovery is left out: it      *)
(* makes executeRecovery throw and changes nothing.                        *)
Recover(c) ==
  /\ killing = {}
  /\ phase = "up"
  /\ c \in runtimes \ recovering
  /\ attempts[c] < MaxRecoveries
  /\ attempts' = [attempts EXCEPT ![c] = @ + 1]
  /\ recovering' = recovering \cup {c}
  /\ UNCHANGED <<req, inst, pool, queue, arrival, runtimes, killing, phase>>

(* The backoff is over: restartRoutine makes the instance READY, whatever  *)
(* became of it meanwhile.                                                 *)
FinishRecovery(c) ==
  /\ killing = {}
  /\ c \in recovering
  /\ recovering' = recovering \ {c}
  /\ inst' = [inst EXCEPT ![c] = "READY"]
  /\ UNCHANGED <<req, pool, queue, arrival, runtimes, killing, phase, attempts>>

-----------------------------------------------------------------------------

Next ==
  \/ \E c \in Calls :
       \/ CreateRuntime(c)
       \/ RequestTimeout(c)
       \/ Register(c)
       \/ Terminate(c)
       \/ KillNext(c)
       \/ Pause(c)
       \/ Resume(c)
       \/ Recover(c)
       \/ FinishRecovery(c)
  \/ \E T \in {Tenants} \cup {{t} : t \in Tenants} : EmergencyKillAll(T)
  \/ Shutdown
  \/ ShutdownEnd

Spec == Init /\ [][Next]_vars

(* The timer of a queued request fires, a resolved await goes on and a     *)
(* loop comes to its end.                                                  *)
Fairness ==
  \A c \in Calls :
    /\ WF_vars(RequestTimeout(c))
    /\ WF_vars(Register(c))
    /\ WF_vars(KillNext(c))

FairSpec == Spec /\ Fairness

-----------------------------------------------------------------------------
(***************************************************************************)
(* Properties                                                              *)
(***************************************************************************)

(* No more slots are in use than any of the limits allows, however they    *)
(* are granted: at once, from the queue, several for one release.          *)
LimitsRespected ==
  /\ MaxGlobal # Undefined => Cardinality(pool.slots) <= MaxGlobal
  /\ MaxPerTenant # Undefined =>
       \A t \in Tenants : Cardinality(OfTenant(pool.slots, t)) <= MaxPerTenant
  /\ MaxPerAgent # Undefined =>
       \A a \in Agents : Cardinality(OfAgent(pool.slots, a)) <= MaxPerAgent

(* No request waits for a slot that it could have: whatever frees room     *)
(* serves the queue.                                                       *)
NoIdleRoom ==
  phase = "up" => \A c \in queue : ~CanAllocate(pool, c)

(* A slot in use belongs to a registered runtime or to a call about to     *)
(* register one, and every registered runtime has its slot: none leaks and *)
(* none is released twice, whichever way the runtime ends.                 *)
SlotsAccountedFor ==
  phase # "down" => pool.slots = runtimes \cup {c \in Calls : req[c] = "granted"}

(* A request is granted ahead of one before it in the queue only if the    *)
(* other's tenant or agent has all the slots it may have.                  *)
NoOvertaking ==
  [][\A c, d \in queue :
       Before(c, d) /\ d \in pool'.slots /\ c \in queue' =>
         \/ Reached(pool'.tenants[TenantOf[c]], MaxPerTenant)
         \/ Reached(pool'.agents[AgentOf[c]], MaxPerAgent)]_vars

(* RuntimeAllocator.ts:57, maxPerAgentConcurrency: 4: an agent has no more *)
(* than that many runtimes unless a limit of its own was configured.       *)
(* ControlPlane configures none.                                           *)
DefaultApplies ==
  MaxPerAgent = Undefined =>
    \A a \in Agents : Cardinality(OfAgent(pool.slots, a)) <= DefaultPerAgent

(* Every call of createRuntime that waits ends, with a runtime or with an  *)
(* error, also through a shutdown.                                         *)
EveryCallEnds ==
  \A c \in Calls : req[c] \in {"queued", "granted"} ~> req[c] \in {"created", "failed"}

=============================================================================

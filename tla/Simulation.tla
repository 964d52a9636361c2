------------------------------ MODULE Simulation ------------------------------
(***************************************************************************)
(* packages/simulation-engine/src: a run of a scenario by SimulationEngine *)
(* with its SimulationClock, EventSimulator and RuleEngine, for the        *)
(* properties of one entity.                                               *)
(*                                                                         *)
(* Virtual time is a number.  An injected event stands for the updates of  *)
(* the behaviours it triggers, in their order, and the child events they   *)
(* emit.  Left out: constraints, reports, sandboxes and Monte Carlo sweeps *)
(* (runs with other values), relationships, and task priorities, which     *)
(* nothing in the repository sets.                                         *)
(***************************************************************************)
EXTENDS Integers, Sequences, FiniteSetsExt

CONSTANTS
    Key,               \* the properties of the entity
    Scenarios,         \* records: mutations (sequence of [time, updates]), events (sequence of
                       \* [time, results, number of children]), duration and delta
    Rules,             \* the rules of the engine: sequence of [key, value, updates]
    PropagationDelay   \* the delay of child events

\* Sequences, and what a write sets: some properties of the entity.
IsSequence(s) == s \in Seq({s[i] : i \in DOMAIN s})
IsUpdate(u) == u \in [DOMAIN u -> Nat] /\ DOMAIN u \subseteq Key

ASSUME SimulationAssumption ==
    /\ \A x \in Scenarios :
           /\ x.duration \in Nat /\ x.delta \in Nat \ {0}
           /\ IsSequence(x.mutations) /\ IsSequence(x.events)
           /\ \A i \in DOMAIN x.mutations :
                  x.mutations[i].time \in Nat /\ IsUpdate(x.mutations[i].updates)
           /\ \A i \in DOMAIN x.events :
                  /\ {x.events[i].time, x.events[i].children} \subseteq Nat
                  /\ IsSequence(x.events[i].results)
                  /\ \A j \in DOMAIN x.events[i].results : IsUpdate(x.events[i].results[j])
    /\ IsSequence(Rules)
    /\ \A i \in DOMAIN Rules :
           Rules[i].key \in Key /\ Rules[i].value \in Int /\ IsUpdate(Rules[i].updates)
    /\ PropagationDelay \in Nat \ {0}

VARIABLES
    scenario,          \* the scenario of the run
    currentTime,       \* the clock's time
    tasks,             \* taskQueue
    model,             \* the properties of the entity in simModel
    virtualTime,       \* currentVirtualTime, the end of the step under way
    settled            \* history: the step that ended last, or -1

simulationVars == <<scenario, currentTime, tasks, model, virtualTime, settled>>

Original == [k \in Key |-> 0]

-----------------------------------------------------------------------------
\* What is to be put on the clock: the mutations, then the events.  A task of the
\* clock has a time and the place in this list, or 0 for that of a child event.
Mutation(m) == [time |-> m.time, results |-> <<m.updates>>, children |-> 0]
Items(x) == [i \in DOMAIN x.mutations |-> Mutation(x.mutations[i])] \o x.events
Task(x, i) == [time |-> Items(x)[i].time, place |-> i]

\* Faulty variant of InsertIndex: a task goes before others of its time.
InsertIndexFirst(queue, time) ==
    LET behind == {i \in DOMAIN queue : queue[i].time >= time}
    IN  IF behind = {} THEN Len(queue) + 1 ELSE Min(behind)

\* schedule: a task goes before the first one of a later time.
InsertIndex(queue, time) ==
    LET behind == {i \in DOMAIN queue : queue[i].time > time}
    IN  IF behind = {} THEN Len(queue) + 1 ELSE Min(behind)

\* Calls of schedule with tasks of one time.
Insert(queue, time, new) ==
    LET at == InsertIndex(queue, time)
    IN  SubSeq(queue, 1, at - 1) \o new \o SubSeq(queue, at, Len(queue))

\* runScenario up to its loop.
Scheduled(x) ==
    LET After[n \in 0..Len(Items(x))] ==
            IF n = 0 THEN <<>> ELSE Insert(After[n - 1], Items(x)[n].time, <<Task(x, n)>>)
    IN  After[Len(Items(x))]

\* routeEvent of an injected event.  Its children are put on the clock, and what
\* the clock runs for them only fills a queue that nobody reads any more.
Children(queue, now, children) ==
    Insert(queue, now + PropagationDelay,
           [i \in 1..children |-> [time |-> now + PropagationDelay, place |-> 0]])

\* cloneWithState of the entity properties belong to.
CloneWithState(properties, updates) ==
    [k \in Key |-> IF k \in DOMAIN updates THEN updates[k] ELSE properties[k]]

\* Behaviours and rules are all applied to the entity as it was when the pass
\* began, so that of several results the last one replaces the others.
AfterPass(properties, results) ==
    IF results = <<>> THEN properties ELSE CloneWithState(properties, results[Len(results)])

\* evaluateRules: of the rules that hold, the last one.
AfterRules(properties) ==
    LET holding == {i \in DOMAIN Rules : properties[Rules[i].key] >= Rules[i].value}
    IN  IF holding = {} THEN properties
        ELSE CloneWithState(properties, Rules[Max(holding)].updates)

-----------------------------------------------------------------------------
SimulationInit ==
    /\ scenario \in Scenarios
    /\ currentTime = 0
    /\ tasks = Scheduled(scenario)
    /\ model = Original
    /\ virtualTime = 0
    /\ settled = -1

TaskIsDue == tasks # <<>> /\ Head(tasks).time <= virtualTime
Running == virtualTime <= scenario.duration

\* advanceTo runs the next task.
RunTask ==
    LET task == Head(tasks)
        item == Items(scenario)[task.place]
    IN  /\ Running /\ TaskIsDue
        /\ currentTime' = task.time
        /\ \/ /\ task.place = 0
              /\ tasks' = Tail(tasks) /\ UNCHANGED model
           \/ /\ task.place # 0
              /\ model' = AfterPass(model, item.results)
              /\ tasks' = Children(Tail(tasks), task.time, item.children)
        /\ UNCHANGED <<scenario, virtualTime, settled>>

\* advanceTo has run every task due; the rules are evaluated and the step ends.
EndStep ==
    /\ Running /\ ~TaskIsDue
    /\ currentTime' = virtualTime
    /\ model' = AfterRules(model)
    /\ settled' = virtualTime
    /\ virtualTime' = virtualTime + scenario.delta
    /\ UNCHANGED <<scenario, tasks>>

SimulationNext == RunTask \/ EndStep

SimulationSpec == SimulationInit /\ [][SimulationNext]_simulationVars

-----------------------------------------------------------------------------
\* Type correctness of a run.
SimulationTypeOK ==
    /\ {currentTime, virtualTime} \subseteq Nat /\ settled \in Int
    /\ model \in [Key -> Nat]
    /\ \A i \in DOMAIN tasks : tasks[i].time \in Nat

\* What the scenario says of a property: the writes to k that are due, by their
\* places, and which is the last in the order of time, mutations before events,
\* and listing.
Written(x, i) == LET results == Items(x)[i].results IN results[Len(results)]
Writes(k) ==
    {i \in DOMAIN Items(scenario) :
        /\ Items(scenario)[i].results # <<>> /\ k \in DOMAIN Written(scenario, i)
        /\ Items(scenario)[i].time <= settled}
Before(i, j) ==
    \/ Items(scenario)[i].time < Items(scenario)[j].time
    \/ Items(scenario)[i].time = Items(scenario)[j].time /\ i < j
Latest(writes) == CHOOSE i \in writes : \A j \in writes : i = j \/ Before(j, i)
OfRules == UNION {DOMAIN Rules[i].updates : i \in DOMAIN Rules}

\* At the end of a step every property that no rule writes has the value of the
\* last write due, in the order of virtual time and among equal times in that of
\* the scenario, whatever the order in which the scenario lists them and
\* whatever the steps; and the clock never goes back over a task.
ScenarioPlaysOut ==
    /\ \A i \in DOMAIN tasks : tasks[i].time >= currentTime
    /\ (virtualTime = settled + scenario.delta /\ currentTime = settled) =>
           \A k \in Key \ OfRules :
               model[k] = IF Writes(k) = {} THEN Original[k]
                          ELSE Written(scenario, Latest(Writes(k)))[k]
=============================================================================

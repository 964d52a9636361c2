------------------------------ MODULE Scheduler ------------------------------
(***************************************************************************)
(* packages/scheduler/src: Scheduler, ScheduleRunner, InMemoryScheduleLock,*)
(* ScheduleRecovery and what they need of ScheduleRepository.              *)
(*                                                                         *)
(* Each call of start begins a chain: first the recovery of what was       *)
(* missed, one schedule after the other, then ticks, each of which runs    *)
(* what is due and waits for all of it.  stop does not wait for a chain,   *)
(* so start may begin another one beside it.  A run waits for the policy   *)
(* and then for its handler, under a lease of 60 seconds that nobody       *)
(* renews.  lastStatus and lastRunAt are left out: nothing reads them.     *)
(***************************************************************************)
EXTENDS Naturals, FiniteSets

CONSTANTS
    Schedule,
    FireNow,       \* the schedules with misfirePolicy FIRE_NOW
    Chain,         \* each a call of start
    Manual,        \* stands for triggerManually, one call for a schedule at a time
    NoRun,
    Scopes         \* bounds, as records: the schedules there are, those of them that
                   \* are triggered by hand, and the calls of start

ASSUME SchedulerAssumption ==
    /\ FireNow \subseteq Schedule
    /\ Manual \notin Chain
    /\ NoRun \notin Chain \cup {Manual}
    /\ \A x \in Scopes : /\ x.schedules \subseteq Schedule /\ x.byHand \subseteq Schedule
                         /\ x.chains \subseteq Chain

VARIABLES
    isRunning,
    chain,         \* where each chain is
    tickTimer,     \* the chain whose timer was set last
    listed,        \* the schedules a recovery has still to go through
    run,           \* where the run of a schedule by a chain or by hand is
    lock,          \* whose token is in the map of locks
    valid,         \* schedules whose lock has not expired
    enabled,       \* schedules that exist and are enabled
    due,           \* schedules whose nextRunAt is not in the future
    scope,         \* the choice made from Scopes
    fired,         \* history: runs the chains made of the last occurrence, 2 for more
    outlived,      \* history: runs that go on after their lease has run out
    late,          \* history: schedules such a run has started a handler of
    stale          \* history: schedules listed by a recovery beside another chain

scheduleVars == <<isRunning, chain, tickTimer, listed, run, lock, valid, enabled, due,
                  scope, fired, outlived, late, stale>>
schedulerState == <<isRunning, chain, tickTimer>>
repositoryState == <<enabled, due>>
lockState == <<lock, valid>>
historyState == <<fired, outlived, late, stale>>

By == Chain \cup {Manual}
Active(b, s) == run[b][s] # "none"
Alive(c) == chain[c] \notin {"none", "over"}

-----------------------------------------------------------------------------
ScheduleInit ==
    /\ isRunning = FALSE
    /\ chain = [c \in Chain |-> "none"]
    /\ tickTimer = NoRun
    /\ listed = [c \in Chain |-> {}]
    /\ run = [b \in By |-> [s \in Schedule |-> "none"]]
    /\ lock = [s \in Schedule |-> NoRun]
    /\ valid = {}
    /\ scope \in Scopes
    /\ enabled = scope.schedules
    /\ due \in SUBSET enabled        \* missed while the process was down
    /\ fired = [s \in Schedule |-> 0]
    /\ outlived = {}
    /\ late = {}
    /\ stale = {}

\* listDueSchedules.
Due == due \cap enabled

\* acquire succeeds: there is no lock, or it has expired.
Free(s) == s \notin valid

\* The runs of the schedules S by b that get their locks begin; an entry that
\* has expired is replaced.
Acquired(b, S) ==
    /\ run' = [run EXCEPT ![b] = [s \in Schedule |-> IF s \in S THEN "policy" ELSE @[s]]]
    /\ lock' = [s \in Schedule |-> IF s \in S THEN b ELSE lock[s]]
    /\ valid' = valid \cup S

\* start; the recovery lists what is due.
StartScheduler(c) ==
    /\ ~isRunning /\ c \in scope.chains /\ chain[c] = "none"
    /\ isRunning' = TRUE
    /\ chain' = [chain EXCEPT ![c] = "recovering"]
    /\ listed' = [listed EXCEPT ![c] = Due]
    /\ stale' = IF \E d \in Chain : Alive(d)
                THEN (stale \cup Due) \cup UNION {listed[d] : d \in Chain}
                ELSE stale
    /\ UNCHANGED <<tickTimer, run, lockState, repositoryState, scope, fired, outlived, late>>

\* stop clears one timer, the one set last; another one still fires.
StopScheduler ==
    /\ isRunning
    /\ isRunning' = FALSE
    /\ chain' = [c \in Chain |->
                    IF c = tickTimer /\ chain[c] = "waiting" THEN "over" ELSE chain[c]]
    /\ tickTimer' = NoRun
    /\ UNCHANGED <<listed, run, lockState, repositoryState, scope, historyState>>

\* The next schedule of the recovery, as it was listed.  One that is not to be
\* fired, or is locked, is given its next time at once.
RecoverSchedule(c, s) ==
    /\ chain[c] = "recovering" /\ s \in listed[c]
    /\ \A t \in Schedule : ~Active(c, t)
    /\ IF s \in FireNow /\ Free(s)
       THEN Acquired(c, {s}) /\ UNCHANGED <<listed, due>>
       ELSE /\ listed' = [listed EXCEPT ![c] = @ \ {s}]
            /\ due' = due \ {s}
            /\ UNCHANGED <<run, lockState>>
    /\ UNCHANGED <<schedulerState, enabled, scope, historyState>>

\* scheduleNextTick after the recovery or after a tick.
ChainGoesOn(c) ==
    /\ chain[c] \in {"recovering", "ticking"} /\ listed[c] = {}
    /\ \A s \in Schedule : ~Active(c, s)
    /\ chain' = [chain EXCEPT ![c] = IF isRunning THEN "waiting" ELSE "over"]
    /\ tickTimer' = IF isRunning THEN c ELSE tickTimer
    /\ UNCHANGED <<isRunning, listed, run, lockState, repositoryState, scope, historyState>>

\* tick runs everything that is due at once; what is locked is skipped.
Tick(c) ==
    /\ chain[c] = "waiting"
    /\ chain' = [chain EXCEPT ![c] = "ticking"]
    /\ Acquired(c, {s \in Due : Free(s)})
    /\ UNCHANGED <<isRunning, tickTimer, listed, repositoryState, scope, historyState>>

\* triggerManually, also of a schedule that is disabled.
Trigger(s) ==
    /\ s \in scope.byHand
    /\ ~Active(Manual, s) /\ Free(s)
    /\ Acquired(Manual, {s})
    /\ UNCHANGED <<schedulerState, listed, repositoryState, scope, historyState>>

-----------------------------------------------------------------------------
\* Faulty variant of Released: the lock is deleted whoever holds it.
ReleasedByKey(b, s) ==
    /\ lock' = [lock EXCEPT ![s] = NoRun]
    /\ valid' = valid \ {s}

\* release deletes the lock if the token is its own.
Released(b, s) ==
    /\ lock' = IF lock[s] = b THEN [lock EXCEPT ![s] = NoRun] ELSE lock
    /\ valid' = IF lock[s] = b THEN valid \ {s} ELSE valid

\* The end of a run; a recovery then gives the schedule its next time.
RunOver(b, s) ==
    /\ run' = [run EXCEPT ![b][s] = "none"]
    /\ outlived' = outlived \ {<<b, s>>}
    /\ Released(b, s)
    /\ IF b \in Chain /\ chain[b] = "recovering"
       THEN listed' = [listed EXCEPT ![b] = @ \ {s}] /\ due' = due \ {s}
       ELSE UNCHANGED <<listed, due>>

\* Faulty variant of PolicyAllows: the next time is set when the handler is over.
PolicyAllowsOnly(b, s) ==
    /\ run[b][s] = "policy"
    /\ run' = [run EXCEPT ![b][s] = "handling"]
    /\ due' = due
    /\ fired' = [fired EXCEPT ![s] = IF b = Manual \/ @ = 2 THEN @ ELSE @ + 1]
    /\ late' = IF <<b, s>> \in outlived THEN late \cup {s} ELSE late
    /\ UNCHANGED <<schedulerState, listed, lockState, enabled, scope, outlived, stale>>

\* The policy allows the run: the schedule gets its next time, the handler
\* starts.
PolicyAllows(b, s) ==
    /\ run[b][s] = "policy"
    /\ run' = [run EXCEPT ![b][s] = "handling"]
    /\ due' = due \ {s}
    /\ fired' = [fired EXCEPT ![s] = IF b = Manual \/ @ = 2 THEN @ ELSE @ + 1]
    /\ late' = IF <<b, s>> \in outlived THEN late \cup {s} ELSE late
    /\ UNCHANGED <<schedulerState, listed, lockState, enabled, scope, outlived, stale>>

PolicyDenies(b, s) ==
    /\ run[b][s] = "policy"
    /\ RunOver(b, s)
    /\ UNCHANGED <<schedulerState, enabled, scope, fired, late, stale>>

\* The handler returns or throws.
HandlerEnds(b, s) ==
    /\ run[b][s] = "handling"
    /\ RunOver(b, s)
    /\ UNCHANGED <<schedulerState, enabled, scope, fired, late, stale>>

-----------------------------------------------------------------------------
\* 60 seconds after acquire.
LeaseExpires(s) ==
    /\ s \in valid
    /\ valid' = valid \ {s}
    /\ outlived' = outlived \cup {<<lock[s], s>>}
    /\ UNCHANGED <<schedulerState, listed, run, lock, repositoryState, scope, fired, late,
                   stale>>

\* nextRunAt comes: a new occurrence.
BecomesDue(s) ==
    /\ s \in enabled \ due
    /\ due' = due \cup {s}
    /\ fired' = [fired EXCEPT ![s] = 0]
    /\ late' = late \ {s}
    /\ UNCHANGED <<schedulerState, listed, run, lockState, enabled, scope, outlived, stale>>

\* updateSchedule with enabled, which computes nextRunAt anew, or deleteSchedule.
SetEnabled(s, on) ==
    /\ s \in scope.schedules
    /\ enabled' = IF on THEN enabled \cup {s} ELSE enabled \ {s}
    /\ due' = due \ {s}
    /\ UNCHANGED <<schedulerState, listed, run, lockState, scope, historyState>>

ScheduleNext ==
    \/ \E c \in Chain :
          \/ StartScheduler(c) \/ ChainGoesOn(c) \/ Tick(c)
          \/ \E s \in Schedule : RecoverSchedule(c, s)
    \/ StopScheduler
    \/ \E s \in Schedule :
          \/ Trigger(s) \/ LeaseExpires(s) \/ BecomesDue(s)
          \/ \E on \in BOOLEAN : SetEnabled(s, on)
          \/ \E b \in By : PolicyAllows(b, s) \/ PolicyDenies(b, s) \/ HandlerEnds(b, s)

ScheduleSpec == ScheduleInit /\ [][ScheduleNext]_scheduleVars

-----------------------------------------------------------------------------
\* Type correctness of the scheduler, its chains and its locks.
ScheduleTypeOK ==
    /\ isRunning \in BOOLEAN
    /\ chain \in [Chain -> {"none", "recovering", "waiting", "ticking", "over"}]
    /\ tickTimer \in Chain \cup {NoRun}
    /\ listed \in [Chain -> SUBSET Schedule]
    /\ run \in [By -> [Schedule -> {"none", "policy", "handling"}]]
    /\ lock \in [Schedule -> By \cup {NoRun}]
    /\ valid \subseteq Schedule /\ enabled \subseteq Schedule /\ due \subseteq Schedule
    /\ scope \in Scopes
    /\ fired \in [Schedule -> 0..2]
    /\ outlived \subseteq By \X Schedule
    /\ late \subseteq Schedule
    /\ stale \subseteq Schedule

\* Two runs of a schedule overlap only after a lease ran out, however many
\* chains, recoveries and calls by hand there are: a run that has outlived its
\* lease does not take away the lock of the one that came after it.
OneRunPerLease ==
    \A s \in Schedule, b, d \in By :
        (Active(b, s) /\ Active(d, s) /\ {<<b, s>>, <<d, s>>} \cap outlived = {}) => b = d

\* The chains fire an occurrence once, also when several chains tick beside
\* each other.  Only a run whose lease ran out before its handler started, or a
\* recovery with another chain beside it, whose list may be old, makes two runs
\* of one occurrence.
OccurrenceOnce == \A s \in Schedule : fired[s] > 1 => s \in late \cup stale
=============================================================================
